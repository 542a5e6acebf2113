------------------------------ MODULE RsdSendq ------------------------------
(***************************************************************************)
(* rsd's per-client send queue (rsd_sendq.c) with the send thread that     *)
(* drains it (rsd_client_send_thread) and the teardown that stops that     *)
(* thread (remove_client).  The queue is the circular array of the source; *)
(* the entries' payload, rtp_ts and capture_us are abstracted to the       *)
(* number of the push that brought them.  Everything under q->lock is one  *)
(* step; the condition variable is explicit, so a lost wake-up is visible. *)
(***************************************************************************)
EXTENDS Integers, Sequences, FiniteSets

CONSTANTS Slots,    \* RSD_SENDQ_SLOTS
          MaxPush   \* bound: frames the ring readers push in one behaviour

ASSUME SendqAssumption == Slots \in Nat \ {0} /\ MaxPush \in Nat

VARIABLES entries,      \* q->entries: 0..Slots-1 -> entry, NoData when data == NULL
          head, tail, count,
          shutdown,     \* q->shutdown
          counters,     \* drop_audio, drop_video, overflows since the last report
          inList,       \* the client is still in srv->clients
          thread,       \* the send thread: loop, wait (on q->cond), send, exited
          held,         \* the entry the send thread popped and has not released
          npush,        \* pushes so far (ghost: names the entries)
          sent,         \* entries handed to the transports, in order (ghost)
          freed,        \* payload copies released so far (ghost)
          lost          \* discards so far, by kind, never reset (ghost)

sqvars == <<entries, head, tail, count, shutdown, counters, inList, thread,
          held, npush, sent, freed, lost>>

Cells == 0..(Slots - 1)
NoData == [type |-> "none", ts |-> 0]
Entry == [type : {"audio", "video"}, ts : 1..MaxPush]
NoDrops == [audio |-> 0, video |-> 0, overflows |-> 0]
IsAudio(e) == e.type = "audio"

At(i) == (tail + i) % Slots
Queue == [i \in 1..count |-> entries[At(i - 1)]]
Offsets == 0..(count - 1)
AudioOffsets == {i \in Offsets : IsAudio(entries[At(i)])}
Oldest(i) == \A j \in AudioOffsets : i <= j

SqInit ==
    /\ entries = [i \in Cells |-> NoData]
    /\ head = 0 /\ tail = 0 /\ count = 0
    /\ shutdown = FALSE
    /\ counters = NoDrops
    /\ inList = TRUE
    /\ thread = "loop"
    /\ held = NoData
    /\ npush = 0
    /\ sent = <<>>
    /\ freed = {}
    /\ lost = [audio |-> 0, video |-> 0]

(* A reader pushes only to a client of srv->clients, under clients_lock. *)
CanPush == inList /\ ~shutdown /\ npush < MaxPush
New(type) == [type |-> type, ts |-> npush + 1]

StoreSilent(es, t, c, e) ==   \* mutant: pthread_cond_signal forgotten
    LET h == (t + c) % Slots IN
    /\ entries' = [es EXCEPT ![h] = e]
    /\ tail' = t /\ head' = (h + 1) % Slots /\ count' = c + 1
    /\ UNCHANGED thread

(* The common tail of both pushes: store at head, count, signal the thread. *)
StoreIn(es, t, c, e) ==
    LET h == (t + c) % Slots IN
    /\ entries' = [es EXCEPT ![h] = e]
    /\ tail' = t
    /\ head' = (h + 1) % Slots
    /\ count' = c + 1
    /\ thread' = IF thread = "wait" THEN "loop" ELSE thread

(* The n queued audio frames move to the first cells: keep is where they   *)
(* are, in queue order.                                                    *)
Overflow(n, keep, dropped) ==
    /\ entries' = [c \in Cells |-> IF c < n THEN entries[At(keep[c])] ELSE NoData]
    /\ tail' = 0
    /\ head' = n % Slots
    /\ count' = n
    /\ lost' = [lost EXCEPT !.video = @ + dropped]
    /\ counters' = [counters EXCEPT !.video = @ + dropped, !.overflows = @ + 1]
AudioInOrder(n, keep) ==
    /\ \A a \in AudioOffsets : \E c \in 0..(n - 1) : keep[c] = a
    /\ \A c, d \in 0..(n - 1) : c < d => keep[c] < keep[d]
VideoCopies == {entries[At(i)].ts : i \in Offsets \ AudioOffsets} \cup {npush + 1}

FlushAll ==        \* mutant: the old policy, overflow empties the queue
    /\ Overflow(0, <<>>, count + 1)
    /\ freed' = freed \cup {entries[At(i)].ts : i \in Offsets} \cup {npush + 1}
DropLeaks ==       \* mutant: the dropped entries are not released
    \E n \in 0..count : \E keep \in [0..(n - 1) -> AudioOffsets] :
       AudioInOrder(n, keep) /\ Overflow(n, keep, count - n + 1) /\ freed' = freed \cup {npush + 1}
DropUncounted ==   \* mutant: the incoming frame is not counted
    \E n \in 0..count : \E keep \in [0..(n - 1) -> AudioOffsets] :
       AudioInOrder(n, keep) /\ Overflow(n, keep, count - n) /\ freed' = freed \cup VideoCopies

(* sendq_drop_video_locked: keep the audio, rebuilt from cell 0; the push  *)
(* that overflowed is dropped and counted too.                             *)
DropVideo ==
    \E n \in 0..count : \E keep \in [0..(n - 1) -> AudioOffsets] :
       AudioInOrder(n, keep) /\ Overflow(n, keep, count - n + 1) /\ freed' = freed \cup VideoCopies

(* rsd_sendq_push_video *)
PushVideo ==
    /\ CanPush
    /\ npush' = npush + 1
    /\ \/ count >= Slots /\ DropVideo /\ UNCHANGED thread
       \/ /\ count < Slots
          /\ StoreIn(entries, tail, count, New("video"))
          /\ UNCHANGED <<freed, lost, counters>>
    /\ UNCHANGED <<shutdown, inList, held, sent>>

ClosedLazy(i) ==   \* mutant: the given-up tail cell keeps its pointer
    [c \in Cells |-> IF \E j \in 1..i : c = At(j)
                     THEN entries[(c + Slots - 1) % Slots] ELSE entries[c]]
ClosedBySwap(i) == \* mutant: the gap is filled from tail instead of shifted
    [entries EXCEPT ![At(i)] = entries[tail], ![tail] = NoData]

(* rsd_sendq_take_audio_locked: the entries in front of the oldest audio,  *)
(* at offset i, move one cell towards head, and the tail cell is given up. *)
Closed(i) ==
    LET moved == [c \in Cells |->
                    IF \E j \in 1..i : c = At(j)
                    THEN entries[(c + Slots - 1) % Slots] ELSE entries[c]]
    IN [moved EXCEPT ![tail] = NoData]

AudioLost == /\ lost' = [lost EXCEPT !.audio = @ + 1]
             /\ counters' = [counters EXCEPT !.audio = @ + 1, !.overflows = @ + 1]

(* rsd_sendq_push_audio *)
PushAudio ==
    /\ CanPush
    /\ npush' = npush + 1
    /\ \/ /\ count < Slots
          /\ StoreIn(entries, tail, count, New("audio"))
          /\ UNCHANGED <<freed, lost, counters>>
       \/ /\ count >= Slots /\ AudioOffsets = {}
          /\ AudioLost
          /\ freed' = freed \cup {npush + 1}
          /\ UNCHANGED <<entries, head, tail, count, thread>>
       \/ /\ count >= Slots
          /\ AudioLost
          /\ \E i \in AudioOffsets :
                /\ Oldest(i)
                /\ freed' = freed \cup {entries[At(i)].ts}
                /\ StoreIn(Closed(i), (tail + 1) % Slots, count - 1, New("audio"))
    /\ UNCHANGED <<shutdown, inList, held, sent>>

(* The report in rsd_audio_reader_thread reads and clears the counters. *)
ReportDrops ==
    /\ inList /\ counters # NoDrops
    /\ counters' = NoDrops
    /\ UNCHANGED <<entries, head, tail, count, shutdown, inList, thread, held,
                   npush, sent, freed, lost>>

(* rsd_client_send_thread: wait on the condition, leave on shutdown, or pop. *)
Wait ==
    /\ thread = "loop" /\ count = 0 /\ ~shutdown
    /\ thread' = "wait"
    /\ UNCHANGED <<entries, head, tail, count, shutdown, counters, inList, held,
                   npush, sent, freed, lost>>

Exit ==
    /\ thread = "loop" /\ shutdown
    /\ thread' = "exited"
    /\ UNCHANGED <<entries, head, tail, count, shutdown, counters, inList, held,
                   npush, sent, freed, lost>>

Pop ==
    /\ thread = "loop" /\ count > 0 /\ ~shutdown
    /\ held' = entries[tail]
    /\ sent' = Append(sent, entries[tail])
    /\ entries' = [entries EXCEPT ![tail] = NoData]
    /\ tail' = (tail + 1) % Slots
    /\ count' = count - 1
    /\ thread' = "send"
    /\ UNCHANGED <<head, shutdown, counters, inList, npush, freed, lost>>

(* sendq_drain_audio, between the packets of a video frame. *)
DrainAudio ==
    /\ thread = "send" /\ held.type = "video"
    /\ \E i \in AudioOffsets :
          /\ Oldest(i)
          /\ sent' = Append(sent, entries[At(i)])
          /\ freed' = freed \cup {entries[At(i)].ts}
          /\ entries' = Closed(i)
    /\ tail' = (tail + 1) % Slots
    /\ count' = count - 1
    /\ UNCHANGED <<head, shutdown, counters, inList, thread, held, npush, lost>>

(* The frame is out: rsd_sendq_release_entry, back to the top of the loop. *)
Release ==
    /\ thread = "send"
    /\ freed' = freed \cup {held.ts}
    /\ held' = NoData
    /\ thread' = "loop"
    /\ UNCHANGED <<entries, head, tail, count, shutdown, counters, inList,
                   npush, sent, lost>>

(* remove_client: step 1 takes the client off the list, step 2 asks the    *)
(* thread to stop and joins it, then rsd_sendq_destroy frees what is left. *)
SqUnlist ==
    /\ inList
    /\ inList' = FALSE
    /\ UNCHANGED <<entries, head, tail, count, shutdown, counters, thread, held,
                   npush, sent, freed, lost>>

ShutdownSilent ==   \* mutant: shutdown is set, the thread is not signalled
    /\ ~inList /\ ~shutdown
    /\ shutdown' = TRUE
    /\ UNCHANGED <<entries, head, tail, count, counters, inList, held, npush,
                   sent, freed, lost, thread>>

Shutdown ==
    /\ ~inList /\ ~shutdown
    /\ shutdown' = TRUE
    /\ thread' = IF thread = "wait" THEN "loop" ELSE thread
    /\ UNCHANGED <<entries, head, tail, count, counters, inList, held, npush,
                   sent, freed, lost>>

Destroy ==
    /\ thread = "exited"
    /\ freed' = freed \cup {entries[At(i)].ts : i \in Offsets}
    /\ entries' = [i \in Cells |-> NoData]
    /\ tail' = (tail + count) % Slots
    /\ count' = 0
    /\ thread' = "gone"
    /\ UNCHANGED <<head, shutdown, counters, inList, held, npush, sent, lost>>

SendThread == Wait \/ Exit \/ Pop \/ DrainAudio \/ Release
Teardown == SqUnlist \/ Shutdown \/ Destroy

SqNext == PushVideo \/ PushAudio \/ ReportDrops \/ SendThread \/ Teardown

(* The scheduler runs the send thread, a send ends (the socket accepts or  *)
(* fails), and a removal once begun is carried through.                    *)
SqSpec == /\ SqInit /\ [][SqNext]_sqvars
        /\ WF_sqvars(Exit) /\ WF_sqvars(Pop) /\ WF_sqvars(Release)
        /\ WF_sqvars(Shutdown) /\ WF_sqvars(Destroy)

-----------------------------------------------------------------------------
(* The array and its indices stay in range and agree with each other: a    *)
(* cell holds data exactly when it lies in the count cells after tail.     *)
SqTypeOK ==
    /\ entries \in [Cells -> Entry \cup {NoData}]
    /\ head \in Cells /\ tail \in Cells /\ count \in 0..Slots
    /\ thread \in {"loop", "wait", "send", "exited", "gone"}
    /\ held \in Entry \cup {NoData}
    /\ shutdown \in BOOLEAN /\ inList \in BOOLEAN
    /\ head = (tail + count) % Slots
    /\ \A c \in Cells : entries[c] # NoData <=> \E i \in Offsets : c = At(i)

(* Every payload copy a push made has exactly one owner: a queue cell, the *)
(* send thread, or the allocator it was returned to (rsd_sendq_entry_t     *)
(* data moves by pointer through pop, gap closing and compaction).         *)
Queued == {entries[c].ts : c \in {d \in Cells : entries[d] # NoData}}
InHand == IF held = NoData THEN {} ELSE {held.ts}
OneOwner ==
    /\ Queued \cup InHand \cup freed = 1..npush
    /\ Cardinality(Queued) = count
    /\ Queued \cap (InHand \cup freed) = {}
    /\ InHand \cap freed = {}

(* Each kind leaves in push order: the drain that lets audio overtake a    *)
(* large video frame, and both overflow paths, never reorder a stream.     *)
InOrder(s, t) == \A i, j \in 1..Len(s) :
    i < j /\ s[i].type = t /\ s[j].type = t => s[i].ts < s[j].ts
StreamsInOrder == \A t \in {"audio", "video"} : InOrder(sent \o Queue, t)

(* Nothing disappears unaccounted: what was pushed was sent, is queued, or *)
(* was counted as a drop of its own kind (until the teardown).             *)
Accounted ==
    thread \notin {"gone"} =>
       /\ lost.audio + lost.video + Len(sent) + count = npush
       /\ counters.audio <= lost.audio /\ counters.video <= lost.video

(* A sleeping thread has nothing to do: no queued frame and no shutdown    *)
(* request can wait behind a condition variable nobody will signal again.  *)
NoLostWakeup == thread = "wait" => count = 0 /\ ~shutdown

(* Once the client is taken off the list its thread ends and every copy    *)
(* is returned, whatever the thread was doing at that moment.              *)
RemovalCompletes == []<>(inList \/ (thread = "gone" /\ freed = 1..npush))

(* While the client stays, a full queue drains: a frame that is queued     *)
(* behind others is sent or dropped, never left for ever.                  *)
QueueMoves == \A n \in 1..MaxPush : []<>(n \notin Queued)

(* The array implements the queue policy.  A frame counts as handed over   *)
(* when the send thread takes it.                                          *)
Policy == INSTANCE SendqPolicy WITH queue <- Queue, open <- ~shutdown, Frames <- Entry
ImplementsPolicy == Policy!PSpec
=============================================================================
