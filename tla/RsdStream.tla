----------------------------- MODULE RsdStream -----------------------------
(***************************************************************************)
(* One video stream of rsd: the ring the encoder daemon publishes into,    *)
(* the reader thread that fans frames out to the clients' send queues      *)
(* (rsd_video_reader_thread), each client's send thread, and the session   *)
(* thread that accepts, sets up, plays, pauses and removes clients.        *)
(*                                                                         *)
(* A frame is a keyframe or refers to the frame before it.  What matters   *)
(* of its identity is whether the client was handed that frame before it,  *)
(* so a queued frame carries the gap in front of it: "none", "ring" (the   *)
(* reader itself missed frames, for every client alike) or "own" (rsd      *)
(* withheld or discarded frames of this client).                           *)
(***************************************************************************)
EXTENDS Naturals, Sequences, FiniteSets

CONSTANTS Clients,      \* connections that may be open at once
          RingSlots,    \* frames the ring keeps for a slow reader
          QSlots,       \* RSD_SENDQ_SLOTS, the share video has of it
          IdleStale,    \* idle passes before the reader checks for a reborn ring
          IdleClose,    \* idle passes before an unused ring is closed
          Jpeg,         \* a JPEG stream: no inter-frame references
          IdrOnJoin,    \* srv->idr_on_join
          RingMayLose,  \* the reader may be lapped, or meet a frame it has no room for
          MayResize,    \* the stream may change codec or geometry
          AudioShares,  \* audio may take send queue slots from video
          AllocMayFail, \* malloc in rsd_sendq_push_video may return NULL
          MayPause      \* clients send PAUSE (or TEARDOWN) and go on

ASSUME StreamAssumption ==
    /\ RingSlots \in Nat \ {0} /\ QSlots \in Nat \ {0}
    /\ IdleStale \in Nat \ {0} /\ IdleClose \in Nat /\ IdleStale < IdleClose
    /\ Jpeg \in BOOLEAN /\ IdrOnJoin \in BOOLEAN /\ MayPause \in BOOLEAN
    /\ RingMayLose \in BOOLEAN /\ MayResize \in BOOLEAN
    /\ AudioShares \in BOOLEAN /\ AllocMayFail \in BOOLEAN

VARIABLES
    \* the shared-memory ring, as the reader's mapping shows it
    unread,     \* frames published and not read, oldest first: keyframes or deltas
    lapped,     \* the writer has overtaken the reader since its last read
    idrWanted,  \* the ring's (or rvd's) pending IDR request
    stale,      \* the producer was restarted: this mapping is a dead ring
    \* the reader thread
    open,       \* rctx->ring != NULL
    idle,       \* idle_count
    recent,     \* less than RSD_IDR_RECOVERY_MIN_INTERVAL_US since the last event
    \* the clients
    listed,     \* the clients in srv->clients
    rtp,        \* those with video.rtp and video.nal set
    playing, waiting, \* those with video.playing, with waiting_keyframe
    cut,        \* those whose socket rsd_drop_stream_clients shut down
    gap,        \* what separates the next pushed frame from the last one pushed
    q,          \* the send queue's video entries
    hand,       \* the entry the send thread is sending, or Nothing
    decoder     \* ghost: after what was sent last, the client's decoder is "synced",
                \* has "lost" its reference, or was sent an "orphan" without one

ringVars == <<unread, lapped, idrWanted, stale>>
readerVars == <<open, idle, recent>>
sessionVars == <<listed, rtp, playing, cut>>
queueVars == <<waiting, gap, q>>
wireVars == <<hand, decoder>>
vars == <<ringVars, readerVars, sessionVars, queueVars, wireVars>>

Kinds == {"key", "delta"}
Gaps == {"none", "ring", "own"}
Frame == [kind : Kinds, gap : Gaps]
Nothing == [kind |-> "none", gap |-> "none"]
Viewers == listed \cap playing

Init ==
    /\ unread = <<>> /\ lapped = FALSE /\ idrWanted = FALSE /\ stale = FALSE
    /\ open = TRUE /\ idle = 0 /\ recent = FALSE
    /\ listed = {} /\ rtp = {} /\ playing = {} /\ waiting = Clients /\ cut = {}
    /\ gap = [c \in Clients |-> "own"]
    /\ q = [c \in Clients |-> <<>>]
    /\ hand = [c \in Clients |-> Nothing]
    /\ decoder = [c \in Clients |-> "lost"]

-----------------------------------------------------------------------------
(* The producer, as the ring shows it: it publishes a keyframe when one    *)
(* was requested or a group of pictures ends, laps a reader that is too    *)
(* far behind, and may die and come back with a new ring.                  *)
Publish(kind) ==
    /\ ~stale
    /\ Jpeg \/ idrWanted => kind = "key"
    /\ IF Len(unread) < RingSlots /\ ~lapped
       THEN unread' = Append(unread, kind) /\ UNCHANGED lapped
       ELSE RingMayLose /\ unread' = <<kind>> /\ lapped' = TRUE
    /\ idrWanted' = FALSE
    /\ UNCHANGED <<stale, readerVars, sessionVars, queueVars, wireVars>>

ProducerRestart ==
    /\ ~stale
    /\ stale' = TRUE
    /\ UNCHANGED <<unread, lapped, idrWanted, readerVars, sessionVars, queueVars, wireVars>>

(* RSD_IDR_RECOVERY_MIN_INTERVAL_US passes without a key or a request. *)
IntervalPasses ==
    /\ recent
    /\ recent' = FALSE
    /\ UNCHANGED <<ringVars, open, idle, sessionVars, queueVars, wireVars>>

-----------------------------------------------------------------------------
(* rsd_drop_stream_clients: everyone with a transport is disconnected. *)
DropClients == cut' = cut \cup (listed \cap rtp)

(* The reader finds its ring gone and opens the current one.  read_seq = 0 *)
(* resynchronises to the newest frame.  Clients that play start over at    *)
(* the next keyframe, or are dropped if what the SDP told them changed.    *)
Reopen ==
    /\ ~open
    /\ open' = TRUE /\ stale' = FALSE /\ lapped' = FALSE /\ idle' = 0
    /\ \/ unread' = <<>>
       \/ \E kind \in Kinds : unread' = <<kind>> /\ (Jpeg => kind = "key")
    /\ gap' = [c \in Clients |-> "own"]
    /\ \/ MayResize /\ DropClients /\ UNCHANGED waiting
       \/ /\ waiting' = waiting \cup Viewers
          /\ UNCHANGED cut
    /\ UNCHANGED <<idrWanted, recent, listed, rtp, playing, q, wireVars>>

(* Every pass that finds frames first compares the ring's stream info.     *)
RefreshInfo == (MayResize /\ DropClients) \/ UNCHANGED cut

(* rss_ring_wait timed out: count, leave a reborn ring, or close an unused *)
(* one (never under a playing client: a demand-driven encoder would stop). *)
IdlePassNoStale ==   \* mutant: only an unused ring is ever closed
    /\ open /\ unread = <<>>
    /\ idle' = IF idle + 1 >= IdleClose THEN 0 ELSE idle + 1
    /\ open' = ~(idle + 1 >= IdleClose /\ Viewers = {})
    /\ UNCHANGED <<ringVars, recent, sessionVars, queueVars, wireVars>>

IdlePassDown ==      \* mutant: the idle counter runs the wrong way
    /\ open /\ unread = <<>>
    /\ idle' = idle - 1
    /\ UNCHANGED <<ringVars, open, recent, sessionVars, queueVars, wireVars>>

IdlePass ==
    /\ open /\ unread = <<>>
    /\ \/ /\ idle + 1 >= IdleStale /\ stale
          /\ open' = FALSE /\ idle' = idle + 1
       \/ /\ ~(idle + 1 >= IdleStale /\ stale)
          /\ idle' = IF idle + 1 >= IdleClose THEN 0 ELSE idle + 1
          /\ open' = ~(idle + 1 >= IdleClose /\ Viewers = {})
    /\ UNCHANGED <<ringVars, recent, sessionVars, queueVars, wireVars>>

(* RSS_EOVERFLOW: the read only resynchronised to the newest frame. *)
ReadOverflow ==
    /\ open /\ lapped
    /\ RefreshInfo
    /\ lapped' = FALSE
    /\ idle' = 0
    /\ gap' = [c \in Clients |-> IF gap[c] = "own" THEN "own" ELSE "ring"]
    /\ idrWanted' = (idrWanted \/ ~recent)
    /\ recent' = TRUE
    /\ UNCHANGED <<unread, stale, open, listed, rtp, playing, waiting, q, wireVars>>

(* -ENOSPC: the frame outgrew the reader's buffer and is skipped. *)
ReadNoSpace ==
    /\ RingMayLose /\ MayResize /\ open /\ ~lapped /\ unread # <<>>
    /\ RefreshInfo
    /\ unread' = Tail(unread)
    /\ idle' = 0
    /\ gap' = [c \in Clients |-> IF gap[c] = "own" THEN "own" ELSE "ring"]
    /\ UNCHANGED <<lapped, idrWanted, stale, open, recent, listed, rtp, playing,
                   waiting, q, wireVars>>

(* RSS_EOVERFLOW without progress: the ring was recreated under the reader. *)
ReadReborn ==
    /\ open /\ stale
    /\ RefreshInfo
    /\ open' = FALSE /\ idle' = 0
    /\ UNCHANGED <<ringVars, recent, listed, rtp, playing, queueVars, wireVars>>

(* The loop over the clients, under clients_lock, with                     *)
(* rsd_sendq_push_video inlined.  "full" are the clients whose queue is    *)
(* full: of video, or of video and audio; "failed" those the copy could    *)
(* not be allocated for.                                                   *)
Pushes(kind) == {c \in Viewers : c \in waiting => kind = "key"}
Enqueue(kind, full, tried) ==
    /\ q' = [c \in Clients |->
               IF c \notin tried THEN q[c]
               ELSE IF c \in full THEN <<>>
               ELSE Append(q[c], [kind |-> kind, gap |-> gap[c]])]
    /\ gap' = [c \in Clients |-> IF c \in tried \ full THEN "none" ELSE "own"]

PushAllAnyway(kind, full, failed) ==  \* mutant: an overflow leaves the gate open
    /\ Enqueue(kind, full, Pushes(kind) \ failed)
    /\ waiting' = waiting \ Pushes(kind)

PushAllHeld(kind, full, failed) ==    \* mutant: the keyframe does not open the gate
    /\ Enqueue(kind, full, Pushes(kind) \ failed)
    /\ waiting' = waiting

PushAll(kind, full, failed) ==
    LET dropped == (Pushes(kind) \ failed) \cap full
    IN /\ Enqueue(kind, full, Pushes(kind) \ failed)
       /\ waiting' = (waiting \ Pushes(kind)) \cup (IF Jpeg THEN {} ELSE dropped)

(* The rate limit counts this frame first, if it is a keyframe. *)
ReadFrame ==
    /\ open /\ ~lapped /\ unread # <<>>
    /\ RefreshInfo
    /\ idle' = 0
    /\ unread' = Tail(unread)
    /\ \E full, failed \in SUBSET Clients :
          LET kind == Head(unread)
              filled == {c \in Clients : Len(q[c]) = QSlots}
              dropped == (Pushes(kind) \ failed) \cap full
          IN /\ full = filled \/ (AudioShares /\ filled \subseteq full)
             /\ failed # {} => AllocMayFail
             /\ PushAll(kind, full, failed)
             /\ idrWanted' = (idrWanted \/ (dropped # {} /\ ~recent /\ kind # "key"))
             /\ recent' = (recent \/ kind = "key" \/ dropped # {})
    /\ UNCHANGED <<lapped, stale, open, listed, rtp, playing, wireVars>>

-----------------------------------------------------------------------------
(* The send thread takes the head of its queue; the check of nal/playing   *)
(* is made here, without the write lock.                                   *)
SendStart(c) ==
    /\ hand[c] = Nothing /\ q[c] # <<>>
    /\ q' = [q EXCEPT ![c] = Tail(@)]
    /\ IF c \in rtp \cap playing
       THEN hand' = [hand EXCEPT ![c] = Head(q[c])] /\ UNCHANGED decoder
       ELSE decoder' = [decoder EXCEPT ![c] = "lost"] /\ UNCHANGED hand
    /\ UNCHANGED <<ringVars, readerVars, sessionVars, waiting, gap>>

(* ... and its packets go out one by one, each under the write lock. *)
SendEnd(c) ==
    LET f == hand[c] IN
    /\ f # Nothing
    /\ hand' = [hand EXCEPT ![c] = Nothing]
    /\ decoder' = [decoder EXCEPT ![c] =
           IF c \notin rtp THEN "lost"
           ELSE IF Jpeg \/ f.kind = "key" \/ (f.gap = "none" /\ @ = "synced") THEN "synced"
           ELSE "orphan"]
    /\ UNCHANGED <<ringVars, readerVars, sessionVars, queueVars>>

-----------------------------------------------------------------------------
(* The session thread.  A dispatch holds the client's write lock; the      *)
(* flags PLAY sets are applied after it, under clients_lock.               *)
Accept(c) ==
    /\ c \notin listed \cup rtp /\ hand[c] = Nothing /\ q[c] = <<>>
    /\ listed' = listed \cup {c}
    /\ waiting' = waiting \cup {c}
    /\ gap' = [gap EXCEPT ![c] = "own"]
    /\ cut' = cut \ {c}
    /\ decoder' = [decoder EXCEPT ![c] = "lost"]
    /\ UNCHANGED <<ringVars, readerVars, rtp, playing, q, hand>>

(* SETUP of the video track: refused on a playing track, otherwise the old *)
(* transport is dropped before the new one is built, and building may fail.*)
Setup(c) ==
    /\ c \in listed \ (playing \cap rtp)
    /\ rtp' \in {rtp \ {c}, rtp \cup {c}}
    /\ UNCHANGED <<ringVars, readerVars, listed, playing, cut, queueVars, wireVars>>

(* PLAY; the request-idr command to rvd may be off or may not arrive. *)
Play(c) ==
    /\ c \in listed \cap rtp
    /\ playing' = playing \cup {c}
    /\ waiting' = IF Jpeg THEN waiting \ {c} ELSE waiting \cup {c}
    /\ \/ UNCHANGED idrWanted
       \/ IdrOnJoin /\ ~Jpeg /\ idrWanted' = TRUE
    /\ UNCHANGED <<unread, lapped, stale, readerVars, listed, rtp, cut, gap, q, wireVars>>

(* PAUSE, and TEARDOWN on a connection that stays open. *)
Pause(c) ==
    /\ MayPause /\ c \in Viewers
    /\ playing' = playing \ {c}
    /\ UNCHANGED <<ringVars, readerVars, listed, rtp, cut, queueVars, wireVars>>

(* remove_client: off the list first, then the send thread is joined and   *)
(* only after that are the queue and the transports freed.                 *)
Unlist(c) ==
    /\ c \in listed
    /\ listed' = listed \ {c}
    /\ playing' = playing \ {c}
    /\ UNCHANGED <<ringVars, readerVars, rtp, cut, queueVars, wireVars>>

Free(c) ==
    /\ c \notin listed /\ hand[c] = Nothing
    /\ c \in rtp \/ q[c] # <<>>
    /\ rtp' = rtp \ {c}
    /\ q' = [q EXCEPT ![c] = <<>>]
    /\ UNCHANGED <<ringVars, readerVars, listed, playing, cut, waiting, gap, wireVars>>

Reader == \/ Reopen \/ IdlePass
          \/ ReadOverflow \/ ReadNoSpace \/ ReadReborn \/ ReadFrame
Session(c) == Accept(c) \/ Setup(c) \/ Play(c) \/ Pause(c) \/ Unlist(c) \/ Free(c)
Next ==
    \/ \E kind \in Kinds : Publish(kind)
    \/ ProducerRestart
    \/ IntervalPasses
    \/ Reader
    \/ \E c \in Clients : Session(c) \/ SendStart(c) \/ SendEnd(c)

(* The reader thread is scheduled; the encoder keeps ending groups of      *)
(* pictures while it runs.  Nothing is assumed of clients or of their      *)
(* send threads: a stalled viewer must not hold anyone else up.            *)
Fairness == WF_vars(Reader) /\ SF_vars(Publish("key"))
Spec == Init /\ [][Next]_vars
LiveSpec == Spec /\ Fairness

-----------------------------------------------------------------------------
TypeOK ==
    /\ unread \in Seq(Kinds) /\ idle \in Nat
    /\ lapped \in BOOLEAN /\ idrWanted \in BOOLEAN /\ stale \in BOOLEAN
    /\ open \in BOOLEAN /\ recent \in BOOLEAN
    /\ listed \subseteq Clients /\ rtp \subseteq Clients /\ playing \subseteq Clients
    /\ waiting \subseteq Clients /\ cut \subseteq Clients
    /\ gap \in [Clients -> Gaps]
    /\ q \in [Clients -> Seq(Frame)]
    /\ hand \in [Clients -> Frame \cup {Nothing}]
    /\ decoder \in [Clients -> {"lost", "synced", "orphan"}]

(* Whenever rsd itself withheld or threw away frames of a client (before   *)
(* it joined, by its full queue, while it paused, across a reconnected     *)
(* ring), the next frame queued for that client is a keyframe, unless the  *)
(* client is being disconnected (rsd_ring_reader.c:643-654).               *)
KeyAfterOwnGap == \A c \in Clients : \A i \in 1..Len(q[c]) :
    q[c][i].gap = "own" => q[c][i].kind = "key" \/ Jpeg \/ c \in cut

(* A reader whose producer was restarted leaves the dead ring, even while  *)
(* a stalled client keeps playing the stream (rsd_ring_reader.c:415-431).  *)
LeavesDeadRing == []<>~stale

(* A viewer held for a keyframe gets one or stops being a viewer: neither  *)
(* the IDR rate limit nor other clients' overflows hold it for ever.  What *)
(* can is a ring that keeps lapping the reader or outgrowing its buffer,   *)
(* or a queue that each keyframe finds full.                               *)
GateOpens == \A c \in Clients :
    \/ []<><<ReadNoSpace>>_vars
    \/ []<><<ReadFrame /\ Head(unread) = "key" /\ q'[c] = <<>>>>_vars
    \/ []<>(c \notin Viewers \cap waiting \/ stale \/ lapped)

(* "Hold new/recovering clients until a keyframe. Orphan P-frames          *)
(* reference pictures the client never got" (rsd_ring_reader.c:645): no    *)
(* frame is sent whose reference the client was not sent.                  *)
NoOrphanSent == \A c \in Clients : decoder[c] # "orphan"
=============================================================================
