----------------------------- MODULE RsrFanout -----------------------------
(***************************************************************************)
(* rsr: one loop that serves SRT clients, each on the stream its STREAMID  *)
(* names.  Clients of one name share a slot of st->streams, which holds    *)
(* the ring (and so keeps a demand-driven encoder awake), counts them, is  *)
(* closed when the ring falls silent, opened again while clients are       *)
(* left, and released with its last client.                                *)
(***************************************************************************)
EXTENDS Integers, Sequences, FiniteSets, FiniteSetsExt, SequencesExt

CONSTANTS
    RNames,       \* ring names
    RDefault,     \* the default stream's
    RSlots,       \* RSR_MAX_STREAMS
    RMax,         \* max_clients
    RIdle,        \* quiet passes before a ring is closed (50)
    RFaults       \* bound: ring deaths, lost frames and arrivals of clients

ASSUME RsrConstants ==
    /\ RDefault \in RNames /\ {RSlots, RMax, RIdle} \subseteq Nat \ {0}
    /\ RFaults \in Nat

VARIABLES
    rup,    \* the rings that exist
    slot,   \* st->streams: [name, active, dead, count, idle, next]; boot: not
            \* used by a client yet
    srt,    \* st->clients, in order: [at (slot), want, wait, fed]
    raud,   \* the audio ring: [open, dead, idle, next]
    rpc,    \* where the pass is: POLL, REOPEN, a slot number, AUDIO
    rleft   \* faults left

rvars == <<rup, slot, srt, raud, rpc, rleft>>

POLL == -1
REOPEN == 0
AUDIO == RSlots + 1

Items == {"none", "key", "delta", "over"}    \* what the next read of a ring finds
NoSlot == [name |-> RDefault, active |-> FALSE, dead |-> FALSE, count |-> 0, idle |-> 0, next |-> "none",
           boot |-> TRUE]
NoAudio == [open |-> FALSE, dead |-> FALSE, idle |-> 0, next |-> "none"]
RFault(n) == rleft >= n /\ rleft' = rleft - n

\* rsr_stream_get_or_open: the slot that has the name, else the first one not
\* in use, with the ring acquired; 0 when there is no ring or no slot.
Active(sl, n) == {i \in 1..RSlots : sl[i].active /\ sl[i].name = n}
Unused(sl) == {i \in 1..RSlots : ~sl[i].active}
rsr_stream_get_or_open(sl, n) ==
    IF Active(sl, n) # {} THEN <<sl, Min(Active(sl, n))>>
    ELSE IF n \notin rup \/ Unused(sl) = {} THEN <<sl, 0>>
    ELSE LET i == Min(Unused(sl))
         IN <<[sl EXCEPT ![i] = [sl[i] EXCEPT !.name = n, !.active = TRUE, !.dead = FALSE, !.count = 0,
                                              !.next = "none"]], i>>

\* main: the default ring is opened before there are clients, if it is there.
RsrInit ==
    /\ rup \in SUBSET RNames
    /\ slot = rsr_stream_get_or_open([i \in 1..RSlots |-> NoSlot], RDefault)[1]
    /\ srt = <<>> /\ rpc = POLL /\ rleft = RFaults
    /\ raud \in {NoAudio, [NoAudio EXCEPT !.open = TRUE]}

-----------------------------------------------------------------------------
(* The producers. *)
Put(next, kind) == IF next = "none" THEN kind ELSE "over"
RsrLive(n) == {i \in 1..RSlots : slot[i].active /\ ~slot[i].dead /\ slot[i].name = n}
FrameIn(n, kind) ==     \* a reader that reads is overtaken only so often
    /\ n \in rup
    /\ RFault(IF \E i \in RsrLive(n) : slot[i].count > 0 /\ slot[i].next # "none" THEN 1 ELSE 0)
    /\ slot' = [i \in 1..RSlots |-> IF i \in RsrLive(n) THEN [slot[i] EXCEPT !.next = Put(@, kind), !.idle = 0]
                                     ELSE slot[i]]
    /\ UNCHANGED <<rup, srt, raud, rpc>>
AudioIn ==
    /\ raud.open /\ ~raud.dead
    /\ raud' = [raud EXCEPT !.next = Put(@, "key"), !.idle = 0]
    /\ UNCHANGED <<rup, slot, srt, rpc, rleft>>
RingDies(n) ==
    /\ n \in rup /\ RFault(1)
    /\ rup' = rup \ {n}
    /\ slot' = [i \in 1..RSlots |-> IF slot[i].active /\ slot[i].name = n
                                    THEN [slot[i] EXCEPT !.dead = TRUE] ELSE slot[i]]
    /\ UNCHANGED <<srt, raud, rpc>>
RingBorn(n) ==
    /\ n \notin rup /\ rup' = rup \cup {n}
    /\ UNCHANGED <<slot, srt, raud, rpc, rleft>>
AudioDies ==
    /\ raud.open /\ ~raud.dead /\ RFault(1)
    /\ raud' = [raud EXCEPT !.dead = TRUE]
    /\ UNCHANGED <<rup, slot, srt, rpc>>

-----------------------------------------------------------------------------
(* Clients come and go in rsr_srt_poll. *)
RemoveKeepsRing(sl, i) == [sl EXCEPT ![i].count = @ - 1]
rsr_stream_release(sl, i) ==
    [sl EXCEPT ![i] = [sl[i] EXCEPT !.active = FALSE, !.dead = FALSE, !.next = "none"]]
\* rsr_remove_client, as the slots see it
LeaveSlot(sl, i) ==
    LET less == [sl EXCEPT ![i].count = @ - 1]
    IN IF less[i].count <= 0 THEN rsr_stream_release(less, i) ELSE less
rsr_remove_client(sl, cs, k) == <<LeaveSlot(sl, cs[k].at), RemoveAt(cs, k)>>

Becomes(w) == slot' = w[1] /\ srt' = w[2]

\* listen_callback refuses when full; accept_client, when the ring is not there.
accept_client ==
    /\ rpc = POLL /\ RFault(1) /\ Len(srt) < RMax
    /\ \E n \in RNames :
         LET o == rsr_stream_get_or_open(slot, n)
         IN IF o[2] = 0 THEN UNCHANGED <<slot, srt>>
            ELSE /\ slot' = [o[1] EXCEPT ![o[2]] = [o[1][o[2]] EXCEPT !.count = @ + 1, !.boot = FALSE]]
                 /\ srt' = Append(srt, [at |-> o[2], want |-> n, wait |-> TRUE, fed |-> FALSE])
    /\ UNCHANGED <<rup, raud, rpc>>
ClientLeaves ==
    /\ rpc = POLL
    /\ \E k \in DOMAIN srt : Becomes(rsr_remove_client(slot, srt, k))
    /\ UNCHANGED <<rup, raud, rpc, rleft>>
Polled ==
    /\ rpc = POLL /\ srt # <<>>
    /\ rpc' = REOPEN
    /\ \/ raud' = raud
       \/ ~raud.open /\ raud' = [NoAudio EXCEPT !.open = TRUE]
    /\ srt' = [k \in DOMAIN srt |-> [srt[k] EXCEPT !.fed = FALSE]]
    /\ UNCHANGED <<rup, slot, rleft>>

\* The slots of clients whose ring was closed are opened again, client by
\* client; when that takes another slot the clients of the old one move to it
\* with their count.
Reopened(w, k) ==
    LET s == w[2][k].at
        o == rsr_stream_get_or_open(w[1], w[1][s].name)
        r == o[2]
    IN IF w[1][s].active \/ w[1][s].count <= 0 THEN w
       ELSE IF r \in {0, s} THEN <<o[1], w[2]>>
       ELSE <<[o[1] EXCEPT ![r] = [o[1][r] EXCEPT !.count = w[1][s].count, !.boot = FALSE], ![s].count = 0],
              [j \in DOMAIN w[2] |-> IF w[2][j].at = s THEN [w[2][j] EXCEPT !.at = r] ELSE w[2][j]]>>
ReopenDead ==
    /\ rpc = REOPEN
    /\ LET w[k \in 0..Len(srt)] == IF k = 0 THEN <<slot, srt>> ELSE Reopened(w[k - 1], k)
       IN Becomes(w[Len(srt)])
    /\ rpc' = 1
    /\ UNCHANGED <<rup, raud, rleft>>

-----------------------------------------------------------------------------
(* Each slot with clients is read once a pass. *)
Gated(cs, i) == [k \in DOMAIN cs |-> IF cs[k].at = i THEN [cs[k] EXCEPT !.wait = TRUE] ELSE cs[k]]

Passed(i) == ~slot[i].active \/ slot[i].count <= 0
ReadNothing ==
    /\ rpc \in 1..RSlots
    /\ LET s == slot[rpc]
       IN \/ Passed(rpc) /\ UNCHANGED <<slot, srt, rleft>>
          \/ /\ ~Passed(rpc) /\ s.next = "none" /\ s.idle + 1 < RIdle
             /\ slot' = [slot EXCEPT ![rpc].idle = @ + 1] /\ UNCHANGED <<srt, rleft>>
          \/ /\ ~Passed(rpc) /\ s.next = "none" /\ s.idle + 1 >= RIdle   \* idle: close the ring
             /\ RFault(IF s.dead THEN 0 ELSE 1)
             /\ slot' = [slot EXCEPT ![rpc] = [s EXCEPT !.active = FALSE, !.dead = FALSE, !.idle = 0]]
             /\ srt' = Gated(srt, rpc)
          \/ /\ ~Passed(rpc) /\ s.next = "over"           \* overflow: wait for a keyframe
             /\ slot' = [slot EXCEPT ![rpc].next = "none"] /\ srt' = Gated(srt, rpc)
             /\ UNCHANGED rleft
          \/ /\ ~Passed(rpc) /\ s.next \in {"key", "delta"} /\ RFault(1)   \* -ENOSPC
             /\ slot' = [slot EXCEPT ![rpc].next = "none"] /\ UNCHANGED srt
    /\ rpc' = rpc + 1
    /\ UNCHANGED <<rup, raud>>

\* A frame goes to the clients of the slot, last to first; one whose send
\* fails (rsr_srt_send_to_client, the tables or the frame) is removed.
Fed(cs, i, key) ==
    [k \in DOMAIN cs |-> IF cs[k].at = i /\ (key \/ ~cs[k].wait)
                         THEN [cs[k] EXCEPT !.wait = FALSE, !.fed = TRUE] ELSE cs[k]]
Removed(sl, cs, bad) ==
    LET w[k \in 0..Len(cs)] ==
          IF k = 0 THEN <<sl, cs>>
          ELSE LET j == Len(cs) + 1 - k
               IN IF j \in bad THEN rsr_remove_client(w[k - 1][1], w[k - 1][2], j) ELSE w[k - 1]
    IN w[Len(cs)]
rsr_srt_send_to_client(sl, cs, to) ==
    \E bad \in SUBSET to : Becomes(Removed(sl, cs, bad))
Distribute ==
    /\ rpc \in 1..RSlots
    /\ ~Passed(rpc) /\ slot[rpc].next \in {"key", "delta"}
    /\ LET fed == Fed(srt, rpc, slot[rpc].next = "key")
           to == {k \in DOMAIN srt : srt[k].at = rpc /\ ~fed[k].wait}
       IN rsr_srt_send_to_client([slot EXCEPT ![rpc] = [slot[rpc] EXCEPT !.next = "none", !.idle = 0]], fed, to)
    /\ rpc' = rpc + 1
    /\ UNCHANGED <<rup, raud, rleft>>

\* Audio goes to every client that does not wait for a keyframe; a quiet
\* audio ring is closed, to be opened again by a later pass.
AudioPass ==
    /\ rpc = AUDIO
    /\ IF raud.open /\ raud.next = "key"
       THEN rsr_srt_send_to_client(slot, srt, {k \in DOMAIN srt : ~srt[k].wait})
       ELSE UNCHANGED <<slot, srt>>
    /\ raud' = IF ~raud.open THEN raud
               ELSE IF raud.next # "none" THEN [raud EXCEPT !.next = "none", !.idle = 0]
               ELSE IF raud.idle + 1 >= RIdle THEN NoAudio ELSE [raud EXCEPT !.idle = @ + 1]
    /\ rpc' = POLL
    /\ UNCHANGED <<rup, rleft>>

ServePass == Polled \/ ReopenDead \/ ReadNothing \/ Distribute \/ AudioPass
RsrNext ==
    \/ accept_client \/ ClientLeaves \/ ServePass \/ AudioIn \/ AudioDies
    \/ \E n \in RNames : FrameIn(n, "key") \/ FrameIn(n, "delta") \/ RingDies(n) \/ RingBorn(n)

\* The loop runs, rvd comes back and encodes keyframes.
RsrFair ==
    /\ WF_rvars(ServePass)
    /\ \A n \in RNames : WF_rvars(RingBorn(n)) /\ SF_rvars(FrameIn(n, "key"))
RsrSpec == RsrInit /\ [][RsrNext]_rvars /\ RsrFair

-----------------------------------------------------------------------------
RsrTypeOK ==
    /\ rup \subseteq RNames /\ rleft \in 0..RFaults
    /\ \A i \in 1..RSlots : /\ slot[i].name \in RNames /\ slot[i].next \in Items
                            /\ slot[i].idle \in 0..RIdle /\ slot[i].count <= RMax
    /\ Len(srt) <= RMax /\ \A k \in DOMAIN srt : srt[k].at \in 1..RSlots
    /\ rpc \in POLL..AUDIO

\* rsr_remove_client and the reopening in serve_loop: however counts and slots
\* moved, a ring is held only while a client is on its slot, so nothing keeps
\* the encoder awake for nobody.  The default stream opened at start is held
\* until its first client has come and gone.
HeldForSomeone ==
    \A i \in 1..RSlots :
        slot[i].active => slot[i].boot \/ \E k \in DOMAIN srt : srt[k].at = i

\* serve_loop's comment "Reopen dead streams that still have clients": after
\* its ring died and came back, a client that stays is sent video again.
ClientsResume == []<>(srt = <<>> \/ \E k \in DOMAIN srt : srt[k].fed)
=============================================================================
