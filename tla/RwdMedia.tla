------------------------------ MODULE RwdMedia ------------------------------
(***************************************************************************)
(* rwd: one WebRTC client of one video stream.  The ring reader copies     *)
(* frames into the client's bounded queue under clients_lock, the client's *)
(* own thread packetizes and sends them, and the main thread sets the      *)
(* media up and tears it down, joining the thread under clients_lock.      *)
(* Frames carry no number: a ghost says whether a frame directly follows   *)
(* the one queued before it.                                               *)
(***************************************************************************)
EXTENDS Naturals, Sequences

CONSTANTS WSlots,     \* RWD_SENDQ_SLOTS
          WIdleMax    \* idle waits before the ring is closed (40 in the code)

ASSUME RwdMediaConstants == WSlots \in Nat \ {0} /\ WIdleMax \in Nat \ {0}

VARIABLES
    wcl,      \* client: [media, sending, wait]; media: the transports exist
    wq,       \* sendq entries [key, cont]
    wneed, wshut,   \* needs_keyframe, shutdown
    wthr,     \* send thread: off, pop, send
    wfly,     \* the entry it sends
    wmain,    \* main thread: idle, join (holding clients_lock)
    wring,    \* reader: [open, idle, codec]
    whand,    \* the frame read and not yet handed out, or NoFrame
    wlost     \* ghost: a frame was lost since the last one queued

mvars == <<wcl, wq, wneed, wshut, wthr, wfly, wmain, wring, whand, wlost>>
queue == <<wq, wneed, wshut>>
sender == <<wthr, wfly>>
reader == <<wring, whand>>

WNoFrame == [key |-> FALSE, cont |-> FALSE]
Frames == [key : BOOLEAN]
NoHand == {}

WInit ==
    /\ wcl = [media |-> FALSE, sending |-> FALSE, wait |-> FALSE]
    /\ wq = <<>> /\ wneed = FALSE /\ wshut = FALSE /\ wthr = "off" /\ wfly = WNoFrame
    /\ wmain = "idle" /\ wring = [open |-> TRUE, idle |-> 0, codec |-> "h264"] /\ whand = NoHand
    /\ wlost = TRUE

LockFree == wmain = "idle"

-----------------------------------------------------------------------------
(* The queue.  Losing an entry, or the frame in hand, breaks the chain.    *)
Purge == wq' = <<>> /\ wneed' = TRUE /\ wlost' = TRUE

(* rwd_sendq_fail *)
SendqFail == IF wshut THEN UNCHANGED <<queue, wlost>> ELSE Purge /\ UNCHANGED wshut

SendqPushKeeps(key) ==  \* mutant: a full queue drops only the frame that came
    IF wshut \/ (wneed /\ ~key) THEN UNCHANGED queue /\ wlost' = TRUE /\ wcl' = [wcl EXCEPT !.wait = TRUE]
    ELSE IF Len(wq) >= WSlots THEN UNCHANGED queue /\ wlost' = TRUE /\ wcl' = [wcl EXCEPT !.wait = FALSE]
    ELSE /\ wq' = Append(wq, [key |-> key, cont |-> ~wlost]) /\ wneed' = FALSE
         /\ wlost' = FALSE /\ wcl' = [wcl EXCEPT !.wait = FALSE] /\ UNCHANGED wshut

(* rwd_sendq_push, and what the reader does with its answer: anything but  *)
(* 0 closes the gate again.  The copy may not be allocated.                *)
SendqPush(key) ==
    \/ SendqFail /\ wlost' = TRUE /\ wcl' = [wcl EXCEPT !.wait = TRUE]
    \/ IF wshut \/ (wneed /\ ~key)
       THEN UNCHANGED queue /\ wlost' = TRUE /\ wcl' = [wcl EXCEPT !.wait = TRUE]
       ELSE IF Len(wq) >= WSlots
       THEN Purge /\ UNCHANGED wshut /\ wcl' = [wcl EXCEPT !.wait = TRUE]
       ELSE /\ wq' = Append(wq, [key |-> key, cont |-> ~wlost])
            /\ wneed' = FALSE /\ wlost' = FALSE /\ UNCHANGED wshut
            /\ wcl' = [wcl EXCEPT !.wait = FALSE]

-----------------------------------------------------------------------------
(* The reader.  Waits time out on an idle ring; one that stays idle is     *)
(* closed, and reopened as what the producer made of it.                   *)
Idle ==
    /\ LockFree /\ wring.open /\ whand = NoHand /\ wcl.sending
    /\ wring' = IF wring.idle + 1 >= WIdleMax THEN [wring EXCEPT !.open = FALSE, !.idle = 0]
                ELSE [wring EXCEPT !.idle = @ + 1]
    /\ UNCHANGED <<wcl, queue, sender, wmain, whand, wlost>>

(* A codec the peer did not negotiate ends its session. *)
WReopen ==
    /\ LockFree /\ ~wring.open
    /\ \E c \in {"h264", "h265"} :
        /\ wring' = [open |-> TRUE, idle |-> 0, codec |-> c]
        /\ wcl' = [wcl EXCEPT !.sending = @ /\ c = wring.codec]
    /\ UNCHANGED <<queue, sender, wmain, whand, wlost>>

(* More than ten frames behind, or overrun: to the newest, gate closed. *)
GateAllOpen ==  \* mutant: skipping leaves the gate open
    /\ LockFree /\ wring.open /\ whand = NoHand /\ wcl.sending
    /\ wcl' = wcl /\ wlost' = TRUE /\ wring' = [wring EXCEPT !.idle = 0]
    /\ UNCHANGED <<queue, sender, wmain, whand>>

GateAll ==
    /\ LockFree /\ wring.open /\ whand = NoHand /\ wcl.sending
    /\ wcl' = [wcl EXCEPT !.wait = TRUE] /\ wlost' = TRUE /\ wring' = [wring EXCEPT !.idle = 0]
    /\ UNCHANGED <<queue, sender, wmain, whand>>

(* A frame that outgrew the buffer (-ENOSPC) is passed over with the gate  *)
(* as it is, and so is what a reopened ring held: these two holes are not  *)
(* counted in wlost.                                                       *)
WReadFrame ==
    /\ wring.open /\ whand = NoHand /\ wcl.sending
    /\ \E f \in Frames : whand' = {f}
    /\ wring' = [wring EXCEPT !.idle = 0]
    /\ UNCHANGED <<wcl, queue, sender, wmain, wlost>>

(* Handed to the client as it is now, which need not be the client the     *)
(* ring was read for.                                                      *)
HandOut ==
    /\ LockFree /\ whand # NoHand /\ whand' = NoHand
    /\ LET f == CHOOSE f \in whand : TRUE IN
       IF ~wcl.sending \/ (wcl.wait /\ ~f.key) \/ wthr = "off"
       THEN /\ wlost' = TRUE /\ UNCHANGED queue
            /\ wcl' = [wcl EXCEPT !.wait = @ /\ ~(wcl.sending /\ f.key)]
       ELSE SendqPush(f.key)
    /\ UNCHANGED <<sender, wmain, wring>>

-----------------------------------------------------------------------------
(* The send thread. *)
Pop ==
    /\ wthr = "pop"
    /\ IF wshut THEN wthr' = "done" /\ UNCHANGED <<wq, wfly>>
       ELSE wq # <<>> /\ wfly' = Head(wq) /\ wq' = Tail(wq)
            /\ wthr' = IF wcl.sending THEN "send" ELSE "pop"
    /\ UNCHANGED <<wcl, wneed, wshut, wmain, reader, wlost>>

(* A frame that does not go out whole purges what waits behind it. *)
WSendEnd ==
    /\ wthr = "send" /\ wthr' = "pop"
    /\ \/ UNCHANGED <<queue, wlost>>
       \/ SendqFail
    /\ UNCHANGED <<wcl, wfly, wmain, reader>>

-----------------------------------------------------------------------------
(* The main thread. *)
MediaSetup ==
    /\ wmain = "idle" /\ ~wcl.media
    /\ wcl' = [media |-> TRUE, sending |-> TRUE, wait |-> TRUE]
    /\ wq' = <<>> /\ wneed' = FALSE /\ wshut' = FALSE /\ wthr' = "pop" /\ wfly' = WNoFrame
    /\ wlost' = TRUE
    /\ UNCHANGED <<wmain, reader>>

TeardownNow ==  \* mutant: the transports go before the thread
    /\ wmain = "idle" /\ wcl.media /\ wmain' = "join"
    /\ wcl' = [wcl EXCEPT !.sending = FALSE, !.media = FALSE] /\ wshut' = TRUE
    /\ UNCHANGED <<wq, wneed, sender, reader, wlost>>

Teardown ==
    /\ wmain = "idle" /\ wcl.media /\ wmain' = "join"
    /\ wcl' = [wcl EXCEPT !.sending = FALSE] /\ wshut' = TRUE
    /\ UNCHANGED <<wq, wneed, sender, reader, wlost>>
Joined ==
    /\ wmain = "join" /\ wthr = "done"
    /\ wmain' = "idle" /\ wthr' = "off" /\ wfly' = WNoFrame
    /\ wcl' = [wcl EXCEPT !.media = FALSE]
    /\ wq' = <<>> /\ UNCHANGED <<wneed, wshut, reader, wlost>>

WReader == Idle \/ WReopen \/ GateAll \/ WReadFrame \/ HandOut
Sender == Pop \/ WSendEnd
WNext == WReader \/ Sender \/ MediaSetup \/ Teardown \/ Joined

(* Sends end (sendmsg gives up after 100 ms), the encoder's GOP keeps      *)
(* bringing keyframes, and now and then one finds memory for its copy.     *)
ReadKey == WReadFrame /\ \A f \in whand' : f.key
HandKey == HandOut /\ (\E f \in whand : f.key) /\ (wcl.sending => ~wcl'.wait)
WFair == /\ WF_mvars(Sender) /\ WF_mvars(Joined) /\ WF_mvars(WReopen) /\ WF_mvars(HandOut)
            /\ SF_mvars(ReadKey) /\ SF_mvars(HandKey)
WSpec == WInit /\ [][WNext]_mvars /\ WFair

-----------------------------------------------------------------------------
WTypeOK ==
    /\ wcl \in [media : BOOLEAN, sending : BOOLEAN, wait : BOOLEAN]
    /\ wq \in Seq([key : BOOLEAN, cont : BOOLEAN]) /\ Len(wq) <= WSlots
    /\ {wneed, wshut, wlost} \subseteq BOOLEAN
    /\ wthr \in {"off", "pop", "send", "done"} /\ wmain \in {"idle", "join"}
    /\ wring.idle \in 0..WIdleMax - 1

(* What goes to the peer is a keyframe or the frame after the one before,  *)
(* whatever was skipped, purged, failed, or read for an earlier client.    *)
(* The holes of -ENOSPC (a "one-frame hiccup", rwd_media.c:939) and of a   *)
(* ring reopened without a codec change are the exceptions.                *)
WireDecodable == wthr = "send" => wfly.key \/ wfly.cont

(* The send thread never packetizes through transports that are gone.      *)
TransportsHeld == wthr = "send" => wcl.media

(* "joining under it (all teardown call sites) cannot deadlock"            *)
(* (rwd_media.c:451): a teardown ends and gives clients_lock back.         *)
TeardownEnds == []<>(wmain = "idle")

(* A client behind a closed gate gets video again or is gone.              *)
GateReopens == []<>(~wcl.wait \/ ~wcl.sending)
=============================================================================
