-------------------------- MODULE RsdStreamProofs --------------------------
(***************************************************************************)
(* For any number of clients, any ring, any queue and any timeout of       *)
(* RsdStream: the type invariant, and KeyAfterOwnGap as long as copying a  *)
(* frame never fails.                                                      *)
(***************************************************************************)
EXTENDS RsdStream, TLAPS

(* A client that plays has its video transport and is on the list. *)
PlayersReady == \A c \in Clients : c \in playing => c \in rtp \cap listed

(* A viewer that missed frames by rsd's doing is held for a keyframe. *)
GapGated == \A c \in Clients :
    c \in playing /\ gap[c] = "own" => c \in waiting \/ Jpeg \/ c \in cut

IInv == TypeOK /\ PlayersReady /\ GapGated /\ KeyAfterOwnGap

-----------------------------------------------------------------------------
(* Every variable of a stream keeps its type in every behaviour.           *)
LEMMA TypeInit == Init => TypeOK
  <1> SUFFICES ASSUME Init PROVE TypeOK
    OBVIOUS
  <1>1. unread \in Seq(Kinds) /\ idle \in Nat
    BY DEF Init
  <1>2. /\ lapped \in BOOLEAN /\ idrWanted \in BOOLEAN /\ stale \in BOOLEAN
        /\ open \in BOOLEAN /\ recent \in BOOLEAN
    BY DEF Init
  <1>3. /\ listed \subseteq Clients /\ rtp \subseteq Clients /\ playing \subseteq Clients
        /\ waiting \subseteq Clients /\ cut \subseteq Clients
    BY DEF Init
  <1>4. gap \in [Clients -> Gaps] /\ q \in [Clients -> Seq(Frame)]
    BY DEF Init, Gaps
  <1>5. /\ hand \in [Clients -> Frame \cup {Nothing}]
        /\ decoder \in [Clients -> {"lost", "synced", "orphan"}]
    BY DEF Init
  <1> QED BY <1>1, <1>2, <1>3, <1>4, <1>5 DEF TypeOK

LEMMA TypeStep == TypeOK /\ [Next]_vars => TypeOK'
  <1> SUFFICES ASSUME TypeOK, [Next]_vars PROVE TypeOK'
    OBVIOUS
  <1> USE StreamAssumption
      DEF TypeOK, ringVars, readerVars, sessionVars, queueVars, wireVars
  <1>1. ASSUME NEW kind \in Kinds, Publish(kind) PROVE TypeOK'
    <2>1. Append(unread, kind) \in Seq(Kinds) /\ <<kind>> \in Seq(Kinds)
      OBVIOUS
    <2>2. unread' \in {Append(unread, kind), <<kind>>}
      BY <1>1 DEF Publish
    <2>3. lapped' \in BOOLEAN /\ idrWanted' \in BOOLEAN
      BY <1>1 DEF Publish
    <2> QED BY <1>1, <2>1, <2>2, <2>3 DEF Publish
  <1>2. CASE ProducerRestart
    BY <1>2 DEF ProducerRestart
  <1>3. CASE IntervalPasses
    BY <1>3 DEF IntervalPasses
  <1>4. CASE Reopen
    <2>1. unread' \in Seq(Kinds)
      <3>1. CASE unread' = <<>>
        BY <3>1
      <3>2. ASSUME NEW kind \in Kinds, unread' = <<kind>> PROVE unread' \in Seq(Kinds)
        BY <3>2
      <3> QED BY <1>4, <3>1, <3>2 DEF Reopen
    <2>2. gap' \in [Clients -> Gaps]
      BY <1>4 DEF Reopen, Gaps
    <2>3. cut' \subseteq Clients /\ waiting' \subseteq Clients
      BY <1>4 DEF Reopen, DropClients, Viewers
    <2> QED BY <1>4, <2>1, <2>2, <2>3 DEF Reopen
  <1>5. CASE IdlePass
    <2>1. idle' \in {0, idle + 1}
      BY <1>5 DEF IdlePass
    <2>2. open' \in BOOLEAN
      BY <1>5 DEF IdlePass
    <2> QED BY <1>5, <2>1, <2>2 DEF IdlePass
  <1>6. CASE ReadOverflow
    <2>1. cut' \subseteq Clients
      BY <1>6 DEF ReadOverflow, RefreshInfo, DropClients
    <2>2. gap' \in [Clients -> Gaps]
      BY <1>6 DEF ReadOverflow, Gaps
    <2> QED BY <1>6, <2>1, <2>2 DEF ReadOverflow
  <1>7. CASE ReadNoSpace
    <2>1. cut' \subseteq Clients
      BY <1>7 DEF ReadNoSpace, RefreshInfo, DropClients
    <2>2. gap' \in [Clients -> Gaps] /\ unread' \in Seq(Kinds)
      BY <1>7 DEF ReadNoSpace, Gaps
    <2> QED BY <1>7, <2>1, <2>2 DEF ReadNoSpace
  <1>8. CASE ReadReborn
    BY <1>8 DEF ReadReborn, RefreshInfo, DropClients
  <1>9. CASE ReadFrame
    <2> DEFINE kind == Head(unread)
    <2>1. kind \in Kinds /\ unread' \in Seq(Kinds) /\ cut' \subseteq Clients
      BY <1>9 DEF ReadFrame, RefreshInfo, DropClients
    <2>2. PICK full \in SUBSET Clients, failed \in SUBSET Clients :
            /\ PushAll(kind, full, failed)
            /\ idrWanted' \in BOOLEAN /\ recent' \in BOOLEAN
      BY <1>9 DEF ReadFrame
    <2> HIDE DEF kind
    <2>3. \A c \in Clients : [kind |-> kind, gap |-> gap[c]] \in Frame
      BY <2>1 DEF Frame
    <2>4. q' \in [Clients -> Seq(Frame)]
      BY <2>2, <2>3 DEF PushAll, Enqueue
    <2>5. gap' \in [Clients -> Gaps]
      BY <2>2 DEF PushAll, Enqueue, Gaps
    <2>6. waiting' \subseteq Clients
      BY <2>2 DEF PushAll, Pushes, Viewers
    <2> QED BY <1>9, <2>1, <2>2, <2>4, <2>5, <2>6 DEF ReadFrame
  <1>10. ASSUME NEW c \in Clients, Session(c) PROVE TypeOK'
    <2>1. CASE Accept(c)
      BY <2>1 DEF Accept, Gaps
    <2>2. CASE Setup(c)
      BY <2>2 DEF Setup
    <2>3. CASE Play(c)
      BY <2>3 DEF Play
    <2>4. CASE Pause(c)
      BY <2>4 DEF Pause
    <2>5. CASE Unlist(c)
      BY <2>5 DEF Unlist
    <2>6. CASE Free(c)
      BY <2>6 DEF Free
    <2> QED BY <1>10, <2>1, <2>2, <2>3, <2>4, <2>5, <2>6 DEF Session
  <1>11. ASSUME NEW c \in Clients, SendStart(c) PROVE TypeOK'
    <2>1. Head(q[c]) \in Frame /\ q' \in [Clients -> Seq(Frame)]
      BY <1>11 DEF SendStart
    <2>2. hand' \in [Clients -> Frame \cup {Nothing}]
      BY <1>11, <2>1 DEF SendStart
    <2>3. decoder' \in [Clients -> {"lost", "synced", "orphan"}]
      BY <1>11 DEF SendStart
    <2> QED BY <1>11, <2>1, <2>2, <2>3 DEF SendStart
  <1>12. ASSUME NEW c \in Clients, SendEnd(c) PROVE TypeOK'
    <2>1. hand' \in [Clients -> Frame \cup {Nothing}]
      BY <1>12 DEF SendEnd
    <2>2. decoder' \in [Clients -> {"lost", "synced", "orphan"}]
      BY <1>12 DEF SendEnd
    <2> QED BY <1>12, <2>1, <2>2 DEF SendEnd
  <1>13. CASE UNCHANGED vars
    BY <1>13 DEF vars
  <1> QED
    BY <1>1, <1>2, <1>3, <1>4, <1>5, <1>6, <1>7, <1>8, <1>9, <1>10, <1>11, <1>12, <1>13
    DEF Next, Reader

(* TypeOK holds in every behaviour of the stream, whatever its clients,    *)
(* ring and queues are.                                                    *)
THEOREM TypeCorrect == Spec => []TypeOK
  BY TypeInit, TypeStep, PTL DEF Spec

-----------------------------------------------------------------------------
LEMMA GateInit == Init => PlayersReady /\ GapGated /\ KeyAfterOwnGap
  BY DEF Init, PlayersReady, GapGated, KeyAfterOwnGap

(* Only the session thread starts and stops players. *)
LEMMA ReadyStep ==
    ASSUME TypeOK, PlayersReady, [Next]_vars PROVE PlayersReady'
  <1> USE DEF PlayersReady, ringVars, readerVars, sessionVars, queueVars, wireVars
  <1>1. CASE UNCHANGED <<listed, rtp, playing>>
    BY <1>1
  <1>2. ASSUME NEW c \in Clients, Session(c) PROVE PlayersReady'
    BY <1>2 DEF Session, Accept, Setup, Play, Pause, Unlist, Free, Viewers
  <1>3. ASSUME NEW kind \in Kinds, Publish(kind) PROVE UNCHANGED <<listed, rtp, playing>>
    BY <1>3 DEF Publish
  <1>4. ASSUME Reader PROVE UNCHANGED <<listed, rtp, playing>>
    BY <1>4 DEF Reader, Reopen, IdlePass, ReadOverflow, ReadNoSpace, ReadReborn, ReadFrame
  <1>5. ASSUME NEW c \in Clients, SendStart(c) \/ SendEnd(c)
        PROVE UNCHANGED <<listed, rtp, playing>>
    BY <1>5 DEF SendStart, SendEnd
  <1> QED
    BY <1>1, <1>2, <1>3, <1>4, <1>5 DEF Next, ProducerRestart, IntervalPasses, vars

(* Frames whose gap is rsd's own stay keyframes when the queues lose       *)
(* entries and clients are cut, but not re-accepted.                       *)
LEMMA KeptKeys ==
    ASSUME TypeOK, KeyAfterOwnGap, UNCHANGED q, cut \subseteq cut'
    PROVE  KeyAfterOwnGap'
  BY DEF KeyAfterOwnGap

LEMMA KeptGates ==
    ASSUME TypeOK, GapGated, UNCHANGED gap, playing' \subseteq playing,
           waiting \subseteq waiting', cut \subseteq cut'
    PROVE  GapGated'
  BY DEF GapGated

(* The reader's loop over the clients closes the gate of everyone it drops *)
(* a frame of, and passes only keyframes to the ones it held back.         *)
LEMMA PushStep ==
    ASSUME TypeOK, PlayersReady, GapGated, KeyAfterOwnGap,
           NEW kind \in Kinds, NEW full \in SUBSET Clients,
           PushAll(kind, full, {}), cut \subseteq cut', UNCHANGED playing
    PROVE  GapGated' /\ KeyAfterOwnGap'
  <1> DEFINE tried == Pushes(kind)
  <1>0. /\ q' = [c \in Clients |->
               IF c \notin tried THEN q[c]
               ELSE IF c \in full THEN <<>>
               ELSE Append(q[c], [kind |-> kind, gap |-> gap[c]])]
        /\ gap' = [c \in Clients |-> IF c \in tried \ full THEN "none" ELSE "own"]
        /\ waiting' = (waiting \ tried) \cup (IF Jpeg THEN {} ELSE tried \cap full)
    BY DEF PushAll, Enqueue
  <1>1. \A c \in Clients : c \in playing \ tried => c \in waiting
    BY DEF Pushes, Viewers, PlayersReady
  <1>2. \A c \in tried : gap[c] = "own" => kind = "key" \/ Jpeg \/ c \in cut
    BY DEF Pushes, Viewers, GapGated, TypeOK
  <1> HIDE DEF tried
  <1>3. GapGated'
    BY <1>0, <1>1 DEF GapGated
  <1>4. KeyAfterOwnGap'
    <2> SUFFICES ASSUME NEW c \in Clients, NEW i \in 1..Len(q'[c]), q'[c][i].gap = "own"
                 PROVE  q'[c][i].kind = "key" \/ Jpeg \/ c \in cut'
      BY DEF KeyAfterOwnGap
    <2>1. CASE c \notin tried
      BY <1>0, <2>1 DEF KeyAfterOwnGap
    <2>2. CASE c \in tried \cap full
      BY <1>0, <2>2
    <2>3. CASE c \in tried \ full
      <3>1. q[c] \in Seq(Frame) /\ q'[c] = Append(q[c], [kind |-> kind, gap |-> gap[c]])
        BY <1>0, <2>3 DEF TypeOK
      <3>2. CASE i = Len(q[c]) + 1
        BY <1>2, <2>3, <3>1, <3>2
      <3>3. CASE i \in 1..Len(q[c])
        BY <3>1, <3>3 DEF KeyAfterOwnGap
      <3> QED BY <3>1, <3>2, <3>3
    <2> QED BY <2>1, <2>2, <2>3
  <1> QED BY <1>3, <1>4

LEMMA GateStep ==
    ASSUME ~AllocMayFail, IInv, [Next]_vars PROVE GapGated' /\ KeyAfterOwnGap'
  <1> USE DEF IInv, ringVars, readerVars, sessionVars, queueVars, wireVars
  <1>1. CASE UNCHANGED <<sessionVars, queueVars>>
    BY <1>1, KeptKeys, KeptGates
  <1>2. CASE Reopen
    <2>1. cut \subseteq cut' /\ UNCHANGED <<q, playing, listed>>
      BY <1>2 DEF Reopen, DropClients
    <2>2. CASE DropClients
      BY <1>2, <2>1, <2>2, KeptKeys DEF DropClients, PlayersReady, GapGated
    <2>3. CASE waiting' = waiting \cup Viewers
      BY <1>2, <2>1, <2>3, KeptKeys DEF PlayersReady, GapGated, Viewers
    <2> QED BY <1>2, <2>2, <2>3 DEF Reopen
  <1>3. CASE ReadOverflow \/ ReadNoSpace
    <2>1. /\ cut \subseteq cut' /\ UNCHANGED <<q, playing, waiting>>
          /\ \A c \in Clients : gap'[c] = "own" => gap[c] = "own"
      BY <1>3 DEF ReadOverflow, ReadNoSpace, RefreshInfo, DropClients
    <2> QED BY <2>1, KeptKeys DEF GapGated
  <1>4. CASE ReadReborn
    BY <1>4, KeptKeys, KeptGates DEF ReadReborn, RefreshInfo, DropClients
  <1>5. CASE ReadFrame
    <2>1. cut \subseteq cut' /\ UNCHANGED playing
      BY <1>5 DEF ReadFrame, RefreshInfo, DropClients
    <2>2. Head(unread) \in Kinds
      BY <1>5 DEF ReadFrame, TypeOK
    <2>3. \E full \in SUBSET Clients : PushAll(Head(unread), full, {})
      BY <1>5 DEF ReadFrame
    <2> QED BY <2>1, <2>2, <2>3, PushStep
  <1>6. ASSUME NEW c \in Clients, Session(c) PROVE GapGated' /\ KeyAfterOwnGap'
    <2>1. CASE Accept(c)
      <3>1. c \notin playing /\ q[c] = <<>>
        BY <2>1 DEF Accept, PlayersReady
      <3>2. UNCHANGED <<q, playing>> /\ cut' = cut \ {c} /\ waiting \subseteq waiting'
        BY <2>1 DEF Accept
      <3>3. \A d \in Clients \ {c} : gap'[d] = gap[d]
        BY <2>1 DEF Accept, TypeOK
      <3>4. GapGated'
        BY <3>1, <3>2, <3>3 DEF GapGated
      <3>5. KeyAfterOwnGap'
        BY <3>1, <3>2 DEF KeyAfterOwnGap
      <3> QED BY <3>4, <3>5
    <2>2. CASE Setup(c)
      BY <2>2, KeptKeys, KeptGates DEF Setup
    <2>3. CASE Play(c)
      BY <2>3, KeptKeys DEF Play, GapGated
    <2>4. CASE Pause(c) \/ Unlist(c)
      BY <2>4, KeptKeys, KeptGates DEF Pause, Unlist
    <2>5. CASE Free(c)
      BY <2>5, KeptGates DEF Free, KeyAfterOwnGap, TypeOK
    <2> QED BY <1>6, <2>1, <2>2, <2>3, <2>4, <2>5 DEF Session
  <1>7. ASSUME NEW c \in Clients, SendStart(c) PROVE GapGated' /\ KeyAfterOwnGap'
    <2>1. GapGated'
      BY <1>7, KeptGates DEF SendStart
    <2>2. q' = [q EXCEPT ![c] = Tail(q[c])] /\ q[c] # <<>> /\ UNCHANGED cut
      BY <1>7 DEF SendStart
    <2>3. q \in [Clients -> Seq(Frame)]
      BY DEF TypeOK
    <2>4. \A i \in 1..Len(q'[c]) : i + 1 \in 1..Len(q[c]) /\ q'[c][i] = q[c][i + 1]
      BY <2>2, <2>3
    <2>5. KeyAfterOwnGap'
      BY <2>2, <2>3, <2>4 DEF KeyAfterOwnGap
    <2> QED BY <2>1, <2>5
  <1>8. ASSUME NEW c \in Clients, SendEnd(c) PROVE UNCHANGED <<sessionVars, queueVars>>
    BY <1>8 DEF SendEnd
  <1>9. ASSUME NEW kind \in Kinds, Publish(kind)
        PROVE UNCHANGED <<sessionVars, queueVars>>
    BY <1>9 DEF Publish
  <1>10. CASE ProducerRestart \/ IntervalPasses \/ IdlePass
    BY <1>1, <1>10 DEF ProducerRestart, IntervalPasses, IdlePass
  <1> QED
    BY <1>1, <1>2, <1>3, <1>4, <1>5, <1>6, <1>7, <1>8, <1>9, <1>10 DEF Next, Reader, vars

(* As long as copying a frame never fails, no client is queued a dependent *)
(* frame right after frames rsd withheld or discarded for it, across any   *)
(* number of overflows, pauses, ring reconnects and other clients.         *)
THEOREM KeyframeFirst == ASSUME ~AllocMayFail PROVE Spec => []KeyAfterOwnGap
  <1>1. Init => IInv
    BY TypeInit, GateInit DEF IInv
  <1>2. IInv /\ [Next]_vars => IInv'
    BY TypeStep, ReadyStep, GateStep DEF IInv
  <1>3. IInv => KeyAfterOwnGap
    BY DEF IInv
  <1> QED BY <1>1, <1>2, <1>3, PTL DEF Spec
=============================================================================
