------------------------------- MODULE MCRsd -------------------------------
(* rsd's reader with its clients (RsdStream) and one client's send queue   *)
(* (RsdSendq).  As modelled they share no variable, so each behaviour runs *)
(* the one that "which" names while the other rests where it starts: every *)
(* interleaving inside a part is there, and the state space is the sum of  *)
(* the two.                                                                *)
EXTENDS RsdStream, RsdSendq

VARIABLE which

RsdInit == which \in {"stream", "sendq"} /\ Init /\ SqInit
RsdNext ==
    \/ which = "stream" /\ Next /\ UNCHANGED <<which, sqvars>>
    \/ which = "sendq" /\ SqNext /\ UNCHANGED <<which, vars>>
\* The fairness of both modules, for the part that runs.
RsdFairness ==
    /\ WF_vars(which = "stream" /\ Reader)
    /\ SF_vars(which = "stream" /\ Publish("key"))
    /\ WF_sqvars(which = "sendq" /\ Exit) /\ WF_sqvars(which = "sendq" /\ Pop)
    /\ WF_sqvars(which = "sendq" /\ Release) /\ WF_sqvars(which = "sendq" /\ Shutdown)
    /\ WF_sqvars(which = "sendq" /\ Destroy)
RsdSpec == RsdInit /\ [][RsdNext]_<<which, vars, sqvars>> /\ RsdFairness

-----------------------------------------------------------------------------
\* The circular array and its indices agree, and the send thread never sleeps
\* on work: no queued frame and no shutdown request waits behind a condition
\* variable nobody will signal again (rsd_sendq.c, rsd_client_send_thread).
QueueSound == SqTypeOK /\ NoLostWakeup

\* Every payload copy a push made has exactly one owner, and every push was
\* sent, is queued or was counted as a drop of its own kind (rsd_sendq.c,
\* sendq_drop_video_locked, rsd_sendq_push_audio).
CopiesAccounted == OneOwner /\ Accounted

\* Frames that are queued are sent or dropped and a removed client's thread
\* and copies go, whatever the thread was doing (remove_client).
QueueDrains == QueueMoves /\ RemovalCompletes

\* The reader leaves a dead ring, even under a stalled client, and a viewer
\* held for a keyframe gets one (rsd_ring_reader.c).
StreamRecovers == LeavesDeadRing /\ GateOpens
=============================================================================
