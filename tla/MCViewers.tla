----------------------------- MODULE MCViewers -----------------------------
(* The daemons that serve viewers beside rsd: rwd's media path, sessions   *)
(* and audio, rhd's pictures, requests and guard against guessing, rsp and *)
(* rsr.  As modelled they share no variable, so each behaviour runs the    *)
(* part that "which" names while the others rest where they start: every   *)
(* interleaving inside a part is there, and the state space is the sum of  *)
(* theirs.                                                                 *)
EXTENDS RwdMedia, RwdSessions, RwdAudio, RhdStream, RhdRequests, RspPush, RsrFanout

CONSTANT Parts   \* the ones a run looks at
VARIABLE which

ASSUME ViewersAssumption ==
    Parts \subseteq {"media", "sessions", "audio", "rhd", "requests", "guesses", "rsp", "rsr"}

\* A viewer and a snapshot; a server that takes the stream and four that do not.
Asks == {<<"v", "mjpeg">>, <<"s", "snap">>}
SetCodec == [a |-> "h264", b |-> "h264", c |-> "h265"]
Server(tcp, shake, msgs) == [tcp |-> tcp, shake |-> shake, msgs |-> msgs]
Servers ==
    {Server(TRUE, TRUE, <<"_result", "other", "_result", "onStatus">>),
     Server(FALSE, TRUE, <<>>), Server(TRUE, FALSE, <<>>),
     Server(TRUE, TRUE, <<"_result", "_error">>), Server(TRUE, TRUE, <<"_result", "_result">>)}

\* Only the chosen one starts in every state it may start in.
ViewersInit ==
    /\ which \in Parts
    /\ WInit /\ SeInit /\ AInit /\ HInit
    /\ RqInit /\ (which = "requests" \/ (acct = "set" /\ portal = FALSE))
    /\ RaInit
    /\ PuInit /\ (which = "rsp" \/ (prod.set = "a" /\ ps.mode = "udp" /\ ~ps.pushing))
    /\ RsrInit /\ (which = "rsr" \/ (rup = {} /\ ~raud.open))

Only(part) ==
    /\ which = part /\ UNCHANGED which
    /\ IF part = "media" THEN TRUE ELSE UNCHANGED mvars
    /\ IF part = "sessions" THEN TRUE ELSE UNCHANGED svars
    /\ IF part = "audio" THEN TRUE ELSE UNCHANGED avars
    /\ IF part = "rhd" THEN TRUE ELSE UNCHANGED hvars
    /\ IF part = "requests" THEN TRUE ELSE UNCHANGED rqvars
    /\ IF part = "guesses" THEN TRUE ELSE UNCHANGED ravars
    /\ IF part = "rsp" THEN TRUE ELSE UNCHANGED puvars
    /\ IF part = "rsr" THEN TRUE ELSE UNCHANGED rvars

ViewersNext ==
    \/ Only("media") /\ WNext
    \/ Only("sessions") /\ SeNext
    \/ Only("audio") /\ ANext
    \/ Only("rhd") /\ HNext
    \/ Only("requests") /\ RqNext
    \/ Only("guesses") /\ RaNext
    \/ Only("rsp") /\ PuNext
    \/ Only("rsr") /\ RsrNext

viewers == <<which, mvars, svars, avars, hvars, rqvars, ravars, puvars, rvars>>

\* The fairness of the modules, for the part that runs.  Chance(i) is its
\* i-th strongly fair action: as "which" never changes, fairness of the union
\* is that of its own action.
Chance(i) ==
    \/ i = 1 /\ \/ Only("media") /\ ReadKey
                \/ Only("rhd") /\ Encodes
    \/ i = 2 /\ Only("media") /\ HandKey
ViewersFairness ==
    /\ WF_mvars(which = "media" /\ Sender) /\ WF_mvars(which = "media" /\ Joined)
    /\ WF_mvars(which = "media" /\ WReopen) /\ WF_mvars(which = "media" /\ HandOut)
    /\ WF_svars(which = "sessions" /\ Cleanup)
    /\ WF_hvars(which = "rhd" /\ Loop)
    /\ \A c \in HClients : WF_hvars(which = "rhd" /\ Threads(c))
    /\ WF_rqvars(which = "requests" /\ Reap)
    /\ \A j \in 1..RqJobs : WF_rqvars(which = "requests" /\ Works(j))
    /\ \A c \in RqClients : WF_rqvars(which = "requests" /\ RqPolled(c))
    /\ WF_puvars(which = "rsp" /\ PuProduce) /\ WF_puvars(which = "rsp" /\ PuLoop)
    /\ \A i \in 1..2 : SF_viewers(Chance(i))
ViewersSpec == ViewersInit /\ [][ViewersNext]_viewers /\ ViewersFairness

-----------------------------------------------------------------------------
\* Every part's state has its type.
TypesOK ==
    /\ WTypeOK /\ SeTypeOK /\ ATypeOK /\ HTypeOK
    /\ RqTypeOK /\ PuTypeOK /\ RsrTypeOK

\* What reaches a viewer can be decoded with what reached it before: rwd's
\* send thread (rwd_media.c, distribute and sendq_push) and rsp's connection
\* (rsp_main.c, push_loop) start it, and start it again after a gap, with a
\* keyframe and its parameters.
Decodable == WireDecodable /\ WireDescribed

\* What several threads or clients share lives exactly as long as one of them
\* holds it: rwd's transports under the send thread, rhd's reference-counted
\* frames (rhd_main.c, frame_for_writing) and round trips to rcd (rhd_api.c,
\* job_release), rsr's rings (rsr_main.c, rsr_remove_client).
HeldWhileUsed ==
    TransportsHeld /\ FramesShared /\ JobsHeld /\ HeldForSomeone

\* Only who has proved itself is served: rwd sends media where the session's
\* own peer answered from (rwd_main.c), rhd lets a camera be claimed once and
\* makes wrong passwords cost time (rhd_api.c, rhd_authrate.c).
Admitted == MediaToProven /\ ClaimedOnce /\ GuessesCost

\* Every stream comes back: rwd's keyframe gate reopens (rwd_media.c), rhd's
\* viewers and snapshots are served by the producer that runs now
\* (rhd_main.c), and rsp sends again whatever broke (rsp_main.c).
StreamsReturn == GateReopens /\ Served /\ PushFollows

\* Nothing is held for ever by a peer that is gone or says nothing: rwd's
\* teardown joins its send thread, its silent streamers leave, and rhd's
\* connections give their slots back.
ConnectionsEnd == TeardownEnds /\ StreamerLeaves /\ SlotsReturn
=============================================================================
