------------------------------ MODULE MCVideo ------------------------------
(* rvd's parts: the pipeline under its control commands, the stream table, *)
(* the encoder settings, IVS, frame publishing and OSD regions.  Each      *)
(* behaviour runs the part that "which" names (they share no variable      *)
(* here), so the state space is the sum of theirs.                         *)
EXTENDS RvdPipeline, RvdTable, RvdSettings, RvdIvs, RvdPublish, RvdOsd

VARIABLE which

\* A small and a large picture; sensors that report no size; a bad grid and
\* two good ones; two sizes of the motion stream, neither a multiple of a
\* grid; the orders a directory scan may list the OSD buffers in.
Width == [s |-> 640, l |-> 1920]
Height == [s |-> 360, l |-> 1080]
Unsized == {<<0, 0>>}
Grids == {<<3, 1>>, <<0, 9>>, <<3, 2>>}
Sizes == {<<7, 5>>, <<11, 4>>}
Orders == {<<"time", "uptime", "x">>, <<"x", "uptime", "time">>, <<"uptime", "x", "time">>}

Parts == {"pipeline", "table", "settings", "ivs", "publish", "osd"}

\* Only the chosen one starts in every state it may start in.
VideoInit ==
    /\ which \in Parts
    /\ PInit /\ SInit /\ OInit
    /\ IInit /\ (which = "ivs" \/ <<icfg.algo, icfg.grid, size.now>> = <<"move", <<3, 1>>, <<7, 5>> >>)
    /\ FInit /\ (which = "publish" \/ kind = [jpeg |-> FALSE, refmode |-> FALSE, vui |-> FALSE])
    /\ TInit /\ (which = "table" \/ board = CHOOSE b \in Boards : TRUE)

Only(part) ==
    /\ which = part /\ UNCHANGED which
    /\ IF part = "pipeline" THEN TRUE ELSE UNCHANGED pvars
    /\ IF part = "table" THEN TRUE ELSE UNCHANGED tvars
    /\ IF part = "settings" THEN TRUE ELSE UNCHANGED svars
    /\ IF part = "ivs" THEN TRUE ELSE UNCHANGED ivars
    /\ IF part = "publish" THEN TRUE ELSE UNCHANGED fvars
    /\ IF part = "osd" THEN TRUE ELSE UNCHANGED ovars

VideoNext ==
    \/ Only("pipeline") /\ PNext
    \/ Only("table") /\ TNext
    \/ Only("settings") /\ SNext
    \/ Only("ivs") /\ INext
    \/ Only("publish") /\ FNext
    \/ Only("osd") /\ ONext

video == <<which, pvars, tvars, svars, ivars, fvars, ovars>>

\* The fairness of the modules, for the part that runs.  Chance(i) is its
\* i-th strongly fair action: as "which" never changes, fairness of the union
\* is that of its own action.
Chance(i) ==
    \/ i = 1 /\ \/ Only("pipeline") /\ VbsFallback
                \/ Only("osd") /\ ostage = "up" /\ OCheck
    \/ Only("pipeline") /\ \/ i = 2 /\ PollFrame("v")
                           \/ i = 3 /\ Reap
VideoFairness ==
    /\ WF_pvars(which = "pipeline" /\ Control)
    /\ \A s \in Streams : /\ WF_pvars(which = "pipeline" /\ Leave(s))
                          /\ WF_pvars(which = "pipeline" /\ EnterPoll(s))
                          /\ WF_pvars(which = "pipeline" /\ PollTimeout(s))
    /\ WF_pvars(which = "pipeline" /\ SnapIdle) /\ WF_pvars(which = "pipeline" /\ SnapStart)
    /\ WF_pvars(which = "pipeline" /\ IvsThread)
    /\ WF_ovars(which = "osd" /\ ORestart)
    /\ \A i \in 1..3 : SF_video(Chance(i))
VideoSpec == VideoInit /\ [][VideoNext]_video /\ VideoFairness

-----------------------------------------------------------------------------
\* Every part's state has its type.
TypesOK == PTypeOK /\ TTypeOK /\ STypeOK /\ ITypeOK /\ FTypeOK /\ OTypeOK

\* No object of the SDK is used after it is destroyed or lost while in use:
\* encoder channels under their threads (rvd_ctrl.c, do_stream_restart), the
\* fixed pool of OSD regions (rvd_osd.c, rvd_osd_check and its helpers).
SdkHeld == ChannelsHeld /\ RegionsHeld

\* What rvd publishes is what its consumers take it for: the ring's header
\* fits the stream, the snapshot ring's size fits every picture up to the one
\* it was created for (RingFits says which resize is excepted), references lie in the region a consumer maps, a lost
\* frame is reported, the UTC offset is near the truth (rvd_frame_loop.c,
\* rvd_ring_size.c, rvd_pipeline.c).
RingsTrue == RingDescribes /\ RingFits /\ RefsSound /\ FramesAccounted /\ UtcTrue

\* The stream table that is left after refusals, and the settings after any
\* sequence of commands, are the ones the rest of rvd and the next boot rely
\* on (rvd_pipeline.c, rvd_ctrl.c).
SettingsKept == TableSound /\ SettingsHeld

\* A box holds what moved, as long as the picture keeps the size its zones were
\* made for, and a detection outlives the gaps (rvd_ivs.c).
DetectionsTrue == BoxTrue /\ DetectionsHeld

\* Commands end, a stuck stream is rebuilt, a dead snapshot reader is reaped
\* (rvd_ctrl.c, rvd_frame_loop.c), and regions come to follow the buffers of
\* the OSD producers (rvd_osd.c).
VideoRecovers ==
    /\ []<>(which = "pipeline" => CommandOver)
    /\ []<>(which = "pipeline" => SilenceOver)
    /\ []<>(which = "pipeline" => DeadReleased)
    /\ OsdFollows
=============================================================================
