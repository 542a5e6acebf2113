---------------------------- MODULE MCRecording ----------------------------
(* The daemons that watch the scene and keep it: rmd, rmr with its         *)
(* pre-roll buffer and timelapse, and ric's day and night.  As modelled    *)
(* they share no variable, so each behaviour runs the one that "which"     *)
(* names while the others rest where they start, and the state space is    *)
(* the sum of theirs.                                                      *)
(* RicDayNight.cfg has ric with commands, outages and larger counters.     *)
EXTENDS RmrPrebuf, RmrRecorder, RmrTimelapse, RmdMotion,
        RicDayNight, RicPhoto

VARIABLE which

\* Two bright lights off each other's band, dusk with a shifted red, and the
\* dark with and without a shifted blue.
MCReadings ==
    {[ev |-> 1, r |-> 0, b |-> 0], [ev |-> 3, r |-> 0, b |-> 0],
     [ev |-> 8, r |-> 2, b |-> 0], [ev |-> 10, r |-> 0, b |-> 0],
     [ev |-> 10, r |-> 0, b |-> 2]}

\* Only the chosen one starts in every state it may start in.
RecordingInit ==
    /\ which \in {"prebuf", "recorder", "timelapse", "rmd", "ric", "photo"}
    /\ PbInit /\ RmdInit
    /\ RecInit /\ (which = "recorder" \/ preCap = Max(PreCaps))
    /\ RicInit /\ (which = "ric" \/ ambient = "bright")
    /\ PhInit /\ (which = "photo" \/ phCal = Uncalibrated)
    /\ TlInit
    /\ \/ which = "timelapse"
       \/ /\ ~tlOn /\ tl.interval = Max(TlIntervals)
          /\ tl.rate = Max(TlRates) /\ tl.per = Max(TlPer)

Only(part) ==
    /\ which = part /\ UNCHANGED which
    /\ IF part = "prebuf" THEN TRUE ELSE UNCHANGED pbvars
    /\ IF part = "recorder" THEN TRUE ELSE UNCHANGED recvars
    /\ IF part = "rmd" THEN TRUE ELSE UNCHANGED rmdvars
    /\ IF part = "ric" THEN TRUE ELSE UNCHANGED ricvars
    /\ IF part = "timelapse" THEN TRUE ELSE UNCHANGED tlvars
    /\ IF part = "photo" THEN TRUE ELSE UNCHANGED phvars

RecordingNext ==
    \/ Only("prebuf") /\ PbNext
    \/ Only("recorder") /\ RecNext
    \/ Only("rmd") /\ RmdNext
    \/ Only("ric") /\ RicNext
    \/ Only("timelapse") /\ TlNext
    \/ Only("photo") /\ PhNext

\* The fairness of the modules, for the part that runs.
RecordingFairness ==
    /\ WF_recvars(which = "recorder" /\ Standby)
    /\ SF_recvars(which = "recorder" /\ (RecIdleClose \/ RecReopen))
    /\ SF_recvars(which = "recorder" /\ TakeFrame("key", FALSE, TRUE, FALSE, FALSE))
    /\ WF_rmdvars(which = "rmd" /\ Poll)
    /\ WF_ricvars(which = "ric" /\ RicPoll)
    /\ WF_phvars(which = "photo" /\ ric_photo_poll)
    /\ WF_tlvars(which = "timelapse" /\ TlTime)
    /\ WF_tlvars(which = "timelapse" /\ TlFrame(TRUE))
RecordingSpec ==
    /\ RecordingInit
    /\ [][RecordingNext]_<<which, pbvars, recvars, tlvars, rmdvars, ricvars, phvars>>
    /\ RecordingFairness

-----------------------------------------------------------------------------
\* Every part's state has its type.
TypesOK == PbTypeOK /\ RecTypeOK /\ RmdTypeOK /\ RicTypeOK /\ TlTypeOK /\ PhTypeOK

\* What rmr leaves on the card can be decoded: segments and clips have no
\* hole and no fragment before a keyframe, but a clip whose pre-buffer is
\* shorter than a group of pictures; of the pre-roll the newest frames that
\* fit its region are the ones pushed (rmr_main.c, rmr_prebuf.c); a timelapse
\* file has one rate, one codec, one geometry throughout and no sample too
\* many or too few (rmr_timelapse.c).
RecordingIntact == SegmentDecodable /\ ClipDecodable /\ ReplayIntact /\ TimelapseTrue

\* A clip covers the time around the motion: its pre-roll is as long as
\* configured when it can be and, but for the first group of pictures, no
\* older (rmr_prebuf.c), and rmd ends it only after the post-roll (rmd_main.c).
RollsKept == [](WindowMet /\ PreRollBounded) /\ PostRoll

\* Daylight that stays brings day mode back, although IR wash hides it, and
\* darkness that stays never leaves the camera in day mode; the hardware goes
\* with the mode (ric_daynight.c).  The photo trigger looks for what its mode
\* lacks, finds every night, and day but for two holes (ric_photo.c).
LightFollowed ==
    /\ DayReturns /\ NightReturns
    /\ [](HardwareMatches /\ PhotoWatches) /\ PhotoFollows

\* Motion that stays is recorded and a quiet scene is not (rmd_main.c); a
\* recording that is stopped ends up closed, one that is wanted is taken up
\* again through standby, restarts of rvd and failed opens (rmr_main.c), and
\* a timelapse goes on (rmr_timelapse.c).
RecordingFollows ==
    /\ MotionRecorded /\ RecordingEnds /\ StopCloses
    /\ <>[](which = "recorder" /\ rvdUp /\ recording /\ storeUp) => []<>segment.open
    /\ TimelapseGoesOn
=============================================================================
