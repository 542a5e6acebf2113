---------------------------- MODULE RvdPipeline ----------------------------
(***************************************************************************)
(* rvd's stream life cycle: the control thread that stops, tears down,     *)
(* rebuilds and restarts a video stream, its paired snapshot channel and   *)
(* the motion thread on its framesource (rvd_ctrl.c, rvd_pipeline.c),      *)
(* against the encoder threads that keep polling those channels            *)
(* (rvd_frame_loop.c).                                                     *)
(*                                                                         *)
(* One video stream "v" and its snapshot stream "j" share a framesource;   *)
(* IVS is bound to it.  A control command is a list of steps, `todo',      *)
(* executed by the one control thread; the encoder threads interleave with *)
(* every step, and the joins are steps that wait for them.                 *)
(***************************************************************************)
EXTENDS Integers, Sequences

CONSTANTS Pics,       \* the pictures a stream can be asked for
          PicW, PicH, \* their width and height
          BootPic,    \* the configured one
          Turned,     \* [image] rotate is 90 or 270
          Stuck,      \* the board yields no frame with two DMA buffers
          Pulse       \* the backend duty-cycles its snapshot channel

VARIABLES
    enc,     \* per stream: the encoder channel, its thread and its ring
    fs,      \* the shared framesource
    ivs,     \* motion detection: active flag, thread, receiving, bound
    todo,    \* steps the control thread still has to run
    cmd,     \* the control command being run
    readers  \* snapshot consumers: none, one live, one dead but counted

\* Pictures have a size, and "none" is not one of them.
ASSUME RvdPipelineConstants ==
    /\ BootPic \in Pics /\ "none" \notin Pics
    /\ \A p \in Pics : PicW[p] \in Nat /\ PicH[p] \in Nat
    /\ Turned \in BOOLEAN /\ Stuck \in BOOLEAN /\ Pulse \in BOOLEAN

pvars == <<enc, fs, ivs, todo, cmd, readers>>

Streams == {"v", "j"}

----------------------------------------------------------------------------
(* How large a snapshot ring has to be.                                    *)

RVD_JPEG_RING_MAX == 1048576

rvd_jpeg_ring_slots(fps) == IF fps >= 9 THEN 16 ELSE IF fps >= 3 THEN 8 ELSE 4

rvd_jpeg_frame_bound(w, h) == (w * h) \div 2 + 32768

AtLeast(n, lo) == IF n < lo THEN lo ELSE n
AtMost(n, hi)  == IF n > hi THEN hi ELSE n

JpegRingUnbounded(w, h, quality, fps) ==
    LET avg == AtLeast((w * h) \div 16, 16384)
    IN  AtMost(avg * rvd_jpeg_ring_slots(fps), RVD_JPEG_RING_MAX)

rvd_jpeg_ring_data(w, h, quality, fps) ==
    LET divisor == IF quality >= 90 THEN 6 ELSE IF quality >= 70 THEN 16 ELSE 24
        avg     == AtLeast((w * h) \div divisor, 16384)
        data    == AtMost(avg * rvd_jpeg_ring_slots(fps), RVD_JPEG_RING_MAX)
    IN  AtLeast(data, rvd_jpeg_frame_bound(w, h))

RSS_RING_MAX_SLOTS == 64

\* The largest power of two not above the clamped request.
clamp_ring_slots(slots) ==
    LET n == AtMost(AtLeast(slots, 2), RSS_RING_MAX_SLOTS)
    IN  CHOOSE p \in {1, 2, 4, 8, 16, 32, 64} : p <= n /\ p * 2 > n

\* A video ring's data region: the bitrate's frame with I-frame headroom,
\* times the slots, between the floor and the ceiling of its kind.
VideoRingData(bps, fps, gop, slots, main) ==
    LET mult  == IF gop > 0 /\ gop <= 2 THEN 8 ELSE 4
        rate  == IF fps = 0 THEN 25 ELSE fps
        frame == AtLeast(((bps * mult) \div 8) \div rate, IF main THEN 8192 ELSE 4096)
        data  == frame * clamp_ring_slots(slots)
    IN  AtMost(AtLeast(data, IF main THEN 262144 ELSE 131072),
               IF main THEN 8388608 ELSE 4194304)

\* The ring a stream gets the first time it is built; 0 is no ring yet.
NewRing(s, p) ==
    IF s = "j" THEN rvd_jpeg_ring_data(PicW[p], PicH[p], 75, 1)
    ELSE VideoRingData(3000000, 25, 25, 32, TRUE)

----------------------------------------------------------------------------
(* The per-stream primitives.  Each is a function of the stream's record.  *)

\* An encoder is sized for what the framesource emits, so the picture is
\* swapped when the framesource turned it.
Stopped == [made |-> FALSE, on |-> FALSE, active |-> FALSE, thread |-> "off", ring |-> 0, sized |-> "none",
            pic |-> "none", swapped |-> FALSE, fresh |-> FALSE, seen |-> FALSE]

\* The mutation that leaves a reused ring describing the replaced region.
Init1Stale(r, s) ==
    [r EXCEPT !.made = TRUE, !.fresh = (r.ring = 0),
              !.ring = IF r.ring = 0 THEN NewRing(s, r.pic) ELSE r.ring,
              !.sized = IF r.ring = 0 THEN r.pic ELSE r.sized]

\* rvd_stream_init: encoder channel, bind chain, then the ring - created
\* once for the picture of that moment ("sized"), reused afterwards at that
\* size whatever the picture, with its header and its reference region
\* re-declared.
Init1(r, s) ==
    [r EXCEPT !.made = TRUE, !.fresh = TRUE,
              !.ring = IF r.ring = 0 THEN NewRing(s, r.pic) ELSE r.ring,
              !.sized = IF r.ring = 0 THEN r.pic ELSE r.sized]

\* A failed init rolls its own channel back; the ring of an earlier life stays.
Rollback(r) == [r EXCEPT !.made = FALSE]

\* rvd_stream_deinit does nothing for a stream that never had a ring.
\* Otherwise it destroys the channel and the region its frames lived in.
Deinit1(r) == IF r.ring = 0 THEN r ELSE [r EXCEPT !.made = FALSE, !.fresh = FALSE]

\* The bind chain includes IVS only if it is active while it is built.
BuildChain(ok) == [ivs EXCEPT !.bound = ok /\ ivs.active]

----------------------------------------------------------------------------
(* Control commands, as the steps their handlers perform.                  *)

NoCommand == [kind |-> "none", hasIvs |-> FALSE, old |-> "none"]

\* What "stop, tear down, rebuild, start" is for the pair.
StopPair   == << <<"quit", "j">>, <<"join", "j">>, <<"quit", "v">>, <<"join", "v">> >>
DeinitPair == << <<"deinit", "j">>, <<"deinit", "v">> >>
StartPair  == << <<"start", "v">>, <<"start", "j">> >>
IvsDown(h) == IF h THEN << <<"ivspause", "v">>, <<"ivsjoin", "v">> >> ELSE <<>>
IvsMark(h) == IF h THEN << <<"ivsmark", "v">> >> ELSE <<>>
IvsUp(h)   == IF h THEN << <<"ivsstart", "v">> >> ELSE <<>>

HasIvs == ivs.active
Gone   == \A s \in Streams : enc[s].ring = 0

\* The mutation that destroys the video group before the snapshot channel
\* registered in it.
RestartSwapped(h, fsRemake) ==
    IvsDown(h) \o StopPair \o << <<"deinit", "v">>, <<"deinit", "j">> >> \o IvsMark(h)
        \o << <<"init", "v">>, <<"init", "j">> >> \o StartPair \o IvsUp(h)

\* do_stream_restart_ex, up to the video init whose outcome decides the rest.
do_stream_restart(h, fsRemake) ==
    IvsDown(h) \o StopPair \o DeinitPair \o IvsMark(h)
        \o (IF fsRemake THEN << <<"fsmake", "v">> >> ELSE <<>>)
        \o << <<"init", "v">>, <<"init", "j">> >> \o StartPair \o IvsUp(h)

Begin(kind, steps, old) ==
    /\ todo = <<>> /\ ~Gone
    /\ todo' = steps
    /\ cmd' = [kind |-> kind, hasIvs |-> HasIvs, old |-> old]
    /\ UNCHANGED <<fs, ivs, readers>>

\* stream-restart; set-codec is the same around a codec that is put back
\* when the restart fails.
StreamRestart ==
    Begin("restart", do_stream_restart(HasIvs, FALSE), "none") /\ UNCHANGED enc

StreamStop ==
    /\ enc["v"].active
    /\ Begin("stop", IvsDown(HasIvs) \o (IF enc["j"].active THEN StopPair ELSE SubSeq(StopPair, 3, 4)),
             "none")
    /\ UNCHANGED enc

\* stream-start brings IVS back when it is configured and was stopped.
StreamStart ==
    /\ ~enc["v"].active /\ enc["v"].ring # 0
    /\ Begin("start", << <<"start", "v">> >>
                 \o (IF enc["j"].ring # 0 /\ ~enc["j"].active THEN << <<"start", "j">> >> ELSE <<>>)
                 \o IvsUp(~ivs.active), "none")
    /\ UNCHANGED enc

\* set-resolution stops first and mutates with the threads gone.
SetResolution(p) ==
    /\ enc["v"].pic # p
    /\ Begin("resolution",
             IvsDown(HasIvs) \o StopPair \o << <<"resize", p>> >> \o DeinitPair \o IvsMark(HasIvs)
               \o << <<"init", "v">>, <<"init", "j">> >> \o StartPair \o IvsUp(HasIvs),
             enc["v"].pic)
    /\ UNCHANGED enc

\* set-jpeg-quality, where the backend has no live table: recreate "j" alone.
SetJpegQuality ==
    /\ Begin("quality", << <<"quit", "j">>, <<"join", "j">>, <<"deinit", "j">>,
                           <<"init", "j">>, <<"start", "j">> >>, "none")
    /\ UNCHANGED enc

\* osd-restart tears every stream down and rebuilds it around a new pool.
OsdRestart ==
    /\ Begin("osd", do_stream_restart(HasIvs, FALSE), "none") /\ UNCHANGED enc

\* SIGTERM: the frame loop stops the streams in order and joins, then
\* rvd_pipeline_deinit tears them down in reverse and destroys the rings.
Shutdown ==
    /\ Begin("down", SubSeq(StopPair, 3, 4) \o SubSeq(StopPair, 1, 2) \o IvsDown(HasIvs)
                 \o DeinitPair \o << <<"destroy", "v">> >>, "none")
    /\ UNCHANGED enc

\* The mutation that looks for a stream that has produced.
VbsFallbackLate ==
    /\ enc["v"].on /\ enc["v"].ring # 0 /\ enc["v"].seen
    /\ fs.vbs = 2
    /\ todo = <<>>
    /\ todo' = do_stream_restart(HasIvs, TRUE)
    /\ cmd' = [kind |-> "vbs", hasIvs |-> HasIvs, old |-> "none"]
    /\ fs' = [fs EXCEPT !.vbs = 1]
    /\ UNCHANGED <<enc, ivs, readers>>

\* The frame loop's one-shot single-buffer fallback for a silent stream.
VbsFallback ==
    /\ enc["v"].on /\ enc["v"].ring # 0 /\ ~enc["v"].seen
    /\ fs.vbs = 2
    /\ todo = <<>>
    /\ todo' = do_stream_restart(HasIvs, TRUE)
    /\ cmd' = [kind |-> "vbs", hasIvs |-> HasIvs, old |-> "none"]
    /\ fs' = [fs EXCEPT !.vbs = 1]
    /\ UNCHANGED <<enc, ivs, readers>>

----------------------------------------------------------------------------
(* The control thread's steps.                                             *)

Step == Head(todo)
Advance == todo' = Tail(todo) /\ cmd' = IF Len(todo) = 1 THEN NoCommand ELSE cmd
OnlyEnc == UNCHANGED <<fs, ivs, readers>>

IvsPause ==
    /\ todo # <<>> /\ Step[1] = "ivspause"
    /\ ivs' = [ivs EXCEPT !.active = FALSE]
    /\ Advance /\ UNCHANGED <<enc, fs, readers>>

IvsJoin ==
    /\ todo # <<>> /\ Step[1] = "ivsjoin" /\ ~ivs.thread
    /\ Advance /\ UNCHANGED <<enc, ivs>> /\ UNCHANGED <<fs, readers>>

IvsMarkActive ==
    /\ todo # <<>> /\ Step[1] = "ivsmark"
    /\ ivs' = [ivs EXCEPT !.active = TRUE]
    /\ Advance /\ UNCHANGED <<enc, fs, readers>>

\* Resume detection and launch the thread; a refused thread clears the flag.
IvsStart(ok) ==
    /\ todo # <<>> /\ Step[1] = "ivsstart"
    /\ ivs' = [ivs EXCEPT !.active = ok, !.thread = ok]
    /\ Advance /\ UNCHANGED <<enc, fs, readers>>

\* rvd_stream_stop, first half: ask the encoder thread to leave.
Quit ==
    /\ todo # <<>> /\ Step[1] = "quit"
    /\ enc' = [enc EXCEPT ![Step[2]].active = FALSE]
    /\ Advance /\ OnlyEnc

JoinedNever(s) == TRUE

\* Second half: the join, then the encoder, then the framesource.
Joined(s) == enc[s].thread = "off"

Join ==
    /\ todo # <<>> /\ Step[1] = "join" /\ Joined(Step[2])
    /\ enc' = [enc EXCEPT ![Step[2]].on = FALSE]
    /\ fs' = IF Step[2] = "v" THEN [fs EXCEPT !.on = FALSE] ELSE fs
    /\ Advance /\ UNCHANGED <<ivs, readers>>

Deinit ==
    /\ todo # <<>> /\ Step[1] = "deinit"
    /\ enc' = [enc EXCEPT ![Step[2]] = Deinit1(@)]
    /\ ivs' = IF Step[2] = "v" /\ enc["v"].ring # 0 THEN [ivs EXCEPT !.bound = FALSE] ELSE ivs
    /\ Advance /\ UNCHANGED <<fs, readers>>

\* The encoder geometry moves to what was asked for, as it was asked for.
Resize ==
    /\ todo # <<>> /\ Step[1] = "resize"
    /\ enc' = [enc EXCEPT !["v"].pic = Step[2], !["v"].swapped = FALSE]
    /\ Advance /\ OnlyEnc

\* The framesource is destroyed and created again for its new buffer count.
FsRemake ==
    /\ todo # <<>> /\ Step[1] = "fsmake"
    /\ fs' = [fs EXCEPT !.turned = FALSE]
    /\ Advance /\ UNCHANGED <<enc, ivs, readers>>

RingsDestroyed ==
    /\ todo # <<>> /\ Step[1] = "destroy"
    /\ enc' = [s \in Streams |-> [enc[s] EXCEPT !.ring = 0]]
    /\ Advance /\ OnlyEnc

\* "j" inherits the picture of "v" as it is rebuilt beside it.
Inherit(s) == IF s = "j" /\ cmd.kind \in {"restart", "resolution", "vbs"}
              THEN [enc["j"] EXCEPT !.pic = enc["v"].pic, !.swapped = enc["v"].swapped]
              ELSE enc[s]

InitOk ==
    /\ todo # <<>> /\ Step[1] = "init"
    /\ (Step[2] = "j" => enc["v"].made)
    /\ enc' = [enc EXCEPT ![Step[2]] = Init1(Inherit(Step[2]), Step[2])]
    /\ ivs' = IF Step[2] = "v" THEN BuildChain(TRUE) ELSE ivs
    /\ Advance /\ UNCHANGED <<fs, readers>>

\* What the handlers do when the video init fails: a restart
\* gives up, set-resolution puts the picture back and tries once
\* more for the video alone, osd-restart goes on without the stream.
AfterVideoFails ==
    /\ todo' = CASE cmd.kind = "resolution" -> << <<"reinit", "v">> >>
                 [] cmd.kind = "osd" -> IvsUp(cmd.hasIvs)
                 [] OTHER -> <<>>
    /\ cmd' = IF todo' = <<>> THEN NoCommand ELSE cmd
    /\ enc' = [enc EXCEPT !["v"] =
                  [Rollback(@) EXCEPT !.pic = IF cmd.old = "none" THEN enc["v"].pic ELSE cmd.old]]
    /\ ivs' = IF cmd.hasIvs /\ cmd.kind \notin {"osd", "resolution"}
              THEN [ivs EXCEPT !.active = FALSE] ELSE ivs
    /\ UNCHANGED <<fs, readers>>

\* A snapshot init that fails is not fatal; its start is then skipped where
\* the handler looks, and tried where only the ring is asked about.
AfterSnapFails ==
    /\ todo' = IF cmd.kind = "quality" THEN << <<"reinit", "j">> >>
               ELSE IF cmd.kind = "osd" \/ enc["j"].ring = 0
                    THEN << <<"start", "v">> >> \o IvsUp(cmd.hasIvs)
                    ELSE Tail(todo)
    /\ enc' = [enc EXCEPT !["j"] = Rollback(Inherit("j"))]
    /\ UNCHANGED <<cmd, fs, ivs, readers>>

InitFails ==
    /\ todo # <<>> /\ Step[1] = "init"
    /\ IF Step[2] = "v" THEN AfterVideoFails ELSE AfterSnapFails

\* The second try with the old settings.
Reinit(ok) ==
    /\ todo # <<>> /\ Step[1] = "reinit"
    /\ (Step[2] = "j" /\ ok => enc["v"].made)
    /\ enc' = [enc EXCEPT ![Step[2]] = IF ok THEN Init1(@, Step[2]) ELSE Rollback(@)]
    /\ ivs' = IF Step[2] = "j" THEN ivs
              ELSE IF ok THEN BuildChain(TRUE)
              ELSE IF cmd.hasIvs THEN [ivs EXCEPT !.active = FALSE] ELSE ivs
    /\ todo' = IF ~ok THEN <<>>
               ELSE << <<"start", Step[2]>> >>
                        \o (IF Step[2] = "v" THEN IvsUp(cmd.hasIvs) ELSE <<>>)
    /\ cmd' = IF todo' = <<>> THEN NoCommand ELSE cmd
    /\ UNCHANGED <<fs, readers>>

\* rvd_stream_start.  An idle snapshot channel is left to its thread; any
\* other is started here, and the framesource before it.
Start(ok) ==
    /\ todo # <<>> /\ Step[1] = "start"
    /\ LET s == Step[2] IN
        /\ (s = "v" /\ ok => enc["v"].made)
        \* a refused encoder leaves the framesource on, a refused thread does not
        /\ \E left \in BOOLEAN :
              fs' = IF s = "v" THEN [fs EXCEPT !.on = ok \/ left] ELSE fs
        /\ enc' = IF ~ok THEN enc
                  ELSE [enc EXCEPT ![s].active = TRUE, ![s].thread = "top", ![s].on = (s = "v")]
    /\ Advance /\ UNCHANGED <<ivs, readers>>

----------------------------------------------------------------------------
(* The encoder threads.                                                    *)

EncOnly == UNCHANGED <<fs, ivs, todo, cmd, readers>>

\* The mutation whose idle wait does not look at the stop flag.
LeaveBusy(s) ==
    /\ enc[s].thread = "top" /\ ~enc[s].active /\ (s = "j" => readers # "none")
    /\ enc' = [enc EXCEPT ![s].thread = "off"]
    /\ EncOnly

Leave(s) ==
    /\ enc[s].thread = "top" /\ ~enc[s].active
    /\ enc' = [enc EXCEPT ![s].thread = "off"]
    /\ EncOnly

\* A snapshot thread with no consumer stops its encoder and waits; it comes
\* back to the top, where it sees a stop.
SnapIdle ==
    /\ enc["j"].thread = "top" /\ enc["j"].active
    /\ readers = "none" /\ enc["j"].on
    /\ enc' = [enc EXCEPT !["j"].on = FALSE]
    /\ EncOnly

\* Every ten seconds a consumer that died holding the ring is reaped.
Reap ==
    /\ enc["j"].thread = "top" /\ enc["j"].active /\ readers = "dead"
    /\ readers' = "none"
    /\ UNCHANGED <<enc, fs, ivs, todo, cmd>>

\* Demand starts the encoder; a start the HAL refuses is retried.
SnapStart ==
    /\ enc["j"].thread = "top" /\ enc["j"].active
    /\ readers # "none" /\ ~enc["j"].on /\ enc["j"].made
    /\ enc' = [enc EXCEPT !["j"].on = TRUE, !["j"].thread = "poll"]
    /\ EncOnly

\* An enabled channel is polled for a second.
EnterPoll(s) ==
    /\ enc[s].thread = "top" /\ enc[s].active /\ enc[s].on
    /\ (s = "j" => readers # "none")
    /\ enc' = [enc EXCEPT ![s].thread = "poll"]
    /\ EncOnly

Yields(s) == enc[s].on /\ fs.on /\ ~(Stuck /\ fs.vbs = 2)

\* A frame is published, and a pulsed snapshot channel stops receiving.
PollFrame(s) ==
    /\ enc[s].thread = "poll" /\ Yields(s)
    /\ enc' = [enc EXCEPT ![s].thread = "top", ![s].seen = (s = "v"),
                          ![s].on = @ /\ ~(s = "j" /\ Pulse)]
    /\ EncOnly

\* No frame within the poll, or one that was dropped: back to the top.
PollTimeout(s) ==
    /\ enc[s].thread = "poll"
    /\ enc' = [enc EXCEPT ![s].thread = "top"]
    /\ EncOnly

IvsThread ==
    /\ ivs.thread /\ ~ivs.active
    /\ ivs' = [ivs EXCEPT !.thread = FALSE]
    /\ UNCHANGED <<enc, fs, todo, cmd, readers>>

----------------------------------------------------------------------------
(* Consumers of the snapshot ring.   *)

Attach == readers = "none" /\ readers' = "live" /\ UNCHANGED <<enc, fs, ivs, todo, cmd>>
Detach == readers = "live" /\ readers' = "none" /\ UNCHANGED <<enc, fs, ivs, todo, cmd>>
ReaderDies    == readers = "live" /\ readers' = "dead" /\ UNCHANGED <<enc, fs, ivs, todo, cmd>>

----------------------------------------------------------------------------
\* rvd_pipeline_init has built both streams; rvd_frame_loop starts them.
PInit ==
    /\ enc = [s \in Streams |->
                 Init1([Stopped EXCEPT !.pic = BootPic, !.swapped = Turned], s)]
    /\ fs = [on |-> FALSE, vbs |-> 2, turned |-> Turned]
    /\ ivs = [active |-> TRUE, thread |-> TRUE, bound |-> TRUE]
    /\ todo = StartPair /\ cmd = [NoCommand EXCEPT !.kind = "boot"]
    /\ readers = "none"


Commands ==
    \/ StreamRestart \/ StreamStop \/ StreamStart \/ SetJpegQuality \/ OsdRestart \/ Shutdown
    \/ \E p \in Pics : SetResolution(p)

Control ==
    \/ IvsPause \/ IvsJoin \/ IvsMarkActive \/ Quit \/ Join \/ Deinit \/ Resize \/ RingsDestroyed
    \/ FsRemake \/ InitOk \/ InitFails
    \/ \E ok \in BOOLEAN : IvsStart(ok) \/ Reinit(ok) \/ Start(ok)

Threads ==
    \/ \E s \in Streams : Leave(s) \/ EnterPoll(s) \/ PollFrame(s) \/ PollTimeout(s)
    \/ SnapIdle \/ SnapStart \/ Reap \/ IvsThread

PNext ==
    \/ Commands \/ VbsFallback \/ Control \/ Threads
    \/ Attach \/ Detach \/ ReaderDies

\* Every thread keeps running; a poll ends within its second; a channel that
\* yields delivers; the control thread runs its steps.
PFair ==
    /\ WF_pvars(Control)
    /\ SF_pvars(VbsFallback)
    /\ \A s \in Streams : WF_pvars(Leave(s)) /\ WF_pvars(EnterPoll(s)) /\ WF_pvars(PollTimeout(s))
    /\ SF_pvars(PollFrame("v"))
    /\ WF_pvars(SnapIdle) /\ WF_pvars(SnapStart) /\ SF_pvars(Reap) /\ WF_pvars(IvsThread)

PSpec == PInit /\ [][PNext]_pvars /\ PFair

----------------------------------------------------------------------------
(* Properties.                                                             *)

PTypeOK ==
    /\ enc \in [Streams -> [made : BOOLEAN, on : BOOLEAN, active : BOOLEAN, thread : {"off", "top", "poll"},
                            ring : Nat, sized : Pics \cup {"none"}, pic : Pics, swapped : BOOLEAN, fresh : BOOLEAN, seen : BOOLEAN]]
    /\ fs \in [on : BOOLEAN, vbs : {1, 2}, turned : BOOLEAN]
    /\ ivs \in [active : BOOLEAN, thread : BOOLEAN, bound : BOOLEAN]
    /\ todo \in Seq(Seq({"quit", "join", "deinit", "init", "reinit", "start", "resize",
                         "fsmake", "destroy", "ivspause", "ivsjoin", "ivsmark", "ivsstart", "v", "j"}
                        \cup Pics))
    /\ readers \in {"none", "live", "dead"}

\* No encoder thread polls a channel the control thread has destroyed, and
\* the snapshot channel never outlives the video group it registered in,
\* whatever command interrupts whatever thread.
ChannelsHeld ==
    /\ \A s \in Streams : enc[s].thread = "poll" => enc[s].made
    /\ enc["j"].made => enc["v"].made

\* A running stream's ring describes the stream: its header carries the
\* picture being encoded and its reference region is the one being written,
\* although the ring is older than the encoder behind it.
RingDescribes ==
    \A s \in Streams :
        enc[s].thread = "poll" => enc[s].fresh

Pixels(p) == PicW[p] * PicH[p]

\* The snapshot ring holds one whole frame of the picture being encoded, as
\* rvd_ring_size.c asks, through every rebuild, and after a resize to any
\* picture no larger than the one it was created for.  A larger one is the
\* exception: set-resolution reuses the ring at its old size
\* (rvd_pipeline.c, create_ring), and then a frame can be too large to
\* publish.
RingFits ==
    LET j == enc["j"] IN
    j.ring # 0 /\ Pixels(j.pic) <= Pixels(j.sized) =>
        j.ring >= rvd_jpeg_frame_bound(PicW[j.pic], PicH[j.pic])

\* Holds again and again: a control command comes to its end, no join waits
\* for a thread that never leaves.
CommandOver == todo = <<>>

\* Holds again and again: a stream that is silent with two buffers is rebuilt
\* with one and delivers, unless a command stops it or its rebuild fails.
SilenceOver == Stuck => enc["v"].seen \/ ~enc["v"].active \/ ~enc["v"].made

\* Holds again and again: a snapshot consumer that died does not keep the
\* encoder running: its slot is reaped, unless the stream is stopped for good.
DeadReleased == readers # "dead" \/ ~enc["j"].active

=============================================================================
