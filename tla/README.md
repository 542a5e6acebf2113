# Verification of raptor

raptor is the streaming system of a network camera: a set of small C daemons
around shared-memory frame rings and control sockets. This directory holds TLA+
models of the parts whose correctness depends on the order of events, the TLC
configurations that check them, and TLAPS proofs of what matters most.
`PROJECT.json` lists components, runs, mutants, hazards, findings and theorems,
and maps every definition to the source lines it models.

    tlc -config Viewers.cfg MCViewers        # one run
    tlapm RecordingProofs.tla                # the proofs of one module

## 1. Inventory

### How the parts interact

    sensor -> [rvd] == rings main, sub, jpeg0, jpeg1 ==> [rsd] [rsd-555] [rwd] [rhd] [rmr] [rsp] [rsr] [rwc]
    mic    -> [rad] == ring audio ==> the same readers;    ring speaker ==> [rad]
    [rod] == OSD double buffers ==> [rvd];  [ric] [rmd] -- commands --> [rvd];  [rmd] -- start/stop --> [rmr]
    [rcd] owns raptor.conf and restarts daemons;  [rmq] [raptorctl] [rhd] -- commands --> [rcd]

A ring has one writer and any number of readers. A reader that is too slow is
lapped (`RSS_EOVERFLOW`) and resynchronises to the newest frame; a writer that
restarts leaves its readers with a mapping that never changes again. Neither the
ring library (raptor-ipc) nor the HAL is in this repository: both are modelled from
how the daemons use them.

### Components

| Component | State it keeps | Operations | What is hard | What makes it correct |
|---|---|---|---|---|
| rvd pipeline, frame loop | streams, encoder channels, one thread per stream, rings | start, stop, restart a stream, publish, on-demand JPEG, IDR requests | a rebuild against running threads, half of it failing | every started thread is joined, a failed rebuild leaves the old stream or none |
| rvd control, IVS, OSD | tuning values, OSD regions, detection results | some 100 commands, region scan | producers that come and go over a fixed pool of hardware regions | a region is held only for a live producer |
| rad | capture and speaker device state, synthetic clock | enable, disable, capture, play, codec switch | clock drift, stalls and drains | published time never runs back except by a resync, and tracks real time |
| rsd send queue | circular array, drop counters, condition variable | push video, push audio, pop, drain, shut down | overflow with two drop policies, overtaking, teardown | ownership, order, accounting, no lost wake-up |
| rsd streaming | ring position per stream, client list, gate per client | accept, SETUP, PLAY, PAUSE, TEARDOWN, read, push, send, remove | reader, session and send threads interleaved with laps and restarts of the ring | what a client is sent can be decoded; the gate opens again; dead rings are left |
| rsd sessions, SDP, backchannel | transports, codecs told to the client | DESCRIBE, session timeout, backchannel claim | stale SDP after a codec change | a client is dropped when what it was told is no longer true |
| rsd-555 | reference-counted frames in a queue | read, deliver | callbacks of live555 | as rsd |
| rwd | clients, ICE, DTLS, send queue, pacer | signalling, keyframe gate, pacing, feedback | client slots reused while threads send | as rsd, and bounded burst |
| rhd | connections, reference-counted frames, round trips to rcd, login delays | snapshot, MJPEG, audio, API, claim | replacing queue, on-demand JPEG held by viewers, clients gone before the answer | a frame and a round trip are released once, viewers are served again, a slot comes back |
| rmr recorder | segment, clip, pre-buffer, standby | commands, read, rotate, reconnect, standby | lost frames, card swaps, rvd restarts in the middle of a file | files decode, a stop closes, recording resumes |
| rmr pre-buffer | slots over a bump-allocated region | push, find keyframe, replay | wrap-around | the pre-roll is intact and as long as configured |
| rmr storage, timelapse, mux, signature | directory walk, tracks, hash chain | quota, open, fragment, sign | deleting while writing, power cuts | the newest recordings survive; a chain verifies |
| rmd | idle/active/cooldown, recording flag, pin | poll, shutdown | lost commands, flapping motion | post-roll, every start has its stop |
| ric | mode, trigger state, lockout, LED banks | poll, probe, verify, operator and bench commands | reflected IR feeds back into the measurement, rvd outages | hardware follows the mode, no oscillation, day and night come back |
| rcd guard | snapshot, deadline, retries, record on flash | set, apply, confirm, cancel, tick, load | power cuts and failures between any two steps | an unconfirmed change can be undone, and is |
| rcd config and apply | drift list, owed saves | set, reset, apply, restart | partial failure of a batch, quiescing rad around rvd | drift is never hidden, what was quiesced is resumed |
| rcd schema, state, system | key table, system files | validate, render, store, enact | a setting kept in two places and a power cut between them; one value through four types | files their readers can use after any order of settings; what is shown can be sent back |
| rsp, rsr | connection, ring position | connect, header, send, reconnect | two peers that come and go | headers and a keyframe before anything else |
| rmq | broker connection, discovery record, snapshot URL | connect, poll, publish, relay, browse | lost publications, restarts that forget, late mDNS answers | Home Assistant takes every document; the retained state comes to be true |
| rod | elements, fonts, places, receipt lines | add, remove, edit, show, render | shared fonts and places over failing loads | one owner per place, counted fonts, what is shown is drawn |
| rfs, rwc | demuxer, gadget | play, stream | mostly data | outside the models |
| raptorctl, rac, ringdump, rlatency, rverify, mdnsprobe | none | one-shot | - | not modelled |

The hazards, each at its source line with the properties that would catch it, are
in `PROJECT.json`.

## 2. Modules

One module per component; an `MC` module puts components that share nothing side by
side and names the properties of the group.

| Suite | Components |
|---|---|
| `MCRsd` | `RsdStream` (reader, sessions, send threads), `RsdSendq` (circular queue) with its abstract specification `SendqPolicy` |
| `MCRecording` | `RmrPrebuf`, `RmrRecorder`, `RmrTimelapse`, `RmdMotion`, `RicDayNight`, `RicPhoto` |
| `MCViewers` | `RwdMedia`, `RwdSessions`, `RwdAudio`, `RhdStream`, `RhdRequests`, `RspPush`, `RsrFanout` |
| `MCVideo` | `RvdPipeline`, `RvdTable`, `RvdSettings`, `RvdIvs`, `RvdPublish`, `RvdOsd` |
| `MCSources` | `RadInput`, `RadOutput`, `RadClock`, `RodElements`, `RodReceipt` |
| `MCControl` | `RcdGuard`, `RcdApply`, `RcdStores`, `RcdValues`, `RmqBridge`, `RmqMdns` |

| Proofs | About |
|---|---|
| `RsdStreamProofs` | `RsdStream` |
| `RsdSendqProofs` | `RsdSendq`, and that it implements `SendqPolicy` |
| `RecordingProofs` | the suite `MCRecording`, and `RicDayNight` on its own |
| `ViewersProofs` | the suite `MCViewers` |
| `VideoProofs` | the suite `MCVideo` |
| `SourcesProofs` | the suite `MCSources` |
| `ControlProofs` | `RcdApply`, `RcdStores`, `RmqBridge` and `RmqMdns` in the suite `MCControl`, and `RcdGuard` on its own |

In a suite the variable `which` is chosen in the initial state and never changes; only
the chosen component moves, under its own fairness, and the others rest in one initial
state. The components of a suite have no variable in common, so every behaviour of
every component occurs, and a property that fails in one of them fails in the suite.
What is not explored is the product of independent components, in which nothing new
could happen. Where two daemons do interact the peer is part of the module: rmr in
`RmdMotion`, rvd in `RadInput`, rod in `RvdOsd`, rvd and rad in `RcdApply`, rcd and the
broker in `RmqBridge`, rcd in `RhdRequests`, the rings everywhere.

### State and actions

**RsdSendq** (`rsd_sendq.c`, the send thread of `rsd_ring_reader.c`, `remove_client`).
`entries`, `head`, `tail`, `count`, `shutdown` are the fields of `rsd_sendq_t`. What
happens under `q->lock` is one action. The condition variable is the state "wait" of
`thread`. A payload is the number of its push; `freed`, `sent`, `lost` are ghosts.
`SendqPolicy` says the same over sequences and is what `ImplementsPolicy` checks.

**RsdStream** (`rsd_ring_reader.c`, `rsd_session.c`, `rsd_server.c`). The ring is the
sequence `unread` of frame kinds the reader has not taken; `lapped` and `stale` are the
two ways it fails. Reader actions are the branches of `rsd_video_reader_thread`; session
actions are `Accept`, `Setup`, `Play`, `Pause` and the two halves of removal; sending is
`SendStart` (flags read without the lock) and `SendEnd`. A queued frame carries the gap
in front of it: "ring" where the reader itself missed frames, "own" where rsd withheld
or discarded frames of that client.

**RicDayNight** (`ric_daynight.c`, `ric_main.c`). One poll is one pass of the loop;
readings are abstracted to the comparisons the code makes. Operator and bench commands,
rvd outages and the scene are separate actions.

**RmrPrebuf**, **RmrRecorder** (`rmr_prebuf.c`, `rmr_main.c`). The pre-buffer is its slots
with offset, length and age (capped at the window: no greater age is told from another);
a push may come after a silence, and the region wraps over whatever lies there. A recorder
action is one pass of the record loop or one command. The pre-buffer's length is chosen at
the start and may be none (`preCap`, `prebuffer_sec = 0`); width and height are read once
(`geometry`), the codec anew with every ring. A file is open or not, of a track, and knows the
gap before its next frame; ghosts say whether the last frame taken can be decoded where
it was written, and why not.

**RmrTimelapse** (`rmr_timelapse.c`, the timelapse of `rmr_main.c`). `tl` is `rmr_tl_t`;
time is what is left until the next sample, and of `last_seq` only the ring it belongs to
is kept, because sequence numbers start again with a new ring. A file has the codec of the
ring and the size that rmr found at its own start. A frame is one action: the
tick, the sample, the rotation and the write, as in `timelapse_write_sample`. `tlBad` is a
ghost that names what went wrong with the last frame.

**RicPhoto** (`ric_photo.c`). The three phases of the EV and white-balance detector, one
poll one action. An EV is its level on a scale of 10 % steps, on which the code's ratios
are distances; of its sample rings only the first sample and the count are ever read.

**RmdMotion** (`rmd_main.c`, `rmd_actions.c`). One poll per poll interval, the recorder
as its peer, both restarting, rvd going silent.

**RvdPipeline** (`rvd_ctrl.c`, `rvd_pipeline.c`, `rvd_frame_loop.c`, `rvd_ring_size.c`).
A video stream and its snapshot stream on one framesource, with IVS bound to it. A
control command is the list `todo` of the steps the handler makes, in order; encoder,
snapshot and IVS threads run between any two of them, a step may fail where the code
looks at the result, and the failure branch replaces the rest of the list. The picture has
a size that set-resolution changes; a ring is created for the picture of that moment
(`sized`) and reused by every rebuild.

**RvdTable** (`rvd_pipeline.c`): the stream table of `rvd_pipeline_init`, its sensors,
groups, channel numbers and snapshot slots, and the compaction when a snapshot stream
is refused. **RvdSettings** (`rvd_ctrl.c`): what a command leaves in the encoder, the
stream's `enc_cfg` and the file, through rate-control changes, sensor rates, rebuilds,
saves and boots. **RvdIvs** (`rvd_ivs.c`): SDK objects in the vendor's order, the polling
thread, boxes, hold time, over a picture whose size set-resolution changes between pause
and resume while the zones stay those made when IVS was started. **RvdPublish** (`rvd_frame_loop.c`): one encoder frame through
the copy and the reference path and the UTC mapping. **RvdOsd** (`rvd_osd.c`): slots and
hardware regions over buffers that come, go and change size, merging of uptime into
time, the privacy cover, restarts.

**RadInput**, **RadOutput**, **RadClock** (`rad_main.c`, `rad_clock.c`, `rad_resync.c`,
the player of `rac_play.c`). The capture loop and its commands are one thread; a failing
`audio-restart` takes one of the four ways the handler has. The speaker thread takes its
atomics one action at a time; opening a ring succeeds, finds none, or finds no memory, after
which the thread is gone. The clock's state is the error between sample count and
monotonic time, with C's truncating division.

**RodElements**, **RodReceipt** (`rod_elem.c`, `rod_ctrl.c`, `rod_main.c`,
`rod_receipt.c`). Every command ends, as in the code, with the sync of the buffers. Which
fonts do not load and which elements' buffers are refused changes as memory does (`EFaults`);
a text without a font is not drawn, one whose font was let go is blanked. A receipt is drawn
into as many rows as its buffer has (`rows`).

**RwdMedia**, **RwdSessions**, **RwdAudio** (`rwd_media.c`, `rwd_sendq.c`, `rwd_main.c`,
`rwd_ice.c`, `rwd_dtls.c`, `rwd_signaling.c`, `rwd_sdp.c`). Reader, send thread and main
thread of one client; the session table with addresses that are proven, remembered and
pinned; the audio reader with its accumulator counted in samples.

**RhdStream**, **RhdRequests** (`rhd_main.c`, `rhd_api.c`, `rhd_authrate.c`,
`rhd_http.c`, `rhd_portal.c`). Frames are records with a reference count; the loop's
stages are `hpc`. A round trip has a client and a worker that leave in either order.
Login delays run on their own clock.

**RspPush**, **RsrFanout** (`rsp_main.c`, `rsp_rtmp.c`, `rsp_net.c`; `rsr_main.c`,
`rsr_srt.c`). One pass of the loop is a few actions; the server's script and the ring's
faults are chosen by the environment.

**RcdGuard** (`rcd_guard.c`, the provider branch of `rcd_cmd_set`, `enact_system`, the
drift list). `apply` is `Arm` and `Enact`, and a revert is `Back` (the stores), `UndoEnact`
and `UndoEnd`, because rcd or the power may go between them; `doing` says which comes next.
`record` is the file on flash, `marker` and `staleFile` the files on tmpfs; each of them may
fail to be written (`RecordWrite`, `ArmedWrite`, `ListSave`) or removed, and rcd goes on. The
ghost `proven` is what was in force when somebody last confirmed, `unrecorded` that the
record does not say what is armed, `unlisted` that the drift list lost a key; `hole` marks the
steps after which the design claims nothing (section 8).

**RcdApply** (`rcd_apply.c`, `rcd_config.c`, `rcd_ipc.c`, `rcd_state.c`, `rcd_main.c`). An
edit is live, filed or both; an apply is the loop over daemons with quiesce, restart,
the two waits with their timeouts, and resume. Daemons crash and come up late; rad does as
it is told, refuses, or does so after the question timed out (`Obeyed`). The drift list has
`DriftMax` entries, its file may not be written, and a batch whose write failed records
nothing; the ghost `unseen` holds the keys whose drift rcd lost or never knew of.

**RcdStores** (`rcd_network.c`, `rcd_system.c`, `rcd_passwd.c`, `rcd_wifi.c`): the system
files line by line, every write separately, any of them failing, the power going between
two. A file that was not synced (`loose`) may be emptied by the cut (`lost`). The interface file is a sequence of lines that `stanza_set` goes through token by
token (`PassLine`), as the loop over `strtok_r` does. **RcdValues** (`rcd_config.c`, `rcd_schema.c`, `rcd_osd.c`): `render`, `typed_value` and
`emit_value` as operators on short texts over character classes, checked over all
inputs of bounded length by sending a value, reading it and sending it again. A provider's
value is read as the provider reads it: a name server that is not stored is the lease's.

**RmqBridge**, **RmqMdns** (`src/rmq`). One turn of the serve loop is four actions; the
broker keeps retained documents, the will and what Home Assistant knows; Home Assistant comes
back and reads the retained document anew (`HaRejoins`). Subscriptions and publications fail
where the code ignores it, and raptor.conf's `[mqtt]` is one of `MqSetups`. The ghost `stray`
says that what Home Assistant holds came apart from rmq's record unseen.

Definitions whose comment begins with `mutant:` are deliberate bugs; each property of a
passing run has at least one that TLC shows to violate it, and a property of a suite
one for nearly every component it speaks of.

## 3. Runs

| Run | Question | Result |
|---|---|---|
| `rsd_stream` | After frames rsd withheld from a client, is the next one queued a keyframe, whatever laps, restarts, resizes, pauses and overflows happen? | holds |
| `rsd` | Does the circular queue keep ownership, order, accounting and wake-ups, implement the policy and drain; does the reader leave a dead ring and the gate open? | holds |
| `ric_daynight` | Do filter, banks and ISP follow the mode, and is a failed day switch kept from being retried before its lockout, with every command and outages? | holds |
| `recording` | Do files decode, is of a pre-roll what fits the region intact, are pre- and post-roll kept, do recordings start, stop and resume, do lasting day and night settle? | holds |
| `viewers` | Do viewers of rwd, rhd, rsp and rsr get something decodable, is what threads share alive while used, are only proven peers served, does everything come back and end? | holds |
| `video` | Does rvd use only SDK objects that exist, publish what its consumers rely on, keep its settings and recover? | holds |
| `sources` | Are rad's stream, clock and speaker what they claim, are rod's places and fonts owned once, do both come back? | holds |
| `control` | Are unconfirmed changes undone, drift reported, files and values sound, rad put back, the broker right, up to the exceptions the properties name (sections 7 and 8)? | holds |
| `rsd_stream_orphan` | Is no client sent a frame without its reference? | violated, finding 1 |
| `rmr_track` | Does a file keep one track? | violated, finding 2 |
| `rsr_resume` | Is an SRT client sent video again after rvd came back? | violated, finding 3 |
| `rsp_headers` | Do a connection's headers recover from a lapped keyframe? | violated, finding 4 |

### Why the bounds are enough

- `RsdSendq`: three slots are the fewest in which audio lies between two videos and
  across the wrap; six pushes overflow twice. `RsdStream`: clients meet only in the ring
  and the IDR request, so one client has every gate history; the theorem covers any
  number. A ring of one is lapped at once, a queue of one overflows at the second frame.
- `RicDayNight`: every counter is compared only with its own limit; limits of 1 and 2
  take every comparison both ways, and the lockout doubles once and meets its cap. The
  liveness instance has no commands: its premises exclude them anyway.
- `RmrPrebuf`: nine bytes hold two of the largest frames after a wrap and four slots
  exist, so slots are overwritten while they are still replayed; a silence of three is
  longer than the window of two. `RmrRecorder`: a pre-buffer and a GOP of two put the trigger
  on, before and after a keyframe; without a pre-buffer a clip starts anywhere.
  `RmdMotion`: motion may return after one or two of three polls of post-roll.
  `RmrTimelapse`: a stall may outlast the longest interval; two days, rates and tracks
  make every rotation happen. `RicPhoto`: five readings lie on both sides of every
  threshold and band; rings of two and triggers of two fill, restart and fire.
- `RcdGuard`: two keys in two enact calls are the fewest where half a revert succeeds;
  one retry is exhausted, succeeds, or meets a new apply. At most two things go wrong in a
  behaviour (`GuardMishaps`), so that a failed write meets a death; a behaviour ends at a hole.
- `RwdMedia`: two queue slots overflow inside a frame of several pieces. `RwdSessions`:
  two peers, two addresses and one slot make a session replace another and two peers
  share an address. `RwdAudio`: frames of 3 against decodes of 4 and 8 leave every
  remainder. `RhdStream`: one viewer and one snapshot over two buffers share a frame
  and run out of them. `RhdRequests`: two clients and two jobs; the clock runs past
  every delay. `RspPush`: two faults, so that one can follow another's recovery.
  `RsrFanout`: two names, slots and clients.
- `RvdPipeline`: one video and one snapshot stream: the code treats pairs alike and
  holds no state across them. `RvdTable` has two sensors and three snapshot slots, so
  that one is refused between two others. `RvdOsd`: three buffers for two slots and three
  hardware regions; three changes suffice for gone, back and resized. `RvdPublish`: three
  pages for two buffer slots. `RvdIvs`: grid cells with a remainder in both sizes, and two
  sizes of the picture of which each is larger in one direction.
- `RadInput`: two failures are the recovery threshold and the back-off reaches its cap.
  `RadClock`: gaps on both sides of each threshold. `RodElements`: two elements for two
  places and one font, so that the pool runs out; nothing fails, or the font does not load and
  a buffer is refused. `RodReceipt`: seven bytes wrap three lines of two; one row is fewer than
  the lines shown and three are more.
- `RcdApply`: one live and one restart-only key of two daemons, and a drift list of one entry,
  so that it is full; one mishap in a behaviour (`ApplyMishaps`). `RcdStores`: two
  settings in a row with each write failing; four interface files. `RcdValues`: widths are
  scaled (18, 16 and 31 stand for the limits of `long`, `int` and an octet), texts are up to
  the lengths at which a rule changes. `RmqBridge`: two changes and one fault, more
  components than the record holds, a bridge that takes commands and refreshes its URL and
  one that does neither.

Deadlock is checked except in three suites, whose components really end: `rsd` (the
queue ends with its removed client, or after its pushes), `video` (the stream table is
laid out once, at boot) and `control` (a value is sent, read and sent again; settings
are bounded in number); and in the two violation runs on rsr and rsp.

### Fairness

- Threads and loops of the daemons are scheduled, sends return (sockets have a timeout),
  a removal or a command once begun is carried through, waits with a timeout end.
- `RsdStream`, `RwdMedia`: a keyframe is published, read and handed out again and again
  (strong fairness: laps and restarts interrupt it), which is what the encoder's GOP
  gives. Nothing is assumed of clients.
- `RhdStream`, `RspPush`: the encoder produces while it is up and asked. `RvdPipeline`:
  the encoder delivers frames again and again unless it is stuck; the five-second checks
  (`VbsFallback`, `Reap`) find their moment. `RvdOsd`: the scan runs between restarts.
- `RmrRecorder`: keyframes keep coming while there is a ring and some are written
  without incident.
- `RmrTimelapse`: time passes and keyframes come, for which the loop asks when a sample
  is armed. `RicPhoto`: the main loop polls.
- `RcdGuard`: the serve loop ticks, an enact returns, a boot starts rcd and then the
  network, time passes. Nothing restarts an rcd that died, so its liveness excepts that,
  and endless applies, deaths and power cuts.
- `RmqBridge`: the loop turns, a broker that stopped returns, its will is delivered.
- Nothing is assumed fair that only an operator, a client or a fault does.

## 4. Coverage of the code

`PROJECT.json` maps a third of the repository's implementation lines. The rest is byte and
text formats, tables, numeric kernels and the parts named in section 9.

## 5. Proofs

Every theorem holds for every value of the constants that satisfies the assumptions of
the module that declares them (positive sizes, limits that are numbers), plus what is
named below. None of the properties is inductive; each proof rests on a stronger
invariant, which TLC checked on the run's instance first, and goes action by action.

**`RsdStreamProofs`.** `TypeCorrect`: `Spec => []TypeOK`. `KeyframeFirst`: if frame copies
can be allocated (`~AllocMayFail`), `Spec => []KeyAfterOwnGap`. `KeyAfterOwnGap` speaks
of queued frames only: a later `ReadFrame` could queue a delta for a client whose gap is
open. `IInv` adds `GapGated` (a viewer with a gap of its own waits for a keyframe or is
being disconnected) and `PlayersReady` (whoever plays is listed and has a transport, so
that dropping the clients of a resized stream reaches every one of them). The
hypothesis is needed: when `malloc` fails in `rsd_sendq_push_video` the frame is lost and
the gate stays open (`rsd_ring_reader.c:673`).

**`RsdSendqProofs`.** `QueueStaysSound`, `CopiesStayAccounted`, `StreamsStayInOrder` for
every number of slots, and `ArrayImplementsPolicy`: each step of the circular array is a
step or a stutter of `SendqPolicy`. `SqInv` says where the array keeps what (`Placed`),
that positions and push numbers agree up to overtaking audio (`Ordered`), what the send
thread holds (`Threads`), and that every payload is in exactly one place (`Owned`,
`Accounted`). `Moved` describes what any operation does to the positions once, so that
the wrap-around arithmetic is done in one lemma and not in every action.

**`RecordingProofs`, ric.** `RicTypeCorrect`, `HardwareFollows` (`HardwareMatches`) and
`FailedDayPauses` (`BacksOff`). `RicInv` adds `Pausing`: between a failed verification and
the end of its lockout the quiet time, the cooldown and the lockout left make up the
pause. Without it a day switch after an operator's detour could not be excluded.

**`RecordingProofs`, the suite.** The suite `MCRecording`: `SuiteStep` shows that a step of the suite
is a step of each part or a stutter, and the invariants of the parts are put together.
- `RecordingTypes`: `TypesOK` of all six parts.
- `RecordingStaysIntact`: `RecordingIntact`. The allocator checks nothing when it wraps
  (`rmr_prebuf.c:57-64`) and the region is sized by the bitrate, so of a pre-roll only the
  newest frames are claimed: the i-th newest as long as the region holds i + 1 frames of the
  largest size, less a byte. `Laid` is the argument: such a slot lies below the allocator's
  head, no further than the frames since then can fill, or was written before the last wrap
  and lies above it by what those frames leave of the region. Segments and clips need
  `RecInv` (what the gate, the standby and the hash chain say of the open file; a clip starts
  on a keyframe if the pre-buffer holds a group of pictures), the timelapse `TlInv` (an open
  file is on the sampler's grid, its samples are of one ring's track; a sample is due only after time
  passed).
- `RollsStayKept`: `RollsKept`, however long the source stalls. `Rolling` says that an earlier
  slot is at least as old as a later one and that from each keyframe the next is at most a
  GOP away; so only the first group of pictures of a pre-roll can be older than the window.
- `LightWatched`: the safety half of `LightFollowed`.

**`ControlProofs`, rcd's guard.** `GuardTypeCorrect`, `UnconfirmedUndoable` (`Guarded`) and `DriftListed`,
for any keys and any sharing of enact calls, whichever stores, enacts and writes fail.
`GuardInv`: unless there was a hole (section 8), the snapshot in memory and the one on flash are
what was last confirmed (`Agree`), a running revert has its enacts left and has put back what
did not refuse (`Undoing`), and what differs in force is found by a revert, because its
store still differs or it is owed an enact (`Undoable`). The last is what makes a revert
that is interrupted between its stores and its enacts safe: the record stays armed until
`UndoEnd`.

**`SourcesProofs`.** The suite `MCSources`; its parts share no variable, so each has an
invariant of its own.
- `SourcesAudioTrue`: `AudioTrue`. For the capture, `StreamInv`: an open codec is the
  context's, the ring has its stream info, and a live device under it has the context's
  rate and volume - also while capture is disabled, since ai-enable starts from there -
  and `EffectsInv`: the echo canceller is *flagged* only while the speaker is there,
  because the recovery of a dead device starts whatever is flagged. For the speaker,
  `SpeakerInv`: the thread leaves only when told to or when it finds no memory, and only a
  disable that waits for it, or has finished, has told it. For the clock, that the truncating division moves
  towards zero and never across it, so the filtered error stays between two errors.
- `SourcesOverlaysOwned`: `OverlaysOwned`. `RodInv`: a font's count is *at most* the number
  of elements with its index, and exactly that number until set-font-size has run out of
  fonts; the weaker half is what keeps the count within its type afterwards, when an
  element is left with an index it has already let go. Fonts that do not load and buffers that
  are refused leave an element without one and change no count. `Rounded` is the whole of
  `rod_sync_shms`: element k is synced against the places taken in the rounds before, so
  that `RoundsExclusive` can say that the places taken are those of the buffers up to k.
  `FontLetGo` and `FontTaken` count one element giving up or getting a font; set-font-size
  (`OneRefonted`, `AllRefonted`) and an element's own size are one after the other.
  `RcInv` places a receipt's newest lines backwards from the head; the modulus is taken
  out in one lemma (`WrapOnce`).
- `SourcesTypes`: `TypesOK`.
The loops over the slots are handled as in `VideoProofs`. The proof showed that the model
of one rendering tick chose between two overlapping cases for a hidden text; the cases
are apart now, as the code's early `continue` makes them.

**`ViewersProofs`.** The suite `MCViewers`, part by part.
- `ViewersAdmitted`: `Admitted`. `SeInv`: not only where media goes but the pin and every
  remembered address of a session carried its password, since a pin may move back to a
  remembered address at any time. `ClaimInv`: a claim that was accepted has set the account.
  `GuessInv`: wrong passwords and tokens left are paid for by the first burst and the time
  up to the last refill, in a product so that the refill's remainder is not lost; no host
  waits longer than the cap, whichever host loses its slot.
- `ViewersDecodable`: `Decodable`. `MediaInv`: a client of rwd that lost a frame is stopped at
  the gate *or* at the queue, and whatever is queued or in the thread's hands continues
  what was sent before it or is a keyframe. `PushInv`: the frames still unread, the parameters
  taken from some of them and the headers sent on this connection are of the codec of the
  ring being read, across lapping, a restarted encoder and a reopened ring. It uses that
  the marks for no parameters and for overwritten ones are not parameter sets.
- `ViewersHold`: `HeldWhileUsed`. `JobInv`: a round trip has one reference for the one client
  that waits for it and one for its worker. `HInv`: a client uses at most two frames, the
  one its thread sends and the one that waits, and never one twice, so the references of
  a frame are the clients that use it and the loop; `Pushed` does the whole fan-out, where
  every viewer gives up what waited and is given the new frame while those that gave up are
  removed. `RsrInv`: a slot counts at most the clients on it (at most: reopening a dead
  slot zeroes a count whose clients stay, finding 3), and one whose ring is held has a
  client or was opened at start. `LoopRemoves` carries it through the loop that takes the
  clients whose send failed out of the list one by one, `AllReopened` through the reopening
  of dead rings, slot by slot. rhd's part uses that its set of clients is finite.
- `ViewersStampTrue`: `StampTrue`, under `DecodesFit`: a decoder writes at most half of the
  accumulator (2048 of 4096 samples, `rwd_media.c:1155`). `AccumInv`: whatever is in the
  accumulator beyond less than one frame came with the newest decode.
The loops are handled as in `VideoProofs`. `TypesOK` of this suite is not proved.

**`ControlProofs`, the suite.** The suite `MCControl`, its guard through `GuardInv`.
- `ControlDriftTrue`: `DriftTrue`, for any room on the list. `DriftInv`: list and file are no
  longer than the table and the daemons of the keys on the list are on record. `Behind`: a key
  whose daemon is not on record although it differs is one rcd was made to forget - by a
  restart whose file did not name the daemon - or never knew of. `CurInStep`: from the
  accepted restart to the clearing of the record, a daemon that is there again has read the
  file anew and no edit came in between, since rcd serves nothing then.
- `ControlAudioBack`: `AudioBack`. `ReadyInv`: between quiesce and resume it is rvd that
  restarts, and once it let go of its socket it is not leaving, so "ready" is the word of
  the new process. And what is to be given back of the speaker was on when rcd asked.
- `ControlBrokerTrue`: `BrokerTrue`. `RecordHeld`: what rmq's record holds Home Assistant
  has, unless the two are astray, and the next document that is taken brings them together
  again (`LearnTakes`, `LearnRefuses`); a record cut short by its table is a part of the
  document. `BrowseInv`: an entry holds what its instance announced, its address is its
  host's and was heard, and of the instances that share an asked and heard host one has
  got the address - not all of them: a host is asked for once, and an instance described
  later on stays without. That first entry is why the browse still finds the broker. The
  assumption used is that instance and host names differ and that none is empty.
- `ControlStoresSound`: `StoresSound`, for interface files of any length with any number of
  stanzas. A file is what its reader makes of it: `Reading` goes through its lines and
  keeps the owned directives of the first stanza and, in order, all the rest. The loop
  invariant of `stanza_set`'s pass (`PassKeeps`): what is written so far reads like what is
  passed so far but for the one directive (`Agrees`), whose copies are not there before
  the stanza is entered and as wanted once it is written or left. `TokensRead`: what
  `strtok_r` leaves out is not read. `PowerCutKeeps`: a cut empties files of `Loosable` only
  (`LooseInv`), never the shadow file, and each part of the property speaks of files that are
  not `lost`. `StInv` adds to the property that the name of a zone
  whose rule is still to be written is already the new one (`TzInv`, hence the order in
  `tz_set`), that the key of the wireless network is empty only when its owner emptied it
  (`EnvInv`), and the shape of the account and host files (`FilesInv`). Assumed: the
  addresses are strings, the empty one among them, the interface files are sequences of
  lines, and every zone has a rule. `ControlStoreTypes`: `StTypeOK`, from the same invariant.
- `ControlApplyTypes`: `ApTypeOK`; `DriftInv` bounds the drift list by its table for any
  number of keys, and `SaveInv` the age of an owed save by its ceiling however many edits
  come, the safety half of `SaveComes`.

**`VideoProofs`.** The suite `MCVideo`, all its invariants: `VideoSdkHeld`, `VideoRingsTrue`,
`VideoSettingsKept`, `VideoDetectionsTrue`, `VideoTypesOK`.
- `PipeInv`, the order of the SDK calls: what is left of a command is `Sound` - a channel
  is built or torn down only once its thread is joined, the video channel only while no
  snapshot channel hangs on it, and rings are destroyed once both channels are gone.
  `SoundCat` and `SoundTail` put such sequences together and take a step off them, so a
  command is sound because its pieces are. `Alive`: a channel that exists has its ring,
  and one a thread works on exists.
- `PubInv`: a reference lies in the region and names a page already learned
  (`IndexOfPage`), and of a video stream's frames each is sent or told missing.
- `PipeRings`: a ring keeps the size that was chosen for the picture it was created for, so it
  holds a frame of every picture that is no larger; set-resolution to a larger one is outside.
- `IvsInv`: the box on record is the box of the cells last hit, whatever is held over; that it
  holds what moved is claimed while the picture has the size its zones were made for.
- `OsdInv`: hardware regions in use are the slots' plus the cover plus those a restart
  forgot, which are counted (`lostHw`) and not excluded. The scans over the buffer directory and over the slots keep it at every entry.
- `TableInv`, for any number of sensors: the rows are `b` video streams and the snapshot
  streams behind them, channels are apart, mains first (`Rank` and `Groups`: the number of
  mains before a stream is less than the number of mains and grows), a slot names a row
  and each snapshot row has one slot. Taking out a refused row shifts rows and slots alike
  (`RowsDrop`, `SlotsDrop`); rows behind `b` are never mains, so the groups stand.
- `SetInv` is `SettingsHeld` with the types of what is stored and running.
The loops (over sensors, streams, slots, directory entries) are recursive functions on
`0 .. n`. `Upto` is induction on such an interval in the form of a set, from the
well-foundedness of the naturals, and `LoopExists` that such a function exists whenever
its step stays within a set; both take sets and functions where the library's theorems take
operators, so the provers can instantiate them. The assumptions used: at least one
sensor and one hardware region, a sensor that reports its size reports one the sub
picture can be made from, and the mark for no picture is no picture.

Only model-checked: all liveness and the two `Follows` properties built on it (fairness is
out of the prover's reach), what `RcdValues` computes over texts (its texts are of bounded
length, and TLC goes through all of them), the types of the viewers' suite and, of the
control suite's, those of `RmqBridge`, `RmqMdns` and `RcdValues`. No
module uses a RECURSIVE operator, so each of them is open to the prover.

## 6. Findings

1. `rsd_stream_orphan`: after `RSS_EOVERFLOW` rsd's reader resumes at the newest frame
   and asks for an IDR, but leaves the gate of playing clients open, so they are sent
   frames whose reference they never got, until the IDR arrives. rwd
   (`rwd_media.c:927-937`) and rsr (`rsr_main.c:361-368`) close the gate in the same place.
2. `rmr_track`: a segment stays open across a restart of rvd and receives frames of
   the new codec or geometry.
3. `rsr_resume`: reopening a dead stream takes the dead slot itself and zeroes its client
   count, so the clients that stayed are counted nowhere and never read for again.
4. `rsp_headers`: sequence headers made from a keyframe that was overwritten while it was
   peeked stay the connection's headers, although the parameters are dropped "to recover".

## 7. Observations without a run

Met while modelling, and visible in the models as a guard, a precondition, a constant
or a ghost.

Recording and day/night:
- The pre-buffer's data region wraps over valid slots, which are replayed all the same
  (`rmr_prebuf.c:59`): it is sized by the bitrate and not by its slots (`rmr_main.c:1342-1348`).
  After a silence the first group of pictures of a pre-roll may be of any age
  (`rmr_prebuf.c:96`), although "pre-roll staleness is age-bounded by the prebuffer window"
  (`rmr_main.c:761`).
- Without a pre-buffer (`prebuffer_sec = 0`), or with one shorter than a group of pictures, a
  clip starts on whatever frame comes (`rmr_main.c:506-509`). A file opened after rvd came back
  with another picture has the size rmr read at its own start (`rmr_main.c:1303-1304`, `845`).
- A frame the muxer refuses leaves a gap its successors are written behind
  (`rmr_main.c:947`); a clip continued at its cap starts in the middle of a GOP
  (`rmr_main.c:1166`); the trigger frame is written twice (`rmr_main.c:1142`).
- The quota is enforced on the segment store only (`rmr_main.c:1073`): `clip_max_mb` and
  the timelapse's `max_mb` of `config/raptor.conf` have no effect.
- rmd ignores the result of its start command (`rmd_main.c:103`).
- When day verification reverts a switch that a probe decided, `probe_active` stays set and
  luma is trusted under lit banks (`ric_daynight.c:772`, against the comment at 733-735).
  Forcing day leaves a bank lit that was disabled while on (`ric_daynight.c:342`).

- The photo trigger's path for a false day sets night mode but goes back to looking for
  night, where day is never looked for (`ric_photo.c:399-400`). Light off the band of the
  day reference that is not well below the fixed reference never becomes day, although the
  comment at 316-321 says "close to or below the reference". `mode day` followed by
  `mode auto` leaves the detector looking for day in day mode.
- Standby does not look at the timelapse: its file stays open without a ring.

Viewers:
- rwd: a frame that outgrew the buffer is skipped without closing the gate
  (`rwd_media.c:939`), as in rsd, rsp and rsr; a session whose codec changed or whose DTLS
  stalls holds its slot; a codec switch of the audio ring in auto mode keeps the old
  payload type.
- rhd: a parked snapshot keeps its cursor when the ring is reopened and may be answered
  with a picture made before the request, against the comment in `handle_snapshot`; a
  frame buffer that could not be allocated stays missing until a ring is reopened.
- rsp: a live change of resolution keeps the old headers; the audio ring is never
  reopened once attached; any `onStatus` counts as publishing.
- rsr: the TS stream types are fixed at accept; a reused slot may give a client another
  stream's frames.

rvd, rad, rod:
- rvd: a failed rebuild leaves the stream down until a command brings it up; the failure
  branch of set-resolution does not rebuild the snapshot stream; IVS is not bound again
  after stop and start of its stream; the privacy cover of `rvd.h:145` is hidden by a
  restart; the table of encoder buffers is never reset.
- rvd: set-resolution to a larger picture reuses the snapshot ring at its old size
  (`rvd_pipeline.c:1939-1949`), although `rvd_ring_size.c:46-56` sizes it so that every frame
  fits; and IVS goes on with the zones of the old picture (`rvd_ivs.c:100-101`, `204-214`)
  while the boxes it reports are computed for the new one (`411-414`), so that a box need not
  hold what moved.
- rvd OSD: a scan between the two halves of a restart leaks regions (`lostHw`); uptime
  listed before time is not merged.
- rad: a restart that fails twice leaves no codec (`rad_main.c:745`); a reopened device
  gets volume and gain but not mute; a rate set together with a flush may stay pending.
- rad: when the speaker thread finds no memory for a ring it leaves, and `ao_enabled` stays
  true until an ao-disable (`rad_main.c:963-970`).
- rod: set-font-size that runs out of fonts keeps the index it released (`fontLost`); an
  element that got no font is not drawn again (`rod_main.c:29`) and keeps the picture it had;
  of a receipt whose buffer has fewer rows than `max_lines` the newest lines are the ones
  not drawn (`rod_receipt.c:135`).

rcd and rmq:
- A live edit that is still dirty in its daemon overwrites a later staged value when the
  daemon saves.
- The drift list (`unseen`, `unlisted`): a full list loses keys, and when rcd restarts the
  daemons of those keys too, although "losing the name of one more key costs a line of the
  report and nothing else" (`rcd_config.c:42`; 64 entries for some 160 keys); a batch that
  fails half way returns before the list is saved (`rcd_config.c:1540-1544`); a live reset whose
  file write fails leaves its line, and nobody records the difference (`1594-1600`, `1647-1649`).
- Apply: an ai-disable that rad carries out after the question timed out leaves rad off, and no
  error says so (`rcd_apply.c:159`); an input the operator had switched off is switched on,
  because rad answers ok to disabling it (`rad_main.c:384-386`), although the resume "puts back
  that and no more" (`rcd_apply.c:137-138`).
- Stores: only the shadow file is synced before its rename (`rcd_passwd.c:222-229`); a power cut
  may empty the others (`rcd_network.c:250-263`, `rcd_system.c:793-822`). A zone whose rule names
  another zone is reported as that one between the two writes of `tz_set`: Paris to UTC,
  interrupted, reports Berlin (`rcd_system.c:870-877`). `tz_set` ignores a failed write of the
  name. `stanza_set` on a file without an iface line answers success and stores nothing
  (`rcd_network.c:213-262`).
- Values: a name server set to nothing is shown as the lease's (`rcd_network.c:455-476`), and the
  form sent back pins that one; `FormRepeats` speaks of what is shown from then on.
- rmq: a publication the library took and the connection lost is on the record, although
  "Only once it is on the broker" (`rmq_ha.c:1073`); a Home Assistant that comes back reads
  the retained document with its withdrawals (`rmq_main.c:416-419`) and, when it has none of
  the components they name, refuses it whole and stays without the camera until the next
  publication. With `snapshot_interval = 0` the URL keeps a password that was replaced, and a
  password another client of rcd sets is not noticed. A publication refused for another
  reason than a lost connection loses a change of the camera (`MqOdd`); a failed reboot leaves
  the status "offline".

## 8. What the guard of rcd does not cover

`RcdGuard` sets `hole` at exactly these steps, found by TLC or by the proofs as
counterexamples to `Guarded`, `DriftKnown` or `Settles`:

- a snapshot of settings nobody confirmed: a second `set` inside the window followed by
  `confirm`, with which the snapshot goes, so that the next `set` or `apply` snapshots the
  staged value (`Set`, `Arm`);
- a value in force set back by hand inside the window: the revert finds the store as it was
  and does not enact it (`Set`);
- a revert that failed half way and is then confirmed (`Confirm`), or whose rcd dies (`Die`):
  which keys still owe an enact is kept in memory only;
- a record that could not be removed when the guard was over (`Disarm`): a reboot undoes what
  was confirmed;
- the last retry failing (`UndoEnd`), which leaves the old settings to a power cycle;
- rcd dying with an experiment whose record could not be written, which nobody undoes, or
  whose deadline could not be written, which is undone in the stores and stays in force
  (`Die`; `rcd_guard.c:80-86`, `98-102`);
- a reboot with settings that are stored and not confirmed and without an armed record, the
  record that was not synced and is lost with the power included: the boot puts them into
  force (`NetUp`).

Inside the promise, but only while rcd runs (`unrecorded`): an experiment whose record could
not be written; and the cancelling of an edit that was staged and never applied, of two keys
that share an enact call, when one of the two stores refuses. There the retry arms the guard
(`rcd_guard.c:343-378`), the next try runs the shared enact (480-509) and puts the refusing
key's unconfirmed value into force, while the record says held, against the comments at
314-318 and 386-389.

## 9. Not modelled

Byte and text formats (fMP4 boxes, NAL units, RTP packets, FLV, MPEG-TS, SDP, JSON,
HTTP), codecs and rendering: they are data. TLS, DTLS, SRTP, ICE cryptography, the ring
library, the HAL and live555: external. Memory safety is not stated.

- rvd: the commands that hand a number to the HAL and read it back; one ISP knob stands
  for its family.
- rmr: the quota walk over names and sizes of a directory tree, the signature chain. rad: codecs. rwd: the pacer's arithmetic, WebTorrent. rhd: the audio
  stream. rsd: DESCRIBE, backchannel, session timeout.
- rfs, rwc, rsd-555 and the command line tools, each for the reason
  `PROJECT.json` gives.
