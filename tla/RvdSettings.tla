---------------------------- MODULE RvdSettings ----------------------------
(***************************************************************************)
(* rvd's live settings (rvd_ctrl.c, rvd_pipeline.c): what a command writes *)
(* to the encoder or the ISP driver, to the stream's own enc_cfg and to    *)
(* the configuration, the transient sensor-rate override that moves rates  *)
(* and GOPs together, and what a stream restart, a config-save and a       *)
(* process restart make of all that.                                       *)
(*                                                                         *)
(* "v" is a video stream and "j" the snapshot stream that shares its       *)
(* configuration section but not its keys.  The ISP has one knob; its      *)
(* state lives in the driver and outlives rvd.                             *)
(***************************************************************************)
EXTENDS Integers

CONSTANTS Rates,     \* frame rates that can be configured or asked for
          BaseRate,  \* the sensor's rate at pipeline init
          Gops,      \* GOP lengths, in frames
          Bounds,    \* QP bounds an operator can configure
          Knobs,     \* values an ISP knob can be pinned at
          HasAuto    \* the knob has an auto mode (rss_isp_knob_t.has_auto)

ASSUME RvdSettingsConstants ==
    /\ Rates \subseteq Nat \ {0} /\ BaseRate \in Rates /\ Rates # {BaseRate}
    /\ Gops \subseteq Nat /\ Gops # {}

VARIABLES
    ecfg,    \* st->streams[].enc_cfg
    hal,     \* what the encoder channels run at
    active,  \* active_fps: the override's rate on "v", 0 is none
    header,  \* the rate "v"'s ring header advertises
    running, \* s->enabled of "v"
    sensor,  \* the sensor's rate
    mem,     \* the configuration section in memory
    file,    \* the same on flash
    knob     \* the ISP driver's knob

svars == <<ecfg, hal, active, header, running, sensor, mem, file, knob>>

Unset == "unset"
None  == 0

----------------------------------------------------------------------------
(* Encoder commands, as they go when the HAL accepts: a refusal changes    *)
(* nothing.                                                                *)

\* The mutation that writes the video stream's key for either.
PersistPlain(s, key) == key

\* Which key of the shared section persists a setting of this stream.
rvd_persist_key(s, key) ==
    IF s = "v" THEN key ELSE IF key = "fps" THEN "jpeg_fps" ELSE Unset

Store(c, s, key, v) ==
    LET k == rvd_persist_key(s, key) IN IF k = Unset THEN c ELSE [c EXCEPT ![k] = v]

\* The header carries the override's rate where there is one.
Advertised(a, e) == IF a # None THEN a ELSE e["v"].fps

\* set-gop; set-bitrate is the same under its own key.
SetGop(s, v) ==
    /\ hal' = [hal EXCEPT ![s].gop = v]
    /\ ecfg' = [ecfg EXCEPT ![s].gop = v]
    /\ mem' = Store(mem, s, "gop", v)
    /\ UNCHANGED <<active, header, running, sensor, file, knob>>

\* An explicit rate supersedes the override on its stream.
SetFps(s, v) ==
    /\ hal' = [hal EXCEPT ![s].fps = v]
    /\ ecfg' = [ecfg EXCEPT ![s].fps = v]
    /\ mem' = Store(mem, s, "fps", v)
    /\ active' = IF s = "v" THEN None ELSE active
    /\ header' = Advertised(active', ecfg')
    /\ UNCHANGED <<running, sensor, file, knob>>

SetQpBounds(s, b) ==
    /\ hal' = [hal EXCEPT ![s].qp = b]
    /\ ecfg' = [ecfg EXCEPT ![s].qp = b]
    /\ mem' = Store(mem, s, "qp", b)
    /\ UNCHANGED <<active, header, running, sensor, file, knob>>

\* The mutation that trusts the encoder to keep the bounds.
NoReapply(s, h) == h

\* The bounds a configuration names go back after a mode change, never on a
\* snapshot channel.
rvd_reapply_qp_bounds(s, h) ==
    IF s = "j" \/ ecfg[s].qp = Unset THEN h ELSE [h EXCEPT !.qp = ecfg[s].qp]

\* The encoder rebuilds its rate control from nothing.
SetRcMode(s) ==
    /\ hal' = [hal EXCEPT ![s] = rvd_reapply_qp_bounds(s, [@ EXCEPT !.qp = Unset])]
    /\ UNCHANGED <<ecfg, active, header, running, sensor, mem, file, knob>>

\* GOP in frames follows the rate so that it stays put in seconds.
ScaledGop(gop, eff, cfg) ==
    LET g == (gop * eff + cfg \div 2) \div cfg IN IF g < 1 THEN 1 ELSE g

\* The sensor moves first and a refusal aborts; then every running video
\* stream is limited to it, or back on its configured rate.
rvd_apply_sensor_fps(rate) ==
    LET cfg == ecfg["v"].fps
        limited == rate < cfg
        eff == IF limited THEN rate ELSE cfg
    IN  /\ sensor' = rate
        /\ IF ~running THEN UNCHANGED <<hal, active, header>>
           ELSE /\ hal' = [hal EXCEPT !["v"].fps = eff,
                                      !["v"].gop = ScaledGop(ecfg["v"].gop, eff, cfg)]
                /\ active' = IF limited THEN rate ELSE None
                /\ header' = Advertised(active', ecfg)

SetSensorFps(v) ==
    /\ rvd_apply_sensor_fps(IF v = 0 THEN BaseRate ELSE v)
    /\ UNCHANGED <<ecfg, running, mem, file, knob>>

----------------------------------------------------------------------------
(* The ISP knob.                                                           *)

SetKnob(v) ==
    /\ knob' = v /\ mem' = [mem EXCEPT !.knob = v]
    /\ UNCHANGED <<ecfg, hal, active, header, running, sensor, file>>

\* The mutation that leaves the key to come back with the next save.
ResetKeepsKey ==
    /\ knob' = IF HasAuto THEN "auto" ELSE "neutral"
    /\ UNCHANGED <<ecfg, hal, active, header, running, sensor, mem, file>>

\* Back to the tuning: the auto mode where there is one, else the neutral
\* value; and the key out of the configuration.
ResetKnob ==
    /\ knob' = IF HasAuto THEN "auto" ELSE "neutral"
    /\ mem' = [mem EXCEPT !.knob = Unset]
    /\ UNCHANGED <<ecfg, hal, active, header, running, sensor, file>>

\* Only a knob the operator wrote is applied at start.
img_asked_for(c) == c.knob # Unset
rvd_apply_image_defaults(c) == IF img_asked_for(c) THEN c.knob ELSE knob

----------------------------------------------------------------------------
(* Life cycle.                                                             *)

StopStream ==
    /\ running /\ running' = FALSE
    /\ UNCHANGED <<ecfg, hal, active, header, sensor, mem, file, knob>>

StartStream ==
    /\ ~running /\ running' = TRUE
    /\ UNCHANGED <<ecfg, hal, active, header, sensor, mem, file, knob>>

\* A rebuilt encoder starts from enc_cfg; the reused ring is re-described.
RebuildStream ==
    /\ hal' = [hal EXCEPT !["v"] = ecfg["v"]]
    /\ running' = TRUE /\ header' = Advertised(active, ecfg)
    /\ UNCHANGED <<ecfg, active, sensor, mem, file, knob>>

ConfigSave == file' = mem /\ file # mem
              /\ UNCHANGED <<ecfg, hal, active, header, running, sensor, mem, knob>>

Loaded(c) == [s \in {"v", "j"} |->
                [fps |-> IF s = "v" THEN c.fps ELSE c.jpeg_fps,
                 gop |-> IF s = "v" THEN c.gop ELSE 0,
                 qp |-> IF s = "v" THEN c.qp ELSE Unset]]

RestartRvd ==
    /\ mem' = file /\ ecfg' = Loaded(file) /\ hal' = ecfg'
    /\ active' = None /\ header' = file.fps /\ running' = TRUE
    /\ sensor' = BaseRate
    /\ knob' = rvd_apply_image_defaults(file)
    /\ UNCHANGED file

SInit ==
    /\ file = [fps |-> BaseRate, jpeg_fps |-> CHOOSE r \in Rates : r # BaseRate,
               gop |-> CHOOSE g \in Gops : TRUE, qp |-> Unset, knob |-> Unset]
    /\ mem = file /\ ecfg = Loaded(file) /\ hal = ecfg
    /\ active = None /\ header = file.fps /\ running = TRUE /\ sensor = BaseRate
    /\ knob = IF HasAuto THEN "auto" ELSE "neutral"

SNext ==
    \/ \E s \in {"v", "j"} : \/ \E v \in Gops : SetGop(s, v)
                             \/ \E v \in Rates : SetFps(s, v)
                             \/ \E b \in Bounds : SetQpBounds(s, b)
                             \/ SetRcMode(s)
    \/ \E v \in Rates \cup {0} : SetSensorFps(v)
    \/ \E v \in Knobs : SetKnob(v)
    \/ ResetKnob \/ StopStream \/ StartStream \/ RebuildStream \/ ConfigSave \/ RestartRvd

SSpec == SInit /\ [][SNext]_svars

----------------------------------------------------------------------------
(* Properties.                                                             *)

STypeOK ==
    /\ running \in BOOLEAN /\ sensor \in Rates /\ active \in Rates \cup {None}
    /\ header \in Rates /\ knob \in Knobs \cup {"auto", "neutral"}
    /\ \A c \in {mem, file} : c.fps \in Rates /\ c.jpeg_fps \in Rates /\ c.gop \in Gops
    /\ \A s \in {"v", "j"} : ecfg[s].qp \in Bounds \cup {Unset}

\* Whatever is set on whichever stream, in whatever order with rate-control
\* changes, rebuilds and restarts: QP bounds the configuration names are in
\* the encoder, the section that the next boot reads for the video stream is
\* what the video stream was told - a command to the snapshot stream never
\* retunes it -, and a knob the configuration names is where the driver has it.
SettingsHeld ==
    /\ ecfg["v"].qp # Unset => hal["v"].qp = ecfg["v"].qp
    /\ <<mem.fps, mem.gop, mem.qp>> = <<ecfg["v"].fps, ecfg["v"].gop, ecfg["v"].qp>>
    /\ mem.jpeg_fps = ecfg["j"].fps
    /\ mem.knob # Unset => knob = mem.knob

=============================================================================
