------------------------------ MODULE RadInput ------------------------------
(***************************************************************************)
(* rad, capture side: the read loop, its recovery of a dead AI device and  *)
(* the control commands, which run on the same thread.  The device is      *)
(* shared with rvd through the kernel's MPP state: an rvd that initialises *)
(* destroys the device under rad.                                          *)
(***************************************************************************)
EXTENDS Naturals

CONSTANTS AiRates,        \* sample rates; 8 is the one G.711 forces
          Volumes, BootVolume,
          RecoverFails, \* RAD_AI_RECOVER_FAILS
          BackoffMax    \* RAD_AI_RECOVER_MAX_US, in first backoffs

ASSUME RadInputConstants ==
    /\ 8 \in AiRates /\ AiRates \subseteq Nat /\ BootVolume \in Volumes
    /\ RecoverFails \in Nat \ {0} /\ BackoffMax \in Nat \ {0}

Codecs == {"l16", "pcmu"}
Effects == {"ns", "aec"}  \* ns stands for hpf and agc too
Off == [state |-> "off", rate |-> 0]
NoInfo == [id |-> "none", rate |-> 0]

VARIABLES
    radUp, aiDisabled,
    aiDev,        \* the device: off, dead or live, and the rate it was opened with
    hwVol, hwMute, hwFx, \* what the device was last told; audio_init resets it
    vol, muted, fx, aoOn,  \* the context's idea of the same
    codec,        \* *codec_ops and codec_ctx: None or the codec and its rate
    aiRing,         \* the stream info of the ring, or None
    ctxCodec, ctxRate, cfgRate,   \* ctx->codec_id, ctx->sample_rate, [audio] sample_rate
    failCount, inRecovery, backoff, wait,
    mpp           \* rvd's use of the global MPP state: "ok" or "busy"

loop == <<failCount, inRecovery, backoff, wait>>
hw == <<aiDev, hwVol, hwMute, hwFx>>
aiFlags == <<vol, muted, fx, aoOn>>
pipe == <<codec, aiRing, ctxCodec, ctxRate>>
aivars == <<radUp, aiDisabled, hw, aiFlags, pipe, cfgRate, loop, mpp>>

(* Only L16 takes a rate of its choice. *)
RateFor(c, want) == IF c = "pcmu" THEN 8 ELSE want

Live(r) == [state |-> "live", rate |-> r]
(* An audio_init that answers RSS_OK: while rvd is still at it, the device *)
(* may already be gone.                                                    *)
Opened(r) == {Live(r)} \cup (IF mpp = "busy" THEN {[state |-> "dead", rate |-> r]} ELSE {})
MayFail(r) == mpp = "busy" \/ r # ctxRate

(* rad_audio_apply_settings: volume, gain and the effects, not the mute.   *)
Applied == hwVol' = vol /\ hwFx' = (IF aoOn THEN fx ELSE fx \ {"aec"}) /\ hwMute' = FALSE
Reset == hwVol' = BootVolume /\ hwFx' = {} /\ hwMute' = FALSE

AiInit ==
    /\ radUp = FALSE /\ aiDisabled = TRUE /\ aiDev = Off
    /\ hwVol = BootVolume /\ hwMute = FALSE /\ hwFx = {}
    /\ vol = BootVolume /\ muted = FALSE /\ fx = {} /\ aoOn = FALSE
    /\ codec = NoInfo /\ aiRing = NoInfo /\ ctxCodec = "l16" /\ ctxRate = 8
    /\ cfgRate \in AiRates /\ failCount = 0 /\ inRecovery = FALSE /\ backoff = 1 /\ wait = 0
    /\ mpp = "ok"

(* main, in the order it runs; every failure but an effect's ends it. *)
StartCapture(c, v) ==
    LET r == RateFor(c, cfgRate) IN
    /\ aiDisabled' = FALSE /\ aiDev' \in Opened(r) /\ ctxCodec' = c /\ ctxRate' = r
    /\ vol' = v /\ hwVol' = v /\ muted' = FALSE /\ hwMute' = FALSE
    /\ codec' = [id |-> c, rate |-> r]
StartEffects ==  \* a noise filter that fails stays flagged
    \E on \in SUBSET {"ns"}, heard \in SUBSET {"ns"}, echo \in SUBSET {"aec"} :
        /\ echo # {} => aoOn'
        /\ fx' = on \cup echo /\ hwFx' = (on \cap heard) \cup echo
StartPublishing ==
    /\ aiRing' = codec' /\ radUp' = TRUE
    /\ failCount' = 0 /\ inRecovery' = FALSE /\ backoff' = 1 /\ wait' = 0
AiStart ==
    /\ ~radUp
    /\ \E c \in Codecs, v \in Volumes : StartCapture(c, v)
    /\ aoOn' \in BOOLEAN /\ StartEffects /\ StartPublishing
    /\ UNCHANGED <<cfgRate, mpp>>

Stop ==
    /\ radUp' = FALSE /\ aiDisabled' = TRUE /\ aiDev' = Off /\ Reset
    /\ codec' = NoInfo /\ aiRing' = NoInfo
    /\ UNCHANGED <<aiFlags, ctxCodec, ctxRate, cfgRate, loop, mpp>>
AiShutdown == radUp /\ Stop

-----------------------------------------------------------------------------
(* Control commands, one per turn of the loop. *)
SetVolume ==
    /\ radUp /\ ~aiDisabled /\ aiDev.state = "live"
    /\ \E v \in Volumes : vol' = v /\ hwVol' = v
    /\ UNCHANGED <<radUp, aiDisabled, aiDev, hwMute, hwFx, muted, fx, aoOn, pipe, cfgRate, loop, mpp>>

SetMute ==
    /\ radUp /\ ~aiDisabled /\ aiDev.state = "live"
    /\ \E m \in BOOLEAN : muted' = m /\ hwMute' = m
    /\ UNCHANGED <<radUp, aiDisabled, aiDev, hwVol, hwFx, vol, fx, aoOn, pipe, cfgRate, loop, mpp>>

(* set-ns, set-hpf and set-agc *)
SetNs ==
    /\ radUp /\ ~aiDisabled /\ aiDev.state = "live"
    /\ \/ fx' = fx \cup {"ns"} /\ hwFx' = hwFx \cup (IF "ns" \in fx THEN {} ELSE {"ns"})
       \/ fx' = fx \ {"ns"} /\ hwFx' = hwFx \ (IF "ns" \in fx THEN {"ns"} ELSE {})
    /\ UNCHANGED <<radUp, aiDisabled, aiDev, hwVol, hwMute, vol, muted, aoOn, pipe, cfgRate, loop, mpp>>

(* set-aec needs both directions up. *)
SetAec ==
    /\ radUp /\ ~aiDisabled /\ aoOn /\ aiDev.state = "live"
    /\ IF "aec" \in fx THEN fx' = fx \ {"aec"} /\ hwFx' = hwFx \ {"aec"}
       ELSE fx' = fx \cup {"aec"} /\ hwFx' = hwFx \cup {"aec"}
    /\ UNCHANGED <<radUp, aiDisabled, aiDev, hwVol, hwMute, vol, muted, aoOn, pipe, cfgRate, loop, mpp>>

AoDisableKeepsAec ==  \* mutant: the echo canceller outlives the speaker
    /\ radUp /\ aoOn /\ aoOn' = FALSE
    /\ UNCHANGED <<radUp, aiDisabled, hw, vol, muted, fx, pipe, cfgRate, loop, mpp>>

(* ao-disable takes the echo canceller down first. *)
AoDisable ==
    /\ radUp /\ aoOn
    /\ aoOn' = FALSE /\ fx' = fx \ {"aec"} /\ hwFx' = hwFx \ {"aec"}
    /\ UNCHANGED <<radUp, aiDisabled, aiDev, hwVol, hwMute, vol, muted, pipe, cfgRate, loop, mpp>>

AoEnable ==
    /\ radUp /\ ~aoOn /\ aoOn' = TRUE
    /\ UNCHANGED <<radUp, aiDisabled, hw, vol, muted, fx, pipe, cfgRate, loop, mpp>>

AiDisable ==
    /\ radUp /\ ~aiDisabled
    /\ aiDisabled' = TRUE /\ codec' = NoInfo /\ aiRing' = NoInfo /\ aiDev' = Off /\ Reset
    /\ UNCHANGED <<radUp, aiFlags, ctxCodec, ctxRate, cfgRate, loop, mpp>>

(* ai-enable: when the device, the codec or the ring fails, what came      *)
(* before it is taken down again and nothing has changed.                  *)
AiEnable ==
    /\ radUp /\ aiDisabled
    /\ aiDev' \in Opened(ctxRate) /\ Applied
    /\ codec' = [id |-> ctxCodec, rate |-> ctxRate] /\ aiRing' = codec'
    /\ aiDisabled' = FALSE
    /\ UNCHANGED <<radUp, aiFlags, ctxCodec, ctxRate, cfgRate, loop, mpp>>

(* set-codec, set-sample-rate and audio-restart: take down codec, ring and *)
(* device, open the device at the new rate, then the codec, then the ring. *)
Target(c, want) == /\ c \in Codecs /\ want \in AiRates
                   /\ want # cfgRate => ctxCodec # "pcmu" /\ c = ctxCodec

RestartNew(c, want) ==
    LET r == RateFor(c, want) IN
    /\ aiDev' \in Opened(r) /\ Applied
    /\ codec' = [id |-> c, rate |-> r] /\ ctxCodec' = c /\ ctxRate' = r
    /\ aiRing' \in {[id |-> c, rate |-> r], NoInfo}
    /\ cfgRate' \in {cfgRate} \cup (IF aiRing' # NoInfo /\ want # cfgRate THEN {r} ELSE {})

(* The device refuses the new rate and is reopened at the old one: the     *)
(* codec stays down, with the ring, until another command.                 *)
RestartNoDevice(c, want) ==
    /\ MayFail(RateFor(c, want))
    /\ aiDev' \in Opened(ctxRate) \cup (IF mpp = "busy" THEN {Off} ELSE {}) /\ Reset
    /\ codec' = NoInfo /\ aiRing' = NoInfo
    /\ UNCHANGED <<ctxCodec, ctxRate, cfgRate>>

RestartOldCodecKeepsRate(c, want) ==  \* mutant: the device is left at the new rate
    LET r == RateFor(c, want) IN
    /\ codec # NoInfo /\ aiDev' \in Opened(r) /\ Applied
    /\ codec' = [id |-> ctxCodec, rate |-> ctxRate] /\ aiRing' = codec'
    /\ UNCHANGED <<ctxCodec, ctxRate, cfgRate>>

(* The new codec fails: the device goes back to the old rate, with volume  *)
(* and gain but not the effects, and the old codec is opened again.        *)
RestartOldCodec(c, want) ==
    LET r == RateFor(c, want) IN
    /\ codec # NoInfo
    /\ IF r = ctxRate
       THEN aiDev' \in Opened(r) /\ Applied
       ELSE aiDev' \in Opened(ctxRate) /\ hwVol' = vol /\ hwFx' = {} /\ hwMute' = FALSE
    /\ codec' = [id |-> ctxCodec, rate |-> ctxRate] /\ aiRing' = codec'
    /\ cfgRate' = IF want # cfgRate THEN ctxRate ELSE cfgRate
    /\ UNCHANGED <<ctxCodec, ctxRate>>

(* Neither codec opens, or the device does not go back to the old rate. *)
RestartNothing(c, want) ==
    /\ codec # NoInfo
    /\ aiDev' \in Opened(ctxRate) \cup (IF mpp = "busy" THEN {Off} ELSE {})
    /\ hwVol' \in {vol, BootVolume} /\ hwFx' = {} /\ hwMute' = FALSE
    /\ codec' = NoInfo /\ aiRing' = NoInfo
    /\ UNCHANGED <<ctxCodec, ctxRate, cfgRate>>

(* The same when an earlier restart left no codec to go back to: the       *)
(* handler calls through a null old_ops and the daemon dies.               *)
RestartNoCodec == codec = NoInfo /\ Stop

Restart(c, want) ==
    /\ radUp /\ ~aiDisabled /\ Target(c, want)
    /\ \/ /\ \/ RestartNew(c, want) \/ RestartNoDevice(c, want)
             \/ RestartOldCodec(c, want) \/ RestartNothing(c, want)
          /\ UNCHANGED <<radUp, aiDisabled, aiFlags, loop, mpp>>
       \/ RestartNoCodec

-----------------------------------------------------------------------------
(* The read loop. *)
Silent ==  \* no reads while disabled, and the burst state cleared
    /\ radUp /\ aiDisabled
    /\ failCount' = 0 /\ inRecovery' = FALSE /\ backoff' = 1
    /\ UNCHANGED <<radUp, aiDisabled, hw, aiFlags, pipe, cfgRate, wait, mpp>>

ReadOk ==
    /\ radUp /\ ~aiDisabled /\ aiDev.state = "live"
    /\ failCount' = 0 /\ inRecovery' = FALSE /\ backoff' = 1
    /\ UNCHANGED <<radUp, aiDisabled, hw, aiFlags, pipe, cfgRate, wait, mpp>>

AttemptDueOnce == ~inRecovery /\ failCount + 1 >= RecoverFails  \* mutant: one attempt only

(* The first attempt waits for a burst of failures, the next ones for the  *)
(* backoff: a reinit that returned OK is no proof that reads work.         *)
AttemptDue == IF inRecovery THEN wait = 0 ELSE failCount + 1 >= RecoverFails

ReinitBare ==  \* mutant: rad_audio_hal_reinit forgets the settings
    \/ aiDev' \in Opened(ctxRate) /\ Reset
    \/ mpp = "busy" /\ aiDev' = Off /\ Reset

(* rad_audio_hal_reinit *)
AiReinit ==
    \/ aiDev' \in Opened(ctxRate) /\ Applied
    \/ mpp = "busy" /\ aiDev' = Off /\ Reset

Failed == IF failCount < RecoverFails THEN failCount + 1 ELSE failCount
ReadFails ==
    /\ radUp /\ ~aiDisabled /\ aiDev.state # "live"
    /\ failCount' = Failed
    /\ IF AttemptDue
       THEN /\ AiReinit /\ inRecovery' = TRUE /\ wait' = backoff
            /\ backoff' = IF 2 * backoff > BackoffMax THEN BackoffMax ELSE 2 * backoff
       ELSE /\ wait' = IF inRecovery /\ wait > 0 THEN wait - 1 ELSE wait
            /\ UNCHANGED <<hw, inRecovery, backoff>>
    /\ UNCHANGED <<radUp, aiDisabled, aiFlags, pipe, cfgRate, mpp>>

(* rvd's video init runs SYS_Exit/SYS_Init. *)
RvdInit == /\ mpp = "ok" /\ mpp' = "busy"
           /\ aiDev' = IF aiDev = Off THEN Off ELSE [aiDev EXCEPT !.state = "dead"]
           /\ UNCHANGED <<radUp, aiDisabled, hwVol, hwMute, hwFx, aiFlags, pipe, cfgRate, loop>>
RvdReady == /\ mpp = "busy" /\ mpp' = "ok"
            /\ UNCHANGED <<radUp, aiDisabled, hw, aiFlags, pipe, cfgRate, loop>>

Loop == Silent \/ ReadOk \/ ReadFails
AiCommand == \/ SetVolume \/ SetMute \/ SetNs \/ SetAec \/ AoDisable \/ AoEnable \/ AiDisable \/ AiEnable
           \/ \E c \in Codecs, want \in AiRates : Restart(c, want)
AiNext == AiStart \/ AiShutdown \/ AiCommand \/ Loop \/ RvdInit \/ RvdReady

(* The loop polls for ever. *)
AiSpec == AiInit /\ [][AiNext]_aivars /\ WF_aivars(Loop)

-----------------------------------------------------------------------------
AiTypeOK ==
    /\ {radUp, aiDisabled, hwMute, muted, aoOn, inRecovery} \subseteq BOOLEAN
    /\ aiDev \in [state : {"off", "dead", "live"}, rate : AiRates \cup {0}]
    /\ {hwVol, vol} \subseteq Volumes /\ hwFx \subseteq fx /\ fx \subseteq Effects
    /\ {codec, aiRing} \subseteq [id : Codecs, rate : AiRates] \cup {NoInfo}
    /\ ctxCodec \in Codecs /\ {ctxRate, cfgRate} \subseteq AiRates
    /\ failCount \in 0..RecoverFails /\ {backoff, wait} \subseteq 0..BackoffMax
    /\ mpp \in {"ok", "busy"}

(* A stream that is published is what it says it is: the device, the codec *)
(* and the ring's stream info agree on codec and rate and the device has   *)
(* the volume the status command reports, after every sequence of restarts *)
(* that fail half way and recoveries of the device.                        *)
StreamAsAdvertised ==
    radUp /\ codec # NoInfo =>
        /\ codec = [id |-> ctxCodec, rate |-> ctxRate]
        /\ aiRing # NoInfo => aiRing = codec
        /\ aiDev.state = "live" => aiDev.rate = codec.rate /\ hwVol = vol

(* Echo cancellation never runs without the speaker it listens to. *)
AecNeedsSpeaker == "aec" \in hwFx => aoOn

(* "the device only has to be created again from inside this process"      *)
(* (rad_main.c:45): once rvd leaves the MPP state alone, an enabled        *)
(* capture reads again, however often the device died before.              *)
CaptureRecovers ==
    <>[](radUp /\ ~aiDisabled /\ mpp = "ok") => []<>(aiDev.state = "live")
=============================================================================
