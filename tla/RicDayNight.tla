---------------------------- MODULE RicDayNight ----------------------------
(***************************************************************************)
(* ric, the day/night daemon: the poll loop with the luma trigger (and the *)
(* plain threshold triggers gain and adc), the IR-off ambient probe, the   *)
(* verification of a day switch, the hardware it drives and the operator's *)
(* commands.                                                               *)
(*                                                                         *)
(* Exposure numbers are abstracted to the comparisons the code makes:      *)
(*   luma   "dark" or "bright" against night_luma                          *)
(*   loud   total_gain > night_gain                                        *)
(*   ratio  total_gain < day_gain_pct% of the night baseline               *)
(*   dip    gain or EV < probe_gain_pct% of the night baseline             *)
(*   agree  the reading is within 2% of the previous one                   *)
(* A threshold trigger reads "dark" as want_night and "bright" as want_day.*)
(***************************************************************************)
EXTENDS Naturals

CONSTANTS Banks,         \* the IR LED banks with a pin
          Default,       \* the banks ir850/ir940 enable at start
          Hyst,          \* hysteresis_sec
          Cooldown,      \* polls after a switch (3)
          Extend,        \* RIC_BASELINE_SETTLE_EXTEND_POLLS
          AgreeRun,      \* agreeing polls a settled baseline needs (2)
          Settle,        \* RIC_PROBE_SETTLE_POLLS
          DipRun,        \* dips in a row that start a probe (3)
          Holdoff,       \* probe_holdoff_sec in polls
          Recheck,       \* probe_recheck_sec in polls, 0 = off
          LockFirst, LockMax, \* RIC_DAY_LOCKOUT_FIRST and _MAX
          Triggers,      \* the triggers the operator selects
          BenchVerbs, Commands, Outages \* which of these happen

ASSUME RicAssumption ==
    /\ Default \subseteq Banks
    /\ {Hyst, Cooldown, AgreeRun, Settle, DipRun, LockFirst} \subseteq Nat \ {0}
    /\ {Extend, Holdoff, Recheck, LockMax} \subseteq Nat /\ LockFirst <= LockMax
    /\ "luma" \in Triggers /\ Triggers \subseteq {"luma", "adc"}
    /\ {BenchVerbs, Commands, Outages} \subseteq BOOLEAN

VARIABLES
    opmode, trigger, enabled,             \* settings
    mode, dayCount, nightCount, cooldown, \* ric_state_t
    baseline,                             \* night_gain_baseline > 0
    agreeRun, extend,                     \* baseline settling
    verify, lockout, lockNext,            \* day verification and its backoff
    probe, probeLeft, holdoff, dipRun, recheck,
    rvdFail,                              \* rvd_fail_run > 0
    filter, lit, isp, ricRvdUp,              \* IR-cut filter, lit banks, rvd's ISP mode
    ambient,                              \* light in the scene without IR
    bench,                                \* hardware moved by hand since the last assertion
    ricQuiet                                 \* ghost: polls since day verification last failed

settings == <<opmode, trigger, enabled>>
judgeVars == <<dayCount, nightCount, cooldown, baseline, agreeRun, extend>>
verifyVars == <<verify, lockout, lockNext>>
probeVars == <<probe, probeLeft, holdoff, dipRun, recheck>>
hardware == <<filter, lit, isp>>
ricvars == <<settings, mode, judgeVars, verifyVars, probeVars, rvdFail, hardware,
          ricRvdUp, ambient, bench, ricQuiet>>

Backoff == Cooldown + LockFirst \* the least pause after a failed verification
Modes == {"day", "night"}
Readings == [luma : {"dark", "bright"}, loud : BOOLEAN, ratio : BOOLEAN,
             dip : BOOLEAN, agree : BOOLEAN]

(* What the sensor may report: ambient light alone decides while no bank is *)
(* lit; under IR anything goes (reflection, AE at its floor, wash-out).     *)
Plausible(r) == lit = {} => r.luma = ambient /\ (ambient = "bright" => ~r.loud)

(* main applies the initial mode and gpio_init parks the banks: day. *)
RicInit ==
    /\ opmode = "auto" /\ trigger = "luma" /\ enabled = Default
    /\ mode = "day" /\ dayCount = 0 /\ nightCount = 0 /\ cooldown = Cooldown
    /\ baseline = FALSE /\ agreeRun = 0 /\ extend = Extend
    /\ verify = FALSE /\ lockout = 0 /\ lockNext = 0
    /\ probe = FALSE /\ probeLeft = 0 /\ holdoff = 0 /\ dipRun = 0 /\ recheck = 0
    /\ rvdFail = FALSE /\ ricRvdUp = TRUE
    /\ filter = "day" /\ lit = {} /\ isp = "day"
    /\ ambient \in {"bright", "dark"} /\ bench = FALSE /\ ricQuiet = Backoff

-----------------------------------------------------------------------------
(* ric_set_gpio drives the filter and the enabled banks only. *)
Leds(m) == IF m = "night" THEN lit \cup enabled ELSE lit \ enabled

(* The mode a poll or command ends in: ric_set_mode if it changed.  "led"  *)
(* and "cool" are what the rest of the step does when it did not.          *)
SetMode(m, led, cool) ==
    /\ mode' = m
    /\ IF m = mode
       THEN /\ lit' = led /\ cooldown' = cool
            /\ UNCHANGED <<filter, bench>>
       ELSE /\ filter' = m /\ lit' = Leds(m) /\ cooldown' = Cooldown
            /\ bench' = (bench /\ lit' # (IF m = "night" THEN enabled ELSE {}))

(* rvd answered this poll: after a gap the ISP mode is asserted again. *)
NoRecovery ==          \* mutant: the ISP mode is not asserted after an outage
    /\ ricRvdUp /\ rvdFail' = FALSE
    /\ isp' = IF mode' # mode THEN mode' ELSE isp

Answered ==
    /\ ricRvdUp /\ rvdFail' = FALSE
    /\ isp' = IF rvdFail \/ mode' # mode THEN mode' ELSE isp

PollUnanswered ==
    /\ ~ricRvdUp
    /\ rvdFail' = TRUE
    /\ UNCHANGED <<settings, mode, judgeVars, verifyVars, probeVars, hardware,
                   ricRvdUp, ambient, bench, ricQuiet>>

PollForced ==
    /\ opmode # "auto"
    /\ UNCHANGED <<settings, mode, judgeVars, verifyVars, probeVars, filter, lit,
                   ricRvdUp, ambient, bench, ricQuiet>>
    /\ Answered

-----------------------------------------------------------------------------
(* A poll in cooldown only counts down; at its end a day switch is         *)
(* verified, and a night baseline adopted once the reading settled.        *)
Reverts(r) == cooldown = 1 /\ mode = "day" /\ verify /\ r.luma = "dark"

RicPollCooldown(r) ==
    /\ opmode = "auto" /\ cooldown > 0 /\ Plausible(r)
    /\ verify' = (verify /\ ~(cooldown = 1 /\ mode = "day"))
    /\ IF Reverts(r)
       THEN LET hold == IF lockNext > 0 THEN lockNext ELSE LockFirst
            IN lockout' = hold /\ lockNext' = IF hold * 2 > LockMax THEN LockMax ELSE hold * 2
       ELSE /\ UNCHANGED lockout
            /\ lockNext' = IF cooldown = 1 /\ mode = "day" /\ verify THEN 0 ELSE lockNext
    /\ LET adopting == cooldown = 1 /\ mode = "night"
           wait == adopting /\ agreeRun' < AgreeRun /\ extend > 0
       IN /\ agreeRun' = IF Reverts(r) THEN 0
                         ELSE IF adopting THEN IF r.agree
                              THEN IF agreeRun < AgreeRun THEN agreeRun + 1 ELSE agreeRun
                              ELSE 0
                         ELSE agreeRun
          /\ extend' = IF Reverts(r) THEN Extend ELSE IF wait THEN extend - 1 ELSE extend
          /\ SetMode(IF Reverts(r) THEN "night" ELSE mode, lit,
                     IF wait THEN 1 ELSE cooldown - 1)
          /\ baseline' = (baseline \/ (adopting /\ ~wait))
          /\ recheck' = IF Reverts(r) THEN 0
                        ELSE IF adopting /\ ~wait THEN Recheck ELSE recheck
    /\ dayCount' = IF Reverts(r) THEN 0 ELSE dayCount
    /\ nightCount' = IF Reverts(r) THEN 0 ELSE nightCount
    /\ ricQuiet' = IF Reverts(r) THEN 0 ELSE IF ricQuiet < Backoff THEN ricQuiet + 1 ELSE ricQuiet
    /\ UNCHANGED <<settings, probe, probeLeft, holdoff, dipRun, ricRvdUp, ambient>>
    /\ Answered

-----------------------------------------------------------------------------
(* The IR-off probe of the luma trigger, one poll of it. *)
MayProbe == /\ trigger = "luma" /\ mode = "night" /\ enabled # {}
            /\ baseline /\ lockout = 0
NeverDue == FALSE      \* mutant: only dips start a probe
RecheckDue == Recheck > 0 /\ recheck = 1
ProbeStep(r) ==
    IF probe /\ mode = "day" /\ trigger = "luma" THEN "ended"
    ELSE IF ~MayProbe THEN "off"
    ELSE IF ~probe
         THEN IF holdoff > 0 /\ ~RecheckDue THEN "held"
              ELSE IF ~RecheckDue /\ ~r.dip THEN "no dip"
              ELSE IF RecheckDue \/ dipRun + 1 >= DipRun THEN "start"
              ELSE "dip"
    ELSE IF probeLeft = 0 THEN "off"
    ELSE IF probeLeft - 1 > Hyst + 2 THEN "settling"
    ELSE IF probeLeft = 1 THEN "restore"
    ELSE "judging"

(* Luma decides for day only while no IR pours into the scene. *)
IrLit == enabled # {} /\ mode = "night" /\ ~probe
WantNightCalibrated(r) == \* mutant: both directions wait for the night baseline
    baseline /\ (r.luma = "dark" \/ r.loud)
WantNight(r) == /\ r.luma = "dark" \/ (trigger = "luma" /\ r.loud)
                /\ ProbeStep(r) # "settling"
WantDayAtOnce(r) ==    \* mutant: the lockout does not gate the day direction
    IF trigger = "adc" THEN r.luma = "bright"
    ELSE /\ (baseline /\ r.ratio) \/ (~IrLit /\ r.luma = "bright")
         /\ ProbeStep(r) # "settling"
WantDay(r) ==
    IF trigger = "adc" THEN r.luma = "bright"
    ELSE /\ (baseline /\ r.ratio) \/ (~IrLit /\ r.luma = "bright")
         /\ ProbeStep(r) # "settling"
         /\ lockout = 0

(* ric_debounce: Hyst polls in a row agree before the filter moves. *)
GoesNightLate(r) == mode = "day" /\ WantNight(r) /\ nightCount >= Hyst \* mutant
GoesNight(r) == mode = "day" /\ WantNight(r) /\ nightCount + 1 >= Hyst
GoesDay(r) == mode = "night" /\ WantDay(r) /\ dayCount + 1 >= Hyst
Debounce(r) ==
    /\ nightCount' = IF mode = "day" /\ WantNight(r) /\ ~GoesNight(r)
                     THEN nightCount + 1
                     ELSE IF mode = "night" /\ ~WantDay(r) THEN nightCount ELSE 0
    /\ dayCount' = IF mode = "night" /\ WantDay(r) /\ ~GoesDay(r)
                   THEN dayCount + 1
                   ELSE IF mode = "day" /\ ~WantNight(r) THEN dayCount ELSE 0

PollEval(r) ==
    LET step == ProbeStep(r)
        next == IF GoesNight(r) THEN "night" ELSE IF GoesDay(r) THEN "day" ELSE mode
    IN /\ opmode = "auto" /\ cooldown = 0 /\ Plausible(r)
       /\ Debounce(r)
       /\ verify' = (verify \/ (GoesDay(r) /\ trigger = "luma"))
       /\ lockout' = IF trigger = "luma" /\ lockout > 0 THEN lockout - 1 ELSE lockout
       /\ SetMode(next,
                  CASE step = "start" -> lit \ enabled
                    [] step = "restore" -> lit \cup enabled
                    [] OTHER -> lit,
                  IF step = "restore" THEN Cooldown ELSE 0)
       /\ probe' = ((probe \/ step = "start") /\ step \notin {"ended", "restore"})
       /\ probeLeft' = CASE step = "start" -> Settle + Hyst + 3
                         [] step \in {"settling", "judging", "restore"} -> probeLeft - 1
                         [] OTHER -> probeLeft
       /\ holdoff' = CASE step \in {"ended", "restore"} -> Holdoff
                       [] step = "held" -> holdoff - 1
                       [] OTHER -> holdoff
       /\ dipRun' = CASE step \in {"no dip", "start"} -> 0
                      [] step = "dip" -> dipRun + 1
                      [] OTHER -> dipRun
       /\ recheck' = IF next # mode THEN 0
                     ELSE IF MayProbe /\ ~probe /\ recheck > 0 THEN recheck - 1
                     ELSE recheck
       /\ agreeRun' = IF next # mode \/ step = "restore" THEN 0 ELSE agreeRun
       /\ extend' = IF next # mode \/ step = "restore" THEN Extend ELSE extend
       /\ baseline' = (baseline /\ next # "day")
       /\ ricQuiet' = IF ricQuiet < Backoff THEN ricQuiet + 1 ELSE ricQuiet
       /\ UNCHANGED <<settings, lockNext, ricRvdUp, ambient>>
       /\ Answered

-----------------------------------------------------------------------------
(* The operator.  mode day|night asserts the hardware even when the mode   *)
(* is already the one asked for.                                           *)
RicForce(m) ==
    /\ Commands
    /\ opmode' = m /\ mode' = m
    /\ filter' = m /\ lit' = Leds(m)
    /\ isp' = IF ricRvdUp THEN m ELSE isp
    /\ bench' = (bench /\ lit' # (IF m = "night" THEN enabled ELSE {}))
    /\ IF m = mode THEN UNCHANGED <<judgeVars, recheck>>
       ELSE /\ dayCount' = 0 /\ nightCount' = 0 /\ cooldown' = Cooldown
            /\ agreeRun' = 0 /\ extend' = Extend /\ recheck' = 0
            /\ baseline' = (baseline /\ m = "night")
    /\ UNCHANGED <<trigger, enabled, verifyVars, probe, probeLeft, holdoff, dipRun,
                   rvdFail, ricRvdUp, ambient, ricQuiet>>

RicAuto ==
    /\ Commands /\ opmode # "auto"
    /\ opmode' = "auto"
    /\ UNCHANGED <<trigger, enabled, mode, judgeVars, verifyVars, probeVars, rvdFail,
                   hardware, ricRvdUp, ambient, bench, ricQuiet>>

(* set-threshold ir850|ir940: takes effect now in night mode. *)
EnableBank(b, on) ==
    /\ Commands
    /\ enabled' = IF on THEN enabled \cup {b} ELSE enabled \ {b}
    /\ lit' = IF mode # "night" THEN lit ELSE IF on THEN lit \cup {b} ELSE lit \ {b}
    /\ UNCHANGED <<opmode, trigger, mode, judgeVars, verifyVars, probeVars, rvdFail,
                   filter, isp, ricRvdUp, ambient, bench, ricQuiet>>

(* set-trigger: ric_trigger_rearm forgets what the old trigger saw. *)
Rearm(t) ==
    /\ t # trigger
    /\ trigger' = t
    /\ dayCount' = 0 /\ nightCount' = 0 /\ cooldown' = Cooldown
    /\ agreeRun' = 0 /\ extend' = Extend /\ baseline' = FALSE
    /\ verify' = FALSE /\ lockout' = 0 /\ lockNext' = 0
    /\ probe' = FALSE /\ probeLeft' = 0 /\ holdoff' = 0 /\ dipRun' = 0 /\ recheck' = 0
    /\ lit' = IF mode = "night" THEN enabled ELSE lit
    /\ ricQuiet' = Backoff
    /\ UNCHANGED <<opmode, enabled, mode, rvdFail, filter, isp, ricRvdUp, ambient, bench>>

(* Bench verbs ircut, ir850, ir940 and isp-mode: hardware only. *)
Bench ==
    /\ BenchVerbs
    /\ \/ /\ filter' \in Modes /\ UNCHANGED <<lit, isp>>
       \/ /\ \E b \in Banks : lit' \in {lit \cup {b}, lit \ {b}}
          /\ UNCHANGED <<filter, isp>>
       \/ /\ ricRvdUp /\ isp' \in Modes /\ UNCHANGED <<filter, lit>>
    /\ bench' = TRUE
    /\ UNCHANGED <<settings, mode, judgeVars, verifyVars, probeVars, rvdFail, ricRvdUp,
                   ambient, ricQuiet>>

(* rvd goes away and, polls later, is back with the ISP in day mode: "rvd  *)
(* restarts routinely take a few seconds".                                 *)
RicRvdStops ==
    /\ Outages /\ ricRvdUp
    /\ ricRvdUp' = FALSE
    /\ UNCHANGED <<settings, mode, judgeVars, verifyVars, probeVars, rvdFail,
                   hardware, ambient, bench, ricQuiet>>

RicRvdStarts ==
    /\ ~ricRvdUp /\ rvdFail
    /\ ricRvdUp' = TRUE /\ isp' = "day"
    /\ UNCHANGED <<settings, mode, judgeVars, verifyVars, probeVars, rvdFail,
                   filter, lit, ambient, bench, ricQuiet>>

LightChanges ==
    /\ ambient' = IF ambient = "dark" THEN "bright" ELSE "dark"
    /\ UNCHANGED <<settings, mode, judgeVars, verifyVars, probeVars, rvdFail, hardware,
                   ricRvdUp, bench, ricQuiet>>

RicPoll == \/ PollUnanswered \/ PollForced
        \/ \E r \in Readings : RicPollCooldown(r) \/ PollEval(r)
RicNext ==
    \/ RicPoll
    \/ \E m \in Modes : RicForce(m)
    \/ RicAuto
    \/ \E b \in Banks, on \in BOOLEAN : EnableBank(b, on)
    \/ \E t \in Triggers : Rearm(t)
    \/ Bench \/ RicRvdStops \/ RicRvdStarts \/ LightChanges

(* The main loop polls for ever. *)
RicSpec == RicInit /\ [][RicNext]_ricvars /\ WF_ricvars(RicPoll)

-----------------------------------------------------------------------------
RicTypeOK ==
    /\ opmode \in Modes \cup {"auto"} /\ trigger \in Triggers /\ mode \in Modes
    /\ enabled \subseteq Banks /\ lit \subseteq Banks
    /\ dayCount \in 0..(Hyst - 1) /\ nightCount \in 0..(Hyst - 1)
    /\ cooldown \in 0..Cooldown /\ agreeRun \in 0..AgreeRun /\ extend \in 0..Extend
    /\ lockout \in 0..LockMax /\ lockNext \in 0..LockMax
    /\ probeLeft \in 0..(Settle + Hyst + 3) /\ holdoff \in 0..Holdoff
    /\ dipRun \in 0..(DipRun - 1) /\ recheck \in 0..Recheck
    /\ filter \in Modes /\ isp \in Modes

(* Unless moved by hand, the hardware is what the mode says: filter, LED   *)
(* banks and, once rvd answers again after an outage, the ISP              *)
(* (ric_daynight.c:166-182, 469-493).                                      *)
HardwareMatches == ~bench =>
    /\ filter = mode
    /\ mode = "day" => lit = {}
    /\ mode = "night" => lit = enabled \/ (probe /\ lit \subseteq enabled)
    /\ ricRvdUp /\ ~rvdFail => isp = mode

(* Once a day switch was found to be IR reflection, the camera does not    *)
(* try day again by itself before a cooldown and the shortest lockout      *)
(* (ric_daynight.c:629-650).                                               *)
BacksOff == [][mode = "night" /\ mode' = "day" /\ opmode' = "auto" => ricQuiet >= Backoff]_ricvars

(* Daylight that stays brings day mode back, although IR wash hides it     *)
(* from every metric while the LEDs are lit: the interval recheck probes.  *)
DayReturns == <>[](ambient = "bright") => <>[](mode = "day")

(* Darkness that stays never leaves the camera in day mode for good.       *)
NightReturns == <>[](ambient = "dark") => []<>(mode = "night")
=============================================================================
