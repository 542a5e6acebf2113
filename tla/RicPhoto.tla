------------------------------ MODULE RicPhoto ------------------------------
(***************************************************************************)
(* ric's photo trigger: the multi-stage detector on EV and white balance.  *)
(* A high EV is a dark scene.  An EV is its level on a scale of 10% steps, *)
(* on which the code's ratios are: 0.92 to 1.08 the same level; 0.87 to    *)
(* 1.13 and 0.88 to 1.12 at most one level away; below 0.70 four levels    *)
(* down.  A gain is in units that make its two thresholds 2 and 1.  Of a   *)
(* ring only the first sample and how many there are is ever used, and     *)
(* counters that are only compared with a limit stop there.                *)
(***************************************************************************)
EXTENDS Naturals

CONSTANTS PhReadings,            \* what the sensor may report, [ev, r, b]
          EvDay, EvNight, EvDeep, \* levels of photo_ev_day, _night and _deep
          CalSamples, PhSettle, EvTrigger, RTrigger, BTrigger,
          GainWrap,              \* where the uint8_t deviation counters wrap
          CheckEvery, CheckTrigger, \* the fixed-EV fallback
          DayRing, DayTrigger, FixedRing, DriftTrigger,
          InterfRing, InterfMax, RiseTrigger, FallTrigger

ASSUME PhotoAssumption ==
    /\ {EvDay, EvNight, EvDeep} \subseteq Nat /\ EvDay < EvNight /\ EvNight < EvDeep
    /\ \A r \in PhReadings : r.ev \in Nat \ {0} /\ r.r \in Nat /\ r.b \in Nat
    /\ {RTrigger, BTrigger, GainWrap} \subseteq Nat /\ RTrigger < GainWrap /\ BTrigger < GainWrap
    /\ {CalSamples, EvTrigger, CheckEvery, CheckTrigger, DayTrigger, FallTrigger}
         \subseteq Nat \ {0}
    /\ {PhSettle, DriftTrigger, InterfMax, RiseTrigger} \subseteq Nat
    /\ {DayRing, FixedRing, InterfRing} \subseteq Nat \ {0, 1}

VARIABLES phOp, phMode,  \* settings.opmode, current_mode
          phEv,          \* the EV of the last poll, 0 before the first
          phCal,         \* the calibration, kept across phases
          ph,            \* the rest of ric_photo_state_t
          phForced,      \* ghost: the mode was forced since the phase began
          phSame         \* ghost: the last step was a poll that found EV unchanged

phvars == <<phOp, phMode, phEv, phCal, ph, phForced, phSame>>

Apart(a, b) == IF a > b THEN a - b ELSE b - a
Up(n, top) == IF n < top THEN n + 1 ELSE top
Uncalibrated == [done |-> FALSE, n |-> 0, first |-> 0, rsum |-> 0, bsum |-> 0,
                 rbase |-> 0, bbase |-> 0]

ric_photo_reset(phase) ==
    [phase |-> phase, settle |-> 0, rdev |-> <<0, 0>>, bdev |-> <<0, 0>>, night |-> 0,
     deep |-> 0, checkPolls |-> 0, checkEv |-> 0, checks |-> 0,
     dayN |-> 0, dayFirst |-> 0, dayRef |-> 0, dayHits |-> 0,
     ifN |-> 0, ifFirst |-> 0, ifRef |-> 0, ifPolls |-> 0, rise |-> 0, fall |-> 0,
     fixN |-> 0, fixFirst |-> 0, fixRef |-> 0, drift |-> 0]

(* photo_rgain_rec and photo_bgain_rec may give the baseline at start. *)
PhInit ==
    /\ phOp = "auto" /\ phMode = "day" /\ phEv = 0 /\ phForced = FALSE /\ phSame = FALSE
    /\ phCal \in {Uncalibrated, [Uncalibrated EXCEPT !.done = TRUE]}
    /\ ph = ric_photo_reset("night_detect")

-----------------------------------------------------------------------------
(* The baseline is the mean of a window of bright samples, all of which    *)
(* agree with its first, taken in day mode.                                *)
Calibrates(r) == ~phCal.done /\ phMode = "day" /\ r.ev <= EvDay
photo_calibrate(r) ==
    LET again == phCal.n = 0 \/ Apart(r.ev, phCal.first) > 1
        c == IF again
             THEN [phCal EXCEPT !.n = 1, !.first = r.ev, !.rsum = r.r, !.bsum = r.b]
             ELSE [phCal EXCEPT !.n = @ + 1, !.rsum = @ + r.r, !.bsum = @ + r.b]
    IN IF ~Calibrates(r) THEN phCal
       ELSE IF c.n < CalSamples THEN c
       ELSE [c EXCEPT !.done = TRUE, !.rbase = c.rsum \div CalSamples,
                      !.bbase = c.bsum \div CalSamples]

(* A phase ends: the mode it decides and the phase that follows. *)
PhaseEnds(m, phase) ==
    /\ phMode' = m /\ ph' = ric_photo_reset(phase) /\ phForced' = FALSE
PhaseGoesOn(p) == ph' = p /\ UNCHANGED <<phMode, phForced>>

-----------------------------------------------------------------------------
(* Night detection: a run of dark samples confirmed by a shifted spectrum, *)
(* or by EV alone without a baseline; else EV that stands still and deep.  *)
Deviates(n, diff) ==
    IF ~phCal'.done THEN <<0, 0>>
    ELSE [i \in 1..2 |-> IF diff >= 3 - i THEN (n[i] + 1) % GainWrap ELSE 0]
NightConfirmed(p) ==
    \/ p.night >= EvTrigger /\ \A i \in 1..2 : p.rdev[i] >= RTrigger
    \/ p.deep >= EvTrigger /\ \A i \in 1..2 : p.bdev[i] >= BTrigger
    \/ ~phCal'.done /\ p.night >= EvTrigger
(* ev > fixed_check_ev - 200, unsigned: below ev_day the 200 may be a step *)
(* of the scale or wrap, and either answer is possible.                    *)
StandsStill(ev) == CASE ph.checkEv = 0 -> {FALSE}
                     [] ph.checkEv \in 1..(EvDay - 1) -> BOOLEAN
                     [] OTHER -> {ev >= ph.checkEv}

NightChecked(p, ev) == \* what is left of the poll when nothing confirmed
    LET due == p.checkPolls + 1 >= CheckEvery
    IN IF ~due THEN PhaseGoesOn([p EXCEPT !.checkPolls = @ + 1])
       ELSE \E still \in StandsStill(ev) :
                LET n == IF still THEN p.checks + 1 ELSE 0
                IN IF n >= CheckTrigger /\ ev >= EvDeep
                   THEN PhaseEnds("night", "day_detect")
                   ELSE PhaseGoesOn([p EXCEPT !.checkPolls = 0, !.checkEv = ev,
                                              !.checks = IF n >= CheckTrigger THEN 0 ELSE n])

photo_night_control(r) ==
    LET p == [ph EXCEPT
                !.settle = Up(@, PhSettle),
                !.rdev = Deviates(@, Apart(r.r, phCal'.rbase)),
                !.bdev = Deviates(@, Apart(r.b, phCal'.bbase)),
                !.night = IF r.ev > EvNight THEN Up(@, EvTrigger) ELSE 0,
                !.deep = IF r.ev > EvDeep THEN Up(@, EvTrigger) ELSE 0]
    IN /\ ph.phase = "night_detect"
       /\ IF p.settle < PhSettle THEN PhaseGoesOn([ph EXCEPT !.settle = p.settle])
          ELSE IF NightConfirmed(p) THEN PhaseEnds("night", "day_detect")
          ELSE NightChecked(p, r.ev)

-----------------------------------------------------------------------------
(* Day detection: the first ring whose ends agree is the reference; three  *)
(* later samples that stay in its band are day.                            *)
DayAgain(p) == [p EXCEPT !.dayN = 0, !.dayFirst = 0]
DayStep(ev) ==
    LET n == ph.dayN + 1
        p == [ph EXCEPT !.dayN = n, !.dayFirst = IF ph.dayN = 0 THEN ev ELSE @]
    IN CASE ev >= EvDay -> DayAgain(ph)
         [] ev < EvDay /\ n < DayRing -> p
         [] ev < EvDay /\ n >= DayRing /\ ph.dayRef = 0 ->
              IF ev = p.dayFirst THEN [p EXCEPT !.dayN = DayRing, !.dayRef = ev]
              ELSE DayAgain(ph)
         [] OTHER -> IF Apart(ev, ph.dayRef) > 1 THEN DayAgain(ph)
                     ELSE [DayAgain(ph) EXCEPT !.dayHits = @ + 1]

(* The day found here may have been a passing light. *)
AfterDayStays == "day_detect" \* mutant: the phase does not change
AfterDay == "interfere"

(* In night mode EV that drops well below where it stood is day too. *)
FixedStep(p, ev) ==
    LET n == p.fixN + 1
    IN CASE p.fixN < FixedRing /\ n < FixedRing ->
              [p EXCEPT !.fixN = n, !.fixFirst = IF p.fixN = 0 THEN ev ELSE @]
         [] p.fixN < FixedRing /\ n = FixedRing ->
              IF ev = p.fixFirst
              THEN [p EXCEPT !.fixN = n, !.fixFirst = 0, !.fixRef = ev]
              ELSE [p EXCEPT !.fixN = 0, !.fixFirst = 0]
         [] OTHER -> [p EXCEPT !.drift = IF ev + 4 > p.fixRef THEN 0 ELSE @ + 1]

photo_day_control(r) ==
    LET p == DayStep(r.ev)
        q == FixedStep(p, r.ev)
    IN /\ ph.phase = "day_detect"
       /\ IF p.dayHits >= DayTrigger THEN PhaseEnds("day", AfterDay)
          ELSE IF phMode = "day" THEN PhaseGoesOn(p)
          ELSE IF q.drift > DriftTrigger THEN PhaseEnds("day", "night_detect")
          ELSE PhaseGoesOn(q)

-----------------------------------------------------------------------------
(* After a switch to day: EV that rises again was a passing light, EV that *)
(* falls further is the morning; else the watch times out.                 *)
InterfereEnds(n) == n > InterfMax
photo_interfere_control(r) ==
    LET n == ph.ifN + 1
        p == [ph EXCEPT !.ifPolls = @ + 1]
        rises == r.ev > ph.ifRef + 1
        falls == r.ev + 1 < ph.ifRef
    IN /\ ph.phase = "interfere"
       /\ IF InterfereEnds(p.ifPolls) THEN PhaseEnds(phMode, "night_detect")
          ELSE IF n < InterfRing
          THEN PhaseGoesOn([p EXCEPT !.ifN = n, !.ifFirst = IF ph.ifN = 0 THEN r.ev ELSE @])
          ELSE IF n = InterfRing
          THEN PhaseGoesOn(IF r.ev = ph.ifFirst
                           THEN [p EXCEPT !.ifN = n, !.ifFirst = 0, !.ifRef = r.ev]
                           ELSE [p EXCEPT !.ifN = 0, !.ifFirst = 0])
          ELSE IF rises /\ ph.rise + 1 > RiseTrigger THEN PhaseEnds("night", "night_detect")
          ELSE IF falls /\ ph.fall + 1 >= FallTrigger THEN PhaseEnds(phMode, "night_detect")
          ELSE PhaseGoesOn([p EXCEPT !.rise = IF rises THEN @ + 1 ELSE IF falls THEN @ ELSE 0,
                                     !.fall = IF falls THEN @ + 1 ELSE IF rises THEN @ ELSE 0])

ric_photo_poll ==
    /\ phOp = "auto"
    /\ \E r \in PhReadings :
         /\ phEv' = r.ev /\ phSame' = (r.ev = phEv)
         /\ phCal' = photo_calibrate(r)
         /\ photo_night_control(r) \/ photo_day_control(r) \/ photo_interfere_control(r)
    /\ UNCHANGED phOp

-----------------------------------------------------------------------------
(* The mode command moves the mode and leaves the phase where it is. *)
PhForce(m) ==
    /\ phOp # m
    /\ phOp' = m /\ phMode' = m /\ phForced' = (phForced \/ m # phMode)
    /\ phSame' = FALSE /\ UNCHANGED <<phEv, phCal, ph>>
PhAuto ==
    /\ phOp # "auto" /\ phOp' = "auto" /\ phSame' = FALSE
    /\ UNCHANGED <<phMode, phEv, phCal, ph, phForced>>

(* set-trigger to another trigger, which may change the mode, and back. *)
PhRearm(m) ==
    /\ phOp = "auto" /\ PhaseEnds(m, "night_detect")
    /\ phSame' = FALSE /\ UNCHANGED <<phOp, phEv, phCal>>

PhNext == \/ ric_photo_poll \/ PhAuto
          \/ \E m \in {"day", "night"} : PhForce(m) \/ PhRearm(m)
(* The main loop polls for ever. *)
PhSpec == PhInit /\ [][PhNext]_phvars /\ WF_phvars(ric_photo_poll)

-----------------------------------------------------------------------------
PhTypeOK ==
    /\ phOp \in {"auto", "day", "night"} /\ phMode \in {"day", "night"}
    /\ phCal.n \in 0..CalSamples /\ {phCal.rbase, phCal.bbase} \subseteq Nat
    /\ ph.phase \in {"night_detect", "day_detect", "interfere"}
    /\ ph.checks < CheckTrigger /\ ph.dayN <= DayRing /\ ph.dayHits < DayTrigger
    /\ ph.ifN <= InterfRing /\ ph.ifPolls <= InterfMax /\ ph.rise <= RiseTrigger
    /\ ph.fall < FallTrigger /\ ph.fixN <= FixedRing /\ ph.drift <= DriftTrigger

(* The detector looks for what the mode lacks: unless the mode was forced, *)
(* it looks for day only in night mode and for a passing light only in day *)
(* mode (ric_photo.c: what each ric_set_mode is followed by).              *)
PhotoWatches == ~phForced =>
    /\ ph.phase = "day_detect" => phMode = "night"
    /\ ph.phase = "interfere" => phMode = "day"

(* Light that stays, once the operator is done, is followed.  The dark     *)
(* brings night mode, with or without a baseline and whatever the white    *)
(* balance says (photo_night_control).  Daylight brings day mode, but for  *)
(* two holes: night mode that still looks for night, and light off the     *)
(* band of the day reference that is not four steps below where EV stood   *)
(* (photo_day_control, photo_fixed_control).                               *)
Followed ==
    /\ phEv > EvDeep => phMode = "night"
    /\ phEv < EvDay => \/ phMode = "day" \/ ph.phase = "night_detect"
                       \/ /\ ph.dayRef # 0 /\ Apart(ph.dayRef, phEv) > 1
                          /\ ph.fixRef < phEv + 4
PhotoFollows == <>[](phSame /\ ~phForced) => <>[]Followed
=============================================================================
