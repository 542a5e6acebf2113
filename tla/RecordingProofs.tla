-------------------------- MODULE RecordingProofs --------------------------
(***************************************************************************)
(* The suite MCRecording for any sizes, rates and thresholds: ric, rmr's   *)
(* recorder, timelapse and pre-roll buffer, rmd, and ric's photo trigger.  *)
(* Each part has an inductive invariant of its own; the parts share no     *)
(* variable, so every behaviour of the suite is one of each part.          *)
(***************************************************************************)
EXTENDS MCRecording, SequenceTheorems, WellFoundedInduction, TLAPS

-----------------------------------------------------------------------------
(* ric's day and night, for any LED banks, hysteresis, cooldown, probe     *)
(* timing and lockout.                                                     *)

(* The flags of the daemon, which RicTypeOK leaves out. *)
Flags == /\ baseline \in BOOLEAN /\ verify \in BOOLEAN /\ probe \in BOOLEAN
         /\ rvdFail \in BOOLEAN /\ ricRvdUp \in BOOLEAN /\ bench \in BOOLEAN
         /\ ambient \in {"dark", "bright"}

(* Why BacksOff holds.  Only the luma trigger verifies a day switch, and a *)
(* trigger change forgets the failure.  The polls since a failure, those   *)
(* the cooldown still takes and those the lockout still takes add up to at *)
(* least the pause; an escalated lockout is never shorter than the first.  *)
Pausing ==
    /\ ricQuiet \in 0..Backoff
    /\ lockNext = 0 \/ lockNext >= LockFirst
    /\ verify \/ ricQuiet < Backoff => trigger = "luma"
    /\ ricQuiet < Backoff => ricQuiet + cooldown + lockout >= Backoff

RicInv == RicTypeOK /\ Flags /\ HardwareMatches /\ Pausing

-----------------------------------------------------------------------------
LEMMA Bounds ==
    /\ Hyst \in Nat /\ Hyst > 0 /\ Cooldown \in Nat /\ Cooldown > 0
    /\ AgreeRun \in Nat /\ AgreeRun > 0 /\ Settle \in Nat /\ Settle > 0
    /\ DipRun \in Nat /\ DipRun > 0 /\ LockFirst \in Nat /\ LockFirst > 0
    /\ Extend \in Nat /\ Holdoff \in Nat /\ Recheck \in Nat
    /\ LockMax \in Nat /\ LockFirst <= LockMax /\ Backoff = Cooldown + LockFirst
    /\ Default \subseteq Banks /\ "luma" \in Triggers /\ Triggers \subseteq {"luma", "adc"}
  BY RicAssumption DEF Backoff

(* One poll answers ProbeStep with one of these.  A running probe has      *)
(* polls left when it settles, judges or restores, and the counters the    *)
(* other answers change have room.                                         *)
LEMMA StepRange ==
    ASSUME RicTypeOK, Flags, NEW r \in Readings
    PROVE  /\ ProbeStep(r) = "ended" => probe /\ mode = "day"
           /\ ProbeStep(r) = "start" => ~probe /\ mode = "night"
           /\ ProbeStep(r) = "dip" => dipRun + 1 < DipRun
           /\ ProbeStep(r) = "held" => holdoff > 0
           /\ ProbeStep(r) \in {"settling", "judging", "restore"}
                => probe /\ mode = "night" /\ probeLeft > 0
           /\ ProbeStep(r) = "restore" => probeLeft = 1
  BY Bounds DEF ProbeStep, MayProbe, RecheckDue, RicTypeOK, Flags

LEMMA RicTypeInit == RicInit => RicTypeOK /\ Flags
  <1> SUFFICES ASSUME RicInit PROVE RicTypeOK /\ Flags
    OBVIOUS
  <1>1. RicTypeOK
    BY Bounds DEF RicInit, RicTypeOK, Modes
  <1>2. Flags
    BY Zenon DEF RicInit, Flags
  <1> QED BY <1>1, <1>2

(* What a mode change or the lack of one does to the hardware's types. *)
LEMMA SetModeType ==
    ASSUME RicTypeOK, Flags, NEW m \in Modes, NEW led \in SUBSET Banks,
           NEW cool \in 0..Cooldown, SetMode(m, led, cool)
    PROVE  /\ mode' \in Modes /\ filter' \in Modes /\ lit' \in SUBSET Banks
           /\ cooldown' \in 0..Cooldown /\ bench' \in BOOLEAN
  <1>1. mode' \in Modes /\ filter' \in Modes /\ lit' \in SUBSET Banks
    BY DEF SetMode, Leds, RicTypeOK
  <1>2. cooldown' \in 0..Cooldown
    BY Bounds DEF SetMode
  <1>3. bench' \in BOOLEAN
    BY Zenon DEF SetMode, Flags
  <1> QED BY <1>1, <1>2, <1>3

LEMMA AnsweredType ==
    ASSUME RicTypeOK, Flags, mode' \in Modes, Answered
    PROVE  isp' \in Modes /\ rvdFail' = FALSE /\ ricRvdUp
  BY DEF Answered, RicTypeOK, Flags

(* A poll in cooldown: the counters stay in their ranges, and an escalated *)
(* lockout stays between the first one and the cap.                        *)
LEMMA CooldownType ==
    ASSUME RicInv, NEW r \in Readings, RicPollCooldown(r)
    PROVE  RicTypeOK' /\ Flags'
  <1> USE Bounds DEF RicInv, RicTypeOK
  <1>1. lockout' \in 0..LockMax /\ lockNext' \in 0..LockMax
    BY DEF RicPollCooldown, Pausing
  <1>2. agreeRun' \in 0..AgreeRun
    BY DEF RicPollCooldown
  <1>3. extend' \in 0..Extend /\ recheck' \in 0..Recheck
    BY DEF RicPollCooldown
  <1>4. /\ mode' \in Modes /\ filter' \in Modes /\ lit' \in SUBSET Banks
        /\ cooldown' \in 0..Cooldown /\ bench' \in BOOLEAN
    <2> DEFINE wait == cooldown = 1 /\ mode = "night" /\ agreeRun' < AgreeRun /\ extend > 0
               cool == IF wait THEN 1 ELSE cooldown - 1
               m == IF Reverts(r) THEN "night" ELSE mode
    <2>1. SetMode(m, lit, cool) /\ cooldown > 0
      BY DEF RicPollCooldown
    <2>2. cool \in 0..Cooldown
      BY <2>1
    <2>3. m \in Modes /\ lit \in SUBSET Banks
      BY DEF Modes
    <2> HIDE DEF m, cool
    <2> QED BY <2>1, <2>2, <2>3, SetModeType
  <1>5. isp' \in Modes /\ rvdFail' = FALSE
    BY <1>4, AnsweredType DEF RicPollCooldown
  <1>6. dayCount' \in 0..(Hyst - 1) /\ nightCount' \in 0..(Hyst - 1)
    BY DEF RicPollCooldown
  <1>7. RicTypeOK'
    BY <1>1, <1>2, <1>3, <1>4, <1>5, <1>6 DEF RicPollCooldown, settings
  <1>8. Flags'
    <2>1. verify' \in BOOLEAN /\ baseline' \in BOOLEAN
      BY Zenon DEF RicPollCooldown
    <2> QED BY <1>4, <1>5, <2>1, Zenon DEF RicPollCooldown, Flags
  <1> QED BY <1>7, <1>8

(* A poll that judges: debounce, lockout and probe counters. *)
LEMMA EvalType ==
    ASSUME RicInv, NEW r \in Readings, PollEval(r)
    PROVE  RicTypeOK' /\ Flags'
  <1> USE Bounds DEF RicInv
  <1> DEFINE step == ProbeStep(r)
             next == IF GoesNight(r) THEN "night" ELSE IF GoesDay(r) THEN "day" ELSE mode
             led == CASE step = "start" -> lit \ enabled
                      [] step = "restore" -> lit \cup enabled
                      [] OTHER -> lit
             cool == IF step = "restore" THEN Cooldown ELSE 0
  <1>1. /\ SetMode(next, led, cool) /\ Answered
        /\ UNCHANGED <<settings, lockNext, ricRvdUp, ambient>>
    BY Zenon DEF PollEval
  <1>2. /\ \/ probeLeft' = Settle + Hyst + 3 \/ probeLeft' = probeLeft
           \/ step \in {"settling", "judging", "restore"} /\ probeLeft' = probeLeft - 1
        /\ \/ holdoff' = Holdoff \/ holdoff' = holdoff
           \/ step = "held" /\ holdoff' = holdoff - 1
        /\ \/ dipRun' = 0 \/ dipRun' = dipRun
           \/ step = "dip" /\ dipRun' = dipRun + 1
    BY Zenon DEF PollEval
  <1>3. /\ recheck' = 0 \/ recheck' = recheck \/ (recheck > 0 /\ recheck' = recheck - 1)
        /\ agreeRun' = 0 \/ agreeRun' = agreeRun
        /\ extend' = Extend \/ extend' = extend
    BY Zenon DEF PollEval
  <1>4. lockout' = IF trigger = "luma" /\ lockout > 0 THEN lockout - 1 ELSE lockout
    BY Zenon DEF PollEval
  <1>5. /\ verify' \in BOOLEAN /\ probe' \in BOOLEAN /\ baseline' \in BOOLEAN
    BY Zenon DEF PollEval
  <1>6. nightCount' \in 0..(Hyst - 1) /\ dayCount' \in 0..(Hyst - 1)
    <2>1. Debounce(r)
      BY DEF PollEval
    <2> QED BY <2>1 DEF Debounce, GoesNight, GoesDay, RicTypeOK
  <1>7. /\ next \in Modes /\ led \in SUBSET Banks /\ cool \in 0..Cooldown
    BY DEF Modes, RicTypeOK
  <1>8. /\ step = "dip" => dipRun + 1 < DipRun
        /\ step = "held" => holdoff > 0
        /\ step \in {"settling", "judging", "restore"} => probeLeft > 0
    BY StepRange
  <1> HIDE DEF step, next, led, cool
  <1>9. /\ mode' \in Modes /\ filter' \in Modes /\ lit' \in SUBSET Banks
        /\ cooldown' \in 0..Cooldown /\ bench' \in BOOLEAN
    BY <1>1, <1>7, SetModeType
  <1>10. isp' \in Modes /\ rvdFail' = FALSE
    BY <1>1, <1>9, AnsweredType
  <1>11. /\ probeLeft' \in 0..(Settle + Hyst + 3) /\ holdoff' \in 0..Holdoff
         /\ dipRun' \in 0..(DipRun - 1) /\ recheck' \in 0..Recheck /\ lockout' \in 0..LockMax
    <2>1. probeLeft' \in 0..(Settle + Hyst + 3)
      BY <1>2, <1>8 DEF RicTypeOK
    <2>2. holdoff' \in 0..Holdoff
      BY <1>2, <1>8 DEF RicTypeOK
    <2>3. dipRun' \in 0..(DipRun - 1)
      BY <1>2, <1>8 DEF RicTypeOK
    <2>4. recheck' \in 0..Recheck /\ lockout' \in 0..LockMax
      BY <1>3, <1>4 DEF RicTypeOK
    <2> QED BY <2>1, <2>2, <2>3, <2>4
  <1>12. agreeRun' \in 0..AgreeRun /\ extend' \in 0..Extend
    BY <1>3 DEF RicTypeOK
  <1>13. RicTypeOK'
    BY <1>1, <1>6, <1>9, <1>10, <1>11, <1>12 DEF RicTypeOK, settings
  <1>14. Flags'
    BY <1>1, <1>5, <1>9, <1>10, Zenon DEF Flags
  <1> QED BY <1>13, <1>14

(* The commands and the environment. *)
LEMMA OtherType ==
    ASSUME RicInv,
           \/ PollUnanswered \/ PollForced \/ RicAuto \/ Bench
           \/ RicRvdStops \/ RicRvdStarts \/ LightChanges
           \/ \E m \in Modes : RicForce(m)
           \/ \E b \in Banks, on \in BOOLEAN : EnableBank(b, on)
           \/ \E t \in Triggers : Rearm(t)
    PROVE  RicTypeOK' /\ Flags'
  <1> USE DEF settings, judgeVars, verifyVars, probeVars, hardware
  <1>1. RicTypeOK /\ Flags
    BY DEF RicInv
  <1>2. CASE PollUnanswered
    <2>1. RicTypeOK'
      BY <1>1, <1>2 DEF PollUnanswered, RicTypeOK
    <2>2. Flags'
      BY <1>1, <1>2, Zenon DEF PollUnanswered, Flags
    <2> QED BY <2>1, <2>2
  <1>3. CASE PollForced
    <2>1. isp' \in Modes /\ rvdFail' = FALSE
      BY <1>1, <1>3, AnsweredType DEF PollForced, RicTypeOK
    <2>2. RicTypeOK'
      BY <1>1, <1>3, <2>1 DEF PollForced, RicTypeOK
    <2>3. Flags'
      BY <1>1, <1>3, <2>1, Zenon DEF PollForced, Flags
    <2> QED BY <2>2, <2>3
  <1>4. CASE RicAuto
    <2>1. RicTypeOK'
      BY <1>1, <1>4 DEF RicAuto, RicTypeOK
    <2>2. Flags'
      BY <1>1, <1>4, Zenon DEF RicAuto, Flags
    <2> QED BY <2>1, <2>2
  <1>5. CASE Bench
    <2>1. RicTypeOK'
      BY <1>1, <1>5 DEF Bench, RicTypeOK
    <2>2. Flags'
      BY <1>1, <1>5, Zenon DEF Bench, Flags
    <2> QED BY <2>1, <2>2
  <1>6. CASE RicRvdStops
    <2>1. RicTypeOK'
      BY <1>1, <1>6 DEF RicRvdStops, RicTypeOK
    <2>2. Flags'
      BY <1>1, <1>6, Zenon DEF RicRvdStops, Flags
    <2> QED BY <2>1, <2>2
  <1>7. CASE RicRvdStarts
    <2>1. RicTypeOK'
      BY <1>1, <1>7 DEF RicRvdStarts, RicTypeOK, Modes
    <2>2. Flags'
      BY <1>1, <1>7, Zenon DEF RicRvdStarts, Flags
    <2> QED BY <2>1, <2>2
  <1>8. CASE LightChanges
    <2>1. RicTypeOK'
      BY <1>1, <1>8 DEF LightChanges, RicTypeOK
    <2>2. Flags'
      BY <1>1, <1>8, Zenon DEF LightChanges, Flags
    <2> QED BY <2>1, <2>2
  <1>9. ASSUME NEW m \in Modes, RicForce(m) PROVE RicTypeOK' /\ Flags'
    <2>1. RicTypeOK'
      BY <1>1, <1>9, Bounds DEF RicForce, RicTypeOK, Leds
    <2>2. bench' \in BOOLEAN /\ baseline' \in BOOLEAN
      BY <1>1, <1>9, Zenon DEF RicForce, Flags
    <2>3. Flags'
      BY <1>1, <1>9, <2>2, Zenon DEF RicForce, Flags
    <2> QED BY <2>1, <2>3
  <1>10. ASSUME NEW b \in Banks, NEW on \in BOOLEAN, EnableBank(b, on)
         PROVE  RicTypeOK' /\ Flags'
    <2>1. RicTypeOK'
      BY <1>1, <1>10 DEF EnableBank, RicTypeOK
    <2>2. Flags'
      BY <1>1, <1>10, Zenon DEF EnableBank, Flags
    <2> QED BY <2>1, <2>2
  <1>11. ASSUME NEW t \in Triggers, Rearm(t) PROVE RicTypeOK' /\ Flags'
    <2>1. RicTypeOK'
      BY <1>1, <1>11, Bounds DEF Rearm, RicTypeOK
    <2>2. Flags'
      BY <1>1, <1>11, Zenon DEF Rearm, Flags
    <2> QED BY <2>1, <2>2
  <1> QED BY <1>2, <1>3, <1>4, <1>5, <1>6, <1>7, <1>8, <1>9, <1>10, <1>11

LEMMA RicTypeStep == RicInv /\ [RicNext]_ricvars => RicTypeOK' /\ Flags'
  <1> SUFFICES ASSUME RicInv, [RicNext]_ricvars PROVE RicTypeOK' /\ Flags'
    OBVIOUS
  <1>1. CASE UNCHANGED ricvars
    <2>1. RicTypeOK'
      BY <1>1 DEF RicInv, RicTypeOK, ricvars, settings, judgeVars, verifyVars, probeVars,
                  hardware
    <2>2. Flags'
      BY <1>1, Zenon DEF RicInv, Flags, ricvars, judgeVars, verifyVars, probeVars
    <2> QED BY <2>1, <2>2
  <1>2. ASSUME NEW r \in Readings, RicPollCooldown(r) \/ PollEval(r)
        PROVE  RicTypeOK' /\ Flags'
    BY <1>2, CooldownType, EvalType
  <1> QED BY <1>1, <1>2, OtherType DEF RicNext, RicPoll

-----------------------------------------------------------------------------
(* The LEDs a mode change leaves: bench work is undone exactly when the    *)
(* enabled banks, and only those, are lit as the mode wants.               *)
LEMMA SetModeMatches ==
    ASSUME HardwareMatches, mode \in Modes, NEW m \in Modes, NEW led, NEW cool,
           SetMode(m, led, cool), UNCHANGED enabled, ~bench',
           m = mode => \/ m = "day" /\ led = lit
                       \/ m = "night" /\ (led = enabled \/ (probe' /\ led \subseteq enabled))
    PROVE  /\ filter' = mode'
           /\ mode' = "day" => lit' = {}
           /\ mode' = "night" => lit' = enabled' \/ (probe' /\ lit' \subseteq enabled')
  <1>1. CASE m = mode
    BY <1>1 DEF SetMode, HardwareMatches
  <1>2. CASE m # mode
    <2>1. lit' = Leds(m) /\ filter' = m /\ mode' = m
      BY <1>2 DEF SetMode
    <2>2. CASE bench
      BY <1>2, <2>1, <2>2 DEF SetMode, Modes
    <2>3. CASE ~bench
      BY <1>2, <2>1, <2>3 DEF Leds, HardwareMatches, Modes
    <2> QED BY <2>2, <2>3
  <1> QED BY <1>1, <1>2

(* The ISP is asserted with every mode change and after every gap. *)
LEMMA AnsweredMatches ==
    ASSUME HardwareMatches, Answered, ~bench', bench => mode' # mode
    PROVE  isp' = mode'
  BY DEF Answered, HardwareMatches

LEMMA HardwareStep == RicInv /\ [RicNext]_ricvars => HardwareMatches'
  <1> SUFFICES ASSUME RicInv, [RicNext]_ricvars, ~bench' PROVE HardwareMatches'
    BY DEF HardwareMatches
  <1> USE DEF settings, judgeVars, verifyVars, probeVars, hardware
  <1>0. RicTypeOK /\ Flags /\ HardwareMatches /\ mode \in Modes
    BY DEF RicInv, RicTypeOK
  <1>1. CASE PollUnanswered
    BY <1>0, <1>1 DEF PollUnanswered, HardwareMatches
  <1>2. CASE PollForced
    BY <1>0, <1>2, AnsweredMatches DEF PollForced, HardwareMatches
  <1>3. ASSUME NEW r \in Readings, RicPollCooldown(r) PROVE HardwareMatches'
    <2> DEFINE m == IF Reverts(r) THEN "night" ELSE mode
               wait == cooldown = 1 /\ mode = "night" /\ agreeRun' < AgreeRun /\ extend > 0
               cool == IF wait THEN 1 ELSE cooldown - 1
    <2>1. SetMode(m, lit, cool) /\ Answered /\ UNCHANGED <<enabled, probe>>
      BY <1>3, Zenon DEF RicPollCooldown
    <2>2. m \in Modes /\ (m = mode \/ (m = "night" /\ mode = "day"))
      BY <1>0 DEF Modes, Reverts
    <2> HIDE DEF m, cool
    <2>3. bench => mode' # mode
      BY <2>1 DEF SetMode
    <2>4. m = mode => ~bench
      BY <2>1 DEF SetMode
    <2>5. m = mode => \/ m = "day"
                      \/ m = "night" /\ (lit = enabled \/ (probe' /\ lit \subseteq enabled))
      BY <1>0, <2>1, <2>2, <2>4 DEF HardwareMatches, Modes
    <2>6. isp' = mode'
      BY <1>0, <2>1, <2>3, AnsweredMatches
    <2> QED BY <1>0, <2>1, <2>2, <2>5, <2>6, SetModeMatches DEF HardwareMatches
  <1>4. ASSUME NEW r \in Readings, PollEval(r) PROVE HardwareMatches'
    <2> DEFINE step == ProbeStep(r)
               m == IF GoesNight(r) THEN "night" ELSE IF GoesDay(r) THEN "day" ELSE mode
               led == CASE step = "start" -> lit \ enabled
                        [] step = "restore" -> lit \cup enabled
                        [] OTHER -> lit
               cool == IF step = "restore" THEN Cooldown ELSE 0
    <2>1. /\ SetMode(m, led, cool) /\ Answered /\ UNCHANGED enabled
          /\ probe' = ((probe \/ step = "start") /\ step \notin {"ended", "restore"})
      BY <1>4, Zenon DEF PollEval
    <2>2. m \in Modes
      BY <1>0 DEF Modes
    <2>3. /\ step = "ended" => mode = "day"
          /\ step = "start" => ~probe /\ mode = "night"
          /\ step = "restore" => mode = "night" /\ probe
      BY <1>0, StepRange
    <2>4. \/ step = "start" /\ led = lit \ enabled
          \/ step = "restore" /\ led = lit \cup enabled
          \/ step \notin {"start", "restore"} /\ led = lit
      BY Zenon
    <2> HIDE DEF m, led, cool, step
    <2>5. bench => mode' # mode
      BY <2>1 DEF SetMode
    <2>6. m = mode => ~bench
      BY <2>1 DEF SetMode
    <2>7. m = mode => \/ m = "day" /\ led = lit
                      \/ m = "night" /\ (led = enabled \/ (probe' /\ led \subseteq enabled))
      <3> SUFFICES ASSUME m = mode
                   PROVE  \/ m = "day" /\ led = lit
                          \/ m = "night" /\ (led = enabled \/ (probe' /\ led \subseteq enabled))
        OBVIOUS
      <3>1. CASE step = "start"
        BY <1>0, <2>1, <2>3, <2>4, <2>6, <3>1 DEF HardwareMatches
      <3>2. CASE step = "restore"
        BY <1>0, <2>3, <2>4, <2>6, <3>2 DEF HardwareMatches
      <3>3. CASE step \notin {"start", "restore"} /\ mode = "day"
        BY <2>4, <3>3
      <3>4. CASE step \notin {"start", "restore"} /\ mode = "night"
        BY <1>0, <2>1, <2>3, <2>4, <2>6, <3>4 DEF HardwareMatches
      <3> QED BY <1>0, <3>1, <3>2, <3>3, <3>4 DEF Modes
    <2>8. isp' = mode'
      BY <1>0, <2>1, <2>5, AnsweredMatches
    <2> QED BY <1>0, <2>1, <2>2, <2>7, <2>8, SetModeMatches DEF HardwareMatches
  <1>5. ASSUME NEW m \in Modes, RicForce(m) PROVE HardwareMatches'
    <2>1. /\ filter' = m /\ mode' = m /\ lit' = Leds(m) /\ UNCHANGED <<enabled, probe, rvdFail, ricRvdUp>>
          /\ isp' = IF ricRvdUp THEN m ELSE isp
          /\ bench' = (bench /\ lit' # (IF m = "night" THEN enabled ELSE {}))
      BY <1>5, Zenon DEF RicForce
    <2>2. CASE bench
      BY <2>1, <2>2 DEF HardwareMatches
    <2>3. CASE ~bench
      BY <1>0, <2>1, <2>3 DEF Leds, HardwareMatches, Modes
    <2> QED BY <2>2, <2>3
  <1>6. CASE RicAuto
    BY <1>0, <1>6 DEF RicAuto, HardwareMatches
  <1>7. ASSUME NEW b \in Banks, NEW on \in BOOLEAN, EnableBank(b, on) PROVE HardwareMatches'
    BY <1>0, <1>7 DEF EnableBank, HardwareMatches
  <1>8. ASSUME NEW t \in Triggers, Rearm(t) PROVE HardwareMatches'
    BY <1>0, <1>8 DEF Rearm, HardwareMatches
  <1>9. CASE Bench
    BY <1>9 DEF Bench
  <1>10. CASE RicRvdStops
    BY <1>0, <1>10 DEF RicRvdStops, HardwareMatches
  <1>11. CASE RicRvdStarts
    BY <1>0, <1>11 DEF RicRvdStarts, HardwareMatches
  <1>12. CASE LightChanges
    BY <1>0, <1>12 DEF LightChanges, HardwareMatches
  <1>13. CASE UNCHANGED ricvars
    BY <1>0, <1>13 DEF ricvars, HardwareMatches
  <1> QED
    BY <1>1, <1>2, <1>3, <1>4, <1>5, <1>6, <1>7, <1>8, <1>9, <1>10, <1>11, <1>12, <1>13
    DEF RicNext, RicPoll

-----------------------------------------------------------------------------
LEMMA PausingStep == RicInv /\ [RicNext]_ricvars => Pausing'
  <1> SUFFICES ASSUME RicInv, [RicNext]_ricvars PROVE Pausing'
    OBVIOUS
  <1> USE Bounds DEF settings, judgeVars, verifyVars, probeVars, hardware
  <1>0. RicTypeOK /\ Flags /\ Pausing
    BY DEF RicInv
  <1>a. /\ ricQuiet \in 0..Backoff /\ Backoff \in Nat
        /\ lockout \in 0..LockMax /\ cooldown \in 0..Cooldown
        /\ ricQuiet < Backoff => ricQuiet + cooldown + lockout >= Backoff
    BY <1>0 DEF Pausing, RicTypeOK
  <1>1. CASE PollUnanswered
    BY <1>0, <1>1 DEF PollUnanswered, Pausing
  <1>2. CASE PollForced
    BY <1>0, <1>2 DEF PollForced, Pausing
  <1>3. ASSUME NEW r \in Readings, RicPollCooldown(r) PROVE Pausing'
    <2>1. /\ cooldown > 0 /\ UNCHANGED trigger
          /\ verify' => verify
      BY <1>3, Zenon DEF RicPollCooldown
    <2>2. CASE Reverts(r)
      <3>1. ricQuiet' = 0 /\ verify /\ cooldown' = Cooldown
        BY <1>3, <2>2 DEF RicPollCooldown, Reverts, SetMode
      <3>2. \E hold \in {lockNext, LockFirst} :
               /\ hold >= LockFirst /\ hold \in Nat /\ lockout' = hold
               /\ lockNext' = IF hold * 2 > LockMax THEN LockMax ELSE hold * 2
        BY <1>0, <1>3, <2>2 DEF RicPollCooldown, Pausing, RicTypeOK
      <3> QED BY <1>0, <2>1, <3>1, <3>2 DEF Pausing
    <2>3. CASE ~Reverts(r)
      <3>1. (cooldown' = 1 /\ cooldown = 1) \/ cooldown' = cooldown - 1
        BY <1>3, <2>3 DEF RicPollCooldown, SetMode
      <3>2. /\ ricQuiet' = IF ricQuiet < Backoff THEN ricQuiet + 1 ELSE ricQuiet
            /\ lockout' = lockout /\ (lockNext' = 0 \/ lockNext' = lockNext)
        BY <1>3, <2>3, Zenon DEF RicPollCooldown
      <3>3. verify' \/ ricQuiet' < Backoff => verify \/ ricQuiet < Backoff
        BY <1>0, <2>1, <3>2 DEF Pausing
      <3>4. /\ ricQuiet' \in 0..Backoff
            /\ ricQuiet' < Backoff => ricQuiet' + cooldown' + lockout' >= Backoff
        BY <1>a, <2>1, <3>1, <3>2
      <3> QED BY <1>0, <2>1, <3>2, <3>3, <3>4, Zenon DEF Pausing
    <2> QED BY <2>2, <2>3
  <1>4. ASSUME NEW r \in Readings, PollEval(r) PROVE Pausing'
    <2>0. UNCHANGED <<trigger, lockNext>> /\ (verify' => verify \/ trigger = "luma")
      BY <1>4, Zenon DEF PollEval
    <2>1. /\ cooldown = 0
          /\ lockout' = IF trigger = "luma" /\ lockout > 0 THEN lockout - 1 ELSE lockout
          /\ ricQuiet' = IF ricQuiet < Backoff THEN ricQuiet + 1 ELSE ricQuiet
      BY <1>4, Zenon DEF PollEval
    <2>2. cooldown' \in Nat
      BY <1>4, EvalType DEF RicTypeOK
    <2>3. verify' \/ ricQuiet' < Backoff => verify \/ ricQuiet < Backoff \/ trigger = "luma"
      BY <1>0, <2>0, <2>1 DEF Pausing
    <2>4. /\ ricQuiet' \in 0..Backoff
          /\ ricQuiet' < Backoff => ricQuiet' + cooldown' + lockout' >= Backoff
      <3>1. trigger = "luma" \/ ricQuiet >= Backoff
        BY <1>0 DEF Pausing, RicTypeOK
      <3>2. CASE ricQuiet < Backoff
        <4>1. lockout > 0 /\ trigger = "luma"
          BY <1>a, <2>1, <3>1, <3>2
        <4>2. lockout' = lockout - 1 /\ ricQuiet' = ricQuiet + 1
          BY <2>1, <3>2, <4>1
        <4>3. PICK k \in Nat : k = cooldown'
          BY <2>2
        <4>4. ricQuiet' + k + lockout' >= Backoff
          BY <1>a, <2>1, <3>2, <4>2
        <4>5. ricQuiet' \in 0..Backoff
          BY <1>a, <3>2, <4>2
        <4> QED BY <4>3, <4>4, <4>5, Zenon
      <3>3. CASE ricQuiet >= Backoff
        BY <1>a, <2>1, <3>3
      <3> QED BY <1>a, <3>2, <3>3
    <2> QED BY <1>0, <2>0, <2>3, <2>4, Zenon DEF Pausing
  <1>5. ASSUME NEW m \in Modes, RicForce(m) PROVE Pausing'
    <2>1. cooldown' = cooldown \/ cooldown' = Cooldown
      BY <1>5 DEF RicForce
    <2> QED BY <1>0, <1>5, <2>1 DEF RicForce, Pausing, RicTypeOK
  <1>6. CASE RicAuto
    BY <1>0, <1>6 DEF RicAuto, Pausing
  <1>7. ASSUME NEW b \in Banks, NEW on \in BOOLEAN, EnableBank(b, on) PROVE Pausing'
    BY <1>0, <1>7 DEF EnableBank, Pausing
  <1>8. ASSUME NEW t \in Triggers, Rearm(t) PROVE Pausing'
    BY <1>8 DEF Rearm, Pausing
  <1>9. CASE Bench
    BY <1>0, <1>9 DEF Bench, Pausing
  <1>10. CASE RicRvdStops
    BY <1>0, <1>10 DEF RicRvdStops, Pausing
  <1>11. CASE RicRvdStarts
    BY <1>0, <1>11 DEF RicRvdStarts, Pausing
  <1>12. CASE LightChanges
    BY <1>0, <1>12 DEF LightChanges, Pausing
  <1>13. CASE UNCHANGED ricvars
    BY <1>0, <1>13 DEF ricvars, Pausing
  <1> QED
    BY <1>1, <1>2, <1>3, <1>4, <1>5, <1>6, <1>7, <1>8, <1>9, <1>10, <1>11, <1>12, <1>13
    DEF RicNext, RicPoll

LEMMA RicInvariant == RicSpec => []RicInv
  <1>1. RicInit => RicInv
    BY RicTypeInit, Bounds DEF RicInit, RicInv, HardwareMatches, Pausing
  <1>2. RicInv /\ [RicNext]_ricvars => RicInv'
    BY RicTypeStep, HardwareStep, PausingStep DEF RicInv
  <1> QED BY <1>1, <1>2, PTL DEF RicSpec

(* Every counter of ric keeps its range and every setting its type.        *)
THEOREM RicTypeCorrect == RicSpec => []RicTypeOK
  BY RicInvariant, PTL DEF RicInv

(* The filter, the LED banks and the ISP follow the mode through polls,    *)
(* probes, commands and rvd outages, unless bench verbs moved them.        *)
THEOREM HardwareFollows == RicSpec => []HardwareMatches
  BY RicInvariant, PTL DEF RicInv

(* After a day switch that IR reflection caused, ric does not go to day by *)
(* itself before a cooldown and the shortest lockout have passed.          *)
THEOREM FailedDayPauses == RicSpec => BacksOff
  <1> DEFINE Waits == mode = "night" /\ mode' = "day" /\ opmode' = "auto" => ricQuiet >= Backoff
  <1>1. ASSUME RicInv, [RicNext]_ricvars PROVE Waits \/ UNCHANGED ricvars
    <2> SUFFICES ASSUME mode = "night", mode' = "day", opmode' = "auto", RicNext
                 PROVE  ricQuiet >= Backoff
      BY <1>1
    <2> USE Bounds DEF settings, judgeVars, verifyVars, probeVars, hardware
    <2>1. PICK r \in Readings : RicPollCooldown(r) \/ PollEval(r)
      BY DEF RicNext, RicPoll, PollUnanswered, PollForced, RicForce, RicAuto, EnableBank,
             Rearm, Bench, RicRvdStops, RicRvdStarts, LightChanges, Modes
    <2>2. PollEval(r)
      BY <2>1 DEF RicPollCooldown, SetMode
    <2>3. cooldown = 0 /\ GoesDay(r)
      BY <2>2 DEF PollEval, SetMode
    <2>4. trigger = "luma" => lockout = 0
      BY <2>3 DEF GoesDay, WantDay
    <2> QED BY <1>1, <2>3, <2>4 DEF RicInv, Pausing, RicTypeOK
  <1> QED BY <1>1, RicInvariant, PTL DEF RicSpec, BacksOff

-----------------------------------------------------------------------------
(* rmd.  While it cools down, the polls without motion are one more than   *)
(* the cooldown counted: the one that left "active" came before.           *)
RmdFlags ==
    /\ up \in BOOLEAN /\ recordingActive \in BOOLEAN /\ gpio \in BOOLEAN
    /\ rmdRvdUp \in BOOLEAN /\ motion \in BOOLEAN /\ rmrUp \in BOOLEAN
    /\ rmdRecording \in BOOLEAN
RmdCounts ==
    /\ state \in {"idle", "active", "cooldown"} /\ elapsed \in 0..Post /\ quiet \in 0..Post
    /\ state = "cooldown" => elapsed < Post /\ elapsed < quiet
RmdPins == up => (gpio <=> state # "idle") /\ (recordingActive <=> state # "idle")
RmdInv == RmdFlags /\ RmdCounts /\ RmdPins

LEMMA RmdStarts == RmdInit => RmdInv
  <1> SUFFICES ASSUME RmdInit PROVE RmdInv
    OBVIOUS
  <1>1. RmdFlags /\ RmdPins
    BY Zenon DEF RmdInit, RmdFlags, RmdPins
  <1>2. RmdCounts
    BY RmdAssumption DEF RmdInit, RmdCounts
  <1> QED BY <1>1, <1>2 DEF RmdInv

LEMMA RmdStays == RmdInv /\ [RmdNext]_rmdvars => RmdInv'
  <1> SUFFICES ASSUME RmdInv, [RmdNext]_rmdvars PROVE RmdInv'
    OBVIOUS
  <1>1. CASE UNCHANGED rmdvars
    BY <1>1, Zenon DEF rmdvars, rmd, RmdInv, RmdFlags, RmdCounts, RmdPins
  <1>2. CASE Poll
    <2>1. /\ \/ PollIdle \/ PollActive \/ PollCooldown
          /\ quiet' = IF Seen THEN 0 ELSE IF quiet < Post THEN quiet + 1 ELSE quiet
          /\ rmdRvdUp' = rmdRvdUp /\ motion' = motion /\ rmrUp' = rmrUp /\ up' = up
      BY <1>2, Zenon DEF Poll, PollIdle, PollActive, PollCooldown
    <2>2. RmdFlags'
      <3>1. CASE PollIdle
        BY <2>1, <3>1, Zenon DEF PollIdle, TriggerRecording, RmdInv, RmdFlags
      <3>2. CASE PollActive
        BY <2>1, <3>2, Zenon DEF PollActive, RmdInv, RmdFlags
      <3>3. CASE PollCooldown
        BY <2>1, <3>3, Zenon DEF PollCooldown, TriggerRecording, RmdInv, RmdFlags
      <3> QED BY <2>1, <3>1, <3>2, <3>3
    <2>3. RmdPins'
      <3>1. CASE PollIdle
        BY <2>1, <3>1, Zenon DEF PollIdle, RmdInv, RmdPins
      <3>2. CASE PollActive
        BY <2>1, <3>2, Zenon DEF PollActive, RmdInv, RmdPins
      <3>3. CASE PollCooldown
        BY <2>1, <3>3, Zenon DEF PollCooldown, RmdInv, RmdPins
      <3> QED BY <2>1, <3>1, <3>2, <3>3
    <2>4. \/ state' = "active" /\ elapsed' = elapsed
          \/ state' = "idle" /\ elapsed' = elapsed
          \/ state = "active" /\ ~Seen /\ state' = "cooldown" /\ elapsed' = 0
          \/ /\ state = "cooldown" /\ ~Seen /\ ~(elapsed + 1 >= Post)
             /\ state' = state /\ elapsed' = elapsed + 1
      BY <2>1, Zenon DEF PollIdle, PollActive, PollCooldown
    <2>5. RmdCounts'
      BY <2>1, <2>4, RmdAssumption DEF RmdInv, RmdCounts
    <2> QED BY <2>2, <2>3, <2>5 DEF RmdInv
  <1>3. CASE Shutdown \/ Kill \/ Scene \/ Rvd \/ Rmr
    <2>1. RmdFlags'
      <3>1. CASE Shutdown
        BY <3>1, Zenon DEF Shutdown, TriggerRecording, RmdInv, RmdFlags
      <3>2. CASE Kill
        BY <3>2, Zenon DEF Kill, RmdInv, RmdFlags
      <3>3. CASE Scene \/ Rvd \/ Rmr
        BY <3>3, Zenon DEF Scene, Rvd, Rmr, rmd, RmdInv, RmdFlags
      <3> QED BY <1>3, <3>1, <3>2, <3>3
    <2>2. RmdPins'
      BY <1>3, Zenon DEF Shutdown, Kill, Scene, Rvd, Rmr, rmd, RmdInv, RmdPins
    <2>3. UNCHANGED <<state, elapsed, quiet>>
      BY <1>3, Zenon DEF Shutdown, Kill, Scene, Rvd, Rmr, rmd
    <2>4. RmdCounts'
      BY <2>3, Zenon DEF RmdInv, RmdCounts
    <2> QED BY <2>1, <2>2, <2>4 DEF RmdInv
  <1>4. CASE RmdStart
    <2>1. RmdFlags' /\ RmdPins'
      BY <1>4, Zenon DEF RmdStart, RmdInv, RmdFlags, RmdPins
    <2>2. elapsed' = 0 /\ state' = "idle" /\ quiet' = quiet
      BY <1>4 DEF RmdStart
    <2>3. RmdCounts'
      BY <2>2, RmdAssumption DEF RmdInv, RmdCounts
    <2> QED BY <2>1, <2>3 DEF RmdInv
  <1> QED BY <1>1, <1>2, <1>3, <1>4 DEF RmdNext

LEMMA RmdEnds ==
    RmdInv /\ [RmdNext]_rmdvars =>
      [Poll /\ rmdRecording /\ ~rmdRecording' => quiet >= Post]_rmdvars
  <1> SUFFICES ASSUME RmdInv, Poll, rmdRecording, ~rmdRecording' PROVE quiet >= Post
    OBVIOUS
  <1>1. state = "cooldown" /\ elapsed + 1 >= Post
    <2>1. ~PollActive
      BY Zenon DEF PollActive
    <2>2. ~PollIdle
      BY Zenon DEF PollIdle, TriggerRecording
    <2> QED BY <2>1, <2>2, Zenon DEF Poll, PollCooldown
  <1> QED BY <1>1, RmdAssumption DEF RmdInv, RmdCounts

LEMMA RmdTyped == RmdInv => RmdTypeOK
  BY DEF RmdInv, RmdFlags, RmdCounts, RmdPins, RmdTypeOK

-----------------------------------------------------------------------------
(* rmr's recorder.  A frame that continues lost ones is not taken before a *)
(* keyframe is; an open segment has had its first keyframe, or lost it to  *)
(* a full card; and while the frames taken form a stream, the last of      *)
(* their keyframes is still in a pre-buffer as long as a group of          *)
(* pictures, so that a clip starts with it.                                *)
Files == [open : BOOLEAN, gap : {"none", "new", "missing", "cut"}, track : Tracks]
Kinds == {"key", "delta"}
RecFlags ==
    /\ recording \in BOOLEAN /\ clipRecording \in BOOLEAN /\ wasRecording \in BOOLEAN
    /\ waitKey \in BOOLEAN /\ params \in BOOLEAN /\ rvdUp \in BOOLEAN
    /\ storeUp \in BOOLEAN /\ clipUp \in BOOLEAN /\ standby \in BOOLEAN
RecData ==
    /\ ring \in {"open", "stale", "closed"} /\ track \in Tracks /\ sinceKey \in 0..(Gop - 1)
    /\ segment \in Files /\ clip \in Files /\ chain \in {"none", "lost", "refused"}
    /\ pre \in Seq(Kinds) /\ preCap \in PreCaps /\ Len(pre) <= preCap
    /\ geometry \in Geometries
Detached == standby => ring = "closed"
Gated == chain = "lost" => waitKey \/ ~params
SegmentBegun == segment.open => segment.gap # "new"
ClipBegun == clip.open => /\ Clips /\ clip.gap # "missing"
                          /\ clip.gap = "new" => chain # "none" \/ preCap < Gop
KeyKept == Clips /\ params /\ chain = "none" /\ Gop <= preCap =>
    \E i \in 1..Len(pre) : pre[i] = "key" /\ Len(pre) - i <= sinceKey
RecInv == /\ RecFlags /\ RecData /\ Detached /\ Gated /\ SegmentBegun /\ ClipBegun /\ KeyKept
          /\ SegmentDecodable /\ ClipDecodable

LEMMA RecConstants ==
    /\ \A n \in PreCaps : n \in Nat
    /\ Gop \in Nat /\ 1 <= Gop /\ (CHOOSE t \in Tracks : TRUE) \in Tracks
  <1>1. PICK c \in Codecs, g \in Geometries : TRUE
    BY RecorderAssumption
  <1>2. [codec |-> c, geometry |-> g] \in Tracks
    BY DEF Tracks
  <1>3. (CHOOSE t \in Tracks : TRUE) \in Tracks
    BY <1>2, Zenon
  <1> QED BY <1>3, RecorderAssumption

LEMMA FileTypes ==
    /\ NoFile \in Files /\ NoFile.open = FALSE
    /\ track \in Tracks /\ geometry \in Geometries =>
                           /\ RecFresh \in Files /\ RecFresh.open = TRUE /\ RecFresh.gap = "new"
                           /\ [RecFresh EXCEPT !.gap = "none"] \in Files
                           /\ [RecFresh EXCEPT !.gap = "none"].open = TRUE
                           /\ [RecFresh EXCEPT !.gap = "none"].gap = "none"
                           /\ [RecFresh EXCEPT !.gap = "cut"] \in Files
                           /\ [RecFresh EXCEPT !.gap = "cut"].gap = "cut"
    /\ \A f \in Files, k \in Kinds :
         /\ Written(f, k) \in Files /\ Written(f, k).open = f.open
         /\ Written(f, k).gap = (IF k = "key" THEN "none" ELSE f.gap)
         /\ Gapped(f) \in Files /\ Gapped(f).open = f.open
         /\ Gapped(f).gap = (IF f.open THEN "missing" ELSE f.gap)
  <1>1. NoFile \in Files /\ NoFile.open = FALSE
    BY RecConstants DEF NoFile, Files
  <1>2. track \in Tracks /\ geometry \in Geometries =>
          [codec |-> track.codec, geometry |-> geometry] \in Tracks
    BY DEF Tracks
  <1> QED BY <1>1, <1>2 DEF RecFresh, Written, Gapped, Files, Kinds

LEMMA RecStarts == RecInit => RecInv
  <1> SUFFICES ASSUME RecInit PROVE RecInv
    OBVIOUS
  <1>1. RecFlags
    <2>1. recording \in BOOLEAN
      <3>1. recording = (Mode # "motion")
        BY DEF RecInit
      <3> QED BY <3>1
    <2>2. clipUp \in BOOLEAN
      <3>1. clipUp = (Mode \in {"motion", "both"})
        BY Zenon DEF RecInit, Clips
      <3> QED BY <3>1
    <2> QED BY <2>1, <2>2, Zenon DEF RecInit, RecFlags
  <1>2. RecData
    <2>1. pre \in Seq(Kinds) /\ Len(pre) = 0
      BY EmptySeq DEF RecInit
    <2>2. preCap \in Nat /\ geometry \in Geometries
      BY RecConstants DEF RecInit, Tracks
    <2> QED BY <2>1, <2>2, RecConstants, FileTypes DEF RecInit, RecData
  <1>3. Detached /\ Gated /\ KeyKept
    BY Zenon DEF RecInit, Detached, Gated, KeyKept
  <1>4. SegmentBegun /\ ClipBegun
    <2>1. segment.open = FALSE /\ clip.open = FALSE
      BY FileTypes DEF RecInit
    <2> QED BY <2>1 DEF SegmentBegun, ClipBegun
  <1>5. SegmentDecodable /\ ClipDecodable
    BY Zenon DEF RecInit, SegmentDecodable, ClipDecodable
  <1> QED BY <1>1, <1>2, <1>3, <1>4, <1>5 DEF RecInv

(* A step that takes no frame and touches no file. *)
LEMMA RecRest ==
    ASSUME RecInv, RecFlags', Detached', Gated', UNCHANGED <<segment, clip, pre, broken, boot>>,
           ring' \in {"open", "stale", "closed"}, track' \in Tracks,
           sinceKey' \in 0..(Gop - 1), chain' \in {"none", "lost", "refused"},
           chain' = "none" => chain = "none" /\ params' = params /\ sinceKey <= sinceKey'
    PROVE  RecInv'
  <1>0. preCap' = preCap /\ geometry' = geometry
    BY DEF boot
  <1>1. RecData'
    BY <1>0 DEF RecInv, RecData
  <1>2. SegmentBegun' /\ ClipBegun' /\ SegmentDecodable' /\ ClipDecodable'
    BY <1>0 DEF RecInv, SegmentBegun, ClipBegun, SegmentDecodable, ClipDecodable, Clips
  <1>3. KeyKept'
    <2> SUFFICES ASSUME Clips, params', chain' = "none", Gop <= preCap
                 PROVE  \E i \in 1..Len(pre) : pre[i] = "key" /\ Len(pre) - i <= sinceKey'
      BY <1>0 DEF KeyKept, Clips
    <2>1. PICK i \in 1..Len(pre) : pre[i] = "key" /\ Len(pre) - i <= sinceKey
      BY Zenon DEF RecInv, KeyKept
    <2>2. Len(pre) - i <= sinceKey'
      BY <2>1, LenProperties, RecConstants DEF RecInv, RecData
    <2> QED BY <2>1, <2>2
  <1> QED BY <1>1, <1>2, <1>3 DEF RecInv

LEMMA RecCommand ==
    ASSUME RecInv, Enable \/ Disable \/ (\E on \in BOOLEAN : Trigger(on)) \/ CardMoves
    PROVE  RecInv'
  <1>1. UNCHANGED <<recReader, ring, source, standby, segment, clip, pre, chain, ghosts, boot>>
    BY Zenon DEF Enable, Disable, Trigger, CardMoves
  <1>2. recording' \in BOOLEAN /\ clipRecording' \in BOOLEAN
        /\ storeUp' \in BOOLEAN /\ clipUp' \in BOOLEAN
    <2>1. CASE Enable \/ Disable
      BY <2>1, Zenon DEF Enable, Disable, stores, RecInv, RecFlags
    <2>2. CASE \E on \in BOOLEAN : Trigger(on)
      BY <2>2, Zenon DEF Trigger, stores, RecInv, RecFlags
    <2>3. CASE CardMoves
      BY <2>3, Zenon DEF CardMoves, flags, RecInv, RecFlags
    <2> QED BY <2>1, <2>2, <2>3
  <1>3. RecFlags' /\ Detached' /\ Gated'
    BY <1>1, <1>2, Zenon DEF recReader, source, RecInv, RecFlags, Detached, Gated
  <1>4. UNCHANGED <<ring, track, sinceKey, segment, clip, pre, chain, params, broken, boot>>
    BY <1>1, Zenon DEF recReader, source, ghosts
  <1> QED BY <1>3, <1>4, RecRest, RecConstants DEF RecInv, RecData

(* The reader without a frame: standby, reopening, a silent ring, a lap. *)
LEMMA RecReader ==
    ASSUME RecInv, RecReopen \/ RecIdleClose \/ Overflow \/ RvdStops \/ RvdStarts \/ DropDelta
    PROVE  RecInv'
  <1>1. UNCHANGED <<flags, wasRecording, stores, segment, clip, pre, ghosts, boot>>
    BY Zenon DEF RecReopen, RecIdleClose, Overflow, RvdStops, RvdStarts, DropDelta, recReader
  <1>2. RecFlags'
    BY <1>1, ZenonT(60)
    DEF RecReopen, RecIdleClose, Overflow, RvdStops, RvdStarts, DropDelta, flags, stores,
        recReader, source, RecInv, RecFlags
  <1>3. Detached'
    BY Zenon
    DEF RecReopen, RecIdleClose, Overflow, RvdStops, RvdStarts, DropDelta, RecInv, Detached
  <1>4. Gated'
    BY Zenon
    DEF RecReopen, RecIdleClose, Overflow, RvdStops, RvdStarts, DropDelta, recReader,
        RecInv, Gated
  <1>5. /\ ring' \in {"open", "stale", "closed"} /\ track' \in Tracks
        /\ chain' \in {"none", "lost", "refused"}
        /\ chain' = "none" => chain = "none" /\ params' = params
    BY Zenon
    DEF RecReopen, RecIdleClose, Overflow, RvdStops, RvdStarts, DropDelta, recReader, source,
        RecInv, RecData
  <1>6. \/ sinceKey' = sinceKey \/ sinceKey' = Gop - 1
        \/ chain' = "lost" /\ sinceKey + 1 < Gop /\ sinceKey' = sinceKey + 1
    <2>1. CASE DropDelta
      BY <2>1 DEF DropDelta, Encoded
    <2> QED BY <2>1, Zenon DEF RecReopen, RecIdleClose, Overflow, RvdStops, RvdStarts, source
  <1>7. sinceKey' \in 0..(Gop - 1) /\ (chain' = "none" => sinceKey <= sinceKey')
    BY <1>6, RecConstants DEF RecInv, RecData
  <1>8. UNCHANGED <<segment, clip, pre, broken, boot>>
    BY <1>1, Zenon DEF ghosts
  <1> QED BY <1>2, <1>3, <1>4, <1>5, <1>7, <1>8, RecRest

LEMMA RecRefuse ==
    ASSUME RecInv, NEW k \in Kinds, RefuseFrame(k)
    PROVE  RecInv'
  <1>1. /\ UNCHANGED <<recording, clipRecording, wasRecording, ring, track, rvdUp, storeUp,
                       clipUp, standby, segment, clip, pre, broken, boot>>
        /\ waitKey' = FALSE /\ params' = TRUE /\ chain' = "refused"
    BY Zenon DEF RefuseFrame, flags, stores, ghosts
  <1>2. sinceKey' = 0 \/ (sinceKey + 1 < Gop /\ sinceKey' = sinceKey + 1)
    BY Zenon DEF RefuseFrame, Encoded
  <1>3. sinceKey' \in 0..(Gop - 1)
    BY <1>2, RecConstants DEF RecInv, RecData
  <1>4. RecFlags' /\ Detached' /\ Gated'
    BY <1>1, Zenon DEF RecInv, RecFlags, Detached, Gated
  <1>5. ring' \in {"open", "stale", "closed"} /\ track' \in Tracks
    BY <1>1 DEF RecInv, RecData
  <1> QED BY <1>1, <1>3, <1>4, <1>5, RecRest

LEMMA RecStandby ==
    ASSUME RecInv, Standby
    PROVE  RecInv'
  <1>1. /\ UNCHANGED <<recording, clipRecording, waitKey, params, track, sinceKey, rvdUp,
                       storeUp, clipUp, pre, chain, broken, preCap, geometry>>
        /\ standby' = TRUE /\ ring' = "closed"
        /\ wasRecording' = (wasRecording /\ ~segment.open)
        /\ segment' = [segment EXCEPT !.open = FALSE] /\ clip' = [clip EXCEPT !.open = FALSE]
    BY Zenon DEF Standby, flags, source, stores, ghosts, boot
  <1>2. RecFlags' /\ Detached' /\ Gated'
    BY <1>1, Zenon DEF RecInv, RecFlags, Detached, Gated
  <1>3. segment' \in Files /\ clip' \in Files /\ segment'.open = FALSE /\ clip'.open = FALSE
    BY <1>1 DEF RecInv, RecData, Files
  <1>4. RecData' /\ SegmentBegun' /\ ClipBegun'
    BY <1>1, <1>3 DEF RecInv, RecData, SegmentBegun, ClipBegun
  <1>5. KeyKept' /\ SegmentDecodable' /\ ClipDecodable'
    BY <1>1 DEF RecInv, KeyKept, SegmentDecodable, ClipDecodable, Clips
  <1> QED BY <1>2, <1>4, <1>5 DEF RecInv

(* The pre-buffer after a frame: a keyframe near its end stays in it. *)
Pushed(k) == IF preCap = 0 THEN <<>>
             ELSE Append(IF Len(pre) = preCap THEN Tail(pre) ELSE pre, k)
LEMMA PushKept ==
    ASSUME RecInv, NEW k \in Kinds
    PROVE  /\ Pushed(k) \in Seq(Kinds) /\ Len(Pushed(k)) <= preCap
           /\ preCap # 0 => Len(Pushed(k)) >= 1 /\ Pushed(k)[Len(Pushed(k))] = k
           /\ \A i \in 1..Len(pre) : pre[i] = "key" /\ Len(pre) - i < preCap - 1 =>
                \E j \in 1..Len(Pushed(k)) :
                   Pushed(k)[j] = "key" /\ Len(Pushed(k)) - j = (Len(pre) - i) + 1
  <1>0. pre \in Seq(Kinds) /\ Len(pre) \in Nat /\ Len(pre) <= preCap /\ preCap \in Nat
    BY LenProperties, RecConstants DEF RecInv, RecData
  <1>3. CASE preCap = 0
    <2>1. Pushed(k) = <<>> /\ Len(pre) = 0
      BY <1>0, <1>3 DEF Pushed
    <2> QED BY <1>3, <2>1, EmptySeq
  <1>1. CASE Len(pre) = preCap /\ preCap # 0
    <2> DEFINE rest == Tail(pre)
    <2>1. pre # <<>>
      BY <1>0, <1>1, EmptySeq, RecConstants
    <2>2. /\ rest \in Seq(Kinds) /\ Len(rest) = Len(pre) - 1
          /\ \A i \in 1..Len(rest) : rest[i] = pre[i + 1]
      BY <1>0, <2>1, HeadTailProperties
    <2> HIDE DEF rest
    <2>3. /\ Append(rest, k) \in Seq(Kinds) /\ Len(Append(rest, k)) = Len(pre)
          /\ \A i \in 1..Len(rest) : Append(rest, k)[i] = rest[i]
          /\ Append(rest, k)[Len(pre)] = k
      BY <2>2, <1>0, AppendProperties
    <2>4. Pushed(k) = Append(rest, k)
      BY <1>1 DEF Pushed, rest
    <2>5. ASSUME NEW i \in 1..Len(pre), pre[i] = "key", Len(pre) - i < preCap - 1
          PROVE  \E j \in 1..Len(Pushed(k)) :
                   Pushed(k)[j] = "key" /\ Len(Pushed(k)) - j = (Len(pre) - i) + 1
      <3>1. i - 1 \in 1..Len(rest) /\ i - 1 \in 1..Len(pre) /\ (i - 1) + 1 = i
        BY <2>5, <2>2, <1>0, <1>1
      <3>2. Append(rest, k)[i - 1] = pre[i]
        BY <3>1, <2>2, <2>3
      <3>3. Pushed(k)[i - 1] = "key" /\ Len(Pushed(k)) = Len(pre)
        BY <3>2, <2>3, <2>4, <2>5
      <3>4. i - 1 \in 1..Len(Pushed(k)) /\ Len(Pushed(k)) - (i - 1) = (Len(pre) - i) + 1
        BY <3>1, <3>3, <1>0
      <3> QED BY <3>3, <3>4, Zenon
    <2> QED BY <2>3, <2>4, <2>5, <1>0, <1>1, RecConstants
  <1>2. CASE Len(pre) # preCap /\ preCap # 0
    <2>1. /\ Append(pre, k) \in Seq(Kinds) /\ Len(Append(pre, k)) = Len(pre) + 1
          /\ \A i \in 1..Len(pre) : Append(pre, k)[i] = pre[i]
          /\ Append(pre, k)[Len(pre) + 1] = k
      BY <1>0, AppendProperties
    <2>2. Pushed(k) = Append(pre, k)
      BY <1>2 DEF Pushed
    <2>3. ASSUME NEW i \in 1..Len(pre), pre[i] = "key"
          PROVE  \E j \in 1..Len(Pushed(k)) :
                   Pushed(k)[j] = "key" /\ Len(Pushed(k)) - j = (Len(pre) - i) + 1
      <3>1. i \in 1..Len(Pushed(k)) /\ Len(Pushed(k)) - i = (Len(pre) - i) + 1
        BY <1>0, <2>1, <2>2
      <3>2. Pushed(k)[i] = "key"
        BY <2>1, <2>2, <2>3
      <3> QED BY <3>1, <3>2
    <2> QED BY <1>0, <1>2, <2>1, <2>2, <2>3, RecConstants
  <1> QED BY <1>1, <1>2, <1>3

(* What the segment makes of a frame: a new one starts with a keyframe     *)
(* that is written or lost to a full card.                                 *)
LEMMA SegmentFile ==
    ASSUME RecInv, NEW k \in Kinds, NEW rotate \in BOOLEAN, NEW opens \in BOOLEAN
    PROVE  /\ SegmentFor(k, rotate, opens) \in Files
           /\ SegmentFor(k, rotate, opens).open /\ SegmentFor(k, rotate, opens).gap = "new" =>
                k = "key" /\ recording /\ storeUp
  <1>1. \/ SegmentFor(k, rotate, opens) = NoFile
        \/ SegmentFor(k, rotate, opens) = segment
        \/ SegmentFor(k, rotate, opens) = RecFresh /\ k = "key" /\ recording /\ storeUp
    BY Zenon DEF SegmentFor
  <1> QED BY <1>1, FileTypes DEF RecInv, RecData, SegmentBegun

(* What a written fragment may lack: a delta is never taken after lost     *)
(* frames.                                                                 *)
LEMMA FragmentCause ==
    ASSUME NEW name, NEW f \in Files, NEW k \in Kinds, NEW b \in Fragment(name, f, k)
    PROVE  /\ k = "delta" /\ b[1] = name /\ b[2] = Cause(f)
           /\ Cause(f) = chain \/ (Cause(f) = f.gap /\ f.gap # "none" /\ chain # "refused")
  BY DEF Fragment, Cause

LEMMA RecTake ==
    ASSUME RecInv, NEW k \in Kinds, NEW rotate \in BOOLEAN, NEW opens \in BOOLEAN,
           NEW full \in BOOLEAN, NEW cap \in BOOLEAN,
           TakeFrame(k, rotate, opens, full, cap)
    PROVE  RecInv'
  <1> DEFINE seg == SegmentFor(k, rotate, opens)
             toSeg == recording /\ storeUp /\ seg.open
             want == IF Mode = "both" THEN clipRecording
                     ELSE Clips /\ recording /\ ~(full /\ toSeg)
             starts == Clips /\ want /\ ~clip.open /\ clipUp /\ opens
             replays == starts /\ HasKey(Pushed(k))
             base == IF replays THEN [RecFresh EXCEPT !.gap = "none"]
                     ELSE IF starts THEN RecFresh ELSE clip
             toClip == Clips /\ base.open
  <1>1. /\ Encoded(k) /\ (k = "key" \/ (~waitKey /\ params))
        /\ waitKey' = FALSE /\ params' = TRUE /\ pre' = (IF Clips THEN Pushed(k) ELSE pre)
        /\ recording' = (recording /\ ~full)
        /\ wasRecording' = ((wasRecording /\ recording) \/ (seg.open /\ ~segment.open))
        /\ chain' = (IF k = "key" THEN "none" ELSE chain)
        /\ UNCHANGED <<clipRecording, ring, track, rvdUp, storeUp, clipUp, standby, preCap, geometry>>
    BY Zenon DEF TakeFrame, Pushed, stores, boot
  <1>2. segment' = IF toSeg /\ ~full THEN Written(seg, k) ELSE Gapped(seg)
    BY Zenon DEF TakeFrame, Pushed
  <1>3. \/ ~toClip /\ clip' = Gapped(base)
        \/ toClip /\ (clip' = [RecFresh EXCEPT !.gap = "cut"] \/ clip' = NoFile)
        \/ toClip /\ clip' = Written(base, k)
    BY Zenon DEF TakeFrame, Pushed
  <1>4. broken' = (IF toSeg /\ ~full THEN Fragment("segment", seg, k) ELSE {})
                  \cup (IF toClip THEN Fragment("clip", base, k) ELSE {})
    BY Zenon DEF TakeFrame, Pushed
  <1>5. /\ seg \in Files
        /\ seg.open /\ seg.gap = "new" => k = "key" /\ toSeg
    BY SegmentFile
  <1>6. /\ replays => base = [RecFresh EXCEPT !.gap = "none"]
        /\ ~replays /\ starts => base = RecFresh
        /\ ~starts => base = clip
        /\ starts => Clips
    OBVIOUS
  <1>7. k = "delta" => chain # "lost"
    BY <1>1, Zenon DEF RecInv, Gated
  <1>8. /\ KeyKept'
        /\ Clips /\ (k = "key" \/ chain = "none") /\ Gop <= preCap => HasKey(Pushed(k))
    <2>0. CASE ~(Gop <= preCap)
      BY <1>1, <2>0, Zenon DEF KeyKept
    <2>1. CASE ~Clips
      BY <2>1, Zenon DEF KeyKept, Clips
    <2>2. CASE Clips /\ k = "key" /\ Gop <= preCap
      <3>1. /\ Len(pre') \in 1..Len(pre') /\ pre'[Len(pre')] = "key"
            /\ Len(pre') - Len(pre') <= sinceKey' /\ pre' = Pushed(k)
        <4>1. sinceKey' = 0 /\ pre' = Pushed(k)
          BY <1>1, <2>2, Zenon DEF Encoded
        <4>2. Len(Pushed(k)) \in Nat /\ Len(Pushed(k)) >= 1 /\ Pushed(k)[Len(Pushed(k))] = "key"
          <5>1. preCap # 0
            BY <2>2, RecConstants DEF RecInv, RecData
          <5> QED BY <2>2, <5>1, PushKept, LenProperties
        <4> QED BY <4>1, <4>2
      <3> QED BY <2>2, <3>1, Zenon DEF KeyKept, HasKey
    <2>3. CASE Clips /\ k = "delta" /\ chain = "none" /\ Gop <= preCap
      <3>1. /\ params /\ pre' = Pushed(k) /\ sinceKey + 1 < Gop /\ sinceKey' = sinceKey + 1
        BY <1>1, <2>3, Zenon DEF Encoded
      <3>2. PICK i \in 1..Len(pre) : pre[i] = "key" /\ Len(pre) - i <= sinceKey
        BY <2>3, <3>1, Zenon DEF RecInv, KeyKept
      <3>3. Len(pre) \in Nat /\ sinceKey \in Nat /\ preCap \in Nat
        BY LenProperties, RecConstants DEF RecInv, RecData
      <3>4. Len(pre) - i < preCap - 1
        BY <2>3, <3>1, <3>2, <3>3, RecConstants
      <3>5. PICK j \in 1..Len(Pushed(k)) :
                Pushed(k)[j] = "key" /\ Len(Pushed(k)) - j = (Len(pre) - i) + 1
        BY <3>2, <3>4, PushKept
      <3>6. Len(Pushed(k)) - j <= sinceKey'
        BY <3>1, <3>2, <3>3, <3>5
      <3>7. HasKey(Pushed(k))
        BY <3>5, Zenon DEF HasKey
      <3>8. \E n \in 1..Len(pre') : pre'[n] = "key" /\ Len(pre') - n <= sinceKey'
        BY <3>1, <3>5, <3>6
      <3> QED BY <3>7, <3>8 DEF KeyKept
    <2>4. CASE k = "delta" /\ chain # "none"
      <3>1. chain' # "none" /\ k # "key"
        BY <1>1, <2>4
      <3> QED BY <2>4, <3>1, Zenon DEF KeyKept
    <2> QED BY <2>0, <2>1, <2>2, <2>3, <2>4 DEF Kinds
  <1>9. /\ base \in Files /\ (base.open => Clips /\ base.gap # "missing")
        /\ base.open /\ base.gap = "new" => k = "key" \/ chain # "none" \/ preCap < Gop
    <2>1. ~(Gop <= preCap) => preCap < Gop
      BY RecConstants DEF RecInv, RecData
    <2> QED BY <1>6, <1>8, <2>1, FileTypes DEF RecInv, RecData, ClipBegun
  <1> HIDE DEF seg, base, want, starts, replays
  <1>10. RecFlags' /\ Detached' /\ Gated'
    BY <1>1, <1>7, Zenon DEF RecInv, RecFlags, Detached, Gated
  <1>11. RecData'
    <2>1. sinceKey' = 0 \/ (sinceKey + 1 < Gop /\ sinceKey' = sinceKey + 1)
      BY <1>1, Zenon DEF Encoded
    <2>2. sinceKey' \in 0..(Gop - 1)
      BY <2>1, RecConstants DEF RecInv, RecData
    <2>3. pre' \in Seq(Kinds) /\ Len(pre') <= preCap
      BY <1>1, PushKept DEF RecInv, RecData
    <2>4. segment' \in Files
      <3>1. segment' = Written(seg, k) \/ segment' = Gapped(seg)
        BY <1>2, Zenon
      <3> QED BY <3>1, <1>5, FileTypes
    <2>5. clip' \in Files
      <3>1. \/ clip' = Gapped(base) \/ clip' = Written(base, k)
            \/ clip' = [RecFresh EXCEPT !.gap = "cut"] \/ clip' = NoFile
        BY <1>3, Zenon
      <3> QED BY <3>1, <1>9, FileTypes DEF RecInv, RecData
    <2> QED BY <1>1, <2>2, <2>3, <2>4, <2>5 DEF RecInv, RecData
  <1>12. SegmentBegun'
    BY <1>2, <1>5, FileTypes DEF SegmentBegun
  <1>13. ClipBegun'
    <2>1. CASE ~toClip /\ clip' = Gapped(base)
      <3>1. base.open = FALSE
        BY <1>9, <2>1 DEF Files
      <3>2. clip'.open = FALSE
        BY <1>9, <2>1, <3>1, FileTypes
      <3> QED BY <3>2 DEF ClipBegun
    <2>2. CASE toClip /\ (clip' = [RecFresh EXCEPT !.gap = "cut"] \/ clip' = NoFile)
      <3>1. clip'.open = FALSE \/ clip'.gap = "cut"
        BY <2>2, FileTypes DEF RecInv, RecData
      <3> QED BY <2>2, <3>1 DEF ClipBegun, Clips
    <2>3. CASE toClip /\ clip' = Written(base, k)
      <3>1. clip'.gap = (IF k = "key" THEN "none" ELSE base.gap)
        BY <1>9, <2>3, FileTypes
      <3>2. clip'.gap # "missing" /\ (clip'.gap = "new" => chain' # "none" \/ preCap' < Gop)
        BY <1>1, <1>9, <2>3, <3>1
      <3> QED BY <2>3, <3>2 DEF ClipBegun, Clips
    <2> QED BY <1>3, <2>1, <2>2, <2>3
  <1>14. SegmentDecodable'
    <2> SUFFICES ASSUME NEW b \in broken', b[1] = "segment"
                 PROVE  b[2] \notin {"lost", "new"}
      BY DEF SegmentDecodable
    <2>1. b \in Fragment("segment", seg, k) /\ toSeg
      BY <1>4, <1>9, FragmentCause
    <2>2. k = "delta" /\ (b[2] = chain \/ (b[2] = seg.gap /\ seg.gap # "new"))
      BY <2>1, <1>5, FragmentCause
    <2> QED BY <2>2, <1>5, <1>7 DEF RecInv, RecData, Files
  <1>15. ClipDecodable'
    <2> SUFFICES ASSUME NEW b \in broken', b[1] = "clip"
                 PROVE  b[2] \notin {"lost", "missing"} /\ (b[2] = "new" => preCap < Gop)
      BY <1>1 DEF ClipDecodable
    <2>1. b \in Fragment("clip", base, k) /\ base.open
      BY <1>4, <1>5, FragmentCause
    <2>2. /\ k = "delta"
          /\ b[2] = chain \/ (b[2] = base.gap /\ (base.gap = "new" => preCap < Gop))
      BY <2>1, <1>7, <1>9, FragmentCause DEF RecInv, RecData
    <2> QED BY <2>1, <2>2, <1>7, <1>9 DEF RecInv, RecData, Files
  <1> QED BY <1>8, <1>10, <1>11, <1>12, <1>13, <1>14, <1>15 DEF RecInv

LEMMA RecStays == RecInv /\ [RecNext]_recvars => RecInv'
  <1> SUFFICES ASSUME RecInv, [RecNext]_recvars PROVE RecInv'
    OBVIOUS
  <1>1. CASE UNCHANGED recvars
    <2>1. UNCHANGED <<recording, clipRecording, wasRecording, waitKey, params, ring, track,
                      sinceKey, rvdUp, storeUp, clipUp, standby, segment, clip, pre, chain,
                      broken, boot>>
      BY <1>1, Zenon DEF recvars, flags, recReader, source, stores, ghosts
    <2>2. RecFlags' /\ Detached' /\ Gated'
      BY <2>1, Zenon DEF RecInv, RecFlags, Detached, Gated
    <2> QED BY <2>1, <2>2, RecRest, RecConstants DEF RecInv, RecData
  <1>2. CASE \E k \in Kinds : RecFrame(k)
    BY <1>2, RecRefuse, RecTake DEF RecFrame
  <1> QED BY <1>1, <1>2, RecCommand, RecReader, RecStandby DEF RecNext, Kinds

LEMMA RecTyped == RecInv => RecTypeOK
  BY DEF RecInv, RecFlags, RecData, Detached, RecTypeOK, Files, Kinds

-----------------------------------------------------------------------------
(* rmr's timelapse.  The file that is open has the rate and the track that *)
(* hold now, and a sample that is not due yet has been due before, or time *)
(* has passed.                                                             *)
Samplers == [interval : TlIntervals, rate : TlRates, per : TlPer, want : BOOLEAN,
             started : BOOLEAN, left : Int, last : {"none", "this"}, day : Nat, frames : Nat]
TlShape == /\ tl \in Samplers /\ tlAged \in BOOLEAN
           /\ tlToday \in Nat /\ 1 <= tlToday /\ tlToday <= TlDays
           /\ tlFile.open \in BOOLEAN /\ tlRing.track \in TlTracks
TlRanges == /\ tl.day <= tlToday /\ tl.frames <= tl.per
            /\ tl.left >= -TlStall /\ \E i \in TlIntervals : tl.left <= i
OnGrid == tlFile.open => /\ tlFile.rate = tl.rate /\ tlFile.from = tlRing.track
                         /\ tlFile.track.codec = tlRing.track.codec
DueInTime == tl.started /\ ~tlAged => tl.left > 0
TlInv == TlShape /\ TlRanges /\ OnGrid /\ DueInTime /\ TimelapseTrue

LEMMA TlConstants ==
    /\ \A i \in TlIntervals : i \in Nat /\ i > 0
    /\ \A n \in TlPer : n \in Nat
    /\ TlDays \in Nat /\ 1 <= TlDays /\ TlStall \in Nat
    /\ TlFirst \in TlTracks
  <1>1. TlTracks # {}
    <2>1. PICK c \in TlCodecs, g \in TlGeometries : TRUE
      BY TimelapseAssumption
    <2>2. [codec |-> c, geometry |-> g] \in TlTracks
      BY DEF TlTracks
    <2> QED BY <2>2
  <1>2. TlFirst \in TlTracks
    BY <1>1 DEF TlFirst
  <1> QED BY <1>2, TimelapseAssumption

LEMMA NoFileClosed == TlNoFile.open = FALSE
  BY DEF TlNoFile

LEMMA TlStarts == TlInit => TlInv
  <1> SUFFICES ASSUME TlInit PROVE TlInv
    OBVIOUS
  <1>1. PICK i \in TlIntervals, f \in TlRates, n \in TlPer :
          tl = [interval |-> i, rate |-> f, per |-> n, want |-> FALSE, started |-> FALSE,
                left |-> 0, last |-> "none", day |-> 0, frames |-> 0]
    BY DEF TlInit
  <1>2. tl \in Samplers /\ tl.day = 0 /\ tl.frames = 0 /\ tl.per = n /\ tl.left = 0
        /\ tl.started = FALSE
    BY <1>1 DEF Samplers
  <1>3. /\ tlFile.open = FALSE /\ tlRing.track \in TlTracks /\ tlToday = 1 /\ tlBad = {}
        /\ tlAged = FALSE
    BY NoFileClosed, TlConstants DEF TlInit
  <1>4. TlShape
    <2>1. tlFile.open \in BOOLEAN /\ tlAged \in BOOLEAN
      BY <1>3, Zenon
    <2>2. tlToday \in Nat /\ 1 <= tlToday /\ tlToday <= TlDays
      BY <1>3, TlConstants
    <2> QED BY <1>2, <1>3, <2>1, <2>2, Zenon DEF TlShape
  <1>5. TlRanges
    BY <1>2, <1>3, TlConstants DEF TlRanges
  <1>6. OnGrid /\ DueInTime /\ TimelapseTrue
    BY <1>2, <1>3 DEF OnGrid, DueInTime, TimelapseTrue
  <1> QED BY <1>4, <1>5, <1>6 DEF TlInv

(* A tick leaves the next sample in the future, at most an interval away.  *)
(* It changes nothing while none is due.                                   *)
LEMMA Ticked ==
    ASSUME NEW t \in Samplers, \E i \in TlIntervals : t.left <= i, t.left >= -TlStall
    PROVE  LET s == rmr_tl_tick(t) IN
           /\ s \in Samplers /\ s.left > 0 /\ \E i \in TlIntervals : s.left <= i
           /\ s.rate = t.rate /\ s.per = t.per /\ s.last = t.last
           /\ s.day = t.day /\ s.frames = t.frames
           /\ t.started /\ t.left > 0 => s = t
  <1> DEFINE s == rmr_tl_tick(t)
  <1>0. t.interval \in TlIntervals /\ t.interval \in Nat /\ t.interval > 0 /\ t.left \in Int
    BY TlConstants DEF Samplers
  <1>1. CASE t.started /\ t.left > 0
    <2>1. s = t
      BY <1>1 DEF rmr_tl_tick
    <2> QED BY <1>1, <2>1
  <1>2. CASE ~t.started
    <2>1. s = [t EXCEPT !.want = TRUE, !.started = TRUE, !.left = t.interval]
      BY <1>2 DEF rmr_tl_tick
    <2>2. s = [interval |-> t.interval, rate |-> t.rate, per |-> t.per, want |-> TRUE,
               started |-> TRUE, left |-> t.interval, last |-> t.last, day |-> t.day,
               frames |-> t.frames]
      BY <2>1 DEF Samplers
    <2>3. s \in Samplers
      <3>1. /\ t.interval \in TlIntervals /\ t.rate \in TlRates /\ t.per \in TlPer
            /\ t.last \in {"none", "this"} /\ t.day \in Nat /\ t.frames \in Nat
            /\ t.interval \in Int
        BY <1>0 DEF Samplers
      <3> HIDE DEF s
      <3> QED BY <2>2, <3>1 DEF Samplers
    <2>4. /\ s.left = t.interval
          /\ s.rate = t.rate /\ s.per = t.per /\ s.last = t.last
          /\ s.day = t.day /\ s.frames = t.frames
      BY <2>2
    <2> QED BY <1>0, <1>2, <2>3, <2>4
  <1>3. CASE t.started /\ ~(t.left > 0)
    <2> DEFINE left == IF t.left + t.interval > 0 THEN t.left + t.interval ELSE t.interval
    <2>1. s = [t EXCEPT !.want = TRUE, !.left = left]
      BY <1>3 DEF rmr_tl_tick
    <2>2. left \in Int /\ left > 0 /\ left <= t.interval
      BY <1>0, <1>3
    <2> HIDE DEF left
    <2>3. /\ s \in Samplers /\ s.left = left
          /\ s.rate = t.rate /\ s.per = t.per /\ s.last = t.last
          /\ s.day = t.day /\ s.frames = t.frames
      BY <1>0, <2>1, <2>2 DEF Samplers
    <2> QED BY <1>0, <1>3, <2>2, <2>3
  <1> QED BY <1>1, <1>2, <1>3

LEMMA TlTakes ==
    ASSUME TlInv, NEW key \in BOOLEAN, TlFrame(key)
    PROVE  TlInv'
  <1> DEFINE opens == tlCard
             ready == tlRing.ready \/ key
             runs == tlOn /\ ready
             t == IF runs THEN rmr_tl_tick(tl) ELSE tl
             takes == runs /\ key /\ rmr_tl_take(t)
             rotates == takes /\ rmr_tl_needs_rotate(t)
             file == IF ~rotates THEN tlFile
                     ELSE IF opens THEN TlFresh(t.rate) ELSE TlNoFile
             t1 == IF takes THEN [t EXCEPT !.want = FALSE, !.last = "this"] ELSE t
             t2 == IF rotates
                   THEN [t1 EXCEPT !.day = IF opens THEN tlToday ELSE 0,
                                   !.frames = IF opens THEN 0 ELSE @]
                   ELSE t1
             written == takes /\ file.open
  <1>1. /\ tlRing' = [tlRing EXCEPT !.ready = ready] /\ tlFile' = file
        /\ tlAged' = (tlAged /\ t.left = tl.left)
        /\ UNCHANGED <<tlOn, tlToday, tlCard>>
    BY Zenon DEF TlFrame, tlWorld
  <1>2. tl' = IF written THEN [t2 EXCEPT !.frames = IF t.per = 0 THEN 0 ELSE @ + 1] ELSE t2
    BY Zenon DEF TlFrame
  <1>3. tlBad' = {what \in {"bent", "missed", "rushed"} :
             CASE what = "bent" -> written /\ (\/ file.rate # t.rate \/ file.from # tlRing.track
                                               \/ file.track.codec # tlRing.track.codec)
               [] what = "missed" -> runs /\ key /\ t.want /\ ~takes
               [] what = "rushed" -> tl.started /\ t.want /\ ~tl.want /\ ~tlAged}
    BY Zenon DEF TlFrame
  <1>4. /\ t \in Samplers /\ (runs => t.left > 0) /\ (~runs => t = tl)
        /\ \E i \in TlIntervals : t.left <= i
        /\ t.left >= -TlStall /\ t.rate = tl.rate /\ t.per = tl.per /\ t.last = tl.last
        /\ t.day = tl.day /\ t.frames = tl.frames
        /\ tl.started /\ tl.left > 0 => t = tl
    BY Ticked, TlConstants DEF TlInv, TlShape, TlRanges, Samplers
  <1>5. takes <=> runs /\ key /\ t.want
    BY <1>4 DEF rmr_tl_take, Samplers
  <1>6. /\ rotates => takes
        /\ takes /\ ~rotates => t.day # 0 /\ (t.per # 0 => t.frames < t.per)
    <2>1. takes /\ ~rotates => t.day # 0 /\ (t.per # 0 => ~(t.frames >= t.per))
      BY Zenon DEF rmr_tl_needs_rotate
    <2>2. t.frames \in Nat /\ t.per \in Nat
      BY <1>4, TlConstants DEF Samplers
    <2> HIDE DEF t, takes
    <2> QED BY <2>1, <2>2
  <1>7. /\ rotates /\ opens => file = TlFresh(t.rate)
        /\ rotates /\ ~opens => file = TlNoFile
        /\ ~rotates => file = tlFile
    OBVIOUS
  <1>8. /\ t1 \in Samplers /\ t1.rate = t.rate /\ t1.per = t.per /\ t1.left = t.left
        /\ t1.day = t.day /\ t1.frames = t.frames /\ t1.started = t.started
    BY <1>4 DEF Samplers
  <1>9. /\ t2 \in Samplers /\ t2.rate = t.rate /\ t2.per = t.per /\ t2.left = t.left
        /\ t2.started = t.started
        /\ rotates /\ opens => t2.day = tlToday /\ t2.frames = 0
        /\ rotates /\ ~opens => t2.day = 0 /\ t2.frames = t.frames
        /\ ~rotates => t2.day = t.day /\ t2.frames = t.frames
    <2>1. CASE ~rotates
      BY <2>1, <1>8 DEF t2
    <2>2. CASE rotates /\ opens
      <3>1. t2 = [t1 EXCEPT !.day = tlToday, !.frames = 0]
        BY <2>2
      <3> QED BY <2>2, <3>1, <1>8 DEF Samplers, TlInv, TlShape
    <2>3. CASE rotates /\ ~opens
      <3>1. t2 = [t1 EXCEPT !.day = 0]
        BY <2>3, <1>8 DEF Samplers
      <3> QED BY <2>3, <3>1, <1>8 DEF Samplers
    <2> QED BY <2>1, <2>2, <2>3
  <1> HIDE DEF t2, t1, file, rotates, takes, t
  <1>10. /\ tl' \in Samplers /\ tl'.rate = t.rate /\ tl'.per = t.per /\ tl'.left = t.left
         /\ tl'.day = t2.day /\ tl'.started = t.started
         /\ ~written => tl'.frames = t2.frames
         /\ written => tl'.frames = (IF t.per = 0 THEN 0 ELSE t2.frames + 1)
    <2>1. CASE ~written
      BY <1>2, <1>9, <2>1
    <2>2. CASE written
      <3> DEFINE n == IF t.per = 0 THEN 0 ELSE t2.frames + 1
      <3>1. tl' = [t2 EXCEPT !.frames = n]
        BY <1>2, <2>2, <1>9 DEF Samplers
      <3>2. n \in Nat
        BY <1>9 DEF Samplers
      <3> HIDE DEF n
      <3>3. tl' \in Samplers /\ tl'.rate = t2.rate /\ tl'.per = t2.per /\ tl'.left = t2.left
            /\ tl'.day = t2.day /\ tl'.started = t2.started /\ tl'.frames = n
        BY <1>9, <3>1, <3>2 DEF Samplers
      <3> QED BY <1>9, <2>2, <3>3 DEF n
    <2> QED BY <2>1, <2>2
  <1>11. tlRing'.track = tlRing.track
    BY <1>1
  <1>12. /\ file.open <=> t2.day # 0
         /\ file.open => /\ file.rate = t.rate /\ file.from = tlRing.track
                          /\ file.track.codec = tlRing.track.codec
         /\ file.open \in BOOLEAN
    <2>1. CASE ~rotates
      BY <1>4, <1>7, <1>9, <2>1 DEF TlInv, TlShape, TimelapseTrue, OnGrid
    <2>2. CASE rotates /\ opens
      <3>1. t2.day # 0
        BY <1>9, <2>2 DEF TlInv, TlShape
      <3>2. /\ file.open = TRUE /\ file.rate = t.rate /\ file.from = tlRing.track
            /\ file.track.codec = tlRing.track.codec
        BY <1>7, <2>2 DEF TlFresh
      <3> QED BY <3>1, <3>2
    <2>3. CASE rotates /\ ~opens
      <3>1. file.open = FALSE /\ t2.day = 0
        BY <1>7, <1>9, <2>3, NoFileClosed
      <3> QED BY <3>1
    <2> QED BY <2>1, <2>2, <2>3
  <1>13. TlShape'
    <2>1. tlAged' \in BOOLEAN
      BY <1>1, Zenon DEF TlInv, TlShape
    <2> QED BY <1>1, <1>10, <1>11, <1>12, <2>1 DEF TlInv, TlShape
  <1>14. TlRanges'
    <2>1. tl'.day <= tlToday'
      <3>1. t2.day = t.day \/ t2.day = 0 \/ t2.day = tlToday
        BY <1>9
      <3> QED BY <1>1, <1>4, <1>10, <3>1 DEF TlInv, TlShape, TlRanges
    <2>2. tl'.frames <= tl'.per
      <3>1. t.per \in Nat /\ t.frames \in Nat /\ t.frames <= t.per /\ t2.frames \in Nat
        BY <1>4, <1>9, TlConstants DEF Samplers, TlInv, TlRanges
      <3>2. t2.frames = 0 \/ t2.frames = t.frames
        BY <1>9
      <3>3. CASE ~written
        BY <3>1, <3>2, <3>3, <1>10
      <3>4. CASE written /\ rotates
        <4>1. opens
          BY <1>7, <3>4, NoFileClosed
        <4> QED BY <3>1, <3>4, <4>1, <1>9, <1>10
      <3>5. CASE written /\ ~rotates
        <4>1. t2.frames = t.frames /\ (t.per # 0 => t.frames < t.per)
          BY <1>6, <1>9, <3>5
        <4> QED BY <3>1, <3>5, <4>1, <1>10
      <3> QED BY <3>3, <3>4, <3>5
    <2> QED BY <1>4, <1>10, <2>1, <2>2 DEF TlRanges
  <1>15. OnGrid'
    BY <1>1, <1>10, <1>11, <1>12 DEF OnGrid
  <1>16. DueInTime'
    BY <1>1, <1>4, <1>10 DEF TlInv, DueInTime
  <1>17. TimelapseTrue'
    <2>1. ~(written /\ (\/ file.rate # t.rate \/ file.from # tlRing.track
                        \/ file.track.codec # tlRing.track.codec))
      BY <1>12
    <2>2. ~(runs /\ key /\ t.want /\ ~takes)
      BY <1>5
    <2>3. ~(tl.started /\ t.want /\ ~tl.want /\ ~tlAged)
      BY <1>4 DEF TlInv, DueInTime
    <2>4. tlBad' = {}
      BY <1>3, <2>1, <2>2, <2>3, Zenon
    <2> QED BY <1>1, <1>10, <1>12, <2>4 DEF TimelapseTrue
  <1> QED BY <1>13, <1>14, <1>15, <1>16, <1>17 DEF TlInv

(* Closing the file leaves no day behind, and the schedule alone. *)
LEMMA TlCloses ==
    ASSUME TlInv, tl' \in Samplers, tl'.day = 0, tl'.per = tl.per, tl'.frames = tl.frames,
           tl'.left = tl.left, tl'.started = tl.started, tlFile'.open = FALSE,
           tlRing'.track \in TlTracks, UNCHANGED <<tlToday, tlAged, tlBad>>
    PROVE  TlInv'
  <1>1. TlShape'
    BY DEF TlInv, TlShape
  <1>2. TlRanges'
    <2>1. 0 <= tlToday
      BY DEF TlInv, TlShape
    <2> QED BY <2>1 DEF TlInv, TlRanges
  <1>3. OnGrid' /\ DueInTime' /\ TimelapseTrue'
    BY DEF TlInv, OnGrid, DueInTime, TimelapseTrue
  <1> QED BY <1>1, <1>2, <1>3 DEF TlInv

(* A command or the world: the sampler's schedule goes on, and a file that *)
(* is closed has no day.                                                   *)
LEMMA TlCommands ==
    ASSUME TlInv, [TlNext]_tlvars, ~\E key \in BOOLEAN : TlFrame(key)
    PROVE  TlInv'
  <1> USE TlConstants DEF TlInv, TlShape, TlRanges, OnGrid, DueInTime, TimelapseTrue
  <1>1. CASE UNCHANGED tlvars
    BY <1>1 DEF tlvars
  <1>2. CASE TlEnable
    BY <1>2 DEF TlEnable, tlWorld, tlGhosts
  <1>3. CASE TlDisable
    <2>1. tl' = [tl EXCEPT !.day = 0]
      BY <1>3 DEF TlDisable, Closed, Samplers
    <2>2. /\ tl' \in Samplers /\ tl'.day = 0 /\ tl'.per = tl.per /\ tl'.frames = tl.frames
          /\ tl'.left = tl.left /\ tl'.started = tl.started /\ tl'.rate = tl.rate
      BY <2>1 DEF Samplers
    <2>3. /\ tlFile'.open = FALSE
          /\ tlRing'.track \in TlTracks /\ UNCHANGED <<tlToday, tlAged, tlBad>>
      BY <1>3, NoFileClosed DEF TlDisable, close_timelapse, tlWorld, tlGhosts
    <2> QED BY <2>2, <2>3, TlCloses
  <1>4. CASE TlSnap
    <2>1. tl' = [tl EXCEPT !.want = TRUE] /\ UNCHANGED <<tlRing, tlFile, tlToday, tlAged, tlBad>>
      BY <1>4 DEF TlSnap, tlWorld, tlGhosts
    <2>2. /\ tl' \in Samplers /\ tl'.day = tl.day /\ tl'.per = tl.per /\ tl'.frames = tl.frames
          /\ tl'.left = tl.left /\ tl'.started = tl.started /\ tl'.rate = tl.rate
      BY <2>1 DEF Samplers
    <2> QED BY <2>1, <2>2
  <1>5. ASSUME NEW i \in TlIntervals, TlSetInterval(i) PROVE TlInv'
    <2>1. tl' = [tl EXCEPT !.interval = i] /\ UNCHANGED <<tlRing, tlFile, tlToday, tlAged, tlBad>>
      BY <1>5 DEF TlSetInterval, tlWorld, tlGhosts
    <2>2. /\ tl' \in Samplers /\ tl'.day = tl.day /\ tl'.per = tl.per /\ tl'.frames = tl.frames
          /\ tl'.left = tl.left /\ tl'.started = tl.started /\ tl'.rate = tl.rate
      BY <2>1 DEF Samplers
    <2> QED BY <2>1, <2>2
  <1>6. ASSUME NEW f \in TlRates, TlSetRate(f) PROVE TlInv'
    <2>1. tl' = [tl EXCEPT !.day = 0, !.rate = f]
      BY <1>6 DEF TlSetRate, Closed, Samplers
    <2>2. /\ tl' \in Samplers /\ tl'.day = 0 /\ tl'.per = tl.per /\ tl'.frames = tl.frames
          /\ tl'.left = tl.left /\ tl'.started = tl.started
      BY <2>1 DEF Samplers
    <2>3. /\ tlFile'.open = FALSE /\ tlRing'.track \in TlTracks
          /\ UNCHANGED <<tlToday, tlAged, tlBad>>
      BY <1>6, NoFileClosed DEF TlSetRate, close_timelapse, tlWorld, tlGhosts
    <2> QED BY <2>2, <2>3, TlCloses
  <1>7. ASSUME NEW t \in TlTracks, TlReopen(t) PROVE TlInv'
    <2>1. tl' = [tl EXCEPT !.day = 0, !.last = "none"]
      BY <1>7 DEF TlReopen, Closed, Samplers
    <2>2. /\ tl' \in Samplers /\ tl'.day = 0 /\ tl'.per = tl.per /\ tl'.frames = tl.frames
          /\ tl'.left = tl.left /\ tl'.started = tl.started
      BY <2>1 DEF Samplers
    <2>3. /\ tlFile'.open = FALSE /\ tlRing'.track \in TlTracks
          /\ UNCHANGED <<tlToday, tlAged, tlBad>>
      BY <1>7, NoFileClosed DEF TlReopen, close_timelapse, tlWorld, tlGhosts
    <2> QED BY <2>2, <2>3, TlCloses
  <1>8. CASE TlRingGone
    <2>1. tlRing'.track = tlRing.track /\ UNCHANGED <<tl, tlFile, tlToday, tlAged, tlBad>>
      BY <1>8 DEF TlRingGone, tlWorld, tlGhosts
    <2> QED BY <2>1
  <1>9. CASE TlTime
    <2>1. /\ tl' = [tl EXCEPT !.left = @ - 1] /\ tlAged' = TRUE /\ tl.left > -TlStall
          /\ UNCHANGED <<tlRing, tlFile, tlToday, tlBad>>
      BY <1>9 DEF TlTime, tlWorld
    <2>2. /\ tl' \in Samplers /\ tl'.day = tl.day /\ tl'.per = tl.per /\ tl'.frames = tl.frames
          /\ tl'.left = tl.left - 1 /\ tl'.rate = tl.rate
      BY <2>1 DEF Samplers
    <2>3. PICK i \in TlIntervals : tl.left <= i
      OBVIOUS
    <2>4. tl.left \in Int /\ i \in Int
      BY DEF Samplers
    <2>5. tl'.left >= -TlStall /\ tl'.left <= i
      BY <2>1, <2>2, <2>3, <2>4
    <2>6. TlRanges'
      BY <2>1, <2>2, <2>5
    <2>7. TlShape' /\ OnGrid' /\ DueInTime' /\ TimelapseTrue'
      BY <2>1, <2>2
    <2> QED BY <2>6, <2>7
  <1>10. CASE TlWorld
    <2>1. /\ tlToday' = tlToday \/ (tlToday < TlDays /\ tlToday' = tlToday + 1)
          /\ UNCHANGED <<tl, tlFile, tlRing, tlAged, tlBad>>
      BY <1>10, Zenon DEF TlWorld, tlGhosts
    <2>2. tl.day \in Nat
      BY DEF Samplers
    <2>3. tlToday' \in Nat /\ 1 <= tlToday' /\ tlToday' <= TlDays /\ tl.day <= tlToday'
      BY <2>1, <2>2
    <2>4. TlShape'
      BY <2>1, <2>3
    <2>5. TlRanges'
      BY <2>1, <2>3
    <2>6. OnGrid' /\ DueInTime' /\ TimelapseTrue'
      BY <2>1
    <2> QED BY <2>4, <2>5, <2>6
  <1>11. \/ \E key \in BOOLEAN : TlFrame(key)
         \/ TlEnable \/ TlDisable \/ TlSnap \/ TlRingGone \/ TlTime \/ TlWorld
         \/ \E i \in TlIntervals : TlSetInterval(i)
         \/ \E f \in TlRates : TlSetRate(f)
         \/ \E t \in TlTracks : TlReopen(t)
         \/ UNCHANGED tlvars
    BY Zenon DEF TlNext
  <1> HIDE DEF TlInv
  <1> QED BY <1>1, <1>2, <1>3, <1>4, <1>5, <1>6, <1>7, <1>8, <1>9, <1>10, <1>11, Zenon

LEMMA TlStays == TlInv /\ [TlNext]_tlvars => TlInv'
  BY TlTakes, TlCommands

LEMMA TlTyped == TlInv => TlTypeOK /\ TimelapseTrue
  <1> SUFFICES ASSUME TlInv PROVE TlTypeOK /\ TimelapseTrue
    OBVIOUS
  <1>1. tl.day \in 0..tlToday /\ tl.frames \in 0..tl.per /\ tlToday \in 1..TlDays
    BY TlConstants DEF TlInv, TlShape, TlRanges, Samplers
  <1> QED BY <1>1 DEF TlInv, TlShape, TlRanges, Samplers, TlTypeOK

-----------------------------------------------------------------------------
(* ric's photo trigger.  The counters of the detector stay in range because *)
(* the poll that reaches a limit ends the phase; what the phase is compared *)
(* with the mode follows from what each phase ends with.                    *)
Phases == {"night_detect", "day_detect", "interfere"}
PhStates ==
    [phase : Phases, settle : Nat, rdev : [1..2 -> Nat], bdev : [1..2 -> Nat], night : Nat,
     deep : Nat, checkPolls : Nat, checkEv : Nat, checks : Nat,
     dayN : Nat, dayFirst : Nat, dayRef : Nat, dayHits : Nat,
     ifN : Nat, ifFirst : Nat, ifRef : Nat, ifPolls : Nat, rise : Nat, fall : Nat,
     fixN : Nat, fixFirst : Nat, fixRef : Nat, drift : Nat]
CalStates == [done : BOOLEAN, n : Nat, first : Nat, rsum : Nat, bsum : Nat,
              rbase : Nat, bbase : Nat]
PhOK(p) ==
    /\ p \in PhStates
    /\ p.checks < CheckTrigger /\ p.dayN <= DayRing /\ p.dayHits < DayTrigger
    /\ p.ifN <= InterfRing /\ p.ifPolls <= InterfMax /\ p.rise <= RiseTrigger
    /\ p.fall < FallTrigger /\ p.fixN <= FixedRing /\ p.drift <= DriftTrigger
CalOK(c) == c \in CalStates /\ c.n <= CalSamples /\ (~c.done => c.n < CalSamples)
PhModes == phOp \in {"auto", "day", "night"} /\ phMode \in {"day", "night"}
PhInv == PhModes /\ CalOK(phCal) /\ PhOK(ph) /\ PhotoWatches

(* How a poll may leave the detector: in its phase, or in the next. *)
Goes == PhOK(ph') /\ ph'.phase = ph.phase /\ UNCHANGED <<phMode, phForced>>
Ends == \E m \in {"day", "night"}, phase \in Phases :
            /\ PhaseEnds(m, phase)
            /\ (phase = "day_detect" => m = "night") /\ (phase = "interfere" => m = "day")

LEMMA PhConstants ==
    /\ CalSamples \in Nat \ {0} /\ CheckTrigger \in Nat \ {0} /\ DayTrigger \in Nat \ {0}
    /\ FallTrigger \in Nat \ {0} /\ EvTrigger \in Nat \ {0} /\ CheckEvery \in Nat \ {0}
    /\ PhSettle \in Nat /\ DriftTrigger \in Nat /\ InterfMax \in Nat /\ RiseTrigger \in Nat
    /\ DayRing \in Nat \ {0, 1} /\ FixedRing \in Nat \ {0, 1} /\ InterfRing \in Nat \ {0, 1}
    /\ EvDay \in Nat /\ EvNight \in Nat /\ EvDeep \in Nat /\ GainWrap \in Nat \ {0}
    /\ \A r \in PhReadings : r.ev \in Nat /\ r.r \in Nat /\ r.b \in Nat
  BY PhotoAssumption

LEMMA PhResets == \A phase \in Phases : PhOK(ric_photo_reset(phase))
                                        /\ ric_photo_reset(phase).phase = phase
  <1> TAKE phase \in Phases
  <1>1. <<0, 0>> \in [1..2 -> Nat]
    OBVIOUS
  <1>2. ric_photo_reset(phase) \in PhStates
    BY <1>1 DEF ric_photo_reset, PhStates
  <1> QED BY <1>2, PhConstants DEF ric_photo_reset, PhOK

LEMMA PhStarts == PhInit => PhInv
  <1> SUFFICES ASSUME PhInit PROVE PhInv
    OBVIOUS
  <1>1. CalOK(phCal)
    <2>1. CASE phCal = Uncalibrated
      BY <2>1, PhConstants DEF Uncalibrated, CalOK, CalStates
    <2>2. CASE phCal = [Uncalibrated EXCEPT !.done = TRUE]
      <3>1. phCal = [done |-> TRUE, n |-> 0, first |-> 0, rsum |-> 0, bsum |-> 0,
                     rbase |-> 0, bbase |-> 0]
        BY <2>2 DEF Uncalibrated
      <3>2. phCal \in CalStates /\ phCal.done /\ phCal.n = 0
        BY <3>1 DEF CalStates
      <3> QED BY <3>2, PhConstants DEF CalOK
    <2> QED BY <2>1, <2>2 DEF PhInit
  <1>2. PhOK(ph) /\ ph.phase = "night_detect"
    BY PhResets DEF PhInit, Phases
  <1>3. PhModes
    BY DEF PhInit, PhModes
  <1> QED BY <1>1, <1>2, <1>3 DEF PhInv, PhotoWatches

(* The calibration never takes more than its window. *)
LEMMA Calibration ==
    ASSUME PhInv, NEW r \in PhReadings, phCal' = photo_calibrate(r)
    PROVE  CalOK(phCal')
  <1> DEFINE again == phCal.n = 0 \/ Apart(r.ev, phCal.first) > 1
             c == IF again
                  THEN [phCal EXCEPT !.n = 1, !.first = r.ev, !.rsum = r.r, !.bsum = r.b]
                  ELSE [phCal EXCEPT !.n = @ + 1, !.rsum = @ + r.r, !.bsum = @ + r.b]
             full == [c EXCEPT !.done = TRUE, !.rbase = c.rsum \div CalSamples,
                               !.bbase = c.bsum \div CalSamples]
  <1>1. \/ ~Calibrates(r) /\ phCal' = phCal
        \/ Calibrates(r) /\ c.n < CalSamples /\ phCal' = c
        \/ Calibrates(r) /\ ~(c.n < CalSamples) /\ phCal' = full
    BY Zenon DEF photo_calibrate
  <1>2. phCal \in CalStates /\ phCal.n <= CalSamples /\ (~phCal.done => phCal.n < CalSamples)
    BY DEF PhInv, CalOK
  <1>3. c \in CalStates /\ (c.n = 1 \/ c.n = phCal.n + 1) /\ c.done = phCal.done
    <2>1. CASE again
      <3>1. c = [phCal EXCEPT !.n = 1, !.first = r.ev, !.rsum = r.r, !.bsum = r.b]
        BY <2>1
      <3> HIDE DEF c
      <3> QED BY <3>1, <1>2, PhConstants DEF CalStates
    <2>2. CASE ~again
      <3> DEFINE m == phCal.n + 1
                 rs == phCal.rsum + r.r
                 bs == phCal.bsum + r.b
      <3>1. c = [phCal EXCEPT !.n = m, !.rsum = rs, !.bsum = bs]
        BY <1>2, <2>2 DEF CalStates
      <3>2. m \in Nat /\ rs \in Nat /\ bs \in Nat
        BY <1>2, PhConstants DEF CalStates
      <3> HIDE DEF c, m, rs, bs
      <3>3. c \in CalStates /\ c.n = m /\ c.done = phCal.done
        BY <3>1, <3>2, <1>2 DEF CalStates
      <3> QED BY <3>3 DEF m
    <2> HIDE DEF c, again
    <2> QED BY <2>1, <2>2
  <1> HIDE DEF c
  <1>4. CASE Calibrates(r) /\ ~(c.n < CalSamples) /\ phCal' = full
    <2>1. c.rsum \div CalSamples \in Nat /\ c.bsum \div CalSamples \in Nat
      BY <1>3, PhConstants DEF CalStates
    <2>2. ~phCal.done
      BY <1>4 DEF Calibrates
    <2>3. c.n <= CalSamples
      BY <1>2, <1>3, <2>2, PhConstants DEF CalStates
    <2> QED BY <1>3, <1>4, <2>1, <2>3 DEF CalOK, CalStates
  <1>5. CASE Calibrates(r) /\ c.n < CalSamples /\ phCal' = c
    <2>1. c.n <= CalSamples
      BY <1>3, <1>5, PhConstants DEF CalStates
    <2> QED BY <1>3, <1>5, <2>1 DEF CalOK
  <1>6. CASE phCal' = phCal
    BY <1>2, <1>6 DEF CalOK
  <1> QED BY <1>1, <1>4, <1>5, <1>6

LEMMA Deviations ==
    ASSUME NEW n \in [1..2 -> Nat], NEW diff \in Nat
    PROVE  Deviates(n, diff) \in [1..2 -> Nat]
  <1>1. <<0, 0>> \in [1..2 -> Nat]
    OBVIOUS
  <1>2. \A i \in 1..2 : (IF diff >= 3 - i THEN (n[i] + 1) % GainWrap ELSE 0) \in Nat
    BY PhConstants
  <1>3. [i \in 1..2 |-> IF diff >= 3 - i THEN (n[i] + 1) % GainWrap ELSE 0] \in [1..2 -> Nat]
    BY <1>2
  <1> QED BY <1>1, <1>3, Zenon DEF Deviates

LEMMA NightPhase ==
    ASSUME PhInv, NEW r \in PhReadings, CalOK(phCal'), photo_night_control(r)
    PROVE  Goes \/ Ends
  <1> DEFINE settle == Up(ph.settle, PhSettle)
             rdev == Deviates(ph.rdev, Apart(r.r, phCal'.rbase))
             bdev == Deviates(ph.bdev, Apart(r.b, phCal'.bbase))
             night == IF r.ev > EvNight THEN Up(ph.night, EvTrigger) ELSE 0
             deep == IF r.ev > EvDeep THEN Up(ph.deep, EvTrigger) ELSE 0
             p == [ph EXCEPT !.settle = settle, !.rdev = rdev, !.bdev = bdev,
                             !.night = night, !.deep = deep]
  <1>1. /\ ph \in PhStates /\ phCal' \in CalStates
        /\ r.ev \in Nat /\ r.r \in Nat /\ r.b \in Nat
    BY PhConstants DEF PhInv, PhOK, CalOK
  <1>2. settle \in Nat /\ night \in Nat /\ deep \in Nat
    BY <1>1, PhConstants DEF PhStates, Up
  <1>3. rdev \in [1..2 -> Nat] /\ bdev \in [1..2 -> Nat]
    <2>1. Apart(r.r, phCal'.rbase) \in Nat /\ Apart(r.b, phCal'.bbase) \in Nat
      BY <1>1 DEF CalStates, Apart
    <2>2. ph.rdev \in [1..2 -> Nat] /\ ph.bdev \in [1..2 -> Nat]
      BY <1>1 DEF PhStates
    <2> QED BY <2>1, <2>2, Deviations
  <1>4. /\ ph.phase = "night_detect"
        /\ IF p.settle < PhSettle THEN PhaseGoesOn([ph EXCEPT !.settle = p.settle])
           ELSE IF NightConfirmed(p) THEN PhaseEnds("night", "day_detect")
           ELSE NightChecked(p, r.ev)
    <2>1. p = [ph EXCEPT
                !.settle = Up(@, PhSettle),
                !.rdev = Deviates(@, Apart(r.r, phCal'.rbase)),
                !.bdev = Deviates(@, Apart(r.b, phCal'.bbase)),
                !.night = IF r.ev > EvNight THEN Up(@, EvTrigger) ELSE 0,
                !.deep = IF r.ev > EvDeep THEN Up(@, EvTrigger) ELSE 0]
      BY <1>1 DEF PhStates
    <2> HIDE DEF p
    <2> QED BY <2>1, Zenon DEF photo_night_control
  <1> HIDE DEF settle, rdev, bdev, night, deep
  <1>5. PhOK(p) /\ p.phase = ph.phase /\ p.settle = settle
    BY <1>1, <1>2, <1>3 DEF PhInv, PhOK, PhStates
  <1> HIDE DEF p
  <1>6. CASE PhaseGoesOn([ph EXCEPT !.settle = p.settle])
    BY <1>1, <1>2, <1>5, <1>6 DEF PhInv, PhOK, PhStates, PhaseGoesOn, Goes
  <1>7. CASE PhaseEnds("night", "day_detect")
    BY <1>7, Zenon DEF Ends, Phases
  <1>8. CASE NightChecked(p, r.ev)
    <2>1. \/ PhaseGoesOn([p EXCEPT !.checkPolls = @ + 1])
          \/ PhaseEnds("night", "day_detect")
          \/ \E n \in {p.checks + 1, 0} :
               PhaseGoesOn([p EXCEPT !.checkPolls = 0, !.checkEv = r.ev,
                                     !.checks = IF n >= CheckTrigger THEN 0 ELSE n])
      BY <1>8, Zenon DEF NightChecked
    <2>2. CASE PhaseGoesOn([p EXCEPT !.checkPolls = @ + 1])
      BY <1>5, <2>2 DEF PhOK, PhStates, PhaseGoesOn, Goes
    <2>3. ASSUME NEW n \in {p.checks + 1, 0},
                 PhaseGoesOn([p EXCEPT !.checkPolls = 0, !.checkEv = r.ev,
                                     !.checks = IF n >= CheckTrigger THEN 0 ELSE n])
          PROVE  Goes
      <3> DEFINE m == IF n >= CheckTrigger THEN 0 ELSE n
      <3>1. m \in Nat /\ m < CheckTrigger
        BY <1>5, <2>3, PhConstants DEF PhOK, PhStates
      <3>2. PhaseGoesOn([p EXCEPT !.checkPolls = 0, !.checkEv = r.ev, !.checks = m])
        BY <2>3
      <3> HIDE DEF m
      <3> QED BY <1>1, <1>5, <3>1, <3>2 DEF PhOK, PhStates, PhaseGoesOn, Goes
    <2> QED BY <2>1, <2>2, <2>3, <1>7
  <1> QED BY <1>4, <1>6, <1>7, <1>8

(* What the two detectors of the day phase may write. *)
WithDay(s, n, first, ref, hits) ==
    [s EXCEPT !.dayN = n, !.dayFirst = first, !.dayRef = ref, !.dayHits = hits]
WithFixed(s, n, first, ref, drift) ==
    [s EXCEPT !.fixN = n, !.fixFirst = first, !.fixRef = ref, !.drift = drift]

(* Day detection: the tick that would count past a limit ends the phase. *)
LEMMA DayPhase ==
    ASSUME PhInv, NEW r \in PhReadings, photo_day_control(r)
    PROVE  Goes \/ Ends
  <1> DEFINE ev == r.ev
             p == DayStep(ev)
             q == FixedStep(p, ev)
  <1>1. PhOK(ph) /\ ph \in PhStates /\ ev \in Nat
    BY PhConstants DEF PhInv, PhOK
  <1>2. /\ ph.phase = "day_detect"
        /\ IF p.dayHits >= DayTrigger THEN PhaseEnds("day", AfterDay)
           ELSE IF phMode = "day" THEN PhaseGoesOn(p)
           ELSE IF q.drift > DriftTrigger THEN PhaseEnds("day", "night_detect")
           ELSE PhaseGoesOn(q)
    BY Zenon DEF photo_day_control
  <1>3. /\ p \in PhStates /\ p.phase = ph.phase /\ p.dayN <= DayRing
        /\ p.checks = ph.checks /\ p.ifN = ph.ifN /\ p.ifPolls = ph.ifPolls
        /\ p.rise = ph.rise /\ p.fall = ph.fall /\ p.fixN = ph.fixN /\ p.drift = ph.drift
    <2> DEFINE n == ph.dayN + 1
               first == IF ph.dayN = 0 THEN ev ELSE ph.dayFirst
               counted == [ph EXCEPT !.dayN = n, !.dayFirst = first]
               again == [ph EXCEPT !.dayN = 0, !.dayFirst = 0]
    <2>1. \/ p = again
          \/ n < DayRing /\ p = counted
          \/ p = [counted EXCEPT !.dayN = DayRing, !.dayRef = ev]
          \/ p = [again EXCEPT !.dayHits = @ + 1]
      <3>1. counted = [ph EXCEPT !.dayN = n, !.dayFirst = IF ph.dayN = 0 THEN ev ELSE @]
        BY <1>1 DEF PhStates
      <3>2. /\ ev >= EvDay <=> ~(ev < EvDay)
            /\ n < DayRing <=> ~(n >= DayRing)
        BY <1>1, PhConstants DEF PhStates
      <3> HIDE DEF counted
      <3>3. CASE ev >= EvDay
        BY <3>2, <3>3, Zenon DEF DayStep, DayAgain
      <3>4. CASE ev < EvDay /\ n < DayRing
        BY <3>1, <3>2, <3>4, Zenon DEF DayStep, DayAgain
      <3>5. CASE ev < EvDay /\ n >= DayRing /\ ph.dayRef = 0
        BY <3>1, <3>2, <3>5, Zenon DEF DayStep, DayAgain
      <3>6. CASE ev < EvDay /\ n >= DayRing /\ ph.dayRef # 0
        BY <3>1, <3>2, <3>6, Zenon DEF DayStep, DayAgain
      <3> QED BY <3>2, <3>3, <3>4, <3>5, <3>6, Zenon
    <2>2. n \in Nat /\ first \in Nat /\ ph.dayHits + 1 \in Nat
      BY <1>1 DEF PhStates
    <2>3. \E a \in Nat, b \in Nat, c \in Nat, d \in Nat :
            p = WithDay(ph, a, b, c, d) /\ a <= DayRing
      <3>1. ph.dayN \in Nat /\ ph.dayRef \in Nat /\ ph.dayHits \in Nat /\ DayRing \in Nat
        BY <1>1, PhConstants DEF PhStates
      <3> HIDE DEF n, first, p
      <3>2. CASE p = again
        <4>1. p = WithDay(ph, 0, 0, ph.dayRef, ph.dayHits)
          BY <1>1, <3>2 DEF PhStates, WithDay
        <4>2. 0 <= DayRing
          BY <3>1
        <4> HIDE DEF again
        <4> QED BY <3>1, <4>1, <4>2
      <3>3. CASE n < DayRing /\ p = counted
        <4>1. p = WithDay(ph, n, first, ph.dayRef, ph.dayHits)
          BY <1>1, <3>3 DEF PhStates, WithDay
        <4>2. n <= DayRing
          BY <2>2, <3>1, <3>3
        <4> QED BY <2>2, <3>1, <4>1, <4>2
      <3>4. CASE p = [counted EXCEPT !.dayN = DayRing, !.dayRef = ev]
        <4>1. p = WithDay(ph, DayRing, first, ev, ph.dayHits)
          BY <1>1, <3>4 DEF PhStates, WithDay
        <4>2. DayRing <= DayRing
          BY <3>1
        <4> QED BY <1>1, <2>2, <3>1, <4>1, <4>2
      <3>5. CASE p = [again EXCEPT !.dayHits = @ + 1]
        <4> DEFINE h == ph.dayHits + 1
        <4>1. p = [again EXCEPT !.dayHits = h]
          BY <1>1, <3>5 DEF PhStates
        <4> HIDE DEF h
        <4>2. p = WithDay(ph, 0, 0, ph.dayRef, h)
          BY <1>1, <4>1 DEF PhStates, WithDay
        <4>3. h \in Nat
          BY <2>2 DEF h
        <4>4. 0 <= DayRing
          BY <3>1
        <4> QED BY <3>1, <4>2, <4>3, <4>4
      <3> QED BY <2>1, <3>2, <3>3, <3>4, <3>5
    <2> HIDE DEF p
    <2>4. PICK a \in Nat, b \in Nat, c \in Nat, d \in Nat :
            p = WithDay(ph, a, b, c, d) /\ a <= DayRing
      BY <2>3
    <2>5. p \in PhStates
      BY <1>1, <2>4 DEF WithDay, PhStates
    <2>6. p.dayN = a /\ p.phase = ph.phase
      BY <1>1, <2>4 DEF WithDay, PhStates
    <2> QED BY <1>1, <2>4, <2>5, <2>6 DEF WithDay, PhStates
  <1> HIDE DEF p
  <1>4. /\ q \in PhStates /\ q.phase = p.phase /\ q.fixN <= FixedRing
        /\ q.checks = p.checks /\ q.ifN = p.ifN /\ q.ifPolls = p.ifPolls
        /\ q.rise = p.rise /\ q.fall = p.fall /\ q.dayN = p.dayN /\ q.dayHits = p.dayHits
        /\ q.drift <= DriftTrigger \/ q.drift > DriftTrigger
    <2> DEFINE n == p.fixN + 1
               first == IF p.fixN = 0 THEN ev ELSE p.fixFirst
               drift == IF ev + 4 > p.fixRef THEN 0 ELSE p.drift + 1
    <2>1. \/ p.fixN < FixedRing /\ n < FixedRing
             /\ q = [p EXCEPT !.fixN = n, !.fixFirst = first]
          \/ n = FixedRing /\ q = [p EXCEPT !.fixN = n, !.fixFirst = 0, !.fixRef = ev]
          \/ q = [p EXCEPT !.fixN = 0, !.fixFirst = 0]
          \/ q = [p EXCEPT !.drift = drift]
      <3>1. /\ [p EXCEPT !.fixN = n, !.fixFirst = first]
               = [p EXCEPT !.fixN = n, !.fixFirst = IF p.fixN = 0 THEN ev ELSE @]
            /\ [p EXCEPT !.drift = drift]
               = [p EXCEPT !.drift = IF ev + 4 > p.fixRef THEN 0 ELSE @ + 1]
        BY <1>3 DEF PhStates
      <3>2. CASE p.fixN < FixedRing /\ n < FixedRing
        <4>1. n # FixedRing
          BY <3>2, PhConstants
        <4> QED BY <3>1, <3>2, <4>1, Zenon DEF FixedStep
      <3>3. CASE p.fixN < FixedRing /\ n = FixedRing
        <4>1. ~(n < FixedRing)
          BY <3>3, PhConstants
        <4> QED BY <3>3, <4>1, Zenon DEF FixedStep
      <3>4. CASE ~(p.fixN < FixedRing /\ n < FixedRing) /\ ~(p.fixN < FixedRing /\ n = FixedRing)
        BY <3>1, <3>4, Zenon DEF FixedStep
      <3> QED BY <3>2, <3>3, <3>4, Zenon
    <2>2. n \in Nat /\ first \in Nat /\ drift \in Nat
      BY <1>1, <1>3 DEF PhStates
    <2> HIDE DEF n, first, drift, q
    <2>3. \E a \in Nat, b \in Nat, c \in Nat, d \in Nat :
            q = WithFixed(p, a, b, c, d) /\ a <= FixedRing
      <3>1. /\ p.fixN \in Nat /\ p.fixFirst \in Nat /\ p.fixRef \in Nat /\ p.drift \in Nat
            /\ FixedRing \in Nat /\ p.fixN <= FixedRing
        BY <1>1, <1>3, PhConstants DEF PhStates, PhOK
      <3>2. CASE n < FixedRing /\ q = [p EXCEPT !.fixN = n, !.fixFirst = first]
        <4>1. q = WithFixed(p, n, first, p.fixRef, p.drift)
          BY <1>3, <3>2 DEF PhStates, WithFixed
        <4>2. n <= FixedRing
          BY <2>2, <3>1, <3>2
        <4> QED BY <2>2, <3>1, <4>1, <4>2
      <3>3. CASE n = FixedRing /\ q = [p EXCEPT !.fixN = n, !.fixFirst = 0, !.fixRef = ev]
        <4>1. q = WithFixed(p, n, 0, ev, p.drift)
          BY <1>3, <3>3 DEF PhStates, WithFixed
        <4>2. n <= FixedRing
          BY <3>1, <3>3
        <4> QED BY <1>1, <2>2, <3>1, <4>1, <4>2
      <3>4. CASE q = [p EXCEPT !.fixN = 0, !.fixFirst = 0]
        <4>1. q = WithFixed(p, 0, 0, p.fixRef, p.drift)
          BY <1>3, <3>4 DEF PhStates, WithFixed
        <4>2. 0 <= FixedRing
          BY <3>1
        <4> QED BY <3>1, <4>1, <4>2
      <3>5. CASE q = [p EXCEPT !.drift = drift]
        <4>1. q = WithFixed(p, p.fixN, p.fixFirst, p.fixRef, drift)
          BY <1>3, <3>5 DEF PhStates, WithFixed
        <4> QED BY <2>2, <3>1, <4>1
      <3> QED BY <2>1, <3>2, <3>3, <3>4, <3>5
    <2>4. /\ q \in PhStates /\ q.phase = p.phase /\ q.fixN <= FixedRing
          /\ q.checks = p.checks /\ q.ifN = p.ifN /\ q.ifPolls = p.ifPolls
          /\ q.rise = p.rise /\ q.fall = p.fall /\ q.dayN = p.dayN /\ q.dayHits = p.dayHits
      <3>1. PICK a \in Nat, b \in Nat, c \in Nat, d \in Nat :
              q = WithFixed(p, a, b, c, d) /\ a <= FixedRing
        BY <2>3
      <3>2. q \in PhStates
        BY <1>3, <3>1 DEF WithFixed, PhStates
      <3>3. q.fixN = a /\ q.phase = p.phase
        BY <1>3, <3>1 DEF WithFixed, PhStates
      <3> QED BY <1>3, <3>1, <3>2, <3>3 DEF WithFixed, PhStates
    <2> QED BY <2>4, PhConstants DEF PhStates
  <1> HIDE DEF q
  <1>5. CASE PhaseEnds("day", AfterDay)
    BY <1>5, Zenon DEF Ends, Phases, AfterDay
  <1>6. CASE PhaseEnds("day", "night_detect")
    BY <1>6, Zenon DEF Ends, Phases
  <1>7. CASE ~(p.dayHits >= DayTrigger) /\ PhaseGoesOn(p)
    BY <1>1, <1>3, <1>7, PhConstants DEF Goes, PhaseGoesOn, PhOK, PhStates
  <1>8. CASE ~(p.dayHits >= DayTrigger) /\ ~(q.drift > DriftTrigger) /\ PhaseGoesOn(q)
    BY <1>1, <1>3, <1>4, <1>8, PhConstants DEF Goes, PhaseGoesOn, PhOK, PhStates
  <1> QED BY <1>2, <1>5, <1>6, <1>7, <1>8

(* The watch for a passing light is bounded. *)
LEMMA InterferePhase ==
    ASSUME PhInv, NEW r \in PhReadings, photo_interfere_control(r)
    PROVE  Goes \/ Ends
  <1> DEFINE n == ph.ifN + 1
             polls == ph.ifPolls + 1
             p == [ph EXCEPT !.ifPolls = polls]
             rises == r.ev > ph.ifRef + 1
             falls == r.ev + 1 < ph.ifRef
             first == IF ph.ifN = 0 THEN r.ev ELSE ph.ifFirst
             rise == IF rises THEN ph.rise + 1 ELSE IF falls THEN ph.rise ELSE 0
             fall == IF falls THEN ph.fall + 1 ELSE IF rises THEN ph.fall ELSE 0
  <1>1. PhOK(ph) /\ ph \in PhStates /\ r.ev \in Nat /\ phMode \in {"day", "night"}
    BY PhConstants DEF PhInv, PhOK, PhModes
  <1>2. \/ PhaseEnds(phMode, "night_detect") \/ PhaseEnds("night", "night_detect")
        \/ /\ ~InterfereEnds(p.ifPolls)
           /\ \/ n < InterfRing /\ PhaseGoesOn([p EXCEPT !.ifN = n, !.ifFirst = first])
              \/ n = InterfRing
                 /\ PhaseGoesOn([p EXCEPT !.ifN = n, !.ifFirst = 0, !.ifRef = r.ev])
              \/ PhaseGoesOn([p EXCEPT !.ifN = 0, !.ifFirst = 0])
              \/ /\ ~(rises /\ ph.rise + 1 > RiseTrigger)
                 /\ ~(falls /\ ph.fall + 1 >= FallTrigger)
                 /\ PhaseGoesOn([p EXCEPT !.rise = rise, !.fall = fall])
    <2>1. /\ [p EXCEPT !.ifN = n, !.ifFirst = first]
             = [p EXCEPT !.ifN = n, !.ifFirst = IF ph.ifN = 0 THEN r.ev ELSE @]
          /\ [p EXCEPT !.rise = rise, !.fall = fall]
             = [p EXCEPT !.rise = IF rises THEN @ + 1 ELSE IF falls THEN @ ELSE 0,
                         !.fall = IF falls THEN @ + 1 ELSE IF rises THEN @ ELSE 0]
      BY <1>1 DEF PhStates
    <2>2. p = [ph EXCEPT !.ifPolls = @ + 1]
      BY <1>1 DEF PhStates
    <2>3. IF InterfereEnds(p.ifPolls) THEN PhaseEnds(phMode, "night_detect")
          ELSE IF n < InterfRing
          THEN PhaseGoesOn([p EXCEPT !.ifN = n, !.ifFirst = IF ph.ifN = 0 THEN r.ev ELSE @])
          ELSE IF n = InterfRing
          THEN PhaseGoesOn(IF r.ev = ph.ifFirst
                           THEN [p EXCEPT !.ifN = n, !.ifFirst = 0, !.ifRef = r.ev]
                           ELSE [p EXCEPT !.ifN = 0, !.ifFirst = 0])
          ELSE IF rises /\ ph.rise + 1 > RiseTrigger THEN PhaseEnds("night", "night_detect")
          ELSE IF falls /\ ph.fall + 1 >= FallTrigger THEN PhaseEnds(phMode, "night_detect")
          ELSE PhaseGoesOn([p EXCEPT !.rise = IF rises THEN @ + 1 ELSE IF falls THEN @ ELSE 0,
                                     !.fall = IF falls THEN @ + 1 ELSE IF rises THEN @ ELSE 0])
      <3> HIDE DEF p
      <3> QED BY <2>2, Zenon DEF photo_interfere_control
    <2> HIDE DEF p, first, rise, fall, rises, falls, n
    <2> QED BY <2>1, <2>3, Zenon
  <1>3. n \in Nat /\ polls \in Nat /\ first \in Nat /\ rise \in Nat /\ fall \in Nat
    BY <1>1 DEF PhStates
  <1>4. p \in PhStates /\ p.phase = ph.phase /\ p.ifPolls = polls
    BY <1>1, <1>3 DEF PhStates
  <1>5. ~InterfereEnds(p.ifPolls) => polls <= InterfMax
    BY <1>3, <1>4, PhConstants DEF InterfereEnds
  <1>6. ~(rises /\ ph.rise + 1 > RiseTrigger) => rise <= RiseTrigger
    BY <1>1, PhConstants DEF PhOK, PhStates
  <1>7. ~(falls /\ ph.fall + 1 >= FallTrigger) => fall < FallTrigger
    BY <1>1, PhConstants DEF PhOK, PhStates
  <1>8. /\ n < InterfRing => n <= InterfRing
        /\ n = InterfRing => n <= InterfRing
    BY <1>3, PhConstants
  <1> HIDE DEF polls, first, rise, fall, n, rises, falls
  <1>9. polls <= InterfMax => PhOK(p)
    BY <1>1, <1>3, <1>4 DEF PhOK, PhStates
  <1> HIDE DEF p
  <1>10. CASE PhaseEnds(phMode, "night_detect") \/ PhaseEnds("night", "night_detect")
    <2>1. "night_detect" # "day_detect" /\ "night_detect" # "interfere"
      OBVIOUS
    <2> QED BY <1>1, <1>10, <2>1, Zenon DEF Ends, Phases
  <1>11. CASE PhOK(p) /\ n <= InterfRing /\ PhaseGoesOn([p EXCEPT !.ifN = n, !.ifFirst = first])
    BY <1>3, <1>4, <1>11 DEF PhOK, PhStates, PhaseGoesOn, Goes
  <1>12. CASE PhOK(p) /\ n <= InterfRing
              /\ PhaseGoesOn([p EXCEPT !.ifN = n, !.ifFirst = 0, !.ifRef = r.ev])
    BY <1>1, <1>3, <1>4, <1>12 DEF PhOK, PhStates, PhaseGoesOn, Goes
  <1>13. CASE PhOK(p) /\ PhaseGoesOn([p EXCEPT !.ifN = 0, !.ifFirst = 0])
    <2>1. 0 <= InterfRing
      BY PhConstants
    <2> QED BY <1>4, <1>13, <2>1 DEF PhOK, PhStates, PhaseGoesOn, Goes
  <1>14. CASE PhOK(p) /\ rise <= RiseTrigger /\ fall < FallTrigger
              /\ PhaseGoesOn([p EXCEPT !.rise = rise, !.fall = fall])
    BY <1>3, <1>4, <1>14 DEF PhOK, PhStates, PhaseGoesOn, Goes
  <1> QED BY <1>2, <1>5, <1>6, <1>7, <1>8, <1>9, <1>10, <1>11, <1>12, <1>13, <1>14

(* Whatever a poll does with the phase, the mode goes with it. *)
LEMMA PhTurns ==
    ASSUME PhInv, Goes \/ Ends
    PROVE  phMode' \in {"day", "night"} /\ PhOK(ph') /\ PhotoWatches'
  <1>1. CASE Goes
    BY <1>1 DEF Goes, PhInv, PhModes, PhotoWatches
  <1>2. CASE Ends
    <2>1. PICK m \in {"day", "night"}, phase \in Phases :
            /\ PhaseEnds(m, phase)
            /\ (phase = "day_detect" => m = "night") /\ (phase = "interfere" => m = "day")
      BY <1>2 DEF Ends
    <2>2. phMode' = m /\ ph' = ric_photo_reset(phase)
      BY <2>1 DEF PhaseEnds
    <2> QED BY <2>1, <2>2, PhResets DEF PhotoWatches
  <1> QED BY <1>1, <1>2

LEMMA PhStays == PhInv /\ [PhNext]_phvars => PhInv'
  <1> SUFFICES ASSUME PhInv, [PhNext]_phvars PROVE PhInv'
    OBVIOUS
  <1>1. CASE UNCHANGED phvars
    BY <1>1 DEF phvars, PhInv, PhModes, PhotoWatches
  <1>2. CASE ric_photo_poll
    <2>1. PICK r \in PhReadings :
            /\ phCal' = photo_calibrate(r)
            /\ photo_night_control(r) \/ photo_day_control(r) \/ photo_interfere_control(r)
      BY <1>2 DEF ric_photo_poll
    <2>2. phOp' = phOp
      BY <1>2 DEF ric_photo_poll
    <2>3. CalOK(phCal')
      BY <2>1, Calibration
    <2>4. Goes \/ Ends
      BY <2>1, <2>3, NightPhase, DayPhase, InterferePhase
    <2> QED BY <2>2, <2>3, <2>4, PhTurns DEF PhInv, PhModes
  <1>3. CASE PhAuto
    BY <1>3 DEF PhAuto, PhInv, PhModes, PhotoWatches
  <1>4. ASSUME NEW m \in {"day", "night"}, PhForce(m) PROVE PhInv'
    <2>1. /\ phOp' = m /\ phMode' = m /\ UNCHANGED <<phCal, ph>>
          /\ ~phForced' => ~phForced /\ phMode' = phMode
      BY <1>4, Zenon DEF PhForce
    <2>2. PhotoWatches'
      BY <2>1 DEF PhInv, PhotoWatches
    <2> QED BY <2>1, <2>2 DEF PhInv, PhModes
  <1>5. ASSUME NEW m \in {"day", "night"}, PhRearm(m) PROVE PhInv'
    <2>1. phOp' = phOp /\ phCal' = phCal /\ PhaseEnds(m, "night_detect")
      BY <1>5 DEF PhRearm
    <2>2. Ends
      <3>1. "night_detect" # "day_detect" /\ "night_detect" # "interfere"
        OBVIOUS
      <3> QED BY <2>1, <3>1, Zenon DEF Ends, Phases
    <2> QED BY <2>1, <2>2, PhTurns DEF PhInv, PhModes
  <1> QED BY <1>1, <1>2, <1>3, <1>4, <1>5 DEF PhNext

LEMMA PhTyped == PhInv => PhTypeOK /\ PhotoWatches
  <1> SUFFICES ASSUME PhInv PROVE PhTypeOK
    BY DEF PhInv
  <1>1. phCal.n \in 0..CalSamples /\ {phCal.rbase, phCal.bbase} \subseteq Nat
    BY PhConstants DEF PhInv, CalOK, CalStates
  <1>2. ph.phase \in {"night_detect", "day_detect", "interfere"}
    BY DEF PhInv, PhOK, PhStates, Phases
  <1> QED BY <1>1, <1>2 DEF PhInv, PhOK, PhModes, PhTypeOK

-----------------------------------------------------------------------------
(* rmr's pre-roll buffer.  Slots are laid out one after the other; a slot   *)
(* either lies below the allocator's head, not further than the frames      *)
(* since can fill, or was written before the last wrap and lies above it by *)
(* what the slots since then leave of the region.  While there is room for  *)
(* one frame more than have come since, the allocator has not reached it.   *)
SlotRecs == [off : Nat, len : Lens, age : Nat, key : BOOLEAN, intact : BOOLEAN]
PbShape ==
    /\ slots \in Seq(SlotRecs) /\ head \in Nat /\ pbSinceKey \in Nat
    /\ Len(slots) <= Capacity /\ head <= DataSize /\ pbSinceKey <= PbGop - 1
    /\ \A i \in 1..Len(slots) :
          slots[i].off + slots[i].len <= DataSize /\ slots[i].age <= MaxAge

Rank(i) == Len(slots) - i + 1
Below(i) == slots[i].off + slots[i].len <= head /\ head <= slots[i].off + Rank(i) * MaxLen
Above(i) == head + DataSize + 1 <= slots[i].off + (Rank(i) + 1) * MaxLen
Roomy(i) == (Rank(i) + 1) * MaxLen <= DataSize + 1
Laid == \A i \in 1..Len(slots) : Roomy(i) => slots[i].intact /\ (Below(i) \/ Above(i))

(* An earlier slot is as old as a later one at least, and from every       *)
(* keyframe the next is at most a GOP away.                                *)
Aged == \A i \in 1..Len(slots), j \in 1..Len(slots) : i <= j => slots[j].age <= slots[i].age
LastKey == pbSinceKey < Len(slots) => slots[Len(slots) - pbSinceKey].key
KeysDense == \A i \in 1..Len(slots) :
                slots[i].key /\ i + PbGop <= Len(slots)
                => \E j \in (i + 1)..(i + PbGop) : slots[j].key
Rolling == Aged /\ LastKey /\ KeysDense

PbInv == PbShape /\ Laid /\ Rolling

LEMMA PbConstants ==
    /\ Capacity \in Nat \ {0} /\ DataSize \in Nat \ {0} /\ MaxAge \in Nat
    /\ PbGop \in Nat \ {0} /\ Stall \in Nat /\ MaxLen \in Nat
    /\ \A l \in Lens : l \in Nat \ {0} /\ l <= MaxLen
  BY PrebufAssumption

LEMMA PbStarts == PbInit => PbInv
  <1> SUFFICES ASSUME PbInit PROVE PbInv
    OBVIOUS
  <1>1. slots = <<>> /\ Len(slots) = 0 /\ slots \in Seq(SlotRecs)
    BY EmptySeq DEF PbInit
  <1>2. PbShape
    BY <1>1, PbConstants DEF PbInit, PbShape
  <1>3. Laid
    BY <1>1 DEF Laid
  <1>4. Rolling
    BY <1>1, PbConstants DEF PbInit, Rolling, Aged, LastKey, KeysDense
  <1> QED BY <1>2, <1>3, <1>4 DEF PbInv

(* What a push does to the slots: those that stay move down by one when the *)
(* oldest is evicted, age, and may be overwritten; the new one is the last. *)
Evicted == IF Len(slots) = Capacity THEN 1 ELSE 0
SlotsMove(len, key, dt) ==
    LET off == OffsetFor(len)
        n == Len(slots) - Evicted
    IN /\ slots' \in Seq(SlotRecs) /\ Len(slots') = n + 1
       /\ \A i \in 1..n :
             /\ slots'[i].off = slots[i + Evicted].off /\ slots'[i].len = slots[i + Evicted].len
             /\ slots'[i].key = slots[i + Evicted].key
             /\ slots'[i].age = Capped(slots[i + Evicted].age + dt)
             /\ slots[i + Evicted].intact /\ ~Overlap(slots[i + Evicted], off, len)
                => slots'[i].intact
       /\ slots'[n + 1] = [off |-> off, len |-> len, age |-> 0, key |-> key, intact |-> TRUE]

LEMMA PushSlots ==
    ASSUME PbShape, NEW len \in Lens, NEW key \in BOOLEAN, NEW dt \in Nat, Push(len, key, dt)
    PROVE  SlotsMove(len, key, dt)
  <1> DEFINE off == OffsetFor(len)
             e == Evicted
             n == Len(slots) - e
             kept == IF Len(slots) = Capacity THEN Tail(slots) ELSE slots
             aged == [i \in 1..Len(kept) |->
                        [kept[i] EXCEPT !.age = Capped(@ + dt),
                                        !.intact = @ /\ ~Overlap(kept[i], off, len)]]
             new == [off |-> off, len |-> len, age |-> 0, key |-> key, intact |-> TRUE]
  <1>1. slots' = Append(aged, new)
    BY Zenon DEF Push
  <1>2. /\ kept \in Seq(SlotRecs) /\ Len(kept) = n /\ n \in Nat
        /\ \A i \in 1..n : kept[i] = slots[i + e] /\ i + e \in 1..Len(slots)
    <2>1. Len(slots) \in Nat /\ slots \in Seq(SlotRecs)
      BY LenProperties DEF PbShape
    <2>2. CASE Len(slots) = Capacity
      <3>1. slots # <<>>
        BY <2>1, <2>2, EmptySeq, PbConstants
      <3>2. /\ Tail(slots) \in Seq(SlotRecs) /\ Len(Tail(slots)) = Len(slots) - 1
            /\ \A i \in 1..Len(Tail(slots)) : Tail(slots)[i] = slots[i + 1]
        BY <2>1, <3>1, HeadTailProperties
      <3>3. kept = Tail(slots) /\ e = 1
        BY <2>2 DEF Evicted
      <3> HIDE DEF kept, e
      <3> QED BY <2>1, <2>2, <3>2, <3>3, PbConstants
    <2>3. CASE Len(slots) # Capacity
      <3>1. kept = slots /\ e = 0
        BY <2>3 DEF Evicted
      <3> HIDE DEF kept, e
      <3> QED BY <2>1, <3>1
    <2> QED BY <2>2, <2>3
  <1>3. off \in Nat
    BY PbConstants DEF PbShape, OffsetFor
  <1> HIDE DEF kept, e, off
  <1>4. ASSUME NEW i \in 1..n
        PROVE  /\ aged[i] \in SlotRecs /\ aged[i].off = slots[i + e].off
               /\ aged[i].len = slots[i + e].len /\ aged[i].key = slots[i + e].key
               /\ aged[i].age = Capped(slots[i + e].age + dt)
               /\ slots[i + e].intact /\ ~Overlap(slots[i + e], off, len) => aged[i].intact
    <2> DEFINE k == slots[i + e]
               a == Capped(k.age + dt)
               b == k.intact /\ ~Overlap(k, off, len)
    <2>1. k \in SlotRecs /\ kept[i] = k
      BY <1>2, ElementOfSeq DEF PbShape
    <2> HIDE DEF k
    <2>2. aged[i] = [k EXCEPT !.age = a, !.intact = b]
      <3>1. aged[i] = [k EXCEPT !.age = Capped(@ + dt), !.intact = @ /\ ~Overlap(k, off, len)]
        BY <1>2, <2>1
      <3> QED BY <2>1, <3>1 DEF SlotRecs
    <2>3. a \in Nat
      BY <2>1, PbConstants DEF SlotRecs, Capped
    <2>4. b \in BOOLEAN
      OBVIOUS
    <2>5. k.intact /\ ~Overlap(k, off, len) => b
      OBVIOUS
    <2> HIDE DEF a, b, aged
    <2>6. /\ aged[i] \in SlotRecs /\ aged[i].off = k.off /\ aged[i].len = k.len
          /\ aged[i].key = k.key /\ aged[i].age = a /\ aged[i].intact = b
      BY <2>1, <2>2, <2>3, <2>4 DEF SlotRecs
    <2> QED BY <2>5, <2>6 DEF a, k
  <1>5. aged \in Seq(SlotRecs) /\ Len(aged) = n
    <2>1. DOMAIN aged = 1..n
      BY <1>2
    <2>2. aged \in [1..n -> SlotRecs]
      BY <1>2, <1>4
    <2> HIDE DEF aged
    <2>3. aged \in Seq(SlotRecs)
      BY <1>2, <2>2, SeqDef
    <2>4. Len(aged) \in Nat /\ 1..Len(aged) = 1..n
      BY <2>1, <2>3, LenProperties
    <2> QED BY <1>2, <2>3, <2>4
  <1> HIDE DEF aged
  <1>6. new \in SlotRecs
    BY <1>3 DEF SlotRecs
  <1> HIDE DEF new
  <1>7. /\ slots' \in Seq(SlotRecs) /\ Len(slots') = n + 1 /\ slots'[n + 1] = new
        /\ \A i \in 1..n : slots'[i] = aged[i]
    BY <1>1, <1>5, <1>6, AppendProperties
  <1> HIDE DEF n
  <1>8. /\ slots' \in Seq(SlotRecs) /\ Len(slots') = n + 1
        /\ \A i \in 1..n :
             /\ slots'[i].off = slots[i + e].off /\ slots'[i].len = slots[i + e].len
             /\ slots'[i].key = slots[i + e].key
             /\ slots'[i].age = Capped(slots[i + e].age + dt)
             /\ slots[i + e].intact /\ ~Overlap(slots[i + e], off, len) => slots'[i].intact
        /\ slots'[n + 1] = new
    BY <1>4, <1>7
  <1> QED BY <1>8 DEF SlotsMove, n, e, off, new

LEMMA Room ==
    ASSUME NEW m \in Nat, NEW k \in Nat
    PROVE  /\ (k + 1) * m = k * m + m /\ (k + 2) * m = k * m + m + m /\ k * m \in Nat
  OBVIOUS

(* One slot [o, o + l) while a frame of n bytes is laid at head h: km is   *)
(* what the slots from this one on can fill.                               *)
LEMMA LaysOn ==
    ASSUME NEW o \in Nat, NEW l \in Nat \ {0}, NEW h \in Nat, NEW d \in Nat, NEW m \in Nat,
           NEW n \in Nat \ {0}, NEW km \in Nat, n <= m, km + m + m <= d + 1, o + l <= d,
           \/ o + l <= h /\ h <= o + km
           \/ h + d + 1 <= o + km + m
    PROVE  /\ h + n <= d =>
                /\ ~(o < h + n /\ h < o + l)
                /\ \/ o + l <= h + n /\ h + n <= o + km + m
                   \/ h + n + d + 1 <= o + km + m + m
           /\ h + n > d =>
                /\ ~(o < n /\ 0 < o + l)
                /\ n + d + 1 <= o + km + m + m
  OBVIOUS

LEMMA LaidStays ==
    ASSUME PbShape, Laid, NEW len \in Lens, NEW key \in BOOLEAN, NEW dt \in Nat,
           Push(len, key, dt)
    PROVE  Laid'
  <1> DEFINE off == OffsetFor(len)
             e == Evicted
             n == Len(slots) - e
             M == MaxLen
  <1>1. SlotsMove(len, key, dt)
    BY PushSlots
  <1>2. /\ M \in Nat /\ len \in Nat \ {0} /\ len <= M
        /\ len <= DataSize /\ DataSize \in Nat /\ Capacity \in Nat /\ head \in Nat
    BY PbConstants DEF Push, PbShape
  <1>3. /\ e \in {0, 1} /\ Len(slots) \in Nat /\ n \in Nat /\ n + 1 <= Capacity
        /\ head' = off + len
        /\ off = IF head + len > DataSize THEN 0 ELSE head
    <2>1. Len(slots) \in Nat /\ Len(slots) <= Capacity
      BY LenProperties DEF PbShape
    <2>2. head' = off + len
      BY DEF Push
    <2> QED BY <2>1, <2>2, PbConstants DEF Evicted, OffsetFor
  <1>4. Len(slots') = n + 1 /\ n + 1 \in Nat /\ n = Len(slots) - e
    BY <1>1, <1>3 DEF SlotsMove
  <1>5. ASSUME NEW i \in 1..n, Roomy(i)'
        PROVE  slots'[i].intact /\ (Below(i)' \/ Above(i)')
    <2> DEFINE s == slots[i + e]
               k == n - i + 1
               t == slots'[i]
    <2>1. i + e \in 1..Len(slots) /\ k \in Nat /\ Rank(i + e) = k
      <3> HIDE DEF e, n
      <3> QED BY <1>2, <1>3, <1>4 DEF Rank
    <2>2. s \in SlotRecs /\ s.off + s.len <= DataSize
      BY <2>1, ElementOfSeq DEF PbShape
    <2>3. s.off \in Nat /\ s.len \in Nat \ {0}
      BY <2>2, PbConstants DEF SlotRecs
    <2>4. /\ t.off = s.off /\ t.len = s.len
          /\ s.intact /\ ~Overlap(s, off, len) => t.intact
      BY <1>1 DEF SlotsMove
    <2>5. Rank(i)' = k + 1
      BY <1>3, <1>4 DEF Rank
    <2>6. /\ (k + 1) * M = k * M + M /\ (k + 2) * M = k * M + M + M
          /\ k * M \in Nat /\ k * M + M + M <= DataSize + 1
      <3>1. k + 1 + 1 = k + 2
        BY <2>1
      <3>2. (k + 1 + 1) * M <= DataSize + 1
        BY <1>5, <2>5, Zenon DEF Roomy
      <3>3. (k + 2) * M <= DataSize + 1
        BY <3>1, <3>2, Zenon
      <3>4. /\ (k + 1) * M = k * M + M /\ (k + 2) * M = k * M + M + M /\ k * M \in Nat
        BY <1>2, <2>1, Room
      <3>5. k * M + M + M <= DataSize + 1
        BY <3>3, <3>4, Zenon
      <3> QED BY <3>4, <3>5, Zenon
    <2> DEFINE o == s.off
               l == s.len
               km == k * M
    <2>7. s.intact /\ (\/ o + l <= head /\ head <= o + km
                       \/ head + DataSize + 1 <= o + (km + M))
      <3>0. Roomy(i + e)
        <4> DEFINE kM == k * M
        <4>1. (k + 1) * M = kM + M /\ kM \in Nat /\ kM + M + M <= DataSize + 1
          BY <2>6, Zenon
        <4> HIDE DEF kM
        <4>2. kM + M <= DataSize + 1
          BY <1>2, <4>1
        <4> QED BY <2>1, <4>1, <4>2, Zenon DEF Roomy
      <3>1. s.intact /\ (Below(i + e) \/ Above(i + e))
        BY <2>1, <3>0, Zenon DEF Laid
      <3>2. Below(i + e) <=> o + l <= head /\ head <= o + km
        BY <2>1, Zenon DEF Below
      <3>3. Above(i + e) <=> head + DataSize + 1 <= o + (km + M)
        BY <2>1, <2>6, Zenon DEF Above
      <3> HIDE DEF s, o, l, km
      <3> QED BY <3>1, <3>2, <3>3, Zenon
    <2>8. /\ Below(i)' <=> o + l <= head' /\ head' <= o + (km + M)
          /\ Above(i)' <=> head' + DataSize + 1 <= o + (km + M + M)
      <3>1. k + 1 + 1 = k + 2
        BY <2>1
      <3>2. Below(i)' <=> o + l <= head' /\ head' <= o + (k + 1) * M
        BY <2>4, <2>5, Zenon DEF Below
      <3>3. Above(i)' <=> head' + DataSize + 1 <= o + (k + 1 + 1) * M
        BY <2>4, <2>5, Zenon DEF Above
      <3>4. (k + 1 + 1) * M = km + M + M
        BY <2>6, <3>1, Zenon
      <3>5. (k + 1) * M = km + M
        BY <2>6, Zenon
      <3> HIDE DEF k, o, l, km, s
      <3> QED BY <3>2, <3>3, <3>4, <3>5, Zenon
    <2>9. km \in Nat /\ km + M + M <= DataSize + 1
      BY <2>6
    <2> HIDE DEF s, k, t, o, l, km
    <2>10. /\ o \in Nat /\ l \in Nat \ {0} /\ o + l <= DataSize
           /\ \/ o + l <= head /\ head <= o + km
              \/ head + DataSize + 1 <= o + km + M
      <3>1. o \in Nat /\ l \in Nat \ {0} /\ o + l <= DataSize
        BY <2>2, <2>3 DEF o, l
      <3> QED BY <1>2, <2>7, <2>9, <3>1
    <2>11. /\ head + len <= DataSize =>
                /\ ~(o < head + len /\ head < o + l)
                /\ \/ o + l <= head + len /\ head + len <= o + km + M
                   \/ head + len + DataSize + 1 <= o + km + M + M
           /\ head + len > DataSize =>
                /\ ~(o < len /\ 0 < o + l)
                /\ len + DataSize + 1 <= o + km + M + M
      BY <1>2, <2>9, <2>10, LaysOn
    <2>12. Overlap(s, off, len) <=> o < off + len /\ off < o + l
      BY DEF Overlap, o, l
    <2>13. /\ Below(i)' <=> o + l <= head' /\ head' <= o + km + M
           /\ Above(i)' <=> head' + DataSize + 1 <= o + km + M + M
      BY <1>2, <1>3, <2>8, <2>9, <2>10
    <2>14. CASE head + len <= DataSize
      <3>1. off = head /\ head' = head + len
        BY <1>2, <1>3, <2>14
      <3> QED BY <2>4, <2>7, <2>11, <2>12, <2>13, <2>14, <3>1 DEF t
    <2>15. CASE head + len > DataSize
      <3>1. off = 0 /\ head' = len
        BY <1>2, <1>3, <2>15
      <3> HIDE DEF off
      <3>2. ~(o < off + len /\ off < o + l)
        BY <1>2, <2>11, <2>15, <3>1
      <3> QED BY <2>4, <2>7, <2>11, <2>12, <2>13, <2>15, <3>1, <3>2 DEF t
    <2> QED BY <1>2, <2>14, <2>15
  <1>6. ASSUME NEW i \in Nat, i = n + 1
        PROVE  slots'[i].intact /\ Below(i)'
    <2>1. /\ slots'[i].off = off /\ slots'[i].len = len /\ slots'[i].intact
      BY <1>1, <1>6 DEF SlotsMove
    <2>2. Rank(i)' = 1
      <3> HIDE DEF n
      <3> QED BY <1>3, <1>4, <1>6 DEF Rank
    <2>3. off \in Nat
      BY <1>2, <1>3
    <2>4. Rank(i)' * MaxLen = MaxLen
      BY <1>2, <2>2
    <2> HIDE DEF off, n
    <2> QED BY <1>2, <1>3, <2>1, <2>3, <2>4 DEF Below
  <1>7. \A i \in 1..Len(slots') : i \in 1..n \/ i = n + 1
    BY <1>3, <1>4
  <1>8. \A i \in 1..Len(slots') : Roomy(i)' => slots'[i].intact /\ (Below(i)' \/ Above(i)')
    BY <1>4, <1>5, <1>6, <1>7
  <1> QED BY <1>8 DEF Laid

LEMMA PushShape ==
    ASSUME PbShape, NEW len \in Lens, NEW key \in BOOLEAN, NEW dt \in Nat, Push(len, key, dt)
    PROVE  PbShape'
  <1> DEFINE off == OffsetFor(len)
             e == Evicted
             n == Len(slots) - e
  <1>1. SlotsMove(len, key, dt)
    BY PushSlots
  <1>2. /\ len \in Nat \ {0} /\ len <= DataSize /\ DataSize \in Nat /\ head \in Nat
        /\ head' = off + len /\ off = IF head + len > DataSize THEN 0 ELSE head
        /\ pbSinceKey' = IF key THEN 0 ELSE pbSinceKey + 1
        /\ key \/ pbSinceKey + 1 < PbGop
    BY PbConstants, Zenon DEF Push, PbShape, OffsetFor
  <1>3. e \in {0, 1} /\ Len(slots) \in Nat /\ n \in Nat /\ n + 1 <= Capacity
    <2>1. Len(slots) \in Nat /\ Len(slots) <= Capacity
      BY LenProperties DEF PbShape
    <2> QED BY <2>1, PbConstants DEF Evicted
  <1>4. slots' \in Seq(SlotRecs) /\ Len(slots') = n + 1
    BY <1>1 DEF SlotsMove
  <1>5. off \in Nat /\ off + len <= DataSize
    BY <1>2
  <1>6. head' \in Nat /\ head' <= DataSize
    BY <1>2, <1>5
  <1>7. pbSinceKey' \in Nat /\ pbSinceKey' <= PbGop - 1
    <2>1. CASE key
      BY <1>2, <2>1, PbConstants
    <2>2. CASE ~key
      BY <1>2, <2>2, PbConstants DEF PbShape
    <2> QED BY <2>1, <2>2
  <1>8. \A i \in 1..Len(slots') :
          slots'[i].off + slots'[i].len <= DataSize /\ slots'[i].age <= MaxAge
    <2> TAKE i \in 1..Len(slots')
    <2>1. CASE i \in 1..n
      <3>1. i + e \in 1..Len(slots)
        <4>1. n = Len(slots) - e
          OBVIOUS
        <4> HIDE DEF n, e
        <4> QED BY <1>3, <2>1, <4>1
      <3>2. slots[i + e] \in SlotRecs /\ slots[i + e].off + slots[i + e].len <= DataSize
        BY <3>1, ElementOfSeq DEF PbShape
      <3>3. /\ slots'[i].off = slots[i + e].off /\ slots'[i].len = slots[i + e].len
            /\ slots'[i].age = Capped(slots[i + e].age + dt)
        BY <1>1, <2>1 DEF SlotsMove
      <3>4. Capped(slots[i + e].age + dt) <= MaxAge
        <4>1. slots[i + e].age + dt \in Nat
          BY <3>2 DEF SlotRecs
        <4>2. \A x \in Nat : Capped(x) <= MaxAge
          BY PbConstants DEF Capped
        <4> QED BY <4>1, <4>2
      <3> QED BY <3>2, <3>3, <3>4
    <2>2. CASE i = n + 1
      <3>1. slots'[i].off = off /\ slots'[i].len = len /\ slots'[i].age = 0
        BY <1>1, <2>2 DEF SlotsMove
      <3> QED BY <1>5, <3>1, PbConstants
    <2> HIDE DEF n
    <2> QED BY <1>3, <1>4, <2>1, <2>2
  <1> HIDE DEF n
  <1> QED BY <1>3, <1>4, <1>6, <1>7, <1>8 DEF PbShape

LEMMA RollingStays ==
    ASSUME PbShape, Rolling, NEW len \in Lens, NEW key \in BOOLEAN, NEW dt \in Nat,
           Push(len, key, dt)
    PROVE  Rolling'
  <1> DEFINE e == Evicted
             n == Len(slots) - e
             g == PbGop
  <1>1. SlotsMove(len, key, dt)
    BY PushSlots
  <1>2. /\ pbSinceKey' = IF key THEN 0 ELSE pbSinceKey + 1
        /\ key \/ pbSinceKey + 1 < g
        /\ pbSinceKey \in Nat /\ g \in Nat \ {0}
    BY PbConstants, Zenon DEF Push, PbShape
  <1>3. e \in {0, 1} /\ Len(slots) \in Nat /\ n \in Nat
    <2>1. Len(slots) \in Nat /\ Len(slots) <= Capacity
      BY LenProperties DEF PbShape
    <2> QED BY <2>1, PbConstants DEF Evicted
  <1>4. /\ Len(slots') = n + 1 /\ n = Len(slots) - e
        /\ \A i \in 1..n : /\ slots'[i].key = slots[i + e].key
                           /\ slots'[i].age = Capped(slots[i + e].age + dt)
        /\ slots'[n + 1].key = key /\ slots'[n + 1].age = 0
    BY <1>1 DEF SlotsMove
  <1> HIDE DEF e, n, g
  <1>5. Aged'
    <2> SUFFICES ASSUME NEW i \in 1..Len(slots'), NEW j \in 1..Len(slots'), i <= j
                 PROVE  slots'[j].age <= slots'[i].age
      BY DEF Aged
    <2>1. ASSUME NEW m \in 1..n
          PROVE  m + e \in 1..Len(slots) /\ slots[m + e].age \in Nat
      <3>1. m + e \in 1..Len(slots)
        BY <1>3, <1>4
      <3>2. slots[m + e] \in SlotRecs
        BY <3>1, ElementOfSeq DEF PbShape
      <3> QED BY <3>1, <3>2 DEF SlotRecs
    <2>2. CASE j \in 1..n
      <3>1. i \in 1..n
        BY <1>3, <1>4, <2>2
      <3>2. slots[j + e].age <= slots[i + e].age
        <4>1. i + e <= j + e
          BY <1>3, <2>2, <3>1
        <4> QED BY <2>1, <2>2, <3>1, <4>1 DEF Rolling, Aged
      <3>3. \A x, y \in Nat : x <= y => Capped(x + dt) <= Capped(y + dt)
        BY PbConstants DEF Capped
      <3>4. /\ slots'[i].age = Capped(slots[i + e].age + dt)
            /\ slots'[j].age = Capped(slots[j + e].age + dt)
        BY <1>4, <2>2, <3>1
      <3> QED BY <2>1, <2>2, <3>1, <3>2, <3>3, <3>4
    <2>3. CASE j = n + 1
      <3>1. slots'[j].age = 0
        BY <1>4, <2>3
      <3>2. CASE i = n + 1
        BY <1>4, <2>3, <3>2
      <3>3. CASE i \in 1..n
        <4>1. slots'[i].age = Capped(slots[i + e].age + dt)
          BY <1>4, <3>3
        <4>2. \A x \in Nat : Capped(x + dt) \in Nat
          BY PbConstants DEF Capped
        <4>3. slots'[i].age \in Nat
          BY <2>1, <3>3, <4>1, <4>2
        <4> QED BY <3>1, <4>3
      <3> QED BY <1>3, <1>4, <3>2, <3>3
    <2> QED BY <1>3, <1>4, <2>2, <2>3
  <1>6. pbSinceKey < n /\ ~key => slots'[n - pbSinceKey].key
    <2> SUFFICES ASSUME pbSinceKey < n PROVE slots'[n - pbSinceKey].key
      OBVIOUS
    <2>1. pbSinceKey < Len(slots) /\ n - pbSinceKey \in 1..n
      BY <1>2, <1>3, <1>4
    <2>2. slots'[n - pbSinceKey].key = slots[n - pbSinceKey + e].key
      BY <1>4, <2>1
    <2>3. n - pbSinceKey + e = Len(slots) - pbSinceKey
      BY <1>2, <1>3, <1>4
    <2> QED BY <2>1, <2>2, <2>3 DEF Rolling, LastKey
  <1>7. LastKey'
    <2>1. CASE key
      <3>1. pbSinceKey' = 0
        BY <1>2, <2>1
      <3>2. Len(slots') - pbSinceKey' = n + 1
        BY <1>3, <1>4, <3>1
      <3> QED BY <1>4, <2>1, <3>2 DEF LastKey
    <2>2. CASE ~key
      <3>1. pbSinceKey' = pbSinceKey + 1
        BY <1>2, <2>2
      <3>2. /\ Len(slots') - pbSinceKey' = n - pbSinceKey
            /\ pbSinceKey' < Len(slots') => pbSinceKey < n
        BY <1>2, <1>3, <1>4, <3>1
      <3> QED BY <1>6, <2>2, <3>2 DEF LastKey
    <2> QED BY <2>1, <2>2
  <1>8. KeysDense'
    <2> SUFFICES ASSUME NEW i \in 1..Len(slots'), slots'[i].key, i + g <= Len(slots')
                 PROVE  \E j \in (i + 1)..(i + g) : slots'[j].key
      BY DEF KeysDense, g
    <2>1. i \in 1..n
      BY <1>2, <1>3, <1>4
    <2>2. CASE i + g <= n
      <3>1. /\ i + e \in 1..Len(slots) /\ slots[i + e].key /\ i + e + g <= Len(slots)
        BY <1>2, <1>3, <1>4, <2>1, <2>2
      <3>2. PICK j \in (i + e + 1)..(i + e + g) : slots[j].key
        BY <3>1 DEF Rolling, KeysDense, g
      <3>3. j - e \in (i + 1)..(i + g) /\ j - e \in 1..n /\ j - e + e = j
        BY <1>2, <1>3, <1>4, <2>1, <2>2
      <3> QED BY <1>4, <3>2, <3>3
    <2>3. CASE i + g = n + 1
      <3>1. CASE key
        <4>1. n + 1 \in (i + 1)..(i + g) /\ slots'[n + 1].key
          BY <1>2, <1>3, <1>4, <2>3, <3>1
        <4> QED BY <4>1
      <3>2. CASE ~key
        <4>1. pbSinceKey < n /\ n - pbSinceKey \in (i + 1)..(i + g)
          BY <1>2, <1>3, <2>1, <2>3, <3>2
        <4> QED BY <1>6, <3>2, <4>1
      <3> QED BY <3>1, <3>2
    <2>4. i + g <= n \/ i + g = n + 1
      <3>1. i + g <= n + 1 /\ g \in Nat /\ n \in Nat
        BY <1>2, <1>3, <1>4, Zenon
      <3> QED BY <2>1, <3>1
    <2> QED BY <2>2, <2>3, <2>4, Zenon
  <1> QED BY <1>5, <1>7, <1>8 DEF Rolling

LEMMA PbStays == PbInv /\ [PbNext]_pbvars => PbInv'
  <1> SUFFICES ASSUME PbInv, [PbNext]_pbvars PROVE PbInv'
    OBVIOUS
  <1>1. CASE UNCHANGED pbvars
    BY <1>1 DEF pbvars, PbInv, PbShape, Laid, Roomy, Below, Above, Rank, Rolling, Aged, LastKey,
                KeysDense
  <1>2. ASSUME NEW len \in Lens, NEW key \in BOOLEAN, NEW dt \in {1, 1 + Stall},
               Push(len, key, dt)
        PROVE  PbInv'
    <2>1. dt \in Nat
      BY PbConstants
    <2>2. PbShape'
      BY <1>2, <2>1, PushShape DEF PbInv
    <2>3. Laid'
      BY <1>2, <2>1, LaidStays DEF PbInv
    <2>4. Rolling'
      BY <1>2, <2>1, RollingStays DEF PbInv
    <2> QED BY <2>2, <2>3, <2>4 DEF PbInv
  <1> QED BY <1>1, <1>2 DEF PbNext

(* A set of indices has a least and a greatest element. *)
LEMMA LeastIndex ==
    ASSUME NEW n \in Nat, NEW S \in SUBSET (1..n), S # {}
    PROVE  Min(S) \in S /\ \A y \in S : Min(S) <= y
  <1>1. S \subseteq Nat
    OBVIOUS
  <1>2. \E x \in S : \A y \in S : ~(<<y, x>> \in OpToRel(<, Nat))
    BY <1>1, WFMin, NatLessThanWellFounded
  <1>3. PICK x \in S : \A y \in S : ~(<<y, x>> \in OpToRel(<, Nat))
    BY <1>2
  <1>4. \A y \in S : ~(y < x)
    BY <1>1, <1>3 DEF OpToRel
  <1>5. \A y \in S : x <= y
    BY <1>1, <1>4
  <1>6. \E z \in S : \A y \in S : z <= y
    BY <1>5
  <1> QED BY <1>6, Zenon DEF Min

LEMMA GreatestIndex ==
    ASSUME NEW n \in Nat, NEW S \in SUBSET (1..n), S # {}
    PROVE  Max(S) \in S /\ \A y \in S : Max(S) >= y
  <1> DEFINE T == {n - y : y \in S}
  <1>1. T \subseteq Nat /\ T # {}
    <2>1. T \subseteq Nat
      OBVIOUS
    <2>2. PICK y \in S : TRUE
      OBVIOUS
    <2>3. n - y \in T
      OBVIOUS
    <2> QED BY <2>1, <2>3
  <1>2. \E x \in T : \A y \in T : ~(<<y, x>> \in OpToRel(<, Nat))
    BY <1>1, WFMin, NatLessThanWellFounded
  <1>3. PICK x \in T : \A y \in T : ~(<<y, x>> \in OpToRel(<, Nat))
    BY <1>2
  <1>4. \A y \in T : ~(y < x)
    BY <1>1, <1>3 DEF OpToRel
  <1>5. PICK z \in S : x = n - z
    OBVIOUS
  <1>6. \A y \in S : z >= y
    <2> TAKE y \in S
    <2>1. n - y \in T
      OBVIOUS
    <2>2. ~(n - y < n - z)
      BY <1>4, <1>5, <2>1
    <2> QED BY <2>2
  <1>7. \E u \in S : \A y \in S : u >= y
    BY <1>6
  <1> QED BY <1>7, Zenon DEF Max

(* Where the replay starts: the newest keyframe that is old enough, else   *)
(* the oldest there is.                                                    *)
Old == {i \in KeyAt : slots[i].age >= MaxAge}
LEMMA ReplayStart ==
    ASSUME PbShape
    PROVE  LET start == FindKeyframe(MaxAge)
           IN /\ Old # {} => start \in Old /\ \A j \in Old : j <= start
              /\ Old = {} /\ KeyAt # {} => start \in KeyAt /\ start \notin Old
              /\ KeyAt = {} => start = 0 /\ Replayed = {}
              /\ KeyAt # {} => Replayed = start..Len(slots)
  <1> DEFINE start == FindKeyframe(MaxAge)
  <1>1. Len(slots) \in Nat /\ KeyAt \in SUBSET (1..Len(slots)) /\ Old \in SUBSET KeyAt
    BY LenProperties DEF PbShape, KeyAt, Old
  <1>2. Old # {} => start = Max(Old)
    BY <1>1 DEF FindKeyframe, Old
  <1>3. Old = {} /\ KeyAt # {} => start = Min(KeyAt)
    BY DEF FindKeyframe, Old
  <1>4. KeyAt = {} => start = 0
    BY DEF FindKeyframe, Old
  <1> HIDE DEF start
  <1>5. Old # {} => start \in Old /\ \A j \in Old : j <= start
    <2> SUFFICES ASSUME Old # {} PROVE start \in Old /\ \A j \in Old : j <= start
      OBVIOUS
    <2>1. Old \in SUBSET (1..Len(slots))
      BY <1>1
    <2>2. start \in Old /\ \A j \in Old : start >= j
      BY <1>1, <1>2, <2>1, GreatestIndex
    <2> QED BY <1>1, <2>1, <2>2
  <1>6. Old = {} /\ KeyAt # {} => start \in KeyAt /\ start \notin Old
    BY <1>1, <1>3, LeastIndex
  <1>7. KeyAt # {} => start # 0
    BY <1>1, <1>5, <1>6
  <1>8. /\ start = 0 => Replayed = {}
        /\ start # 0 => Replayed = start..Len(slots)
    BY DEF Replayed, start
  <1> QED BY <1>4, <1>5, <1>6, <1>7, <1>8 DEF start

(* What the invariant says of the pre-roll. *)
LEMMA PbHolds == PbInv => PbTypeOK /\ WindowMet /\ ReplayIntact /\ PreRollBounded
  <1> SUFFICES ASSUME PbInv PROVE PbTypeOK /\ WindowMet /\ ReplayIntact /\ PreRollBounded
    OBVIOUS
  <1> DEFINE start == FindKeyframe(MaxAge)
             n == Len(slots)
  <1>1. /\ PbShape /\ n \in Nat /\ KeyAt \in SUBSET (1..n) /\ Old \in SUBSET KeyAt
        /\ \A i \in 1..n : slots[i] \in SlotRecs /\ slots[i].off \in Nat /\ slots[i].age \in Nat
    <2>1. PbShape
      BY DEF PbInv
    <2>2. n \in Nat /\ KeyAt \in SUBSET (1..n) /\ Old \in SUBSET KeyAt
      BY <2>1, LenProperties DEF PbShape, KeyAt, Old
    <2>3. \A i \in 1..n : slots[i] \in SlotRecs
      BY <2>1, ElementOfSeq DEF PbShape
    <2> QED BY <2>1, <2>2, <2>3 DEF SlotRecs
  <1>2. /\ Old # {} => start \in Old /\ \A j \in Old : j <= start
        /\ Old = {} /\ KeyAt # {} => start \in KeyAt /\ start \notin Old
        /\ KeyAt = {} => Replayed = {}
        /\ KeyAt # {} => Replayed = start..n
    BY <1>1, ReplayStart
  <1>3. PbTypeOK
    BY <1>1, PbConstants DEF PbShape, PbTypeOK
  <1> HIDE DEF start
  <1>4. KeyAt # {} => start \in KeyAt /\ start \in 1..n
    BY <1>1, <1>2
  <1>5. WindowMet
    <2> SUFFICES ASSUME \E i \in KeyAt : slots[i].age >= MaxAge
                 PROVE  \E i \in Replayed : slots[i].age >= MaxAge
      BY DEF WindowMet
    <2>1. Old # {} /\ KeyAt # {}
      BY DEF Old
    <2>2. start \in 1..n /\ slots[start].age >= MaxAge
      BY <1>2, <1>4, <2>1 DEF Old
    <2>3. start \in start..n
      BY <1>1, <2>2
    <2> QED BY <1>2, <2>1, <2>2, <2>3
  <1>6. ReplayIntact
    <2> SUFFICES ASSUME NEW i \in Replayed, (n - i + 2) * MaxLen <= DataSize + 1
                 PROVE  slots[i].intact
      BY DEF ReplayIntact
    <2>1. KeyAt # {}
      BY <1>2
    <2>2. i \in 1..n
      BY <1>1, <1>2, <1>4, <2>1
    <2>3. Rank(i) + 1 = n - i + 2
      BY <1>1, <2>2 DEF Rank
    <2>4. Roomy(i)
      BY <2>3, Zenon DEF Roomy
    <2> QED BY <2>2, <2>4, Zenon DEF PbInv, Laid
  <1>7. PreRollBounded
    <2> SUFFICES ASSUME NEW i \in Replayed, i >= start + PbGop
                 PROVE  slots[i].age < MaxAge
      BY DEF PreRollBounded, start
    <2>1. KeyAt # {} /\ start \in 1..n
      BY <1>2, <1>4
    <2>2. i \in 1..n /\ slots[i].age \in Nat /\ slots[start].age \in Nat
      BY <1>1, <1>2, <2>1
    <2>3. CASE Old = {}
      <3>1. ~(slots[start].age >= MaxAge)
        BY <1>2, <2>1, <2>3 DEF Old
      <3>2. start <= i
        BY <2>1, <2>2, PbConstants
      <3>3. slots[i].age <= slots[start].age
        BY <2>1, <2>2, <3>2 DEF PbInv, Rolling, Aged
      <3> QED BY <2>2, <3>1, <3>3, PbConstants
    <2>4. CASE Old # {}
      <3> SUFFICES ASSUME slots[i].age >= MaxAge PROVE FALSE
        BY <2>2, PbConstants
      <3>1. start \in Old /\ slots[start].key
        BY <1>2, <2>4 DEF Old, KeyAt
      <3>2. start + PbGop <= n
        BY <1>1, <2>1, <2>2, PbConstants
      <3>3. PICK j \in (start + 1)..(start + PbGop) : slots[j].key
        BY <2>1, <3>1, <3>2 DEF PbInv, Rolling, KeysDense
      <3>4. j \in 1..n /\ j > start /\ j <= i
        BY <1>1, <2>1, <2>2, <3>2, PbConstants
      <3>5. slots[i].age <= slots[j].age
        BY <2>2, <3>4 DEF PbInv, Rolling, Aged
      <3>6. slots[j].age >= MaxAge
        BY <1>1, <2>2, <3>4, <3>5, PbConstants
      <3>7. j \in Old
        BY <3>3, <3>4, <3>6 DEF Old, KeyAt
      <3>8. j <= start
        BY <1>2, <2>4, <3>7
      <3> QED BY <1>1, <2>1, <3>4, <3>8
    <2> QED BY <2>3, <2>4
  <1> QED BY <1>3, <1>5, <1>6, <1>7

-----------------------------------------------------------------------------
(* The suite: a step of it is a step of one part and a stutter of the rest. *)
recordingVars == <<which, pbvars, recvars, tlvars, rmdvars, ricvars, phvars>>
SuiteInv == PbInv /\ RecInv /\ TlInv /\ RmdInv /\ RicInv /\ PhInv

LEMMA SuiteStep ==
    [RecordingNext]_recordingVars =>
      /\ [PbNext]_pbvars /\ [RecNext]_recvars /\ [TlNext]_tlvars
      /\ [RmdNext]_rmdvars /\ [RicNext]_ricvars /\ [PhNext]_phvars
  <1> SUFFICES ASSUME [RecordingNext]_recordingVars
               PROVE  /\ [PbNext]_pbvars /\ [RecNext]_recvars /\ [TlNext]_tlvars
                      /\ [RmdNext]_rmdvars /\ [RicNext]_ricvars /\ [PhNext]_phvars
    OBVIOUS
  <1>1. CASE UNCHANGED recordingVars
    BY <1>1 DEF recordingVars
  <1>2. CASE Only("prebuf") /\ PbNext
    BY <1>2 DEF Only
  <1>3. CASE Only("recorder") /\ RecNext
    BY <1>3 DEF Only
  <1>4. CASE Only("rmd") /\ RmdNext
    BY <1>4 DEF Only
  <1>5. CASE Only("ric") /\ RicNext
    BY <1>5 DEF Only
  <1>6. CASE Only("timelapse") /\ TlNext
    BY <1>6 DEF Only
  <1>7. CASE Only("photo") /\ PhNext
    BY <1>7 DEF Only
  <1> QED BY <1>1, <1>2, <1>3, <1>4, <1>5, <1>6, <1>7 DEF RecordingNext

LEMMA SuiteInvariant == RecordingSpec => []SuiteInv
  <1>1. RecordingInit => SuiteInv
    <2> SUFFICES ASSUME RecordingInit PROVE SuiteInv
      OBVIOUS
    <2>1. PbInv /\ RecInv /\ TlInv /\ RmdInv /\ PhInv
      BY PbStarts, RecStarts, TlStarts, RmdStarts, PhStarts DEF RecordingInit
    <2>2. RicInv
      <3>1. RicInit
        BY DEF RecordingInit
      <3> QED BY <3>1, RicTypeInit, Bounds DEF RicInit, RicInv, HardwareMatches, Pausing
    <2> QED BY <2>1, <2>2 DEF SuiteInv
  <1>2. SuiteInv /\ [RecordingNext]_recordingVars => SuiteInv'
    BY SuiteStep, PbStays, RecStays, TlStays, RmdStays, PhStays,
       RicTypeStep, HardwareStep, PausingStep DEF SuiteInv, RicInv
  <1> QED BY <1>1, <1>2, PTL DEF RecordingSpec, recordingVars

(* Every part's state keeps its type: counters stay in range because the   *)
(* step that reaches a limit resets them (rmr_main.c, rmr_prebuf.c,        *)
(* rmr_timelapse.c, rmd_main.c, ric_daynight.c, ric_photo.c).              *)
THEOREM RecordingTypes == RecordingSpec => []TypesOK
  <1>1. SuiteInv => TypesOK
    BY PbHolds, RecTyped, TlTyped, RmdTyped, PhTyped DEF SuiteInv, RicInv, TypesOK
  <1> QED BY <1>1, SuiteInvariant, PTL

(* What rmr leaves on the card can be decoded, for any ring, GOP, rates,   *)
(* codecs and pre-buffer: a clip without a start, or with overwritten      *)
(* frames in its pre-roll, is one whose pre-buffer is too short for that   *)
(* (rmr_main.c, rmr_prebuf.c, rmr_timelapse.c).                            *)
THEOREM RecordingStaysIntact == RecordingSpec => []RecordingIntact
  <1>1. SuiteInv => RecordingIntact
    BY PbHolds, TlTyped DEF SuiteInv, RecInv, RecordingIntact
  <1> QED BY <1>1, SuiteInvariant, PTL

(* However long the source stalls, a clip's pre-roll reaches back as far   *)
(* as configured when a keyframe that old is there, and all of it but the  *)
(* first group of pictures lies inside the window (rmr_prebuf.c); and rmd  *)
(* ends a recording only after the post-roll (rmd_main.c).                 *)
THEOREM RollsStayKept == RecordingSpec => RollsKept
  <1>1. SuiteInv => WindowMet /\ PreRollBounded
    BY PbHolds DEF SuiteInv
  <1>2. SuiteInv /\ [RecordingNext]_recordingVars =>
          [Poll /\ rmdRecording /\ ~rmdRecording' => quiet >= Post]_rmdvars
    BY SuiteStep, RmdEnds DEF SuiteInv
  <1> QED BY <1>1, <1>2, SuiteInvariant, PTL DEF RecordingSpec, RollsKept, PostRoll, recordingVars

(* The hardware goes with the mode, and the photo trigger looks for what   *)
(* its mode lacks: the safety half of LightFollowed (ric_daynight.c,       *)
(* ric_photo.c).                                                           *)
THEOREM LightWatched == RecordingSpec => [](HardwareMatches /\ PhotoWatches)
  <1>1. SuiteInv => HardwareMatches /\ PhotoWatches
    BY DEF SuiteInv, RicInv, PhInv
  <1> QED BY <1>1, SuiteInvariant, PTL
=============================================================================
