------------------------------ MODULE RadClock ------------------------------
(***************************************************************************)
(* rad's synthetic audio clock (rad_clock.c): the timestamp of a chunk is  *)
(* the sample count, slewed towards the monotonic clock and moved to it    *)
(* when the two are far apart.  Only the difference of the two matters, so *)
(* the state is the error and not the two clocks.  Also the log of resyncs *)
(* (rad_resync.c), which reports an episode of them.                       *)
(***************************************************************************)
EXTENDS Integers

CONSTANTS Gaps,               \* time between two reads
          Chunk,              \* time one chunk of samples stands for
          LiveMin, LiveMax,   \* gaps of a reader paced by the device
          Behind, Ahead,      \* RAD_SYNTH_RESYNC_*_US
          SlewMax, Div,       \* RAD_SYNTH_SLEW_MAX_US, both divisors
          Far,                \* a bound on how far a model lets the error grow
          Quiet, Summary      \* RAD_RESYNC_QUIET_US, RAD_RESYNC_SUMMARY_US

ASSUME RadClockConstants ==
    /\ Gaps \subseteq Nat /\ {Chunk, LiveMin, LiveMax, Behind, Ahead} \subseteq Nat
    /\ {SlewMax, Div} \subseteq Nat \ {0} /\ SlewMax < Chunk /\ Far \in Nat
    /\ Quiet \in Nat \ {0} /\ Summary \in Nat \ {0}

VARIABLES clkErr,    \* now - ts after the last read
          ewma, step,  \* the filtered error; how far the stamp moved beside the samples
          live,        \* the last read was paced by the device
          episode      \* [open, age, rep, count]: since the last resync, since the report

clkvars == <<clkErr, ewma, step, live, episode>>
NoEpisode == [open |-> FALSE, age |-> 0, rep |-> 0, count |-> 0]

ClkInit == clkErr = 0 /\ ewma = 0 /\ step = 0 /\ live = FALSE /\ episode = NoEpisode

(* C's division truncates towards zero. *)
Quot(n, k) == IF n >= 0 THEN n \div k ELSE -((-n) \div k)
Clamp(n) == IF n > SlewMax THEN SlewMax ELSE IF n < -SlewMax THEN -SlewMax ELSE n
Sat(n, k) == IF n > k THEN k ELSE n

StampUngated(gap) ==  \* mutant: a backlog read in a burst resyncs too
    LET err == clkErr + gap - Chunk
        paced == gap \in LiveMin..LiveMax
        avg == ewma + Quot(err - ewma, Div) IN
    /\ live' = paced
    /\ IF err > Behind \/ err < -Ahead
       THEN clkErr' = 0 /\ ewma' = 0 /\ step' = err
       ELSE ewma' = avg /\ step' = Clamp(Quot(avg, Div)) /\ clkErr' = err - step'

StampOneSided(gap) ==  \* mutant: a clock that ran ahead is never moved back
    LET err == clkErr + gap - Chunk
        paced == gap \in LiveMin..LiveMax
        avg == ewma + Quot(err - ewma, Div) IN
    /\ live' = paced
    /\ IF err > Behind \/ err < -Ahead
       THEN IF paced /\ err > 0 THEN clkErr' = 0 /\ ewma' = 0 /\ step' = err
            ELSE clkErr' = err /\ step' = 0 /\ UNCHANGED ewma
       ELSE ewma' = avg /\ step' = Clamp(Quot(avg, Div)) /\ clkErr' = err - step'

(* rad_clock_stamp *)
Stamp(gap) ==
    LET err == clkErr + gap - Chunk
        paced == gap \in LiveMin..LiveMax
        avg == ewma + Quot(err - ewma, Div) IN
    /\ live' = paced
    /\ IF err > Behind \/ err < -Ahead
       THEN IF paced THEN clkErr' = 0 /\ ewma' = 0 /\ step' = err
            ELSE clkErr' = err /\ step' = 0 /\ UNCHANGED ewma
       ELSE ewma' = avg /\ step' = Clamp(Quot(avg, Div)) /\ clkErr' = err - step'

(* rad_resync_tick *)
Tick(gap) ==
    LET e == [episode EXCEPT !.age = Sat(@ + gap, Quiet), !.rep = Sat(@ + gap, Summary)] IN
    IF ~episode.open \/ e.age >= Quiet THEN NoEpisode
    ELSE IF e.rep >= Summary THEN [e EXCEPT !.rep = 0] ELSE e

(* rad_resync_note *)
Note(e) == [open |-> TRUE, age |-> 0, rep |-> IF e.open THEN e.rep ELSE 0, count |-> Sat(e.count + 1, 2)]

Resynced == clkErr' = 0 /\ ewma' = 0 /\ (step' > SlewMax \/ step' < -SlewMax)

(* One chunk read by the loop, a gap after the one before. *)
ReadChunk(gap) ==
    /\ clkErr + gap - Chunk \in -Far..Far
    /\ Stamp(gap)
    /\ episode' = IF Resynced THEN Note(Tick(gap)) ELSE Tick(gap)

(* ai-enable: the user asked for the silence, the clock starts over. *)
ClockInit == clkErr' = 0 /\ ewma' = 0 /\ step' = 0 /\ live' = FALSE /\ UNCHANGED episode

ClkNext == ClockInit \/ \E gap \in Gaps : ReadChunk(gap)
ClkSpec == ClkInit /\ [][ClkNext]_clkvars

-----------------------------------------------------------------------------
ClkTypeOK == /\ {clkErr, ewma, step} \subseteq -(Far + SlewMax)..(Far + SlewMax) /\ live \in BOOLEAN
          /\ episode \in [open : BOOLEAN, age : 0..Quiet, rep : 0..Summary, count : 0..2]

(* After a read paced by the device the published clock is within the two  *)
(* resync thresholds of the monotonic one, whatever bursts and stalls came *)
(* before: lost samples cannot leave the sound permanently late or early.  *)
ClockTracks == live => clkErr <= Behind + SlewMax /\ clkErr >= -(Ahead + SlewMax)

(* "repeated backward resyncs mid-drain, rewinding the published timeline" *)
(* (rad_clock.c:26) do not happen: a read that is not paced by the device  *)
(* never moves the stamp by more than the slew, so the timestamps of a     *)
(* burst keep increasing.                                                  *)
BurstKeepsOrder == ~live => step \in -SlewMax..SlewMax
=============================================================================
