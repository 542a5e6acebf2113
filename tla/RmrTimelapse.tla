---------------------------- MODULE RmrTimelapse ----------------------------
(***************************************************************************)
(* rmr's timelapse: the sampler, a state machine on time, sequence numbers *)
(* and dates, and the file the record loop keeps for it.  Time is what is  *)
(* left until the next sample is due.  Sequence numbers rise within a ring *)
(* and start again with a new one, so of last_seq only the ring it belongs *)
(* to is kept.  frame_idx and frames_in_file always agree: "frames".       *)
(***************************************************************************)
EXTENDS Integers

CONSTANTS TlIntervals, TlRates,  \* what timelapse-set may set, after clamping
          TlPer,                 \* what file_frames may be, 0: a file a day
          TlCodecs, TlGeometries, \* what rvd may come back with
          TlDays, TlStall        \* bounds: days, time a stall may last

ASSUME TimelapseAssumption ==
    /\ TlIntervals \subseteq Nat \ {0} /\ TlIntervals # {}
    /\ TlRates # {} /\ TlPer \subseteq Nat /\ TlPer # {}
    /\ TlCodecs # {} /\ TlGeometries # {}
    /\ TlDays \in Nat \ {0} /\ TlStall \in Nat

VARIABLES tlOn,     \* tl_enabled
          tl,       \* rmr_tl_t
          tlFile,   \* tl_mux, with the rate and track it was set up with and, a
                    \* ghost, the track of the ring its samples are from
          tlRing,   \* [open, track, ready]: the ring and its parameter sets
          tlToday, tlCard, \* the date; a file can be opened
          tlBit,    \* ghost: flips with every sample written
          tlAged,   \* ghost: time has passed since a sample was last due
          tlBad     \* ghost: what is wrong with what became of the last frame

tlvars == <<tlOn, tl, tlFile, tlRing, tlToday, tlCard, tlBit, tlAged, tlBad>>
tlWorld == <<tlToday, tlCard>>
tlGhosts == <<tlBit, tlAged, tlBad>>
TlTracks == [codec : TlCodecs, geometry : TlGeometries]
TlFirst == CHOOSE t \in TlTracks : TRUE   \* of the ring rmr starts with
TlNoFile == [open |-> FALSE, rate |-> 0, track |-> TlFirst, from |-> TlFirst]
(* A new file is of the ring's codec, read anew with every ring, and of    *)
(* the geometry of the ring rmr started with.                              *)
TlFresh(rate) ==
    [open |-> TRUE, rate |-> rate, from |-> tlRing.track,
     track |-> [codec |-> tlRing.track.codec, geometry |-> TlFirst.geometry]]

(* rmr_tl_init.  last is where last_seq comes from: "none" (0), "this" or  *)
(* an "earlier" ring; due is unset until the first tick.                   *)
TlInit ==
    /\ tlOn \in BOOLEAN
    /\ \E i \in TlIntervals, f \in TlRates, n \in TlPer :
         tl = [interval |-> i, rate |-> f, per |-> n, want |-> FALSE, started |-> FALSE,
               left |-> 0, last |-> "none", day |-> 0, frames |-> 0]
    /\ tlFile = TlNoFile
    /\ tlRing = [open |-> TRUE, track |-> TlFirst, ready |-> FALSE]
    /\ tlToday = 1 /\ tlCard = TRUE /\ tlBit = FALSE /\ tlAged = FALSE /\ tlBad = {}

-----------------------------------------------------------------------------
(* A due tick arms one sample; whole intervals lost to a stall are not     *)
(* made up for.                                                            *)
TickBackfills(t) ==    \* mutant: the schedule goes on from where it was
    CASE ~t.started -> [t EXCEPT !.want = TRUE, !.started = TRUE, !.left = t.interval]
      [] t.started /\ t.left > 0 -> t
      [] OTHER -> [t EXCEPT !.want = TRUE, !.left = @ + t.interval]
rmr_tl_tick(t) ==
    CASE ~t.started -> [t EXCEPT !.want = TRUE, !.started = TRUE, !.left = t.interval]
      [] t.started /\ t.left > 0 -> t
      [] OTHER -> [t EXCEPT !.want = TRUE,
                            !.left = IF @ + t.interval > 0 THEN @ + t.interval ELSE t.interval]

rmr_tl_take(t) == t.want /\ t.last # "earlier"
rmr_tl_needs_rotate(t) ==
    \/ t.day = 0
    \/ IF t.per # 0 THEN t.frames >= t.per ELSE t.day # tlToday

(* A frame passes the record loop.  A rotation closes the file and opens   *)
(* the next, which the storage may refuse; the sample is then lost.  The   *)
(* count only matters where file_frames is set.                            *)
TlFrame(key) ==
    LET opens == tlCard
        ready == tlRing.ready \/ key
        runs == tlOn /\ ready
        t == IF runs THEN rmr_tl_tick(tl) ELSE tl
        takes == runs /\ key /\ rmr_tl_take(t)
        rotates == takes /\ rmr_tl_needs_rotate(t)
        file == IF ~rotates THEN tlFile
                ELSE IF opens THEN TlFresh(t.rate) ELSE TlNoFile
        t1 == IF takes THEN [t EXCEPT !.want = FALSE, !.last = "this"] ELSE t
        t2 == IF rotates
              THEN [t1 EXCEPT !.day = IF opens THEN tlToday ELSE 0,
                              !.frames = IF opens THEN 0 ELSE @]
              ELSE t1
        written == takes /\ file.open
    IN /\ tlRing.open
       /\ tlRing' = [tlRing EXCEPT !.ready = ready]
       /\ tl' = IF written THEN [t2 EXCEPT !.frames = IF t.per = 0 THEN 0 ELSE @ + 1] ELSE t2
       /\ tlFile' = file
       /\ tlBit' = IF written THEN ~tlBit ELSE tlBit
       /\ tlAged' = (tlAged /\ t.left = tl.left)
       /\ tlBad' = {what \in {"bent", "missed", "rushed"} :
             CASE what = "bent" -> written /\ (\/ file.rate # t.rate \/ file.from # tlRing.track
                                               \/ file.track.codec # tlRing.track.codec)
               [] what = "missed" -> runs /\ key /\ t.want /\ ~takes
               [] what = "rushed" -> tl.started /\ t.want /\ ~tl.want /\ ~tlAged}
       /\ UNCHANGED <<tlOn, tlWorld>>

-----------------------------------------------------------------------------
close_timelapse == tlFile' = TlNoFile
Closed(t) == [t EXCEPT !.day = 0]

TlEnable == tlOn' = TRUE /\ UNCHANGED <<tl, tlFile, tlRing, tlWorld, tlGhosts>>
TlDisable ==
    /\ tlOn' = FALSE /\ close_timelapse
    /\ tl' = IF tlFile.open THEN Closed(tl) ELSE tl
    /\ UNCHANGED <<tlRing, tlWorld, tlGhosts>>
TlSnap ==
    /\ tlOn /\ tl' = [tl EXCEPT !.want = TRUE]
    /\ UNCHANGED <<tlOn, tlFile, tlRing, tlWorld, tlGhosts>>
TlSetInterval(i) ==
    /\ tl' = [tl EXCEPT !.interval = i]
    /\ UNCHANGED <<tlOn, tlFile, tlRing, tlWorld, tlGhosts>>
(* A file has one grid: another rate closes it. *)
TlSetRateOpen(f) ==    \* mutant: the file goes on with the new rate
    /\ f # tl.rate
    /\ tl' = [tl EXCEPT !.rate = f]
    /\ UNCHANGED <<tlOn, tlFile, tlRing, tlWorld, tlGhosts>>
TlSetRate(f) ==
    /\ f # tl.rate
    /\ tl' = [(IF tlFile.open THEN Closed(tl) ELSE tl) EXCEPT !.rate = f]
    /\ close_timelapse
    /\ UNCHANGED <<tlOn, tlRing, tlWorld, tlGhosts>>

(* The ring is let go, idle or for want of a recording destination; the    *)
(* timelapse file stays open until it is back.                             *)
TlRingGone ==
    /\ tlRing.open
    /\ tlRing' = [tlRing EXCEPT !.open = FALSE]
    /\ UNCHANGED <<tlOn, tl, tlFile, tlWorld, tlGhosts>>
TlReopenClaimed(t) ==  \* mutant: the old ring's last_seq is kept
    /\ ~tlRing.open
    /\ tlRing' = [open |-> TRUE, track |-> t, ready |-> FALSE]
    /\ tl' = [(IF tlFile.open THEN Closed(tl) ELSE tl)
                EXCEPT !.last = IF @ = "none" THEN @ ELSE "earlier"]
    /\ close_timelapse
    /\ UNCHANGED <<tlOn, tlWorld, tlGhosts>>
TlReopen(t) ==
    /\ ~tlRing.open
    /\ tlRing' = [open |-> TRUE, track |-> t, ready |-> FALSE]
    /\ tl' = [(IF tlFile.open THEN Closed(tl) ELSE tl) EXCEPT !.last = "none"]
    /\ close_timelapse
    /\ UNCHANGED <<tlOn, tlWorld, tlGhosts>>

TlTime ==
    /\ tl.started /\ tl.left > -TlStall
    /\ tl' = [tl EXCEPT !.left = @ - 1] /\ tlAged' = TRUE
    /\ UNCHANGED <<tlOn, tlFile, tlRing, tlWorld, tlBit, tlBad>>
TlWorld ==
    /\ \/ tlToday < TlDays /\ tlToday' = tlToday + 1 /\ UNCHANGED tlCard
       \/ tlCard' = ~tlCard /\ UNCHANGED tlToday
    /\ UNCHANGED <<tlOn, tl, tlFile, tlRing, tlGhosts>>

TlNext ==
    \/ \E key \in BOOLEAN : TlFrame(key)
    \/ TlEnable \/ TlDisable \/ TlSnap \/ TlRingGone \/ TlTime \/ TlWorld
    \/ \E i \in TlIntervals : TlSetInterval(i)
    \/ \E f \in TlRates : TlSetRate(f)
    \/ \E t \in TlTracks : TlReopen(t)

(* Time passes and rvd sends keyframes, for which the loop asks when a     *)
(* sample is armed.                                                        *)
TlSpec == /\ TlInit /\ [][TlNext]_tlvars
          /\ WF_tlvars(TlTime) /\ WF_tlvars(TlFrame(TRUE))

-----------------------------------------------------------------------------
TlTypeOK ==
    /\ tl \in [interval : TlIntervals, rate : TlRates, per : TlPer, want : BOOLEAN,
              started : BOOLEAN, left : Int, last : {"none", "this", "earlier"},
              day : 0..tlToday, frames : 0..tl.per]
    /\ tl.left >= -TlStall /\ \E i \in TlIntervals : tl.left <= i
    /\ tlToday \in 1..TlDays /\ tlRing.track \in TlTracks

(* A timelapse file is one video: every sample is on the file's grid and   *)
(* of its codec, and "a timelapse track cannot bend mid-file"              *)
(* (rmr_main.c:851-852): all are from rings of one codec and geometry,     *)
(* through rate changes and restarts of rvd.  That the geometry is the one *)
(* the file's header names is not claimed: rmr reads it once, at start     *)
(* (rmr_main.c:1303-1304).  While no file is open none has a day, so that  *)
(* the next sample opens one; an armed sampler takes the first keyframe it sees, of a new  *)
(* ring too; and a stall is not made up for by samples that time did not   *)
(* call for (rmr_main.c timelapse_write_sample, rmr_timelapse.c).          *)
TimelapseTrue == tlBad = {} /\ (tlFile.open <=> tl.day # 0)

(* Samples keep coming while the timelapse is on, its card is there and    *)
(* rvd runs, whatever happened before (rmr_timelapse.c).                   *)
TimelapseGoesOn ==
    <>[](tlOn /\ tlCard /\ tlRing.open) => []<><<tlBit' # tlBit>>_tlvars
=============================================================================
