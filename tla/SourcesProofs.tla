--------------------------- MODULE SourcesProofs ---------------------------
(***************************************************************************)
(* Proofs about the sources of sound and of the overlays: what rad         *)
(* publishes is what its stream info says, its clock follows the monotonic *)
(* one, its speaker thread is there while the speaker is enabled; rod's    *)
(* elements never share a place, its fonts are counted and a receipt shows *)
(* its last lines in order - for every set of rates, every threshold of    *)
(* the clock, every number of elements, fonts and places and every size of *)
(* the circular buffer.                                                    *)
(*                                                                         *)
(* Each part has an inductive invariant of its own; the parts share no     *)
(* variable, so a step of the composition is a step or a stutter of each.  *)
(***************************************************************************)
EXTENDS MCSources, SequenceTheorems, FiniteSetTheorems, WellFoundedInduction, TLAPS

-----------------------------------------------------------------------------
(* The clock. *)

ClkInv == ClkTypeOK /\ ClockTracks /\ BurstKeepsOrder

\* C's truncating division moves a number towards zero and not across it.
LEMMA QuotBetween ==
    ASSUME NEW n \in Int, NEW k \in Nat \ {0}
    PROVE  /\ Quot(n, k) \in Int
           /\ n >= 0 => Quot(n, k) >= 0 /\ Quot(n, k) <= n
           /\ n <= 0 => Quot(n, k) <= 0 /\ Quot(n, k) >= n
<1>1. ASSUME NEW m \in Nat PROVE m \div k \in Nat /\ m \div k <= m
  <2>1. m \div k \in Nat BY SMT
  <2>2. (m \div k) * k <= m BY SMT
  <2>3. QED BY <2>1, <2>2, SMT
<1>2. CASE n >= 0 BY <1>1, <1>2, SMT DEF Quot
<1>3. CASE n < 0
  <2>1. -n \in Nat BY <1>3, SMT
  <2>2. (-n) \div k \in Nat /\ (-n) \div k <= -n BY <2>1, <1>1
  <2>3. QED BY <1>3, <2>2, SMT DEF Quot
<1>4. QED BY <1>2, <1>3, SMT

\* The slew of one chunk is bounded.
LEMMA ClampBounded ==
    ASSUME NEW n \in Int
    PROVE  Clamp(n) \in -SlewMax..SlewMax
BY RadClockConstants, SMT DEF Clamp

\* The filtered error stays between the error before and the new one.
LEMMA FilterBetween ==
    ASSUME NEW b \in Nat, NEW e \in -b..b, NEW w \in -b..b
    PROVE  w + Quot(e - w, Div) \in -b..b
<1>1. Div \in Nat \ {0} BY RadClockConstants
<1>2. e - w \in Int BY SMT
<1> DEFINE q == Quot(e - w, Div)
<1>3. /\ q \in Int
      /\ e - w >= 0 => q >= 0 /\ q <= e - w
      /\ e - w <= 0 => q <= 0 /\ q >= e - w
  BY <1>1, <1>2, QuotBetween
<1> HIDE DEF q
<1>4. w + q \in -b..b BY <1>3, SMT
<1>5. QED BY <1>4 DEF q

\* An episode's ages and count stay within their limits.
EpisodeOK(e) == e \in [open : BOOLEAN, age : 0..Quiet, rep : 0..Summary, count : 0..2]

LEMMA SatBounded ==
    ASSUME NEW n \in Nat, NEW k \in Nat
    PROVE  Sat(n, k) \in 0..k
BY SMT DEF Sat

LEMMA TickTyped ==
    ASSUME NEW gap \in Nat, EpisodeOK(episode)
    PROVE  EpisodeOK(Tick(gap))
<1> DEFINE a == Sat(episode.age + gap, Quiet)
           r == Sat(episode.rep + gap, Summary)
           e == [episode EXCEPT !.age = Sat(@ + gap, Quiet), !.rep = Sat(@ + gap, Summary)]
<1>0. Quiet \in Nat /\ Summary \in Nat BY RadClockConstants
<1>1. a \in 0..Quiet /\ r \in 0..Summary
  <2>1. episode.age + gap \in Nat /\ episode.rep + gap \in Nat BY <1>0, SMT DEF EpisodeOK
  <2>2. QED BY <1>0, <2>1, SatBounded
<1>2. e = [episode EXCEPT !.age = a, !.rep = r] BY Zenon DEF EpisodeOK
<1> HIDE DEF a, r
<1>3. EpisodeOK([episode EXCEPT !.age = a, !.rep = r]) BY <1>1, Zenon DEF EpisodeOK
<1>4. EpisodeOK(e) BY <1>2, <1>3
<1> HIDE DEF e
<1>5. EpisodeOK([e EXCEPT !.rep = 0]) BY <1>0, <1>4, SMT DEF EpisodeOK
<1>6. EpisodeOK(NoEpisode) BY <1>0, SMT DEF EpisodeOK, NoEpisode
<1>7. QED BY <1>4, <1>5, <1>6, Zenon DEF Tick, e

LEMMA NoteTyped ==
    ASSUME NEW e, EpisodeOK(e)
    PROVE  EpisodeOK(Note(e))
<1>0. Quiet \in Nat /\ Summary \in Nat BY RadClockConstants
<1>1. Sat(e.count + 1, 2) \in 0..2
  <2>1. e.count + 1 \in Nat BY SMT DEF EpisodeOK
  <2>2. QED BY <2>1, SatBounded
<1>2. (IF e.open THEN e.rep ELSE 0) \in 0..Summary BY <1>0, SMT DEF EpisodeOK
<1> DEFINE r == IF e.open THEN e.rep ELSE 0
           c == Sat(e.count + 1, 2)
<1>3. r \in 0..Summary /\ c \in 0..2 /\ Note(e) = [open |-> TRUE, age |-> 0, rep |-> r, count |-> c]
  BY <1>1, <1>2, Zenon DEF Note
<1> HIDE DEF r, c
<1>4. 0 \in 0..Quiet BY <1>0, SMT
<1>5. [open |-> TRUE, age |-> 0, rep |-> r, count |-> c] \in
          [open : BOOLEAN, age : 0..Quiet, rep : 0..Summary, count : 0..2]
  BY <1>3, <1>4, SMT
<1>6. QED BY <1>3, <1>5, Zenon DEF EpisodeOK

LEMMA ClkStarts == ClkInit => ClkInv
<1> SUFFICES ASSUME ClkInit PROVE ClkInv OBVIOUS
<1>1. /\ Quiet \in Nat /\ Summary \in Nat /\ Far \in Nat /\ SlewMax \in Nat
      /\ Behind \in Nat /\ Ahead \in Nat
  BY RadClockConstants
<1>2. {clkErr, ewma, step} \subseteq -(Far + SlewMax)..(Far + SlewMax) BY <1>1, SMT DEF ClkInit
<1>3. live \in BOOLEAN BY DEF ClkInit
<1>4. EpisodeOK(episode) BY <1>1, SMT DEF ClkInit, NoEpisode, EpisodeOK
<1>5. ClockTracks BY Zenon DEF ClkInit, ClockTracks
<1>6. BurstKeepsOrder BY <1>1, SMT DEF ClkInit, BurstKeepsOrder
<1>7. QED BY <1>2, <1>3, <1>4, <1>5, <1>6, Zenon DEF ClkInv, ClkTypeOK, EpisodeOK

\* One chunk: whichever way the stamp goes, its step is the slew, nothing, or
\* a jump onto the clock in a read the device paced.
LEMMA ClkReads ==
    ASSUME ClkInv, NEW gap \in Gaps, ReadChunk(gap)
    PROVE  ClkInv'
<1>1. /\ Quiet \in Nat /\ Summary \in Nat /\ Far \in Nat /\ SlewMax \in Nat
      /\ Behind \in Nat /\ Ahead \in Nat /\ gap \in Nat /\ Chunk \in Nat
  BY RadClockConstants
<1> DEFINE err == clkErr + gap - Chunk
           avg == ewma + Quot(err - ewma, Div)
           b == Far + SlewMax
<1>2. clkErr \in -b..b /\ ewma \in -b..b /\ b \in Nat BY <1>1, SMT DEF ClkInv, ClkTypeOK
<1>3. err \in -Far..Far BY DEF ReadChunk
<1>4. err \in -b..b BY <1>1, <1>3, SMT
<1>5. avg \in -b..b
  <2> HIDE DEF err, b
  <2>1. QED BY <1>2, <1>4, FilterBetween
<1>6. Quot(avg, Div) \in Int
  <2>1. avg \in Int /\ Div \in Nat \ {0}
    <3> HIDE DEF avg, b
    <3>1. QED BY <1>2, <1>5, RadClockConstants, SMT
  <2> HIDE DEF avg
  <2>2. QED BY <2>1, QuotBetween
<1> DEFINE s == Clamp(Quot(avg, Div))
<1>7. s \in -SlewMax..SlewMax
  <2> HIDE DEF avg
  <2>1. QED BY <1>6, ClampBounded
<1>8. live' = (gap \in LiveMin..LiveMax) BY Zenon DEF ReadChunk, Stamp
<1>9. \/ /\ err > Behind \/ err < -Ahead
         /\ live' /\ clkErr' = 0 /\ ewma' = 0 /\ step' = err
      \/ /\ ~live' /\ clkErr' = err /\ step' = 0 /\ ewma' = ewma
      \/ /\ ~(err > Behind \/ err < -Ahead)
         /\ ewma' = avg /\ step' = s /\ clkErr' = err - step'
  BY <1>8, Zenon DEF ReadChunk, Stamp
<1>10. live' \in BOOLEAN
  <2>1. (gap \in LiveMin..LiveMax) \in BOOLEAN OBVIOUS
  <2>2. QED BY <1>8, <2>1
<1>11. {clkErr', ewma', step'} \subseteq -b..b
  <2> HIDE DEF err, avg, s
  <2>1. QED BY <1>1, <1>2, <1>3, <1>4, <1>5, <1>7, <1>9, SMT
<1>12. ClockTracks'
  <2>1. SUFFICES ASSUME live' PROVE clkErr' <= Behind + SlewMax /\ clkErr' >= -(Ahead + SlewMax)
    BY Zenon DEF ClockTracks
  <2> HIDE DEF err, avg, s
  <2>2. \/ clkErr' = 0
        \/ /\ ~(err > Behind \/ err < -Ahead)
           /\ clkErr' = err - s
    BY <2>1, <1>9, Zenon
  <2>3. QED BY <2>2, <1>1, <1>3, <1>7, SMT
<1>13. BurstKeepsOrder'
  <2>1. SUFFICES ASSUME ~live' PROVE step' \in -SlewMax..SlewMax
    BY Zenon DEF BurstKeepsOrder
  <2> HIDE DEF err, avg, s
  <2>2. step' = 0 \/ step' = s BY <2>1, <1>9, Zenon
  <2>3. QED BY <2>2, <1>1, <1>7, SMT
<1>14. EpisodeOK(episode)'
  <2>1. EpisodeOK(episode) BY Zenon DEF ClkInv, ClkTypeOK, EpisodeOK
  <2>2. EpisodeOK(Tick(gap)) BY <1>1, <2>1, TickTyped
  <2>3. EpisodeOK(Note(Tick(gap))) BY <2>2, NoteTyped
  <2>4. EpisodeOK(episode') BY <2>2, <2>3, Zenon DEF ReadChunk
  <2>5. QED BY <2>4, Zenon DEF EpisodeOK
<1>15. QED BY <1>10, <1>11, <1>12, <1>13, <1>14, Zenon DEF ClkInv, ClkTypeOK, EpisodeOK

LEMMA ClkSteps == ClkInv /\ [ClkNext]_clkvars => ClkInv'
<1> SUFFICES ASSUME ClkInv, [ClkNext]_clkvars PROVE ClkInv' OBVIOUS
<1>1. CASE ClockInit
  <2>1. /\ Far \in Nat /\ SlewMax \in Nat /\ Behind \in Nat /\ Ahead \in Nat BY RadClockConstants
  <2>2. {clkErr', ewma', step'} \subseteq -(Far + SlewMax)..(Far + SlewMax) BY <1>1, <2>1, SMT DEF ClockInit
  <2>3. live' = FALSE /\ episode' = episode BY <1>1, Zenon DEF ClockInit
  <2>4. ClockTracks' BY <2>3, Zenon DEF ClockTracks
  <2>5. step' \in -SlewMax..SlewMax BY <1>1, <2>1, SMT DEF ClockInit
  <2>6. BurstKeepsOrder' BY <2>5, Zenon DEF BurstKeepsOrder
  <2>7. QED BY <2>2, <2>3, <2>4, <2>6, Zenon DEF ClkInv, ClkTypeOK
<1>2. CASE \E gap \in Gaps : ReadChunk(gap) BY <1>2, ClkReads
<1>3. CASE UNCHANGED clkvars
  BY <1>3, Zenon DEF ClkInv, clkvars, ClkTypeOK, ClockTracks, BurstKeepsOrder
<1>4. QED BY <1>1, <1>2, <1>3, Zenon DEF ClkNext

-----------------------------------------------------------------------------
(* The receipt. *)

\* The slot k lines back from the head, without the modulus.
Back(h, k) == IF h >= k THEN h - k ELSE h - k + RcLines

\* The lines fed are numbered from 1, and the newest of them, as many as the
\* buffer holds, lie backwards from the head.
RcInv ==
    /\ rc \in [lines : [0..RcLines - 1 -> Nat], head : 0..RcLines - 1, count : 0..RcShown, dirty : BOOLEAN]
    /\ accum \in 0..RcLineLen - 1
    /\ fed \in Seq(Nat) /\ \A i \in 1..Len(fed) : fed[i] = i
    /\ rc.count = IF Len(fed) < RcShown THEN Len(fed) ELSE RcShown
    /\ \A k \in 1..RcLines : k <= Len(fed) => rc.lines[Back(rc.head, k)] = Len(fed) - k + 1

RowsInv == rows \in RcRows

LEMMA RowsHold == (RcInit => RowsInv) /\ (RowsInv /\ [RcNext]_rcvars => RowsInv')
<1>1. RcInit => RowsInv BY Zenon DEF RcInit, RowsInv
<1>2. ASSUME RowsInv, [RcNext]_rcvars PROVE RowsInv'
  <2>1. rows' = rows \/ rows' \in RcRows
    BY <1>2, Zenon DEF RcNext, FeedByte, FeedNewline, AccumTimeout, emit_accum_line, handle_receipt, rod_receipt_clear,
                       rod_render_receipt, Resize, InputGone, rcvars
  <2>2. QED BY <1>2, <2>1, Zenon DEF RowsInv
<1>3. QED BY <1>1, <1>2

\* Below twice the modulus, the remainder takes at most one subtraction.
LEMMA WrapOnce ==
    ASSUME NEW m \in Nat \ {0}, NEW x \in 0..2 * m - 1
    PROVE  x % m = IF x < m THEN x ELSE x - m
<1> DEFINE q == x \div m
           r == x % m
<1>1. q \in Int /\ r \in 0..m - 1 /\ x = m * q + r BY SMT
<1> HIDE DEF q, r
<1>2. CASE q < 0
  <2>1. m * q <= -m BY <1>1, <1>2, SMT
  <2>2. QED BY <1>1, <2>1, SMT
<1>3. CASE q = 0 BY <1>1, <1>3, SMT DEF r
<1>4. CASE q = 1 BY <1>1, <1>4, SMT DEF r
<1>5. CASE q > 1
  <2>1. m * q >= m * 2 BY <1>1, <1>5, SMT
  <2>2. QED BY <1>1, <2>1, SMT
<1>6. QED BY <1>1, <1>2, <1>3, <1>4, <1>5, SMT

LEMMA BackInRange ==
    ASSUME NEW h \in 0..RcLines - 1, NEW k \in 1..RcLines
    PROVE  Back(h, k) \in 0..RcLines - 1
BY RodReceiptConstants, SMT DEF Back

\* What a tick draws is the tail of what was fed, as far as there is room.
LEMMA RcInvShows == RcInv /\ RowsInv => ReceiptInOrder /\ RcTypeOK
<1> SUFFICES ASSUME RcInv, RowsInv PROVE ReceiptInOrder /\ RcTypeOK OBVIOUS
<1> DEFINE n == Len(fed)
           c == rc.count
           h == rc.head
           m == Fit
<1>1. RcLines \in Nat \ {0} /\ RcShown \in 1..RcLines BY RodReceiptConstants
<1>2. /\ n \in Nat /\ c \in 0..RcShown /\ h \in 0..RcLines - 1 /\ fed \in Seq(Nat)
      /\ c = IF n < RcShown THEN n ELSE RcShown
  BY LenProperties, Zenon DEF RcInv
<1>3. \A i \in 1..n : fed[i] = i BY Zenon DEF RcInv
<1>4. \A k \in 1..RcLines : k <= n => rc.lines[Back(h, k)] = n - k + 1 BY Zenon DEF RcInv
<1>5. RcStart = IF h >= c THEN h - c ELSE h - c + RcLines
  <2>1. h - c + RcLines \in 0..2 * RcLines - 1
    <3> HIDE DEF h, c, n
    <3>1. QED BY <1>1, <1>2, SMT
  <2>2. (h - c + RcLines) % RcLines = IF h - c + RcLines < RcLines THEN h - c + RcLines ELSE (h - c + RcLines) - RcLines
    <3> DEFINE x == h - c + RcLines
    <3>1. x \in 0..2 * RcLines - 1 BY <2>1
    <3> HIDE DEF x
    <3>2. x % RcLines = IF x < RcLines THEN x ELSE x - RcLines BY <1>1, <3>1, WrapOnce
    <3>3. QED BY <3>2 DEF x
  <2>3. RcStart = (h - c + RcLines) % RcLines BY DEF RcStart
  <2> HIDE DEF h, c, n
  <2>4. QED BY <1>1, <1>2, <2>2, <2>3, SMT
<1>a. m \in Nat /\ m <= c
  <2>1. m = IF c < rows THEN c ELSE rows BY DEF Fit
  <2>2. rows \in Nat BY RodReceiptConstants DEF RowsInv
  <2> HIDE DEF m, c
  <2>3. QED BY <1>1, <1>2, <2>1, <2>2, SMT
<1>6. ASSUME NEW i \in 1..m PROVE rc.lines[(RcStart + i - 1) % RcLines] = n - c + i
  <2> DEFINE k == c - i + 1
             x == RcStart + i - 1
  <2>1. k \in 1..RcLines /\ k <= n /\ x \in 0..2 * RcLines - 1 /\ n - k + 1 = n - c + i
    <3> HIDE DEF h, c, n, m
    <3>1. QED BY <1>1, <1>2, <1>5, <1>a, SMT
  <2>2. x % RcLines = IF x < RcLines THEN x ELSE x - RcLines
    <3> HIDE DEF x
    <3>1. QED BY <1>1, <2>1, WrapOnce
  <2>3. x % RcLines = Back(h, k)
    <3> HIDE DEF h, c, n, m
    <3>1. QED BY <1>1, <1>2, <1>5, <1>a, <2>2, SMT DEF Back
  <2>4. rc.lines[Back(h, k)] = n - k + 1
    <3> HIDE DEF h, c, n, k
    <3>1. QED BY <1>4, <2>1
  <2>5. QED BY <2>1, <2>3, <2>4
<1> DEFINE z == n - c + m
           t == SubSeq(fed, n - c + 1, z)
<1>7. /\ t \in Seq(Nat) /\ Len(t) = m
      /\ \A i \in 1..m : t[i] = n - c + i
  <2>1. /\ n - c + 1 \in Int /\ z \in Int /\ z <= n /\ z - (n - c + 1) + 1 = m /\ c \in Nat /\ m \in Nat /\ n - c + 1 >= 1
    <3> HIDE DEF c, n, m
    <3>1. QED BY <1>1, <1>2, <1>a, SMT
  <2>2. \A i \in (n - c + 1)..z : fed[i] \in Nat
    <3> HIDE DEF c, n, m, z
    <3>1. QED BY <1>1, <1>2, <1>3, <2>1, SMT
  <2>3. /\ t \in Seq(Nat)
        /\ Len(t) = IF n - c + 1 <= z THEN z - (n - c + 1) + 1 ELSE 0
        /\ \A i \in 1..z - (n - c + 1) + 1 : t[i] = fed[n - c + 1 + i - 1]
    <3> HIDE DEF c, n, m, z
    <3>1. QED BY <2>1, <2>2, SubSeqProperties
  <2> HIDE DEF c, n, m, z, t
  <2>4. Len(t) = m
    <3>1. n - c + 1 \in Int /\ z \in Int /\ m \in Nat /\ z - (n - c + 1) + 1 = m BY <2>1
    <3>2. Len(t) = IF n - c + 1 <= z THEN z - (n - c + 1) + 1 ELSE 0 BY <2>3
    <3>3. CASE n - c + 1 <= z BY <3>1, <3>2, <3>3
    <3>4. CASE ~(n - c + 1 <= z)
      <4> DEFINE a == n - c + 1
      <4>1. a \in Int /\ z \in Int /\ m \in Nat /\ z - a + 1 = m /\ ~(a <= z) BY <3>1, <3>4
      <4>2. m = 0
        <5> HIDE DEF a
        <5>1. QED BY <4>1
      <4>3. QED BY <3>2, <3>4, <4>2
    <3>5. QED BY <3>3, <3>4
  <2>5. ASSUME NEW i \in 1..m PROVE t[i] = n - c + i
    <3>1. n - c + 1 + i - 1 = n - c + i /\ n - c + i \in 1..n BY <1>1, <1>2, <1>a, <2>1, SMT
    <3>2. t[i] = fed[n - c + i] BY <2>1, <2>3, <3>1
    <3>3. QED BY <1>3, <3>1, <3>2
  <2>6. QED BY <2>3, <2>4, <2>5
<1>8. Drawn = t
  <2> DEFINE d == [i \in 1..m |-> rc.lines[(RcStart + i - 1) % RcLines]]
  <2>1. d = [i \in 1..m |-> n - c + i]
    <3> HIDE DEF c, n, m
    <3>1. QED BY <1>6, Zenon
  <2>2. t = [i \in 1..Len(t) |-> t[i]]
    <3> HIDE DEF t, m, z, n, c
    <3>1. QED BY <1>7, SeqDef, SMT
  <2>3. t = [i \in 1..m |-> n - c + i]
    <3> HIDE DEF c, n, m, z, t
    <3>1. QED BY <1>7, <2>2, Zenon
  <2>4. QED BY <2>1, <2>3, Zenon DEF Drawn
<1>9. ReceiptInOrder BY <1>2, <1>8, Zenon DEF ReceiptInOrder
<1>10. RcTypeOK BY <1>2, Zenon DEF RcTypeOK, RcInv
<1>11. QED BY <1>9, <1>10

LEMMA RcStarts == RcInit => RcInv
<1> SUFFICES ASSUME RcInit PROVE RcInv OBVIOUS
<1>1. RcLines \in Nat \ {0} /\ RcShown \in 1..RcLines /\ RcLineLen \in Nat \ {0} BY RodReceiptConstants
<1>2. /\ rc = [lines |-> [i \in 0..RcLines - 1 |-> 0], head |-> 0, count |-> 0, dirty |-> FALSE]
      /\ accum = 0 /\ fed = <<>>
  BY Zenon DEF RcInit
<1>3. fed \in Seq(Nat) /\ Len(fed) = 0 BY <1>2, SMT
<1>4. [i \in 0..RcLines - 1 |-> 0] \in [0..RcLines - 1 -> Nat] BY SMT
<1>5. rc \in [lines : [0..RcLines - 1 -> Nat], head : 0..RcLines - 1, count : 0..RcShown, dirty : BOOLEAN]
  <2> DEFINE l == [i \in 0..RcLines - 1 |-> 0]
  <2>1. rc = [lines |-> l, head |-> 0, count |-> 0, dirty |-> FALSE] /\ l \in [0..RcLines - 1 -> Nat]
    BY <1>2, <1>4
  <2> HIDE DEF l
  <2>2. 0 \in 0..RcLines - 1 /\ 0 \in 0..RcShown BY <1>1, SMT
  <2>3. QED BY <2>1, <2>2, SMT
<1>6. accum \in 0..RcLineLen - 1 BY <1>1, <1>2, SMT
<1>7. rc.count = 0 BY <1>2
<1>8. QED BY <1>1, <1>3, <1>5, <1>6, <1>7, SMT DEF RcInv

\* A line goes to the head's slot: it becomes the newest, the others move one
\* line back and none of those that are kept is overwritten.
LEMMA LineAdded ==
    ASSUME RcInv, rod_receipt_add_line, accum' \in 0..RcLineLen - 1
    PROVE  RcInv'
<1> DEFINE n == Len(fed)
           h == rc.head
           L == rc.lines
           h2 == (h + 1) % RcLines
           c2 == IF rc.count < RcShown THEN rc.count + 1 ELSE rc.count
           L2 == [L EXCEPT ![h] = n + 1]
<1>1. RcLines \in Nat \ {0} /\ RcShown \in 1..RcLines BY RodReceiptConstants
<1>2. /\ n \in Nat /\ h \in 0..RcLines - 1 /\ fed \in Seq(Nat) /\ L \in [0..RcLines - 1 -> Nat]
      /\ rc.count \in 0..RcShown
      /\ rc.count = IF n < RcShown THEN n ELSE RcShown
  BY LenProperties, Zenon DEF RcInv
<1>3. rc' = [lines |-> L2, head |-> h2, count |-> c2, dirty |-> TRUE]
      /\ fed' = Append(fed, n + 1)
  BY Zenon DEF rod_receipt_add_line
<1>4. h2 = IF h + 1 < RcLines THEN h + 1 ELSE 0
  <2>1. h + 1 \in 0..2 * RcLines - 1 BY <1>1, <1>2, SMT
  <2>2. h2 = IF h + 1 < RcLines THEN h + 1 ELSE (h + 1) - RcLines
    <3> DEFINE x == h + 1
    <3>1. x \in 0..2 * RcLines - 1 BY <2>1
    <3> HIDE DEF x
    <3>2. x % RcLines = IF x < RcLines THEN x ELSE x - RcLines BY <1>1, <3>1, WrapOnce
    <3>3. QED BY <3>2 DEF x
  <2> HIDE DEF h, h2
  <2>3. QED BY <1>1, <1>2, <2>2, SMT
<1>5. fed' \in Seq(Nat) /\ Len(fed') = n + 1 /\ \A i \in 1..Len(fed') : fed'[i] = i
  <2>1. n + 1 \in Nat BY <1>2, SMT
  <2>2. /\ fed' \in Seq(Nat) /\ Len(fed') = n + 1
        /\ \A i \in 1..n : fed'[i] = fed[i]
        /\ fed'[n + 1] = n + 1
    BY <1>2, <1>3, <2>1, AppendProperties
  <2>3. \A i \in 1..n : fed[i] = i BY Zenon DEF RcInv
  <2> HIDE DEF n
  <2>4. QED BY <1>2, <2>2, <2>3, SMT
<1>6. L2 \in [0..RcLines - 1 -> Nat] /\ h2 \in 0..RcLines - 1 /\ c2 \in 0..RcShown
  <2>1. n + 1 \in Nat BY <1>2, SMT
  <2>2. L2 \in [0..RcLines - 1 -> Nat]
    <3> HIDE DEF L, h, n
    <3>1. QED BY <1>2, <2>1
  <2>3. h2 \in 0..RcLines - 1
    <3> HIDE DEF h, h2
    <3>1. QED BY <1>1, <1>2, <1>4, SMT
  <2>4. c2 \in 0..RcShown BY <1>1, <1>2, SMT
  <2>5. QED BY <2>2, <2>3, <2>4
<1>7. rc' \in [lines : [0..RcLines - 1 -> Nat], head : 0..RcLines - 1, count : 0..RcShown, dirty : BOOLEAN]
      /\ rc'.lines = L2 /\ rc'.head = h2 /\ rc'.count = c2
  <2> HIDE DEF L2, h2, c2
  <2>1. QED BY <1>3, <1>6, SMT
<1>8. c2 = IF n + 1 < RcShown THEN n + 1 ELSE RcShown BY <1>1, <1>2, SMT
<1>9. ASSUME NEW k \in 1..RcLines, k <= n + 1 PROVE L2[Back(h2, k)] = (n + 1) - k + 1
  <2>1. CASE k = 1
    <3> HIDE DEF h, h2, n, L
    <3>1. Back(h2, k) = h BY <1>1, <1>2, <1>4, <2>1, SMT DEF Back
    <3>2. L2[h] = n + 1 BY <1>2
    <3>3. QED BY <1>2, <2>1, <3>1, <3>2, SMT
  <2>2. CASE k # 1
    <3> DEFINE p == k - 1
    <3>1. p \in 1..RcLines /\ p <= n /\ p < RcLines BY <1>1, <1>2, <1>9, <2>2, SMT
    <3>2. L[Back(h, p)] = n - p + 1 BY <3>1, Zenon DEF RcInv
    <3>3. Back(h2, k) = Back(h, p) /\ Back(h, p) # h /\ Back(h, p) \in 0..RcLines - 1
      <4> HIDE DEF h, h2, n, L
      <4>1. QED BY <1>1, <1>2, <1>4, <2>2, <3>1, SMT DEF Back
    <3> HIDE DEF h, h2, n, L
    <3>4. L2[Back(h, p)] = L[Back(h, p)] BY <1>2, <3>3
    <3>5. (n + 1) - k + 1 = n - p + 1 BY <1>2, SMT
    <3>6. QED BY <3>2, <3>3, <3>4, <3>5
  <2>3. QED BY <2>1, <2>2
<1>10. \A k \in 1..RcLines : k <= Len(fed') => rc'.lines[Back(rc'.head, k)] = Len(fed') - k + 1
  <2> HIDE DEF n, L2, h2
  <2>1. \A k \in 1..RcLines : k <= n + 1 => L2[Back(h2, k)] = (n + 1) - k + 1 BY <1>9
  <2>2. Len(fed') = n + 1 /\ rc'.lines = L2 /\ rc'.head = h2 BY <1>5, <1>7
  <2>3. TAKE k \in 1..RcLines
  <2>4. HAVE k <= Len(fed')
  <2>5. L2[Back(h2, k)] = (n + 1) - k + 1 BY <2>1, <2>2, <2>4
  <2>6. rc'.lines[Back(rc'.head, k)] = L2[Back(h2, k)] BY <2>2, Zenon
  <2>7. QED BY <2>2, <2>5, <2>6, SMT
<1>11. rc'.count = IF Len(fed') < RcShown THEN Len(fed') ELSE RcShown
  <2> HIDE DEF n, c2
  <2>1. QED BY <1>5, <1>7, <1>8, Zenon
<1>12. QED BY <1>5, <1>7, <1>10, <1>11, Zenon DEF RcInv, Back

LEMMA RcSteps == RcInv /\ [RcNext]_rcvars => RcInv'
<1> SUFFICES ASSUME RcInv, [RcNext]_rcvars PROVE RcInv' OBVIOUS
<1>1. RcLines \in Nat \ {0} /\ RcShown \in 1..RcLines /\ RcLineLen \in Nat \ {0} BY RodReceiptConstants
<1>2. /\ rc \in [lines : [0..RcLines - 1 -> Nat], head : 0..RcLines - 1, count : 0..RcShown, dirty : BOOLEAN]
      /\ accum \in 0..RcLineLen - 1
  BY Zenon DEF RcInv
<1>3. 0 \in 0..RcLineLen - 1 BY <1>1, SMT
<1>4. CASE FeedByte
  <2>1. CASE accum + 1 >= RcLineLen
    <3>1. rod_receipt_add_line /\ accum' = 0 BY <1>4, <2>1, Zenon DEF FeedByte
    <3>2. QED BY <1>3, <3>1, LineAdded
  <2>2. CASE ~(accum + 1 >= RcLineLen)
    <3>1. rc' = rc /\ fed' = fed /\ accum' = accum + 1 BY <1>4, <2>2, Zenon DEF FeedByte
    <3>2. accum' \in 0..RcLineLen - 1 BY <1>1, <1>2, <2>2, <3>1, SMT
    <3>3. QED BY <3>1, <3>2, Zenon DEF RcInv, Back
  <2>3. QED BY <2>1, <2>2
<1>5. CASE FeedNewline \/ AccumTimeout
  <2>1. rod_receipt_add_line /\ accum' = 0 BY <1>5, Zenon DEF FeedNewline, AccumTimeout, emit_accum_line
  <2>2. QED BY <1>3, <2>1, LineAdded
<1>6. CASE handle_receipt
  <2>1. rod_receipt_add_line /\ accum' = accum BY <1>6, Zenon DEF handle_receipt
  <2>2. QED BY <1>2, <2>1, LineAdded
<1>7. CASE rod_receipt_clear
  <2>1. rc' = [rc EXCEPT !.head = 0, !.count = 0, !.dirty = TRUE] /\ fed' = <<>> /\ accum' = accum
    BY <1>7, Zenon DEF rod_receipt_clear
  <2>2. 0 \in 0..RcLines - 1 /\ 0 \in 0..RcShown BY <1>1, SMT
  <2>3. /\ rc' \in [lines : [0..RcLines - 1 -> Nat], head : 0..RcLines - 1, count : 0..RcShown, dirty : BOOLEAN]
        /\ rc'.count = 0
    BY <1>2, <2>1, <2>2, Zenon
  <2>4. fed' \in Seq(Nat) /\ Len(fed') = 0 BY <2>1, SMT
  <2>5. QED BY <1>1, <1>2, <2>1, <2>3, <2>4, SMTT(30) DEF RcInv
<1>8. CASE rod_render_receipt
  <2>1. rc' = [rc EXCEPT !.dirty = FALSE] /\ accum' = accum /\ fed' = fed
    BY <1>8, Zenon DEF rod_render_receipt
  <2>2. /\ rc' \in [lines : [0..RcLines - 1 -> Nat], head : 0..RcLines - 1, count : 0..RcShown, dirty : BOOLEAN]
        /\ rc'.count = rc.count /\ rc'.head = rc.head /\ rc'.lines = rc.lines
    BY <1>2, <2>1, Zenon
  <2>3. QED BY <2>1, <2>2, Zenon DEF RcInv, Back
<1>9. CASE \E ok \in BOOLEAN : InputGone(ok)
  <2>1. rc' = rc /\ accum' = accum /\ fed' = fed BY <1>9, Zenon DEF InputGone
  <2>2. QED BY <2>1, Zenon DEF RcInv, Back
<1>12. CASE Resize
  <2>1. rc' = rc /\ accum' = accum /\ fed' = fed BY <1>12, Zenon DEF Resize
  <2>2. QED BY <2>1, Zenon DEF RcInv, Back
<1>10. CASE UNCHANGED rcvars
  <2>1. rc' = rc /\ accum' = accum /\ fed' = fed BY <1>10, Zenon DEF rcvars
  <2>2. QED BY <2>1, Zenon DEF RcInv, Back
<1>11. QED BY <1>4, <1>5, <1>6, <1>7, <1>8, <1>9, <1>10, <1>12, Zenon DEF RcNext

-----------------------------------------------------------------------------
(* The speaker. *)

\* The thread leaves only when told to (or for want of memory, which is not
\* "exited"), and it is told to only by a disable that is waiting for it or has
\* finished.
SpeakerInv ==
    /\ aoPc = "exited" => aoStop
    /\ aoStop => ctl = "join" \/ ~aoEnabled

AoPcs == {"top", "wait", "waitFlush", "waitDrain", "open", "play", "playDrain", "read", "exited", "failed"}

\* The conjuncts of AoTypeOK, in the groups the actions write.
AoFlagsOK == {aoStop, aoFlush, drReq, drDone, aoEnabled} \subseteq BOOLEAN
AoPlacesOK == aoPc \in AoPcs /\ att \in {"no", "cur", "old"} /\ ctl \in {"idle", "rate", "drain", "join"}
AoCountsOK == {attWr, rd} \subseteq 0..MaxSeq /\ idle \in 0..IdleMax /\ drTarget \in 0..MaxSeq /\ spk \in -1..MaxSeq
AoRatesOK == {ratePend, aoRate} \subseteq AoRates \cup {0}

LEMMA AoTypeParts == AoTypeOK <=> AoFlagsOK /\ AoPlacesOK /\ AoCountsOK /\ AoRatesOK
BY Zenon DEF AoTypeOK, AoFlagsOK, AoPlacesOK, AoCountsOK, AoRatesOK, AoPcs

LEMMA AoStarts == AoInit => AoTypeOK /\ SpeakerInv
<1> SUFFICES ASSUME AoInit PROVE AoTypeOK /\ SpeakerInv OBVIOUS
<1>1. AoFlagsOK BY Zenon DEF AoInit, AoFlagsOK
<1>2. AoPlacesOK BY Zenon DEF AoInit, AoPlacesOK, AoPcs
<1>3. AoCountsOK BY RadOutputConstants, SMT DEF AoInit, AoCountsOK
<1>4. AoRatesOK BY Zenon DEF AoInit, AoRatesOK
<1>5. SpeakerInv BY Zenon DEF AoInit, SpeakerInv
<1>6. QED BY <1>1, <1>2, <1>3, <1>4, <1>5, AoTypeParts

LEMMA AoFlagsStep == AoFlagsOK /\ [AoNext]_aovars => AoFlagsOK'
<1> SUFFICES ASSUME AoFlagsOK, [AoNext]_aovars PROVE AoFlagsOK' OBVIOUS
<1> USE DEF AoFlagsOK, thread, drain
<1>1. CASE Thread
  BY <1>1, Zenon DEF Thread, Top, WaitRate, WaitFlush, Open, Drained, Play, Read
<1>2. CASE Returns
  BY <1>2, Zenon DEF Returns, CmdRateFlush, CmdDrained, CmdDrainTimeout, CmdJoined
<1>3. CASE AoCommand
  BY <1>3, Zenon DEF AoCommand, CmdFlush, CmdRate, CmdDrain, CmdDisable, CmdEnable
<1>4. CASE Player BY <1>4, Zenon DEF Player, PlayerOpens, PlayerWrites, PlayerCloses
<1>5. CASE UNCHANGED aovars BY <1>5, Zenon DEF aovars
<1>6. QED BY <1>1, <1>2, <1>3, <1>4, <1>5, Zenon DEF AoNext

LEMMA AoPlacesStep == AoPlacesOK /\ [AoNext]_aovars => AoPlacesOK'
<1> SUFFICES ASSUME AoPlacesOK, [AoNext]_aovars PROVE AoPlacesOK' OBVIOUS
<1> USE DEF AoPlacesOK, AoPcs, thread, drain
<1>1. CASE Thread
  <2>1. CASE Top BY <2>1, Zenon DEF Top
  <2>2. CASE WaitRate BY <2>2, Zenon DEF WaitRate
  <2>3. CASE WaitFlush BY <2>3, Zenon DEF WaitFlush
  <2>4. CASE Open BY <2>4, Zenon DEF Open
  <2>5. CASE Drained BY <2>5, Zenon DEF Drained
  <2>6. CASE Play BY <2>6, Zenon DEF Play, AoLeave
  <2>7. CASE Read BY <2>7, Zenon DEF Read, AoLeave
  <2>8. QED BY <1>1, <2>1, <2>2, <2>3, <2>4, <2>5, <2>6, <2>7, Zenon DEF Thread
<1>2. CASE Returns
  BY <1>2, Zenon DEF Returns, CmdRateFlush, CmdDrained, CmdDrainTimeout, CmdJoined
<1>3. CASE AoCommand
  BY <1>3, Zenon DEF AoCommand, CmdFlush, CmdRate, CmdDrain, CmdDisable, CmdEnable
<1>4. CASE Player BY <1>4, Zenon DEF Player, PlayerOpens, PlayerWrites, PlayerCloses
<1>5. CASE UNCHANGED aovars BY <1>5, Zenon DEF aovars
<1>6. QED BY <1>1, <1>2, <1>3, <1>4, <1>5, Zenon DEF AoNext

LEMMA AoCountsStep == AoCountsOK /\ [AoNext]_aovars => AoCountsOK'
<1> SUFFICES ASSUME AoCountsOK, [AoNext]_aovars PROVE AoCountsOK' OBVIOUS
<1>0. MaxSeq \in Nat /\ IdleMax \in Nat \ {0} BY RadOutputConstants
<1> DEFINE Same == attWr' = attWr /\ rd' = rd /\ idle' = idle /\ drTarget' = drTarget /\ spk' = spk
<1>1. CASE Same BY <1>1, Zenon DEF AoCountsOK
<1>2. CASE Open
  <2>1. \/ spk >= 0 /\ attWr' = spk /\ rd' = 0 /\ idle' = 0 /\ drTarget' = drTarget /\ spk' = spk
        \/ Same
    BY <1>2, Zenon DEF Open, drain
  <2>2. CASE spk >= 0 /\ attWr' = spk /\ rd' = 0 /\ idle' = 0 /\ drTarget' = drTarget /\ spk' = spk
    BY <1>0, <2>2, SMT DEF AoCountsOK
  <2>3. QED BY <1>1, <2>1, <2>2
<1>3. CASE Read
  <2>1. drTarget' = drTarget /\ spk' = spk /\ attWr' = attWr BY <1>3, Zenon DEF Read, AoLeave, drain
  <2>2. \/ rd < attWr /\ rd' = rd + 1 /\ idle' = 0
        \/ rd' = rd /\ idle' = idle
        \/ rd' = rd /\ ~(idle + 1 >= IdleMax) /\ idle' = idle + 1
    BY <1>3, Zenon DEF Read, AoLeave
  <2>3. QED BY <1>0, <2>1, <2>2, SMT DEF AoCountsOK
<1>4. CASE Thread
  <2>1. CASE Top \/ WaitRate \/ WaitFlush \/ Drained
    <3>1. Same BY <2>1, Zenon DEF Top, WaitRate, WaitFlush, Drained, drain
    <3>2. QED BY <1>1, <3>1
  <2>2. CASE Play
    <3>1. Same BY <2>2, Zenon DEF Play, AoLeave, drain
    <3>2. QED BY <1>1, <3>1
  <2>3. QED BY <1>2, <1>3, <1>4, <2>1, <2>2, Zenon DEF Thread
<1>5. CASE Returns
  <2>1. Same BY <1>5, Zenon DEF Returns, CmdRateFlush, CmdDrained, CmdDrainTimeout, CmdJoined, thread, drain
  <2>2. QED BY <1>1, <2>1
<1>6. CASE AoCommand
  <2>1. CASE CmdDrain
    <3>1. /\ attWr' = attWr /\ rd' = rd /\ idle' = idle /\ spk' = spk
          /\ drTarget' = IF spk >= 0 THEN spk ELSE 0
      BY <2>1, Zenon DEF CmdDrain, thread
    <3>2. QED BY <1>0, <3>1, SMT DEF AoCountsOK
  <2>2. CASE CmdFlush \/ CmdRate \/ CmdDisable \/ CmdEnable
    <3>1. Same BY <2>2, Zenon DEF CmdFlush, CmdRate, CmdDisable, CmdEnable, thread, drain
    <3>2. QED BY <1>1, <3>1
  <2>3. QED BY <1>6, <2>1, <2>2, Zenon DEF AoCommand
<1>7. CASE Player
  <2>1. /\ rd' = rd /\ idle' = idle /\ drTarget' = drTarget
    BY <1>7, Zenon DEF Player, PlayerOpens, PlayerWrites, PlayerCloses, thread, drain
  <2>2. \/ attWr' = attWr /\ (spk' = 0 \/ spk' = -1)
        \/ spk \in 0..MaxSeq - 1 /\ spk' = spk + 1 /\ (attWr' = spk + 1 \/ attWr' = attWr)
    BY <1>7, Zenon DEF Player, PlayerOpens, PlayerWrites, PlayerCloses, thread
  <2>3. QED BY <1>0, <2>1, <2>2, SMT DEF AoCountsOK
<1>8. CASE UNCHANGED aovars
  <2>1. Same BY <1>8, Zenon DEF aovars, thread, drain
  <2>2. QED BY <1>1, <2>1
<1>9. QED BY <1>4, <1>5, <1>6, <1>7, <1>8, Zenon DEF AoNext

LEMMA AoRatesStep == AoRatesOK /\ [AoNext]_aovars => AoRatesOK'
<1> SUFFICES ASSUME AoRatesOK, [AoNext]_aovars PROVE AoRatesOK' OBVIOUS
<1>1. ratePend \in AoRates \cup {0} /\ aoRate \in AoRates \cup {0} BY Zenon DEF AoRatesOK
<1>2. SUFFICES ratePend' \in AoRates \cup {0} /\ aoRate' \in AoRates \cup {0} BY Zenon DEF AoRatesOK
<1>3. ASSUME ApplyRate PROVE ratePend' \in AoRates \cup {0} /\ aoRate' \in AoRates \cup {0}
  BY <1>1, <1>3, Zenon DEF ApplyRate
<1>4. CASE Thread
  BY <1>1, <1>3, <1>4, Zenon DEF Thread, Top, WaitRate, WaitFlush, Open, Drained, Play, Read
<1>5. CASE Returns
  BY <1>1, <1>5, Zenon DEF Returns, CmdRateFlush, CmdDrained, CmdDrainTimeout, CmdJoined
<1>6. CASE AoCommand
  BY <1>1, <1>6, Zenon DEF AoCommand, CmdFlush, CmdRate, CmdDrain, CmdDisable, CmdEnable
<1>7. CASE Player BY <1>1, <1>7, Zenon DEF Player, PlayerOpens, PlayerWrites, PlayerCloses
<1>8. CASE UNCHANGED aovars BY <1>1, <1>8, Zenon DEF aovars
<1>9. QED BY <1>4, <1>5, <1>6, <1>7, <1>8, Zenon DEF AoNext

\* The flag the thread obeys is cleared before the thread is started again,
\* and set only by the command that then waits for it.
LEMMA SpeakerStep == SpeakerInv /\ [AoNext]_aovars => SpeakerInv'
<1> SUFFICES ASSUME SpeakerInv, [AoNext]_aovars PROVE SpeakerInv' OBVIOUS
<1>1. CASE Thread
  <2>1. aoStop' = aoStop /\ ctl' = ctl /\ aoEnabled' = aoEnabled
    BY <1>1, Zenon DEF Thread, Top, WaitRate, WaitFlush, Open, Drained, Play, Read
  <2>2. aoPc' = "exited" => aoStop
    <3>1. CASE Top BY <3>1 DEF Top
    <3>2. CASE WaitRate BY <3>2 DEF WaitRate
    <3>3. CASE WaitFlush BY <3>3 DEF WaitFlush
    <3>4. CASE Open BY <3>4 DEF Open
    <3>5. CASE Drained BY <3>5 DEF Drained
    <3>6. CASE Play BY <3>6 DEF Play
    <3>7. CASE Read BY <3>7 DEF Read
    <3>8. QED BY <1>1, <3>1, <3>2, <3>3, <3>4, <3>5, <3>6, <3>7, Zenon DEF Thread
  <2>3. QED BY <2>1, <2>2, Zenon DEF SpeakerInv
<1>2. CASE Returns
  <2>1. aoStop' = aoStop /\ aoPc' = aoPc
    BY <1>2, Zenon DEF Returns, CmdRateFlush, CmdDrained, CmdDrainTimeout, CmdJoined, thread
  <2>2. CASE CmdJoined
    <3>1. aoEnabled' = FALSE BY <2>2, Zenon DEF CmdJoined
    <3>2. QED BY <2>1, <3>1, Zenon DEF SpeakerInv
  <2>3. CASE CmdRateFlush \/ CmdDrained \/ CmdDrainTimeout
    <3>1. (ctl = "rate" \/ ctl = "drain") /\ aoEnabled' = aoEnabled
      BY <2>3, Zenon DEF CmdRateFlush, CmdDrained, CmdDrainTimeout
    <3>2. ctl # "join" BY <3>1
    <3>3. QED BY <2>1, <3>1, <3>2, Zenon DEF SpeakerInv
  <2>4. QED BY <1>2, <2>2, <2>3, Zenon DEF Returns
<1>3. CASE AoCommand
  <2>1. CASE CmdDisable BY <2>1, Zenon DEF CmdDisable, SpeakerInv
  <2>2. CASE CmdEnable
    <3>1. aoPc' = "top" /\ aoStop' = FALSE BY <2>2, Zenon DEF CmdEnable
    <3>2. aoPc' # "exited" BY <3>1
    <3>3. QED BY <3>1, <3>2, Zenon DEF SpeakerInv
  <2>3. CASE CmdFlush \/ CmdRate \/ CmdDrain
    <3>1. ctl = "idle" /\ aoEnabled /\ aoStop' = aoStop /\ aoPc' = aoPc /\ aoEnabled' = aoEnabled
      BY <2>3, Zenon DEF CmdFlush, CmdRate, CmdDrain, thread
    <3>2. ctl # "join" BY <3>1
    <3>3. QED BY <3>1, <3>2, Zenon DEF SpeakerInv
  <2>4. QED BY <1>3, <2>1, <2>2, <2>3, Zenon DEF AoCommand
<1>4. CASE Player
  <2>1. aoPc' = aoPc /\ aoStop' = aoStop /\ ctl' = ctl /\ aoEnabled' = aoEnabled
    BY <1>4, Zenon DEF Player, PlayerOpens, PlayerWrites, PlayerCloses, thread
  <2>2. QED BY <2>1, Zenon DEF SpeakerInv
<1>5. CASE UNCHANGED aovars BY <1>5, Zenon DEF aovars, thread, SpeakerInv
<1>6. QED BY <1>1, <1>2, <1>3, <1>4, <1>5, Zenon DEF AoNext

LEMMA AoSteps == AoTypeOK /\ SpeakerInv /\ [AoNext]_aovars => AoTypeOK' /\ SpeakerInv'
<1> SUFFICES ASSUME AoTypeOK, SpeakerInv, [AoNext]_aovars PROVE AoTypeOK' /\ SpeakerInv' OBVIOUS
<1>1. AoFlagsOK /\ AoPlacesOK /\ AoCountsOK /\ AoRatesOK BY AoTypeParts
<1>2. AoFlagsOK' /\ AoPlacesOK' /\ AoCountsOK' /\ AoRatesOK'
  BY <1>1, AoFlagsStep, AoPlacesStep, AoCountsStep, AoRatesStep
<1>3. AoTypeOK'
  BY <1>2, Zenon DEF AoTypeOK, AoFlagsOK, AoPlacesOK, AoCountsOK, AoRatesOK, AoPcs
<1>4. QED BY <1>3, SpeakerStep

LEMMA SpeakerInvServes == SpeakerInv => SpeakerServed
<1> SUFFICES ASSUME SpeakerInv, aoEnabled, ctl = "idle" PROVE aoPc # "exited" /\ ~aoStop
  BY Zenon DEF SpeakerServed
<1>1. ctl # "join" OBVIOUS
<1>2. QED BY <1>1, Zenon DEF SpeakerInv

-----------------------------------------------------------------------------
(* The capture. *)

Devs == [state : {"off", "dead", "live"}, rate : AiRates \cup {0}]
Infos == [id : Codecs, rate : AiRates] \cup {NoInfo}

AiFlagsOK == {radUp, aiDisabled, hwMute, muted, aoOn, inRecovery} \subseteq BOOLEAN
AiLoopOK == failCount \in 0..RecoverFails /\ {backoff, wait} \subseteq 0..BackoffMax

\* What the device runs is flagged, and the echo canceller is flagged only
\* while the speaker is there: ai-enable and the recovery start every effect
\* that is flagged.
EffectsInv == hwFx \subseteq fx /\ fx \subseteq Effects /\ ("aec" \in fx => aoOn)

\* An open codec is the context's; the ring, when there is one, has its stream
\* info; a live device under an open codec has the context's rate and volume.
StreamInv ==
    /\ aiDev \in Devs /\ hwVol \in Volumes /\ vol \in Volumes
    /\ codec \in Infos /\ aiRing \in Infos
    /\ ctxCodec \in Codecs /\ ctxRate \in AiRates /\ cfgRate \in AiRates
    /\ mpp \in {"ok", "busy"}
    /\ codec # NoInfo => codec = [id |-> ctxCodec, rate |-> ctxRate]
    /\ aiRing # NoInfo => aiRing = codec
    /\ codec # NoInfo /\ aiDev.state = "live" => aiDev.rate = ctxRate /\ hwVol = vol

AiInv == AiFlagsOK /\ AiLoopOK /\ EffectsInv /\ StreamInv

LEMMA AiInvShows == AiInv => AiTypeOK /\ StreamAsAdvertised /\ AecNeedsSpeaker
<1> SUFFICES ASSUME AiInv PROVE AiTypeOK /\ StreamAsAdvertised /\ AecNeedsSpeaker OBVIOUS
<1>1. AiTypeOK
  BY Zenon DEF AiInv, AiTypeOK, AiFlagsOK, AiLoopOK, EffectsInv, StreamInv, Devs, Infos
<1>2. AecNeedsSpeaker BY Zenon DEF AiInv, EffectsInv, AecNeedsSpeaker
<1>3. StreamAsAdvertised
  <2>1. SUFFICES ASSUME codec # NoInfo
                 PROVE /\ codec = [id |-> ctxCodec, rate |-> ctxRate]
                       /\ aiRing # NoInfo => aiRing = codec
                       /\ aiDev.state = "live" => aiDev.rate = codec.rate /\ hwVol = vol
    BY Zenon DEF StreamAsAdvertised
  <2>2. codec = [id |-> ctxCodec, rate |-> ctxRate] BY <2>1, Zenon DEF AiInv, StreamInv
  <2>3. codec.rate = ctxRate BY <2>2
  <2>4. QED BY <2>1, <2>2, <2>3, Zenon DEF AiInv, StreamInv
<1>4. QED BY <1>1, <1>2, <1>3

LEMMA AiStarts == AiInit => AiInv
<1> SUFFICES ASSUME AiInit PROVE AiInv OBVIOUS
<1>1. AiFlagsOK BY Zenon DEF AiInit, AiFlagsOK
<1>2. AiLoopOK
  <2>1. failCount = 0 /\ backoff = 1 /\ wait = 0 BY Zenon DEF AiInit
  <2>2. QED BY <2>1, RadInputConstants, SMT DEF AiLoopOK
<1>3. EffectsInv BY Zenon DEF AiInit, EffectsInv
<1>4. StreamInv
  <2>1. Off \in Devs BY SMT DEF Off, Devs
  <2>2. NoInfo \in Infos /\ 8 \in AiRates /\ BootVolume \in Volumes /\ "l16" \in Codecs
    BY RadInputConstants, Zenon DEF Infos, Codecs
  <2>3. QED BY <2>1, <2>2, Zenon DEF AiInit, StreamInv
<1>5. QED BY <1>1, <1>2, <1>3, <1>4 DEF AiInv

\* Every device an audio_init leaves behind has the rate it was asked for.
LEMMA OpenedRate ==
    ASSUME NEW r \in AiRates, NEW d \in Opened(r)
    PROVE  d \in Devs /\ d.rate = r
<1>1. d = [state |-> "live", rate |-> r] \/ d = [state |-> "dead", rate |-> r] BY Zenon DEF Opened, Live
<1>2. QED BY <1>1, SMT DEF Devs

LEMMA RateForTyped ==
    ASSUME NEW c, NEW want \in AiRates
    PROVE  RateFor(c, want) \in AiRates
BY RadInputConstants DEF RateFor

\* The context's codec and rate make a stream info that is not "none".
LEMMA InfoTyped ==
    ASSUME NEW c \in Codecs, NEW r \in AiRates
    PROVE  [id |-> c, rate |-> r] \in Infos
BY Zenon DEF Infos

LEMMA OffTyped == Off \in Devs /\ Off.state = "off" /\ NoInfo \in Infos
BY SMT DEF Off, Devs, Infos

-----------------------------------------------------------------------------
LEMMA AiFlagsStep == AiFlagsOK /\ [AiNext]_aivars => AiFlagsOK'
<1> SUFFICES ASSUME AiFlagsOK, [AiNext]_aivars PROVE AiFlagsOK' OBVIOUS
<1> USE DEF AiFlagsOK, loop, hw, aiFlags, pipe
<1>1. CASE AiStart BY <1>1, Zenon DEF AiStart, StartCapture, StartPublishing
<1>2. ASSUME Stop PROVE AiFlagsOK' BY <1>2, Zenon DEF Stop, Reset
<1>3. CASE SetVolume \/ SetMute \/ SetNs \/ SetAec
  BY <1>3, Zenon DEF SetVolume, SetMute, SetNs, SetAec
<1>4. CASE AoDisable \/ AoEnable BY <1>4, Zenon DEF AoDisable, AoEnable
<1>5. CASE AiDisable \/ AiEnable BY <1>5, Zenon DEF AiDisable, AiEnable, Reset, Applied
<1>6. ASSUME NEW c \in Codecs, NEW want \in AiRates, Restart(c, want) PROVE AiFlagsOK'
  <2>1. CASE RestartNoCodec BY <1>2, <2>1, Zenon DEF RestartNoCodec
  <2>2. CASE /\ RestartNew(c, want) \/ RestartNoDevice(c, want) \/ RestartOldCodec(c, want) \/ RestartNothing(c, want)
             /\ UNCHANGED <<radUp, aiDisabled, aiFlags, loop, mpp>>
    <3>1. hwMute' = FALSE
      BY <2>2, Zenon DEF RestartNew, RestartNoDevice, RestartOldCodec, RestartNothing, Applied, Reset
    <3>2. QED BY <2>2, <3>1, Zenon
  <2>3. QED BY <1>6, <2>1, <2>2, Zenon DEF Restart
<1>7. CASE Loop
  BY <1>7, Zenon DEF Loop, Silent, ReadOk, ReadFails, AiReinit, Applied, Reset
<1>8. CASE RvdInit \/ RvdReady BY <1>8, Zenon DEF RvdInit, RvdReady
<1>9. CASE UNCHANGED aivars BY <1>9, Zenon DEF aivars
<1>10. QED BY <1>1, <1>2, <1>3, <1>4, <1>5, <1>6, <1>7, <1>8, <1>9, Zenon DEF AiNext, AiCommand, AiShutdown

LEMMA AiLoopStep == AiLoopOK /\ [AiNext]_aivars => AiLoopOK'
<1> SUFFICES ASSUME AiLoopOK, [AiNext]_aivars PROVE AiLoopOK' OBVIOUS
<1>0. RecoverFails \in Nat \ {0} /\ BackoffMax \in Nat \ {0} BY RadInputConstants
<1>1. CASE UNCHANGED loop
  <2>1. failCount' = failCount /\ backoff' = backoff /\ wait' = wait BY <1>1, Zenon DEF loop
  <2>2. QED BY <2>1, Zenon DEF AiLoopOK
<1>2. CASE AiStart
  <2>1. failCount' = 0 /\ backoff' = 1 /\ wait' = 0 BY <1>2, Zenon DEF AiStart, StartPublishing
  <2>2. QED BY <1>0, <2>1, SMT DEF AiLoopOK
<1>3. CASE Silent \/ ReadOk
  <2>1. failCount' = 0 /\ backoff' = 1 /\ wait' = wait BY <1>3, Zenon DEF Silent, ReadOk
  <2>2. QED BY <1>0, <2>1, SMT DEF AiLoopOK
<1>4. CASE ReadFails
  <2>1. failCount' = IF failCount < RecoverFails THEN failCount + 1 ELSE failCount
    BY <1>4, Zenon DEF ReadFails, Failed
  <2>2. \/ /\ wait' = backoff
           /\ backoff' = IF 2 * backoff > BackoffMax THEN BackoffMax ELSE 2 * backoff
        \/ /\ wait' = wait \/ (wait > 0 /\ wait' = wait - 1)
           /\ backoff' = backoff
    BY <1>4, Zenon DEF ReadFails
  <2>3. QED BY <1>0, <2>1, <2>2, SMT DEF AiLoopOK
<1>5. CASE AiShutdown BY <1>1, <1>5, Zenon DEF AiShutdown, Stop
<1>6. CASE AiCommand
  <2>1. CASE SetVolume \/ SetMute \/ SetNs \/ SetAec
    BY <1>1, <2>1, Zenon DEF SetVolume, SetMute, SetNs, SetAec
  <2>2. CASE AoDisable \/ AoEnable \/ AiDisable \/ AiEnable
    BY <1>1, <2>2, Zenon DEF AoDisable, AoEnable, AiDisable, AiEnable
  <2>3. CASE \E c \in Codecs, want \in AiRates : Restart(c, want)
    BY <1>1, <2>3, Zenon DEF Restart, RestartNoCodec, Stop
  <2>4. QED BY <1>6, <2>1, <2>2, <2>3, Zenon DEF AiCommand
<1>7. CASE RvdInit \/ RvdReady BY <1>1, <1>7, Zenon DEF RvdInit, RvdReady
<1>8. CASE UNCHANGED aivars BY <1>1, <1>8, Zenon DEF aivars
<1>9. QED BY <1>2, <1>3, <1>4, <1>5, <1>6, <1>7, <1>8, Zenon DEF AiNext, Loop

\* An effect reaches the device only with its flag, and the canceller's flag
\* only with the speaker.
LEMMA EffectsStep == EffectsInv /\ [AiNext]_aivars => EffectsInv'
<1> SUFFICES ASSUME EffectsInv, [AiNext]_aivars PROVE EffectsInv' OBVIOUS
<1>0. hwFx \subseteq fx /\ fx \subseteq Effects /\ ("aec" \in fx => aoOn) BY Zenon DEF EffectsInv
<1>1. ASSUME fx' = fx, aoOn' = aoOn, hwFx' \subseteq fx PROVE EffectsInv'
  BY <1>0, <1>1, Zenon DEF EffectsInv
<1>2. ASSUME Applied PROVE hwFx' \subseteq fx BY <1>2, Zenon DEF Applied
<1>3. ASSUME Reset PROVE hwFx' \subseteq fx BY <1>3, Zenon DEF Reset
<1>4. CASE AiStart
  <2>1. PICK on \in SUBSET {"ns"}, heard \in SUBSET {"ns"}, echo \in SUBSET {"aec"} :
           /\ echo # {} => aoOn'
           /\ fx' = on \cup echo /\ hwFx' = (on \cap heard) \cup echo
    BY <1>4, Zenon DEF AiStart, StartEffects
  <2>2. hwFx' \subseteq fx' BY <2>1
  <2>3. fx' \subseteq Effects BY <2>1 DEF Effects
  <2>4. "aec" \in fx' => echo # {} BY <2>1
  <2>5. QED BY <2>1, <2>2, <2>3, <2>4, Zenon DEF EffectsInv
<1>5. ASSUME Stop PROVE EffectsInv'
  <2>1. fx' = fx /\ aoOn' = aoOn /\ Reset BY <1>5, Zenon DEF Stop, aiFlags
  <2>2. QED BY <1>1, <1>3, <2>1
<1>6. CASE SetVolume \/ SetMute
  <2>1. fx' = fx /\ aoOn' = aoOn /\ hwFx' = hwFx BY <1>6, Zenon DEF SetVolume, SetMute
  <2>2. QED BY <1>0, <1>1, <2>1
<1>7. CASE SetNs
  <2>1. aoOn' = aoOn BY <1>7, Zenon DEF SetNs
  <2>2. \/ fx' = fx \cup {"ns"} /\ hwFx' = hwFx \cup (IF "ns" \in fx THEN {} ELSE {"ns"})
        \/ fx' = fx \ {"ns"} /\ hwFx' = hwFx \ (IF "ns" \in fx THEN {"ns"} ELSE {})
    BY <1>7, Zenon DEF SetNs
  <2>3. hwFx' \subseteq fx' /\ fx' \subseteq Effects BY <1>0, <2>2 DEF Effects
  <2>4. "aec" \in fx' => "aec" \in fx BY <2>2
  <2>5. QED BY <1>0, <2>1, <2>3, <2>4, Zenon DEF EffectsInv
<1>8. CASE SetAec
  <2>1. aoOn /\ aoOn' = aoOn BY <1>8, Zenon DEF SetAec
  <2>2. \/ fx' = fx \ {"aec"} /\ hwFx' = hwFx \ {"aec"}
        \/ fx' = fx \cup {"aec"} /\ hwFx' = hwFx \cup {"aec"}
    BY <1>8, Zenon DEF SetAec
  <2>3. hwFx' \subseteq fx' /\ fx' \subseteq Effects BY <1>0, <2>2 DEF Effects
  <2>4. QED BY <2>1, <2>3, Zenon DEF EffectsInv
<1>9. CASE AoDisable
  <2>1. fx' = fx \ {"aec"} /\ hwFx' = hwFx \ {"aec"} BY <1>9, Zenon DEF AoDisable
  <2>2. hwFx' \subseteq fx' /\ fx' \subseteq Effects /\ "aec" \notin fx' BY <1>0, <2>1
  <2>3. QED BY <2>2, Zenon DEF EffectsInv
<1>10. CASE AoEnable
  <2>1. fx' = fx /\ hwFx' = hwFx /\ aoOn' = TRUE BY <1>10, Zenon DEF AoEnable, hw
  <2>2. QED BY <1>0, <2>1, Zenon DEF EffectsInv
<1>11. CASE AiDisable \/ AiEnable
  <2>1. fx' = fx /\ aoOn' = aoOn /\ (Reset \/ Applied) BY <1>11, Zenon DEF AiDisable, AiEnable, aiFlags
  <2>2. QED BY <1>1, <1>2, <1>3, <2>1
<1>12. ASSUME NEW c \in Codecs, NEW want \in AiRates, Restart(c, want) PROVE EffectsInv'
  <2>1. CASE RestartNoCodec BY <1>5, <2>1, Zenon DEF RestartNoCodec
  <2>2. CASE /\ RestartNew(c, want) \/ RestartNoDevice(c, want) \/ RestartOldCodec(c, want) \/ RestartNothing(c, want)
             /\ UNCHANGED <<radUp, aiDisabled, aiFlags, loop, mpp>>
    <3>1. Applied \/ Reset \/ hwFx' = {}
      BY <2>2, Zenon DEF RestartNew, RestartNoDevice, RestartOldCodec, RestartNothing
    <3>2. fx' = fx /\ aoOn' = aoOn BY <2>2, Zenon DEF aiFlags
    <3>3. hwFx' \subseteq fx BY <1>2, <1>3, <3>1
    <3>4. QED BY <1>1, <3>2, <3>3
  <2>3. QED BY <1>12, <2>1, <2>2, Zenon DEF Restart
<1>13. CASE Loop
  <2>1. fx' = fx /\ aoOn' = aoOn BY <1>13, Zenon DEF Loop, Silent, ReadOk, ReadFails, aiFlags
  <2>2. hwFx' = hwFx \/ Applied \/ Reset
    BY <1>13, Zenon DEF Loop, Silent, ReadOk, ReadFails, AiReinit, hw
  <2>3. hwFx' \subseteq fx BY <1>0, <1>2, <1>3, <2>2
  <2>4. QED BY <1>1, <2>1, <2>3
<1>14. CASE RvdInit \/ RvdReady \/ UNCHANGED aivars
  <2>1. fx' = fx /\ aoOn' = aoOn /\ hwFx' = hwFx BY <1>14, Zenon DEF RvdInit, RvdReady, aivars, aiFlags, hw
  <2>2. QED BY <1>0, <1>1, <2>1
<1>15. QED BY <1>4, <1>5, <1>6, <1>7, <1>8, <1>9, <1>10, <1>11, <1>12, <1>13, <1>14, Zenon
           DEF AiNext, AiCommand, AiShutdown

\* Three ways a step may go: the codec is closed, the codec is opened on a
\* device that has the context's rate and volume, or the stream stays and the
\* device, if it lives, keeps or regains both.
LEMMA StreamStep == StreamInv /\ [AiNext]_aivars => StreamInv'
<1> SUFFICES ASSUME StreamInv, [AiNext]_aivars PROVE StreamInv' OBVIOUS
<1>0. /\ aiDev \in Devs /\ hwVol \in Volumes /\ vol \in Volumes
      /\ codec \in Infos /\ aiRing \in Infos
      /\ ctxCodec \in Codecs /\ ctxRate \in AiRates /\ cfgRate \in AiRates
      /\ mpp \in {"ok", "busy"}
      /\ codec # NoInfo => codec = [id |-> ctxCodec, rate |-> ctxRate]
      /\ aiRing # NoInfo => aiRing = codec
      /\ codec # NoInfo /\ aiDev.state = "live" => aiDev.rate = ctxRate /\ hwVol = vol
  BY Zenon DEF StreamInv
<1>1. BootVolume \in Volumes BY RadInputConstants
<1>2. ASSUME codec' = NoInfo, aiRing' = NoInfo, aiDev' \in Devs, hwVol' \in Volumes, vol' \in Volumes,
             ctxCodec' \in Codecs, ctxRate' \in AiRates, cfgRate' \in AiRates, mpp' \in {"ok", "busy"}
      PROVE  StreamInv'
  BY <1>2, OffTyped, Zenon DEF StreamInv
<1>3. ASSUME codec' = [id |-> ctxCodec', rate |-> ctxRate'], aiRing' = codec' \/ aiRing' = NoInfo,
             aiDev' \in Devs, aiDev'.rate = ctxRate', hwVol' = vol', vol' \in Volumes,
             ctxCodec' \in Codecs, ctxRate' \in AiRates, cfgRate' \in AiRates, mpp' \in {"ok", "busy"}
      PROVE  StreamInv'
  <2>1. codec' \in Infos BY <1>3, Zenon DEF Infos
  <2>2. aiRing' \in Infos BY <1>3, <2>1, OffTyped
  <2>3. QED BY <1>3, <2>1, <2>2, Zenon DEF StreamInv
<1>4. ASSUME codec' = codec, aiRing' = aiRing, ctxCodec' = ctxCodec, ctxRate' = ctxRate, cfgRate' = cfgRate,
             aiDev' \in Devs, hwVol' \in Volumes, vol' \in Volumes, mpp' \in {"ok", "busy"},
             codec # NoInfo /\ aiDev'.state = "live" => aiDev'.rate = ctxRate /\ hwVol' = vol'
      PROVE  StreamInv'
  BY <1>0, <1>4, Zenon DEF StreamInv
<1>5. CASE AiStart
  <2>1. PICK c \in Codecs, v \in Volumes : StartCapture(c, v) BY <1>5, Zenon DEF AiStart
  <2>2. cfgRate' = cfgRate /\ mpp' = mpp /\ aiRing' = codec' BY <1>5, Zenon DEF AiStart, StartPublishing
  <2> DEFINE r == RateFor(c, cfgRate)
  <2>3. r \in AiRates BY <1>0, RateForTyped
  <2>4. /\ aiDev' \in Opened(r) /\ ctxCodec' = c /\ ctxRate' = r /\ vol' = v /\ hwVol' = v
        /\ codec' = [id |-> c, rate |-> r]
    BY <2>1, Zenon DEF StartCapture
  <2> HIDE DEF r
  <2>5. aiDev' \in Devs /\ aiDev'.rate = r BY <2>3, <2>4, OpenedRate
  <2>6. codec' = [id |-> ctxCodec', rate |-> ctxRate'] /\ aiDev'.rate = ctxRate' /\ hwVol' = vol' BY <2>4, <2>5, Zenon
  <2>7. vol' \in Volumes /\ ctxCodec' \in Codecs /\ ctxRate' \in AiRates BY <2>1, <2>3, <2>4, Zenon
  <2>8. cfgRate' \in AiRates /\ mpp' \in {"ok", "busy"} BY <1>0, <2>2, Zenon
  <2>9. QED BY <1>3, <2>2, <2>5, <2>6, <2>7, <2>8
<1>6. ASSUME Stop PROVE StreamInv'
  <2>1. /\ codec' = NoInfo /\ aiRing' = NoInfo /\ aiDev' = Off /\ hwVol' = BootVolume /\ vol' = vol
        /\ ctxCodec' = ctxCodec /\ ctxRate' = ctxRate /\ cfgRate' = cfgRate /\ mpp' = mpp
    BY <1>6, Zenon DEF Stop, Reset, aiFlags
  <2>2. QED BY <1>0, <1>1, <1>2, <2>1, OffTyped, Zenon
<1>7. CASE SetVolume
  <2>1. PICK v \in Volumes : vol' = v /\ hwVol' = v BY <1>7, Zenon DEF SetVolume
  <2>2. /\ codec' = codec /\ aiRing' = aiRing /\ ctxCodec' = ctxCodec /\ ctxRate' = ctxRate
        /\ cfgRate' = cfgRate /\ aiDev' = aiDev /\ mpp' = mpp
    BY <1>7, Zenon DEF SetVolume, pipe
  <2>3. codec # NoInfo /\ aiDev'.state = "live" => aiDev'.rate = ctxRate /\ hwVol' = vol'
    BY <1>0, <2>1, <2>2, Zenon
  <2>4. QED BY <1>0, <1>4, <2>1, <2>2, <2>3, Zenon
<1>8. ASSUME UNCHANGED pipe, cfgRate' = cfgRate, aiDev' = aiDev, hwVol' = hwVol, vol' = vol,
             mpp' \in {"ok", "busy"}
      PROVE  StreamInv'
  <2>1. codec' = codec /\ aiRing' = aiRing /\ ctxCodec' = ctxCodec /\ ctxRate' = ctxRate BY <1>8, Zenon DEF pipe
  <2>2. QED BY <1>0, <1>4, <1>8, <2>1, Zenon
<1>9. CASE SetMute \/ SetNs \/ SetAec
  <2>1. UNCHANGED pipe /\ cfgRate' = cfgRate /\ aiDev' = aiDev /\ hwVol' = hwVol /\ vol' = vol /\ mpp' = mpp
    BY <1>9, Zenon DEF SetMute, SetNs, SetAec
  <2>2. QED BY <1>0, <1>8, <2>1, Zenon
<1>10. CASE AoDisable \/ AoEnable \/ Silent \/ ReadOk
  <2>1. UNCHANGED pipe /\ cfgRate' = cfgRate /\ aiDev' = aiDev /\ hwVol' = hwVol /\ vol' = vol /\ mpp' = mpp
    BY <1>10, Zenon DEF AoDisable, AoEnable, Silent, ReadOk, hw, aiFlags
  <2>2. QED BY <1>0, <1>8, <2>1, Zenon
<1>11. CASE RvdReady \/ UNCHANGED aivars
  <2>1. UNCHANGED pipe /\ cfgRate' = cfgRate /\ aiDev' = aiDev /\ hwVol' = hwVol /\ vol' = vol
    BY <1>11, Zenon DEF RvdReady, aivars, hw, aiFlags
  <2>2. mpp' \in {"ok", "busy"} BY <1>0, <1>11, Zenon DEF RvdReady, aivars
  <2>3. QED BY <1>8, <2>1, <2>2
<1>12. CASE AiDisable
  <2>1. /\ codec' = NoInfo /\ aiRing' = NoInfo /\ aiDev' = Off /\ hwVol' = BootVolume /\ vol' = vol
        /\ ctxCodec' = ctxCodec /\ ctxRate' = ctxRate /\ cfgRate' = cfgRate /\ mpp' = mpp
    BY <1>12, Zenon DEF AiDisable, Reset, aiFlags
  <2>2. QED BY <1>0, <1>1, <1>2, <2>1, OffTyped, Zenon
<1>13. CASE AiEnable
  <2>1. /\ aiDev' \in Opened(ctxRate) /\ hwVol' = vol /\ vol' = vol
        /\ codec' = [id |-> ctxCodec, rate |-> ctxRate] /\ aiRing' = codec'
        /\ ctxCodec' = ctxCodec /\ ctxRate' = ctxRate /\ cfgRate' = cfgRate /\ mpp' = mpp
    BY <1>13, Zenon DEF AiEnable, Applied, aiFlags
  <2>2. aiDev' \in Devs /\ aiDev'.rate = ctxRate BY <1>0, <2>1, OpenedRate
  <2>3. QED BY <1>0, <1>3, <2>1, <2>2, Zenon
<1>14. ASSUME NEW c \in Codecs, NEW want \in AiRates, Restart(c, want) PROVE StreamInv'
  <2> DEFINE r == RateFor(c, want)
  <2>0. r \in AiRates BY RateForTyped
  <2>1. CASE RestartNoCodec BY <1>6, <2>1, Zenon DEF RestartNoCodec
  <2>2. CASE /\ RestartNew(c, want) \/ RestartNoDevice(c, want) \/ RestartOldCodec(c, want) \/ RestartNothing(c, want)
             /\ UNCHANGED <<radUp, aiDisabled, aiFlags, loop, mpp>>
    <3>0. vol' = vol /\ mpp' = mpp BY <2>2, Zenon DEF aiFlags
    <3>1. CASE RestartNew(c, want)
      <4>1. /\ aiDev' \in Opened(r) /\ hwVol' = vol
            /\ codec' = [id |-> c, rate |-> r] /\ ctxCodec' = c /\ ctxRate' = r
            /\ aiRing' = [id |-> c, rate |-> r] \/ aiRing' = NoInfo
            /\ cfgRate' = cfgRate \/ cfgRate' = r
        BY <3>1, Zenon DEF RestartNew, Applied
      <4> HIDE DEF r
      <4>2. aiDev' \in Devs /\ aiDev'.rate = r BY <2>0, <4>1, OpenedRate
      <4>3. QED BY <1>0, <1>3, <2>0, <3>0, <4>1, <4>2, Zenon
    <3>2. CASE RestartNoDevice(c, want) \/ RestartNothing(c, want)
      <4>1. /\ codec' = NoInfo /\ aiRing' = NoInfo /\ (aiDev' \in Opened(ctxRate) \/ aiDev' = Off)
            /\ hwVol' = BootVolume \/ hwVol' = vol
            /\ ctxCodec' = ctxCodec /\ ctxRate' = ctxRate /\ cfgRate' = cfgRate
        BY <3>2, Zenon DEF RestartNoDevice, RestartNothing, Reset
      <4>2. aiDev' \in Devs BY <1>0, <4>1, OpenedRate, OffTyped
      <4>3. QED BY <1>0, <1>1, <1>2, <3>0, <4>1, <4>2, Zenon
    <3>3. CASE RestartOldCodec(c, want)
      <4>1. /\ aiDev' \in Opened(ctxRate) /\ hwVol' = vol
            /\ codec' = [id |-> ctxCodec, rate |-> ctxRate] /\ aiRing' = codec'
            /\ cfgRate' = ctxRate \/ cfgRate' = cfgRate
            /\ ctxCodec' = ctxCodec /\ ctxRate' = ctxRate
        BY <3>3, Zenon DEF RestartOldCodec, Applied
      <4>2. aiDev' \in Devs /\ aiDev'.rate = ctxRate BY <1>0, <4>1, OpenedRate
      <4>3. QED BY <1>0, <1>3, <3>0, <4>1, <4>2, Zenon
    <3>4. QED BY <2>2, <3>1, <3>2, <3>3, Zenon
  <2>3. QED BY <1>14, <2>1, <2>2, Zenon DEF Restart
<1>15. CASE ReadFails
  <2>1. UNCHANGED pipe /\ cfgRate' = cfgRate /\ vol' = vol /\ mpp' = mpp
    BY <1>15, Zenon DEF ReadFails, aiFlags
  <2>2. \/ aiDev' = aiDev /\ hwVol' = hwVol
        \/ aiDev' \in Opened(ctxRate) /\ hwVol' = vol
        \/ aiDev' = Off /\ hwVol' = BootVolume
    BY <1>15, Zenon DEF ReadFails, AiReinit, Applied, Reset, hw
  <2>3. codec' = codec /\ aiRing' = aiRing /\ ctxCodec' = ctxCodec /\ ctxRate' = ctxRate BY <2>1, Zenon DEF pipe
  <2>4. CASE aiDev' = aiDev /\ hwVol' = hwVol BY <1>0, <1>8, <2>1, <2>4, Zenon
  <2>5. CASE aiDev' \in Opened(ctxRate) /\ hwVol' = vol
    <3>1. aiDev' \in Devs /\ aiDev'.rate = ctxRate BY <1>0, <2>5, OpenedRate
    <3>2. QED BY <1>0, <1>4, <2>1, <2>3, <2>5, <3>1, Zenon
  <2>6. CASE aiDev' = Off /\ hwVol' = BootVolume
    <3>1. aiDev' \in Devs /\ aiDev'.state # "live" BY <2>6, OffTyped
    <3>2. QED BY <1>0, <1>1, <1>4, <2>1, <2>3, <2>6, <3>1, Zenon
  <2>7. QED BY <2>2, <2>4, <2>5, <2>6
<1>16. CASE RvdInit
  <2>1. /\ mpp' = "busy" /\ hwVol' = hwVol /\ vol' = vol /\ cfgRate' = cfgRate
        /\ codec' = codec /\ aiRing' = aiRing /\ ctxCodec' = ctxCodec /\ ctxRate' = ctxRate
    BY <1>16, Zenon DEF RvdInit, aiFlags, pipe
  <2>2. aiDev' = Off \/ aiDev' = [aiDev EXCEPT !.state = "dead"] BY <1>16, Zenon DEF RvdInit
  <2>3. aiDev' \in Devs /\ aiDev'.state # "live"
    <3>1. CASE aiDev' = Off BY <3>1, OffTyped
    <3>2. CASE aiDev' = [aiDev EXCEPT !.state = "dead"] BY <1>0, <3>2 DEF Devs
    <3>3. QED BY <2>2, <3>1, <3>2
  <2>4. QED BY <1>0, <1>4, <2>1, <2>3, Zenon
<1>17. QED BY <1>5, <1>6, <1>7, <1>9, <1>10, <1>11, <1>12, <1>13, <1>14, <1>15, <1>16, Zenon
           DEF AiNext, AiCommand, AiShutdown, Loop

LEMMA AiSteps == AiInv /\ [AiNext]_aivars => AiInv'
BY AiFlagsStep, AiLoopStep, EffectsStep, StreamStep DEF AiInv

-----------------------------------------------------------------------------
(* Loops: a number below which something first fails, and a function       *)
(* defined round by round.                                                 *)

\* Every set of numbers has a smallest.
LEMMA SmallestNumber ==
    ASSUME NEW I \in SUBSET Nat, I # {}
    PROVE  Min(I) \in I /\ \A y \in I : Min(I) <= y
<1>1. \E x \in I : \A y \in I : ~(<<y, x>> \in OpToRel(<, Nat))
  BY NatLessThanWellFounded, WFMin, Zenon
<1>2. PICK x \in I : \A y \in I : ~(<<y, x>> \in OpToRel(<, Nat)) BY <1>1, Zenon
<1>3. ASSUME NEW y \in I PROVE x =< y
  <2>1. <<y, x>> \in Nat \X Nat OBVIOUS
  <2>2. ~(y < x) BY <1>2, <2>1 DEF OpToRel
  <2>3. QED BY <2>2
<1>4. \E z \in I : \A y \in I : z =< y BY <1>3
<1>5. QED BY <1>4, Zenon DEF Min

\* What holds at 0 and is passed on holds up to n.
LEMMA Upto ==
    ASSUME NEW n \in Nat, NEW D, 0 \in D, \A k \in 1 .. n : k - 1 \in D => k \in D
    PROVE  \A k \in 0 .. n : k \in D
<1>1. SUFFICES ASSUME NEW b \in 0 .. n, b \notin D PROVE FALSE OBVIOUS
<1> DEFINE I == {k \in 0 .. n : k \notin D}
<1>2. I \in SUBSET Nat /\ I # {} BY <1>1
<1>3. Min(I) \in I /\ \A y \in I : Min(I) <= y BY <1>2, SmallestNumber
<1>4. PICK m : m = Min(I) BY Zenon
<1>5. m \in 0 .. n /\ m \notin D /\ \A y \in 0 .. n : y \notin D => m <= y BY <1>3, <1>4
<1>6. m # 0 BY <1>5
<1>7. m \in 1 .. n /\ m - 1 \in 0 .. n /\ ~(m <= m - 1) BY <1>5, <1>6
<1>8. m - 1 \in D BY <1>5, <1>7
<1>9. QED BY <1>5, <1>7, <1>8

Rounds(n, A) == [1 .. n -> [A -> A]]
Iterates(f, n, A, a, F) == f \in [0 .. n -> A] /\ f[0] = a /\ \A k \in 1 .. n : f[k] = F[k][f[k - 1]]

\* n rounds from a define a function of the round.
LEMMA IterationExists ==
    ASSUME NEW n \in Nat, NEW A, NEW a \in A, NEW F \in Rounds(n, A)
    PROVE  \E f : Iterates(f, n, A, a, F)
<1>0. F \in [1 .. n -> [A -> A]] BY DEF Rounds
<1> DEFINE D == {m \in 0 .. n : \E f \in [0 .. m -> A] : f[0] = a /\ \A k \in 1 .. m : f[k] = F[k][f[k - 1]]}
<1>1. 0 \in D
  <2>1. [i \in 0 .. 0 |-> a] \in [0 .. 0 -> A] /\ [i \in 0 .. 0 |-> a][0] = a /\ 1 .. 0 = {} OBVIOUS
  <2>2. 0 \in 0 .. n OBVIOUS
  <2>3. QED BY <2>1, <2>2
<1>2. ASSUME NEW m \in 1 .. n, m - 1 \in D PROVE m \in D
  <2>1. PICK f \in [0 .. m - 1 -> A] : f[0] = a /\ \A k \in 1 .. m - 1 : f[k] = F[k][f[k - 1]] BY <1>2
  <2> DEFINE g == [i \in 0 .. m |-> IF i = m THEN F[m][f[m - 1]] ELSE f[i]]
  <2>2. m - 1 \in 0 .. m - 1 /\ f[m - 1] \in A BY <2>1
  <2>3. F[m][f[m - 1]] \in A BY <1>0, <2>2
  <2>4. \A i \in 0 .. m : i = m \/ i \in 0 .. m - 1 OBVIOUS
  <2>5. g \in [0 .. m -> A] BY <2>1, <2>3, <2>4
  <2>6. g[0] = a BY <2>1
  <2>7. ASSUME NEW k \in 1 .. m PROVE g[k] = F[k][g[k - 1]]
    <3>1. k \in 0 .. m /\ k - 1 \in 0 .. m /\ k - 1 # m BY <2>7
    <3>2. g[k - 1] = f[k - 1] BY <3>1
    <3>3. CASE k = m BY <3>1, <3>2, <3>3
    <3>4. CASE k # m
      <4>1. k \in 1 .. m - 1 BY <3>4
      <4>2. QED BY <2>1, <3>1, <3>2, <3>4, <4>1
    <3>5. QED BY <3>3, <3>4
  <2>8. m \in 0 .. n OBVIOUS
  <2> HIDE DEF g
  <2>9. QED BY <2>5, <2>6, <2>7, <2>8
<1>3. n \in 0 .. n OBVIOUS
<1> HIDE DEF D
<1>4. n \in D BY <1>1, <1>2, <1>3, Upto
<1>5. PICK f \in [0 .. n -> A] : f[0] = a /\ \A k \in 1 .. n : f[k] = F[k][f[k - 1]] BY <1>4 DEF D
<1>6. Iterates(f, n, A, a, F) BY <1>5, Zenon DEF Iterates
<1>7. QED BY <1>6, Zenon

-----------------------------------------------------------------------------
(* rod's elements.  After each command the slots are gone through in order *)
(* and an element that draws takes its place unless it is taken; a font is *)
(* counted by the elements that have it, at most so once one was lost.     *)
Spots == Range(EPlaces) \cup {"top_left"}
RodElem == [name : ENames \cup {""}, act : BOOLEAN, vis : BOOLEAN, place : Spots, filled : BOOLEAN,
            own : {0} \cup EOwn, font : 0 .. MaxFonts, shm : BOOLEAN, need : BOOLEAN, drawn : BOOLEAN,
            fresh : BOOLEAN, dirty : BOOLEAN, denied : BOOLEAN]
RodFont == [size : {0} \cup ESizes \cup EOwn, refs : Nat]
Having(es, f) == {i \in DOMAIN es : es[i].act /\ es[i].font = f}
Counts(es, fs, lost) ==
    /\ fs \in [1 .. MaxFonts -> RodFont]
    /\ \A f \in 1 .. MaxFonts : /\ fs[f].refs <= Cardinality(Having(es, f))
                                /\ ~lost => fs[f].refs = Cardinality(Having(es, f))
Drawable(kd, e) == e.act /\ e.vis /\ (e.act /\ kd[e.name] \in {"text", "change"} => e.filled)
Fontless(kd, e) ==
    e.act /\ \/ kd[e.name] \in {"text", "change", "receipt"} /\ e.font = 0
             \/ kd[e.name] = "image" /\ ~e.filled
Exclusive(kd, es) ==
    \A i \in 1 .. Len(es) :
        /\ es[i].shm => Drawable(kd, es[i])
        /\ \A j \in 1 .. Len(es) : i # j /\ es[i].shm /\ es[j].shm => es[i].place # es[j].place
        /\ Drawable(kd, es[i]) /\ ~es[i].shm /\ ~Fontless(kd, es[i]) /\ ~es[i].denied =>
              \E j \in 1 .. Len(es) : es[j].shm /\ es[j].place = es[i].place
RodInv ==
    /\ els \in Seq(RodElem) /\ Len(els) <= MaxElements /\ fsize \in ESizes /\ fontLost \in BOOLEAN
    /\ Counts(els, fonts, fontLost) /\ Exclusive(kinds, els)

LEMMA RodNumbers ==
    /\ MaxElements \in Nat /\ MaxFonts \in Nat /\ EPlaces \in Seq(STRING)
    /\ 0 \in 0 .. MaxFonts /\ \A f \in 1 .. MaxFonts : f \in 0 .. MaxFonts
    /\ \A f \in 0 .. MaxFonts : f # 0 => f \in 1 .. MaxFonts
BY RodConstants

\* What an element is, apart from what is drawn of it and where.
Bones(e, x) ==
    /\ x.name = e.name /\ x.act = e.act /\ x.vis = e.vis /\ x.place = e.place /\ x.filled = e.filled
    /\ x.own = e.own /\ x.font = e.font

BufferOf(e, a, b, c, x) ==
    /\ e \in RodElem /\ a \in BOOLEAN /\ b \in BOOLEAN /\ c \in BOOLEAN
    /\ x = [e EXCEPT !.shm = a, !.need = b, !.drawn = c, !.denied = c] \/ x = [e EXCEPT !.shm = a, !.drawn = c, !.denied = c]
Buffered(e, a, x) == x \in RodElem /\ Bones(e, x) /\ x.shm = a

LEMMA OtherMarks ==
    ASSUME NEW e, NEW a, NEW b, NEW c, NEW x, BufferOf(e, a, b, c, x)
    PROVE  Buffered(e, a, x)
<1>0. e \in RodElem /\ a \in BOOLEAN /\ b \in BOOLEAN /\ c \in BOOLEAN BY Zenon DEF BufferOf
<1>1. CASE x = [e EXCEPT !.shm = a, !.need = b, !.drawn = c, !.denied = c]
  <2>1. x \in RodElem BY <1>0, <1>1, ZenonT(30) DEF RodElem
  <2>2. x.name = e.name /\ x.act = e.act /\ x.vis = e.vis /\ x.place = e.place BY <1>0, <1>1, Zenon DEF RodElem
  <2>3. x.filled = e.filled /\ x.own = e.own /\ x.font = e.font /\ x.shm = a BY <1>0, <1>1, Zenon DEF RodElem
  <2>4. QED BY <2>1, <2>2, <2>3, Zenon DEF Buffered, Bones
<1>2. CASE x = [e EXCEPT !.shm = a, !.drawn = c, !.denied = c]
  <2>1. x \in RodElem BY <1>0, <1>2, ZenonT(30) DEF RodElem
  <2>2. x.name = e.name /\ x.act = e.act /\ x.vis = e.vis /\ x.place = e.place BY <1>0, <1>2, Zenon DEF RodElem
  <2>3. x.filled = e.filled /\ x.own = e.own /\ x.font = e.font /\ x.shm = a BY <1>0, <1>2, Zenon DEF RodElem
  <2>4. QED BY <2>1, <2>2, <2>3, Zenon DEF Buffered, Bones
<1>3. QED BY <1>1, <1>2, Zenon DEF BufferOf

LEMMA DeniedElem ==
    ASSUME NEW e \in RodElem, NEW t \in BOOLEAN, NEW x, x = [e EXCEPT !.denied = t]
    PROVE  x \in RodElem /\ Bones(e, x) /\ x.shm = e.shm /\ x.denied = t
<1>1. x \in RodElem BY ZenonT(30) DEF RodElem
<1>2. x.name = e.name /\ x.act = e.act /\ x.vis = e.vis /\ x.place = e.place BY Zenon DEF RodElem
<1>3. x.filled = e.filled /\ x.own = e.own /\ x.font = e.font /\ x.shm = e.shm /\ x.denied = t BY Zenon DEF RodElem
<1>4. QED BY <1>1, <1>2, <1>3, Zenon DEF Bones

LEMMA OneSynced ==
    ASSUME NEW kd, kd = kinds, NEW e \in RodElem, NEW taken, NEW x, x = Synced(e, taken)
    PROVE  /\ x \in RodElem /\ Bones(e, x)
           /\ x.shm => Drawable(kd, e) /\ e.place \notin taken
           /\ Drawable(kd, e) /\ ~Fontless(kd, e) /\ ~x.shm /\ ~x.denied => e.place \in taken
<1>1. elem_draws(e) <=> Drawable(kd, e) BY Zenon DEF elem_draws, Texty, Drawable
<1>2. Sizeless(e) <=> Fontless(kd, e) BY Zenon DEF Sizeless, Fontless
<1>3. PICK r \in BOOLEAN : r = Redraws(e) BY Zenon DEF Redraws, RodElem
<1>4. PICK t \in BOOLEAN, f \in BOOLEAN : t = TRUE /\ f = FALSE BY Zenon
<1>5. PICK y, z : /\ y = [e EXCEPT !.shm = t, !.need = r, !.drawn = f, !.denied = f]
                   /\ z = [e EXCEPT !.shm = f, !.drawn = f, !.denied = f] BY Zenon
<1>d. PICK w : w = [e EXCEPT !.denied = t] BY Zenon
<1>e. w \in RodElem /\ Bones(e, w) /\ w.shm = e.shm /\ w.denied = t BY <1>d, DeniedElem
<1>a. BufferOf(e, t, r, f, y) /\ BufferOf(e, f, r, f, z) BY <1>3, <1>4, <1>5, Zenon DEF BufferOf
<1>b. Buffered(e, t, y) BY <1>a, OtherMarks
<1>c. Buffered(e, f, z) BY <1>a, OtherMarks
<1>6. y \in RodElem /\ Bones(e, y) /\ y.shm = t BY <1>b, Zenon DEF Buffered
<1>7. z \in RodElem /\ Bones(e, z) /\ z.shm = f BY <1>c, Zenon DEF Buffered
<1>8. Bones(e, e) BY Zenon DEF Bones
<1>9. destroy_elem_shm(e) = z BY <1>4, <1>5, Zenon DEF destroy_elem_shm
<1>10. create_elem_shm(e) = IF Fontless(kd, e) THEN e ELSE IF e.name \in faults.bufs THEN w ELSE y
  BY <1>2, <1>3, <1>4, <1>5, <1>d, Zenon DEF create_elem_shm
<1>11. CASE Drawable(kd, e) /\ e.place \notin taken
  <2>1. x = IF e.shm THEN e ELSE create_elem_shm(e) BY <1>1, <1>11, Zenon DEF Synced
  <2>2. CASE e.shm BY <1>8, <1>11, <2>1, <2>2, Zenon
  <2>3. CASE ~e.shm /\ Fontless(kd, e) BY <1>8, <1>10, <1>11, <2>1, <2>3, Zenon
  <2>4. CASE ~e.shm /\ ~Fontless(kd, e) /\ e.name \notin faults.bufs BY <1>4, <1>6, <1>10, <1>11, <2>1, <2>4, Zenon
  <2>6. CASE ~e.shm /\ ~Fontless(kd, e) /\ e.name \in faults.bufs BY <1>4, <1>e, <1>10, <1>11, <2>1, <2>6, Zenon
  <2>5. QED BY <2>2, <2>3, <2>4, <2>6
<1>12. CASE ~(Drawable(kd, e) /\ e.place \notin taken)
  <2>1. x = z BY <1>1, <1>9, <1>12, Zenon DEF Synced
  <2>2. QED BY <1>4, <1>7, <1>12, <2>1, Zenon
<1>13. QED BY <1>11, <1>12

\* The slots after each round of rod_sync_shms.
Rounded(es, s, t) ==
    /\ s \in Seq(RodElem) /\ Len(s) = Len(es) /\ t[0] = {}
    /\ \A k \in 1 .. Len(es) : s[k] = Synced(es[k], t[k - 1])
    /\ \A k \in 1 .. Len(es) : t[k] = IF s[k].shm THEN t[k - 1] \cup {s[k].place} ELSE t[k - 1]

Between(n) == [es : [1 .. n -> RodElem], taken : SUBSET Spots]

SlotDone(y, w, n, k, x) ==
    /\ y.es[k] = x /\ \A i \in 1 .. n : i # k => y.es[i] = w.es[i]
    /\ y.taken = IF x.shm THEN w.taken \cup {x.place} ELSE w.taken

LEMMA SlotSynced ==
    ASSUME NEW n \in Nat, NEW w \in Between(n), NEW k \in 1 .. n, NEW x, x = Synced(w.es[k], w.taken)
    PROVE  SyncSlot(w, k) \in Between(n) /\ SlotDone(SyncSlot(w, k), w, n, k, x)
<1>1. PICK u \in [1 .. n -> RodElem], v \in SUBSET Spots : u = w.es /\ v = w.taken BY Zenon DEF Between
<1>2. PICK kd : kd = kinds BY Zenon
<1>3. PICK e \in RodElem : e = u[k] BY Zenon
<1>4. x = Synced(e, v) BY <1>1, <1>3, Zenon
<1>5. x \in RodElem BY <1>2, <1>4, OneSynced
<1>6. x.place \in Spots BY <1>5, Zenon DEF RodElem
<1>7. PICK p, q : p = [u EXCEPT ![k] = x] /\ q = IF x.shm THEN v \cup {x.place} ELSE v BY Zenon
<1>8. p \in [1 .. n -> RodElem] /\ p[k] = x /\ \A i \in 1 .. n : i # k => p[i] = u[i] BY <1>5, <1>7, Zenon
<1>9. q \in SUBSET Spots BY <1>6, <1>7, Zenon
<1>10. PICK y : y = SyncSlot(w, k) BY Zenon
<1>11. y = [es |-> p, taken |-> q] BY <1>1, <1>7, <1>10, Zenon DEF SyncSlot
<1>12. y.es = p /\ y.taken = q BY <1>11, Zenon
<1>13. y \in Between(n) BY <1>8, <1>9, <1>11, Zenon DEF Between
<1>14. QED BY <1>1, <1>7, <1>8, <1>10, <1>12, <1>13, Zenon DEF SlotDone

LEMMA SyncRounds ==
    ASSUME NEW es \in Seq(RodElem), NEW n \in Nat, n = Len(es), NEW s, s = rod_sync_shms(es)
    PROVE  \E t : Rounded(es, s, t)
<1>1. PICK A : A = Between(n) BY Zenon
<1>2. PICK a : a = [es |-> es, taken |-> {}] BY Zenon
<1>3. es \in [1 .. n -> RodElem] OBVIOUS
<1>4. a \in A /\ a.es = es /\ a.taken = {}
  <2>1. a \in A BY <1>1, <1>2, <1>3, Zenon DEF Between
  <2>2. QED BY <1>2, <2>1, Zenon
<1>a. \A w \in A : \A k \in 1 .. n : SyncSlot(w, k) \in A
  <2>1. ASSUME NEW w \in A, NEW k \in 1 .. n PROVE SyncSlot(w, k) \in A
    <3>1. PICK x : x = Synced(w.es[k], w.taken) BY Zenon
    <3>2. w \in Between(n) BY <1>1, Zenon
    <3>3. SyncSlot(w, k) \in Between(n) BY <3>1, <3>2, SlotSynced
    <3>4. QED BY <1>1, <3>3, Zenon
  <2>2. QED BY <2>1, Zenon
<1>6. PICK F : F = [k \in 1 .. n |-> [w \in A |-> SyncSlot(w, k)]] BY Zenon
<1>7. F \in Rounds(n, A) BY <1>a, <1>6, Zenon DEF Rounds
<1>8. PICK f : Iterates(f, n, A, a, F) BY <1>4, <1>7, IterationExists, Zenon
<1>9. f \in [0 .. n -> A] /\ f[0] = a /\ \A k \in 1 .. n : f[k] = F[k][f[k - 1]] BY <1>8, Zenon DEF Iterates
<1>10. \A k \in 1 .. n : k - 1 \in 0 .. n /\ k \in 0 .. n /\ k # 0 OBVIOUS
<1>11. \A k \in 1 .. n : f[k] = SyncSlot(f[k - 1], k) BY <1>6, <1>9, <1>10, Zenon
<1>12. \A k \in 0 .. n : k = 0 \/ k \in 1 .. n OBVIOUS
<1>13. f = [k \in 0 .. n |-> IF k = 0 THEN a ELSE SyncSlot(f[k - 1], k)] BY <1>9, <1>11, <1>12, Zenon
<1>14. PICK g : g = (CHOOSE c : c = [k \in 0 .. n |-> IF k = 0 THEN a ELSE SyncSlot(c[k - 1], k)]) BY Zenon
<1>15. g = [k \in 0 .. n |-> IF k = 0 THEN a ELSE SyncSlot(g[k - 1], k)] BY <1>13, <1>14, Zenon
<1>16. 0 \in 0 .. n /\ n \in 0 .. n OBVIOUS
<1>17. g[0] = a /\ \A k \in 1 .. n : g[k] = SyncSlot(g[k - 1], k) BY <1>10, <1>15, <1>16, Zenon
<1>18. s = g[n].es
  <2>1. rod_sync_shms(es) = (CHOOSE c : c = [k \in 0 .. Len(es) |->
            IF k = 0 THEN [es |-> es, taken |-> {}] ELSE SyncSlot(c[k - 1], k)])[Len(es)].es
    BY Zenon DEF rod_sync_shms
  <2>2. QED BY <1>2, <1>14, <2>1, Zenon
<1>19. \A k \in 0 .. n : g[k] \in A
  <2>1. PICK D : D = {k \in 0 .. n : g[k] \in A} BY Zenon
  <2>2. 0 \in D BY <1>4, <1>16, <1>17, <2>1, Zenon
  <2>3. \A k \in 1 .. n : k - 1 \in D => k \in D BY <1>a, <1>10, <1>17, <2>1, Zenon
  <2>4. \A k \in 0 .. n : k \in D BY <2>2, <2>3, Upto, Zenon
  <2>5. QED BY <2>1, <2>4, Zenon
<1>b. PICK xs : xs = [k \in 1 .. n |-> Synced(g[k - 1].es[k], g[k - 1].taken)] BY Zenon
<1>20. ASSUME NEW k \in 1 .. n
       PROVE  /\ g[k].es[k] = xs[k] /\ \A i \in 1 .. n : i # k => g[k].es[i] = g[k - 1].es[i]
              /\ g[k].taken = IF xs[k].shm THEN g[k - 1].taken \cup {xs[k].place} ELSE g[k - 1].taken
              /\ xs[k] = Synced(g[k - 1].es[k], g[k - 1].taken)
  <2>1. PICK w \in Between(n) : w = g[k - 1] BY <1>1, <1>10, <1>19, Zenon
  <2>2. PICK x : x = xs[k] BY Zenon
  <2>3. x = Synced(w.es[k], w.taken) BY <1>b, <2>1, <2>2, Zenon
  <2>4. SlotDone(SyncSlot(w, k), w, n, k, x) BY <2>1, <2>3, SlotSynced
  <2>5. g[k] = SyncSlot(w, k) BY <1>17, <2>1, Zenon
  <2>6. QED BY <2>1, <2>2, <2>3, <2>4, <2>5, Zenon DEF SlotDone
<1>22. \A k \in 0 .. n : \A i \in 1 .. n : i > k => g[k].es[i] = es[i]
  <2>1. PICK D : D = {k \in 0 .. n : \A i \in 1 .. n : i > k => g[k].es[i] = es[i]} BY Zenon
  <2>2. 0 \in D BY <1>4, <1>16, <1>17, <2>1, Zenon
  <2>3. ASSUME NEW k \in 1 .. n, k - 1 \in D PROVE k \in D
    <3>1. \A i \in 1 .. n : i > k => i # k /\ i > k - 1 OBVIOUS
    <3>2. \A i \in 1 .. n : i # k => g[k].es[i] = g[k - 1].es[i] BY <1>20, Zenon
    <3>3. QED BY <1>10, <2>1, <2>3, <3>1, <3>2, Zenon
  <2>4. \A k \in 0 .. n : k \in D BY <2>2, <2>3, Upto, Zenon
  <2>5. QED BY <2>1, <2>4, Zenon
<1>23. \A k \in 0 .. n : \A i \in 1 .. n : i <= k => g[k].es[i] = Synced(es[i], g[i - 1].taken)
  <2>1. PICK D : D = {k \in 0 .. n : \A i \in 1 .. n : i <= k => g[k].es[i] = Synced(es[i], g[i - 1].taken)} BY Zenon
  <2>2. 0 \in D
    <3>1. \A i \in 1 .. n : ~(i <= 0) OBVIOUS
    <3>2. QED BY <1>16, <2>1, <3>1, Zenon
  <2>3. ASSUME NEW k \in 1 .. n, k - 1 \in D PROVE k \in D
    <3>1. \A i \in 1 .. n : i <= k => i = k \/ (i # k /\ i <= k - 1) OBVIOUS
    <3>2. \A i \in 1 .. n : i # k => g[k].es[i] = g[k - 1].es[i] BY <1>20, Zenon
    <3>3. k > k - 1 OBVIOUS
    <3>4. g[k - 1].es[k] = es[k] BY <1>10, <1>22, <3>3, Zenon
    <3>5. g[k].es[k] = Synced(es[k], g[k - 1].taken) BY <1>20, <3>4, Zenon
    <3>6. QED BY <1>10, <2>1, <2>3, <3>1, <3>2, <3>5, Zenon
  <2>4. \A k \in 0 .. n : k \in D BY <2>2, <2>3, Upto, Zenon
  <2>5. QED BY <2>1, <2>4, Zenon
<1>24. PICK t : t = [k \in 0 .. n |-> g[k].taken] BY Zenon
<1>25. ASSUME NEW k \in 1 .. n
       PROVE  s[k] = Synced(es[k], t[k - 1]) /\ t[k] = IF s[k].shm THEN t[k - 1] \cup {s[k].place} ELSE t[k - 1]
  <2>1. k <= n /\ k > k - 1 OBVIOUS
  <2>7. g[n].es[k] = Synced(es[k], g[k - 1].taken) BY <1>16, <1>23, <2>1, Zenon
  <2>8. t[k - 1] = g[k - 1].taken BY <1>10, <1>24, Zenon
  <2>2. s[k] = Synced(es[k], t[k - 1]) BY <1>18, <2>7, <2>8, Zenon
  <2>3. g[k - 1].es[k] = es[k] BY <1>10, <1>22, <2>1, Zenon
  <2>4. t[k] = g[k].taken /\ t[k - 1] = g[k - 1].taken BY <1>10, <1>24, Zenon
  <2>5. xs[k] = s[k] BY <1>20, <2>2, <2>3, <2>4, Zenon
  <2>6. QED BY <1>20, <2>2, <2>4, <2>5, Zenon
<1>26. t[0] = {} BY <1>4, <1>16, <1>17, <1>24, Zenon
<1>27. s \in [1 .. n -> RodElem]
  <2>1. g[n] \in A BY <1>16, <1>19, Zenon
  <2>2. QED BY <1>1, <1>18, <2>1, Zenon DEF Between
<1>28. s \in Seq(RodElem) /\ Len(s) = n BY <1>27
<1>29. Rounded(es, s, t) BY <1>25, <1>26, <1>28, Zenon DEF Rounded
<1>30. QED BY <1>29, Zenon

LEMMA RoundsExclusive ==
    ASSUME NEW kd, kd = kinds, NEW es \in Seq(RodElem), NEW s, NEW t, Rounded(es, s, t)
    PROVE  Exclusive(kd, s) /\ s \in Seq(RodElem) /\ Len(s) = Len(es) /\ \A i \in 1 .. Len(es) : Bones(es[i], s[i])
<1>1. PICK n \in Nat : n = Len(es) BY LenProperties, Zenon
<1>2. /\ s \in Seq(RodElem) /\ Len(s) = n /\ t[0] = {}
      /\ \A k \in 1 .. n : s[k] = Synced(es[k], t[k - 1])
      /\ \A k \in 1 .. n : t[k] = IF s[k].shm THEN t[k - 1] \cup {s[k].place} ELSE t[k - 1]
  BY <1>1, Zenon DEF Rounded
<1>3. ASSUME NEW i \in 1 .. n
      PROVE  /\ Bones(es[i], s[i]) /\ (s[i].shm => Drawable(kd, s[i]) /\ s[i].place \notin t[i - 1])
             /\ Drawable(kd, s[i]) /\ ~Fontless(kd, s[i]) /\ ~s[i].shm /\ ~s[i].denied => s[i].place \in t[i - 1]
  <2>1. es[i] \in RodElem BY <1>1, ElementOfSeq
  <2>2. PICK e \in RodElem : e = es[i] BY <2>1, Zenon
  <2>3. PICK x, b : x = s[i] /\ b = t[i - 1] BY Zenon
  <2>4. x = Synced(e, b) BY <1>2, <2>2, <2>3, Zenon
  <2>5. /\ x \in RodElem /\ Bones(e, x)
        /\ x.shm => Drawable(kd, e) /\ e.place \notin b
        /\ Drawable(kd, e) /\ ~Fontless(kd, e) /\ ~x.shm /\ ~x.denied => e.place \in b
    BY <2>4, OneSynced
  <2>6. x.name = e.name /\ x.act = e.act /\ x.vis = e.vis /\ x.place = e.place /\ x.filled = e.filled /\ x.font = e.font
    BY <2>5, Zenon DEF Bones
  <2>7. (Drawable(kd, x) <=> Drawable(kd, e)) /\ (Fontless(kd, x) <=> Fontless(kd, e))
    BY <2>6, Zenon DEF Drawable, Fontless
  <2>8. QED BY <2>2, <2>3, <2>5, <2>6, <2>7, Zenon
<1>4. \A k \in 0 .. n : \A i \in 1 .. n : i <= k /\ s[i].shm => s[i].place \in t[k]
  <2>1. PICK D : D = {k \in 0 .. n : \A i \in 1 .. n : i <= k /\ s[i].shm => s[i].place \in t[k]} BY Zenon
  <2>2. 0 \in D
    <3>1. 0 \in 0 .. n /\ \A i \in 1 .. n : ~(i <= 0) OBVIOUS
    <3>2. QED BY <2>1, <3>1, Zenon
  <2>3. ASSUME NEW k \in 1 .. n, k - 1 \in D PROVE k \in D
    <3>1. k \in 0 .. n /\ \A i \in 1 .. n : i <= k => i = k \/ i <= k - 1 OBVIOUS
    <3>2. t[k] = IF s[k].shm THEN t[k - 1] \cup {s[k].place} ELSE t[k - 1] BY <1>2, Zenon
    <3>3. QED BY <2>1, <2>3, <3>1, <3>2, Zenon
  <2>4. \A k \in 0 .. n : k \in D BY <2>2, <2>3, Upto, Zenon
  <2>5. QED BY <2>1, <2>4, Zenon
<1>5. \A k \in 0 .. n : \A p \in t[k] : \E i \in 1 .. n : s[i].shm /\ s[i].place = p
  <2>1. PICK D : D = {k \in 0 .. n : \A p \in t[k] : \E i \in 1 .. n : s[i].shm /\ s[i].place = p} BY Zenon
  <2>2. 0 \in D
    <3>1. 0 \in 0 .. n OBVIOUS
    <3>2. QED BY <1>2, <2>1, <3>1, Zenon
  <2>3. ASSUME NEW k \in 1 .. n, k - 1 \in D PROVE k \in D
    <3>1. k \in 0 .. n OBVIOUS
    <3>2. t[k] = IF s[k].shm THEN t[k - 1] \cup {s[k].place} ELSE t[k - 1] BY <1>2, Zenon
    <3>3. QED BY <2>1, <2>3, <3>1, <3>2, Zenon
  <2>4. \A k \in 0 .. n : k \in D BY <2>2, <2>3, Upto, Zenon
  <2>5. QED BY <2>1, <2>4, Zenon
<1>6. \A k \in 1 .. n : k - 1 \in 0 .. n OBVIOUS
<1>7. ASSUME NEW i \in 1 .. n, NEW j \in 1 .. n, i < j, s[i].shm, s[j].shm PROVE s[i].place # s[j].place
  <2>1. i <= j - 1 BY <1>7
  <2>2. s[i].place \in t[j - 1] BY <1>4, <1>6, <1>7, <2>1, Zenon
  <2>3. s[j].place \notin t[j - 1] BY <1>3, <1>7, Zenon
  <2>4. QED BY <2>2, <2>3, Zenon
<1>8. \A i, j \in 1 .. n : i # j => i < j \/ j < i OBVIOUS
<1>9. \A i, j \in 1 .. n : i # j /\ s[i].shm /\ s[j].shm => s[i].place # s[j].place BY <1>7, <1>8, Zenon
<1>10. \A i \in 1 .. n : Drawable(kd, s[i]) /\ ~s[i].shm /\ ~Fontless(kd, s[i]) /\ ~s[i].denied =>
              \E j \in 1 .. n : s[j].shm /\ s[j].place = s[i].place
  BY <1>3, <1>5, <1>6, Zenon
<1>11. Exclusive(kd, s) BY <1>2, <1>3, <1>9, <1>10, Zenon DEF Exclusive
<1>12. QED BY <1>1, <1>2, <1>3, <1>11, Zenon

LEMMA SameHolders ==
    ASSUME NEW es \in Seq(RodElem), NEW s \in Seq(RodElem), Len(s) = Len(es),
           \A i \in 1 .. Len(es) : Bones(es[i], s[i]), NEW fs, NEW lost, Counts(es, fs, lost)
    PROVE  Counts(s, fs, lost)
<1>1. DOMAIN s = 1 .. Len(es) /\ DOMAIN es = 1 .. Len(es) BY LenProperties
<1>2. \A i \in 1 .. Len(es) : s[i].act = es[i].act /\ s[i].font = es[i].font BY Zenon DEF Bones
<1>3. \A f : Having(s, f) = Having(es, f) BY <1>1, <1>2, Zenon DEF Having
<1>4. QED BY <1>3, Zenon DEF Counts

LEMMA Synchronised ==
    ASSUME NEW kd, kd = kinds, NEW es \in Seq(RodElem), NEW s, s = rod_sync_shms(es),
           NEW fs, NEW lost, Counts(es, fs, lost)
    PROVE  s \in Seq(RodElem) /\ Len(s) = Len(es) /\ Counts(s, fs, lost) /\ Exclusive(kd, s)
<1>1. PICK n \in Nat : n = Len(es) BY LenProperties, Zenon
<1>2. PICK t : Rounded(es, s, t) BY <1>1, SyncRounds
<1>3. Exclusive(kd, s) /\ s \in Seq(RodElem) /\ Len(s) = Len(es) /\ \A i \in 1 .. Len(es) : Bones(es[i], s[i])
  BY <1>2, RoundsExclusive
<1>4. Counts(s, fs, lost) BY <1>3, SameHolders
<1>5. QED BY <1>3, <1>4, Zenon

\* What leaves an element's bones and its buffer leaves all that is said of it.
LEMMA OnlyMarks ==
    ASSUME NEW kd, NEW es \in Seq(RodElem), NEW n \in Nat, n = Len(es), NEW s \in [1 .. n -> RodElem],
           NEW fs, NEW lost, Counts(es, fs, lost), Exclusive(kd, es),
           \A i \in 1 .. n : Bones(es[i], s[i]) /\ s[i].shm = es[i].shm /\ s[i].denied = es[i].denied
    PROVE  s \in Seq(RodElem) /\ Len(s) = Len(es) /\ Counts(s, fs, lost) /\ Exclusive(kd, s)
<1>1. s \in Seq(RodElem) /\ Len(s) = Len(es) OBVIOUS
<1>2. Counts(s, fs, lost) BY <1>1, SameHolders
<1>3. \A i \in 1 .. n : /\ s[i].name = es[i].name /\ s[i].act = es[i].act /\ s[i].vis = es[i].vis
                        /\ s[i].place = es[i].place /\ s[i].filled = es[i].filled /\ s[i].font = es[i].font
  BY Zenon DEF Bones
<1>4. \A i \in 1 .. n : (Drawable(kd, s[i]) <=> Drawable(kd, es[i])) /\ (Fontless(kd, s[i]) <=> Fontless(kd, es[i]))
  BY <1>3, Zenon DEF Drawable, Fontless
<1>5. ASSUME NEW i \in 1 .. n
      PROVE  /\ s[i].shm => Drawable(kd, s[i])
             /\ \A j \in 1 .. n : i # j /\ s[i].shm /\ s[j].shm => s[i].place # s[j].place
             /\ Drawable(kd, s[i]) /\ ~s[i].shm /\ ~Fontless(kd, s[i]) /\ ~s[i].denied =>
                   \E j \in 1 .. n : s[j].shm /\ s[j].place = s[i].place
  <2>1. s[i].shm => Drawable(kd, s[i]) BY <1>4, Zenon DEF Exclusive
  <2>a. \A j \in 1 .. n : i # j /\ es[i].shm /\ es[j].shm => es[i].place # es[j].place BY Zenon DEF Exclusive
  <2>b. Drawable(kd, es[i]) /\ ~es[i].shm /\ ~Fontless(kd, es[i]) /\ ~es[i].denied => \E j \in 1 .. n : es[j].shm /\ es[j].place = es[i].place
    BY Zenon DEF Exclusive
  <2>2. ASSUME NEW j \in 1 .. n, i # j, s[i].shm, s[j].shm PROVE s[i].place # s[j].place
    <3>1. es[i].shm /\ es[j].shm /\ s[i].place = es[i].place /\ s[j].place = es[j].place BY <1>3, <2>2, Zenon
    <3>2. QED BY <2>2, <2>a, <3>1, Zenon
  <2>3. Drawable(kd, s[i]) /\ ~s[i].shm /\ ~Fontless(kd, s[i]) /\ ~s[i].denied => \E j \in 1 .. n : s[j].shm /\ s[j].place = s[i].place
    <3>1. HAVE Drawable(kd, s[i]) /\ ~s[i].shm /\ ~Fontless(kd, s[i]) /\ ~s[i].denied
    <3>2. Drawable(kd, es[i]) /\ ~es[i].shm /\ ~Fontless(kd, es[i]) /\ ~es[i].denied BY <1>4, <3>1, Zenon
    <3>3. PICK j \in 1 .. n : es[j].shm /\ es[j].place = es[i].place BY <2>b, <3>2, Zenon
    <3>4. s[j].shm /\ s[j].place = s[i].place BY <1>3, <3>3, Zenon
    <3>5. QED BY <3>4, Zenon
  <2>4. QED BY <2>1, <2>2, <2>3, Zenon
<1>6. Exclusive(kd, s) BY <1>1, <1>5, Zenon DEF Exclusive
<1>7. QED BY <1>1, <1>2, <1>6, Zenon

LEMMA VacantTyped == Vacant \in RodElem /\ Vacant.act = FALSE
<1>1. 0 \in 0 .. MaxFonts BY RodNumbers
<1>2. Vacant \in RodElem BY <1>1, Zenon DEF Vacant, RodElem, Spots
<1>3. QED BY <1>2, Zenon DEF Vacant

Swapped(es, i, x, s) ==
    /\ s[i] = x /\ \A j \in 1 .. Len(es) : j # i => s[j] = es[j]
    /\ \A f : Having(s, f) = IF x.act /\ x.font = f THEN Having(es, f) \cup {i} ELSE Having(es, f) \ {i}

LEMMA SlotChanged ==
    ASSUME NEW es \in Seq(RodElem), NEW i \in 1 .. Len(es), NEW x \in RodElem, NEW s, s = [es EXCEPT ![i] = x]
    PROVE  s \in Seq(RodElem) /\ Len(s) = Len(es) /\ Swapped(es, i, x, s)
<1>1. s \in Seq(RodElem) /\ Len(s) = Len(es) BY ExceptSeq
<1>2. DOMAIN es = 1 .. Len(es) /\ DOMAIN s = 1 .. Len(es) BY <1>1, LenProperties
<1>3. s[i] = x /\ \A j \in 1 .. Len(es) : j # i => s[j] = es[j] BY <1>2, Zenon
<1>4. ASSUME NEW f PROVE Having(s, f) = IF x.act /\ x.font = f THEN Having(es, f) \cup {i} ELSE Having(es, f) \ {i}
  <2>1. \A j : j \in Having(s, f) <=> IF j = i THEN x.act /\ x.font = f ELSE j \in Having(es, f)
    BY <1>2, <1>3, Zenon DEF Having
  <2>2. QED BY <2>1, Zenon
<1>5. QED BY <1>1, <1>3, <1>4, Zenon DEF Swapped

InUse(es, i) == es[i].act
Idle(es, i) == es[i].act = FALSE
Fits(y, f) == y.act = TRUE /\ y.font = f

LEMMA HoldersFinite ==
    ASSUME NEW es \in Seq(RodElem), NEW f
    PROVE  IsFiniteSet(Having(es, f)) /\ Cardinality(Having(es, f)) \in Nat /\ Cardinality(Having(es, f)) <= Len(es)
<1>1. PICK n \in Nat : n = Len(es) BY LenProperties, Zenon
<1>2. DOMAIN es = 1 .. n BY <1>1, LenProperties, Zenon
<1>3. Having(es, f) \subseteq 1 .. n BY <1>2, Zenon DEF Having
<1>4. IsFiniteSet(1 .. n) /\ Cardinality(1 .. n) = n BY FS_Interval
<1>5. PICK S : S = Having(es, f) BY Zenon
<1>6. IsFiniteSet(S) /\ Cardinality(S) <= Cardinality(1 .. n) BY <1>3, <1>4, <1>5, FS_Subset
<1>7. Cardinality(S) \in Nat BY <1>6, FS_CardinalityType
<1>8. QED BY <1>1, <1>4, <1>5, <1>6, <1>7, Zenon

\* An element's going frees the font it had.
FontLeft(es, i, fs, lost, s, r) ==
    /\ es \in Seq(RodElem) /\ i \in 1 .. Len(es) /\ InUse(es, i) /\ Counts(es, fs, lost)
    /\ s = [es EXCEPT ![i] = Vacant] /\ r = release_font(fs, es[i].font)
FontGone(es, i, lost, s, r) == s \in Seq(RodElem) /\ Len(s) = Len(es) /\ Idle(s, i) /\ Counts(s, r, lost)

LEMMA FontLetGo ==
    ASSUME NEW es, NEW i, NEW fs, NEW lost, NEW s, NEW r, FontLeft(es, i, fs, lost, s, r)
    PROVE  FontGone(es, i, lost, s, r)
<1>a. es \in Seq(RodElem) /\ i \in 1 .. Len(es) /\ InUse(es, i) /\ Counts(es, fs, lost) BY Zenon DEF FontLeft
<1>b. s = [es EXCEPT ![i] = Vacant] /\ r = release_font(fs, es[i].font) BY Zenon DEF FontLeft
<1>1. PICK x \in RodElem : x = Vacant /\ x.act = FALSE BY VacantTyped, Zenon
<1>2. s = [es EXCEPT ![i] = x] BY <1>b, <1>1, Zenon
<1>3. s \in Seq(RodElem) /\ Len(s) = Len(es) /\ Swapped(es, i, x, s) BY <1>a, <1>2, SlotChanged
<1>4. s[i] = x /\ \A f : Having(s, f) = Having(es, f) \ {i} BY <1>1, <1>3, Zenon DEF Swapped
<1>5. es[i] \in RodElem BY <1>a, ElementOfSeq
<1>6. PICK g \in 0 .. MaxFonts : g = es[i].font BY <1>5, Zenon DEF RodElem
<1>7. fs \in [1 .. MaxFonts -> RodFont] BY <1>a, Zenon DEF Counts
<1>8. r = IF g = 0 \/ fs[g].refs = 0 THEN fs ELSE [fs EXCEPT ![g].refs = @ - 1] BY <1>b, <1>6, Zenon DEF release_font
<1>9. r \in [1 .. MaxFonts -> RodFont] /\ \A f \in 1 .. MaxFonts :
        r[f].refs = IF f = g /\ fs[f].refs # 0 THEN fs[f].refs - 1 ELSE fs[f].refs
  <2>1. CASE g = 0 \/ fs[g].refs = 0
    <3>1. r = fs BY <1>8, <2>1, Zenon
    <3>2. \A f \in 1 .. MaxFonts : f # 0 OBVIOUS
    <3>3. QED BY <1>7, <2>1, <3>1, <3>2, Zenon
  <2>2. CASE g # 0 /\ fs[g].refs # 0
    <3>1. g \in 1 .. MaxFonts BY <2>2, RodNumbers, Zenon
    <3>2. PICK z : z = [fs[g] EXCEPT !.refs = fs[g].refs - 1] BY Zenon
    <3>3. r = [fs EXCEPT ![g] = z] BY <1>8, <2>2, <3>2, Zenon
    <3>4. fs[g] \in RodFont BY <1>7, <3>1, Zenon
    <3>5. PICK q, c : q = fs[g].size /\ c = fs[g].refs /\ q \in {0} \cup ESizes \cup EOwn /\ c \in Nat BY <3>4, Zenon DEF RodFont
    <3>6. c - 1 \in Nat BY <2>2, <3>5
    <3>7. z \in RodFont /\ z.refs = c - 1
      <4>1. z = [size |-> q, refs |-> c - 1] BY <3>2, <3>4, <3>5, Zenon DEF RodFont
      <4>2. QED BY <3>5, <3>6, <4>1, Zenon DEF RodFont
    <3>8. r \in [1 .. MaxFonts -> RodFont] BY <1>7, <3>3, <3>7, Zenon
    <3>9. r[g] = z /\ \A f \in 1 .. MaxFonts : f # g => r[f] = fs[f] BY <1>7, <3>1, <3>3, Zenon
    <3>10. QED BY <2>2, <3>5, <3>7, <3>8, <3>9, Zenon
  <2>3. QED BY <2>1, <2>2, Zenon
<1>10. ASSUME NEW f \in 1 .. MaxFonts
       PROVE  r[f].refs <= Cardinality(Having(s, f)) /\ (~lost => r[f].refs = Cardinality(Having(s, f)))
  <2>1. PICK c, d, m, n : c = Cardinality(Having(es, f)) /\ d = Cardinality(Having(s, f)) /\ m = fs[f].refs /\ n = r[f].refs
    BY Zenon
  <2>2. c \in Nat /\ IsFiniteSet(Having(es, f)) BY <1>a, <2>1, HoldersFinite
  <2>3. m \in Nat BY <1>7, <2>1, Zenon DEF RodFont
  <2>4. m <= c /\ (~lost => m = c) BY <1>a, <2>1, Zenon DEF Counts
  <2>5. n = IF f = g /\ m # 0 THEN m - 1 ELSE m BY <1>9, <2>1, Zenon
  <2>6. CASE f = g
    <3>1. DOMAIN es = 1 .. Len(es) BY <1>a, LenProperties
    <3>2. i \in Having(es, f) BY <1>a, <1>6, <2>6, <3>1, Zenon DEF Having, InUse
    <3>3. d = c - 1 /\ c >= 1
      <4>1. PICK S : S = Having(es, f) BY Zenon
      <4>2. i \in S /\ IsFiniteSet(S) BY <2>2, <3>2, <4>1, Zenon
      <4>3. Cardinality(S \ {i}) = Cardinality(S) - 1 BY <4>2, FS_RemoveElement
      <4>4. S \ {i} = Having(s, f) BY <1>4, <4>1, Zenon
      <4>5. IsFiniteSet(S \ {i}) BY <4>2, FS_RemoveElement
      <4>6. Cardinality(S \ {i}) \in Nat BY <4>5, FS_CardinalityType
      <4>7. d \in Nat /\ d = c - 1 BY <2>1, <4>1, <4>3, <4>4, <4>6, Zenon
      <4>8. QED BY <2>2, <4>7
    <3>4. n <= d /\ (m = c => n = d) BY <2>2, <2>3, <2>4, <2>5, <2>6, <3>3
    <3>5. QED BY <2>1, <2>4, <3>4, Zenon
  <2>7. CASE f # g
    <3>1. es[i].font # f BY <1>6, <2>7, Zenon
    <3>2. i \notin Having(es, f) BY <3>1, Zenon DEF Having
    <3>3. Having(s, f) = Having(es, f) BY <1>4, <3>2, Zenon
    <3>4. d = c /\ n = m BY <2>1, <2>5, <2>7, <3>3, Zenon
    <3>5. QED BY <2>1, <2>4, <3>4, Zenon
  <2>8. QED BY <2>6, <2>7, Zenon
<1>11. Counts(s, r, lost) BY <1>9, <1>10, Zenon DEF Counts
<1>12. QED BY <1>1, <1>3, <1>4, <1>11, Zenon DEF Idle, FontGone

Sizes == {0} \cup ESizes \cup EOwn

LEMMA FontOfTyped == ASSUME NEW fs, NEW size PROVE FontOf(fs, size) \in 0 .. MaxFonts
<1>1. PICK A, B : A = {i \in 1 .. MaxFonts : fs[i].refs > 0 /\ fs[i].size = size} /\ B = {i \in 1 .. MaxFonts : fs[i].refs = 0 /\ size \notin faults.fonts}
  BY Zenon
<1>2. A \in SUBSET (1 .. MaxFonts) /\ B \in SUBSET (1 .. MaxFonts) BY <1>1, Zenon
<1>3. \A i \in 1 .. MaxFonts : i \in Nat OBVIOUS
<1>4. A \in SUBSET Nat /\ B \in SUBSET Nat BY <1>2, <1>3, Zenon
<1>5. A # {} => Min(A) \in A BY <1>4, SmallestNumber
<1>6. B # {} => Min(B) \in B BY <1>4, SmallestNumber
<1>7. FontOf(fs, size) = IF A # {} THEN Min(A) ELSE IF B # {} THEN Min(B) ELSE 0 BY <1>1, Zenon DEF FontOf
<1>8. QED BY <1>2, <1>5, <1>6, <1>7, RodNumbers, Zenon

FontWanted(es, i, fs, lost, size, y, g, s, r) ==
    /\ es \in Seq(RodElem) /\ i \in 1 .. Len(es) /\ Idle(es, i) /\ Counts(es, fs, lost) /\ size \in Sizes
    /\ y \in RodElem /\ g = FontOf(fs, size) /\ Fits(y, g)
    /\ s = [es EXCEPT ![i] = y] /\ r = rod_alloc_font(fs, size)
FontHad(es, lost, s, r) == s \in Seq(RodElem) /\ Len(s) = Len(es) /\ Counts(s, r, lost)

LEMMA FontTaken ==
    ASSUME NEW es, NEW i, NEW fs, NEW lost, NEW size, NEW y, NEW g, NEW s, NEW r,
           FontWanted(es, i, fs, lost, size, y, g, s, r)
    PROVE  FontHad(es, lost, s, r)
<1>a. es \in Seq(RodElem) /\ i \in 1 .. Len(es) /\ Idle(es, i) /\ Counts(es, fs, lost) /\ size \in Sizes
  BY Zenon DEF FontWanted
<1>b. y \in RodElem /\ g = FontOf(fs, size) /\ Fits(y, g) /\ s = [es EXCEPT ![i] = y] /\ r = rod_alloc_font(fs, size)
  BY Zenon DEF FontWanted
<1>1. s \in Seq(RodElem) /\ Len(s) = Len(es) /\ Swapped(es, i, y, s) BY <1>a, <1>b, SlotChanged
<1>2. g \in 0 .. MaxFonts /\ y.act = TRUE /\ y.font = g BY <1>b, FontOfTyped, Zenon DEF Fits
<1>3. \A f : i \notin Having(es, f) BY <1>a, Zenon DEF Having, Idle
<1>4. ASSUME NEW f PROVE Having(s, f) = IF f = g THEN Having(es, f) \cup {i} ELSE Having(es, f)
  <2>1. Having(s, f) = IF y.act /\ y.font = f THEN Having(es, f) \cup {i} ELSE Having(es, f) \ {i} BY <1>1, Zenon DEF Swapped
  <2>2. Having(es, f) \ {i} = Having(es, f) BY <1>3, Zenon
  <2>3. CASE f = g BY <1>2, <2>1, <2>3, Zenon
  <2>4. CASE f # g BY <1>2, <2>1, <2>2, <2>4, Zenon
  <2>5. QED BY <2>3, <2>4, Zenon
<1>5. fs \in [1 .. MaxFonts -> RodFont] BY <1>a, Zenon DEF Counts
<1>6. r = IF g = 0 THEN fs ELSE [fs EXCEPT ![g] = [size |-> size, refs |-> fs[g].refs + 1]]
  BY <1>b, Zenon DEF rod_alloc_font
<1>7. r \in [1 .. MaxFonts -> RodFont] /\ \A f \in 1 .. MaxFonts :
        r[f].refs = IF f = g THEN fs[f].refs + 1 ELSE fs[f].refs
  <2>1. CASE g = 0
    <3>1. r = fs BY <1>6, <2>1, Zenon
    <3>2. \A f \in 1 .. MaxFonts : f # 0 OBVIOUS
    <3>3. QED BY <1>5, <2>1, <3>1, <3>2, Zenon
  <2>2. CASE g # 0
    <3>1. g \in 1 .. MaxFonts BY <1>2, <2>2, RodNumbers, Zenon
    <3>2. fs[g] \in RodFont BY <1>5, <3>1, Zenon
    <3>3. PICK c \in Nat : c = fs[g].refs BY <3>2, Zenon DEF RodFont
    <3>4. c + 1 \in Nat BY <3>3
    <3>5. PICK z : z = [size |-> size, refs |-> c + 1] BY Zenon
    <3>6. z \in RodFont /\ z.refs = c + 1 BY <1>a, <3>4, <3>5, Zenon DEF RodFont, Sizes
    <3>7. r = [fs EXCEPT ![g] = z] BY <1>6, <2>2, <3>3, <3>5, Zenon
    <3>8. r \in [1 .. MaxFonts -> RodFont] BY <1>5, <3>6, <3>7, Zenon
    <3>9. r[g] = z /\ \A f \in 1 .. MaxFonts : f # g => r[f] = fs[f] BY <1>5, <3>1, <3>7, Zenon
    <3>10. QED BY <3>3, <3>6, <3>8, <3>9, Zenon
  <2>3. QED BY <2>1, <2>2, Zenon
<1>8. ASSUME NEW f \in 1 .. MaxFonts
      PROVE  r[f].refs <= Cardinality(Having(s, f)) /\ (~lost => r[f].refs = Cardinality(Having(s, f)))
  <2>1. PICK c, d, m, n : c = Cardinality(Having(es, f)) /\ d = Cardinality(Having(s, f)) /\ m = fs[f].refs /\ n = r[f].refs
    BY Zenon
  <2>2. c \in Nat /\ IsFiniteSet(Having(es, f)) BY <1>a, <2>1, HoldersFinite
  <2>3. m \in Nat BY <1>5, <2>1, Zenon DEF RodFont
  <2>4. m <= c /\ (~lost => m = c) BY <1>a, <2>1, Zenon DEF Counts
  <2>5. n = IF f = g THEN m + 1 ELSE m BY <1>7, <2>1, Zenon
  <2>6. d = IF f = g THEN c + 1 ELSE c
    <3>1. PICK S : S = Having(es, f) BY Zenon
    <3>2. IsFiniteSet(S) /\ i \notin S BY <1>3, <2>2, <3>1, Zenon
    <3>3. Cardinality(S \cup {i}) = Cardinality(S) + 1 BY <3>2, FS_AddElement
    <3>4. QED BY <1>4, <2>1, <3>1, <3>3, Zenon
  <2>7. n <= d /\ (m = c => n = d) BY <2>2, <2>3, <2>4, <2>5, <2>6
  <2>8. QED BY <2>1, <2>4, <2>7, Zenon
<1>9. Counts(s, r, lost) BY <1>7, <1>8, Zenon DEF Counts
<1>10. QED BY <1>1, <1>9, Zenon DEF FontHad

\* An element that needs no font, or changes in other ways.
FontAsIs(es, i, fs, lost, y, s) ==
    /\ es \in Seq(RodElem) /\ i \in 1 .. Len(es) /\ Counts(es, fs, lost) /\ y \in RodElem /\ s = [es EXCEPT ![i] = y]
    /\ (es[i].act = FALSE /\ y.font = 0) \/ (y.act = es[i].act /\ y.font = es[i].font)

LEMMA FontKept ==
    ASSUME NEW es, NEW i, NEW fs, NEW lost, NEW y, NEW s, FontAsIs(es, i, fs, lost, y, s)
    PROVE  FontHad(es, lost, s, fs)
<1>a. es \in Seq(RodElem) /\ i \in 1 .. Len(es) /\ Counts(es, fs, lost) /\ y \in RodElem /\ s = [es EXCEPT ![i] = y]
  BY Zenon DEF FontAsIs
<1>b. (es[i].act = FALSE /\ y.font = 0) \/ (y.act = es[i].act /\ y.font = es[i].font) BY Zenon DEF FontAsIs
<1>1. s \in Seq(RodElem) /\ Len(s) = Len(es) /\ Swapped(es, i, y, s) BY <1>a, SlotChanged
<1>2. \A f \in 1 .. MaxFonts : f # 0 OBVIOUS
<1>3. DOMAIN es = 1 .. Len(es) BY <1>a, LenProperties
<1>4. \A f \in 1 .. MaxFonts : (y.act /\ y.font = f) <=> i \in Having(es, f) BY <1>a, <1>b, <1>2, <1>3, Zenon DEF Having
<1>5. ASSUME NEW f \in 1 .. MaxFonts PROVE Having(s, f) = Having(es, f)
  <2>1. Having(s, f) = IF y.act /\ y.font = f THEN Having(es, f) \cup {i} ELSE Having(es, f) \ {i} BY <1>1, Zenon DEF Swapped
  <2>2. CASE i \in Having(es, f)
    <3>1. Having(s, f) = Having(es, f) \cup {i} BY <1>4, <2>1, <2>2, Zenon
    <3>2. QED BY <2>2, <3>1, Zenon
  <2>3. CASE i \notin Having(es, f)
    <3>1. Having(s, f) = Having(es, f) \ {i} BY <1>4, <2>1, <2>3, Zenon
    <3>2. QED BY <2>3, <3>1, Zenon
  <2>4. QED BY <2>2, <2>3, Zenon
<1>6. Counts(s, fs, lost) BY <1>a, <1>5, Zenon DEF Counts
<1>7. QED BY <1>1, <1>6, Zenon DEF FontHad

LEMMA FontDropped ==
    ASSUME NEW es \in Seq(RodElem), NEW i \in 1 .. Len(es), InUse(es, i), NEW fs, NEW lost, Counts(es, fs, lost),
           NEW r, r = release_font(fs, es[i].font), NEW t, t = TRUE
    PROVE  Counts(es, r, t)
<1>1. PICK s : s = [es EXCEPT ![i] = Vacant] BY Zenon
<1>2. s \in Seq(RodElem) /\ Len(s) = Len(es) /\ Idle(s, i) /\ Counts(s, r, lost)
  <2>1. FontLeft(es, i, fs, lost, s, r) BY <1>1, Zenon DEF FontLeft
  <2>2. FontGone(es, i, lost, s, r) BY <2>1, FontLetGo
  <2>3. QED BY <2>2, Zenon DEF FontGone
<1>3. PICK x \in RodElem : x = Vacant /\ x.act = FALSE BY VacantTyped, Zenon
<1>4. s = [es EXCEPT ![i] = x] BY <1>1, <1>3, Zenon
<1>5. Swapped(es, i, x, s) BY <1>4, SlotChanged
<1>6. ASSUME NEW f \in 1 .. MaxFonts PROVE r[f].refs <= Cardinality(Having(es, f))
  <2>1. PICK S, T : S = Having(s, f) /\ T = Having(es, f) BY Zenon
  <2>2. S \subseteq T BY <1>3, <1>5, <2>1, Zenon DEF Swapped
  <2>3. IsFiniteSet(T) BY <2>1, HoldersFinite
  <2>4. Cardinality(S) <= Cardinality(T) /\ IsFiniteSet(S) BY <2>2, <2>3, FS_Subset
  <2>5. Cardinality(S) \in Nat /\ Cardinality(T) \in Nat BY <2>3, <2>4, FS_CardinalityType
  <2>6. PICK m \in Nat : m = r[f].refs BY <1>2, Zenon DEF Counts, RodFont
  <2>7. m <= Cardinality(S) BY <1>2, <2>1, <2>6, Zenon DEF Counts
  <2>8. m <= Cardinality(T) BY <2>4, <2>5, <2>7
  <2>9. QED BY <2>1, <2>6, <2>8, Zenon
<1>7. QED BY <1>2, <1>6, Zenon DEF Counts

RefitOf(e, f, x) == x \in RodElem /\ x.act = e.act /\ x.font = f

LEMMA Refitted ==
    ASSUME NEW e \in RodElem, NEW f \in 0 .. MaxFonts, NEW o \in {0} \cup EOwn
    PROVE  RefitOf(e, f, [e EXCEPT !.font = f]) /\ RefitOf(e, f, [e EXCEPT !.own = o, !.font = f])
<1>1. PICK x, y : x = [e EXCEPT !.font = f] /\ y = [e EXCEPT !.own = o, !.font = f] BY Zenon
<1>2. x \in RodElem BY <1>1, Zenon DEF RodElem
<1>3. y \in RodElem BY <1>1, Zenon DEF RodElem
<1>4. x.act = e.act /\ x.font = f BY <1>1, Zenon DEF RodElem
<1>5. y.act = e.act /\ y.font = f BY <1>1, Zenon DEF RodElem
<1>6. QED BY <1>1, <1>2, <1>3, <1>4, <1>5, Zenon DEF RefitOf

LEMMA Unbuffered ==
    ASSUME NEW e \in RodElem
    PROVE  /\ destroy_elem_shm(e) \in RodElem /\ destroy_elem_shm(e).act = e.act /\ destroy_elem_shm(e).font = e.font
<1>1. PICK f \in BOOLEAN : f = FALSE BY Zenon
<1>2. PICK z : z = [e EXCEPT !.shm = f, !.drawn = f, !.denied = f] BY Zenon
<1>a. BufferOf(e, f, f, f, z) BY <1>1, <1>2, Zenon DEF BufferOf
<1>b. Buffered(e, f, z) BY <1>a, OtherMarks
<1>3. z \in RodElem /\ Bones(e, z) BY <1>b, Zenon DEF Buffered
<1>4. destroy_elem_shm(e) = z BY <1>1, <1>2, Zenon DEF destroy_elem_shm
<1>5. QED BY <1>3, <1>4, Zenon DEF Bones

Refonting(n) == [es : [1 .. n -> RodElem], fs : [1 .. MaxFonts -> RodFont], size : ESizes, lost : BOOLEAN]
Refonted(n) == {w \in Refonting(n) : Counts(w.es, w.fs, w.lost)}

LEMMA OneRefonted ==
    ASSUME NEW n \in Nat, NEW w \in Refonted(n), NEW k \in 1 .. n
    PROVE  Refont(w, k) \in Refonted(n)
<1>1. w \in Refonting(n) /\ Counts(w.es, w.fs, w.lost) BY Zenon DEF Refonted
<1>2. PICK es \in [1 .. n -> RodElem] : es = w.es BY <1>1, Zenon DEF Refonting
<1>3. PICK fs \in [1 .. MaxFonts -> RodFont] : fs = w.fs BY <1>1, Zenon DEF Refonting
<1>4. PICK size \in ESizes : size = w.size BY <1>1, Zenon DEF Refonting
<1>5. PICK lost \in BOOLEAN : lost = w.lost BY <1>1, Zenon DEF Refonting
<1>6. w = [es |-> es, fs |-> fs, size |-> size, lost |-> lost] BY <1>1, <1>2, <1>3, <1>4, <1>5, Zenon DEF Refonting
<1>7. PICK e \in RodElem : e = es[k] BY <1>2, Zenon
<1>8. PICK sz : sz = IF e.own > 0 THEN e.own ELSE size BY Zenon
<1>9. sz \in Sizes BY <1>8, Zenon DEF Sizes, RodElem
<1>10. PICK r : r = release_font(fs, e.font) BY Zenon
<1>11. PICK f \in 0 .. MaxFonts : f = FontOf(r, sz) BY FontOfTyped, Zenon
<1>12. PICK b : b = rod_alloc_font(r, sz) BY Zenon
<1>13. PICK y : y = destroy_elem_shm([e EXCEPT !.font = f]) BY Zenon
<1>14. Refont(w, k) = IF ~(e.act /\ Texty(e)) THEN w
                      ELSE IF f = 0 THEN [w EXCEPT !.fs = r, !.lost = TRUE]
                      ELSE [w EXCEPT !.fs = b, !.es = [es EXCEPT ![k] = y]]
  <2>1. [w EXCEPT !.fs = b, !.es = [@ EXCEPT ![k] = y]] = [w EXCEPT !.fs = b, !.es = [es EXCEPT ![k] = y]]
    BY <1>2, Zenon
  <2>2. QED BY <1>2, <1>3, <1>4, <1>7, <1>8, <1>10, <1>11, <1>12, <1>13, <2>1, Zenon DEF Refont
<1>15. es \in Seq(RodElem) /\ Len(es) = n /\ k \in 1 .. Len(es) BY <1>2
<1>16. Counts(es, fs, lost) BY <1>1, <1>2, <1>3, <1>5, Zenon
<1>17. CASE ~(e.act /\ Texty(e)) BY <1>14, <1>17, Zenon
<1>18. CASE e.act /\ Texty(e) /\ f = 0
  <2>1. PICK t \in BOOLEAN : t = TRUE BY Zenon
  <2>2. InUse(es, k) /\ r = release_font(fs, es[k].font) BY <1>7, <1>10, <1>18, Zenon DEF InUse
  <2>3. Counts(es, r, t) BY <1>15, <1>16, <2>1, <2>2, FontDropped
  <2>4. r \in [1 .. MaxFonts -> RodFont] BY <2>3, Zenon DEF Counts
  <2>5. PICK x : x = Refont(w, k) BY Zenon
  <2>6. x = [w EXCEPT !.fs = r, !.lost = t] BY <1>14, <1>18, <2>1, <2>5, Zenon
  <2>7. x = [es |-> es, fs |-> r, size |-> size, lost |-> t] BY <1>6, <2>6, Zenon
  <2>8. x \in Refonting(n) BY <2>4, <2>7, Zenon DEF Refonting
  <2>9. x.es = es /\ x.fs = r /\ x.lost = t BY <2>7, Zenon
  <2>10. QED BY <2>3, <2>5, <2>8, <2>9, Zenon DEF Refonted
<1>19. CASE e.act /\ Texty(e) /\ f # 0
  <2>1. PICK v : v = [es EXCEPT ![k] = Vacant] BY Zenon
  <2>2. InUse(es, k) /\ r = release_font(fs, es[k].font) BY <1>7, <1>10, <1>19, Zenon DEF InUse
  <2>3. v \in Seq(RodElem) /\ Len(v) = Len(es) /\ Idle(v, k) /\ Counts(v, r, lost)
    <3>1. FontLeft(es, k, fs, lost, v, r) BY <1>15, <1>16, <2>1, <2>2, Zenon DEF FontLeft
    <3>2. FontGone(es, k, lost, v, r) BY <3>1, FontLetGo
    <3>3. QED BY <3>2, Zenon DEF FontGone
  <2>4. 0 \in {0} \cup EOwn OBVIOUS
  <2>5. PICK z : z = [e EXCEPT !.font = f] BY Zenon
  <2>a. RefitOf(e, f, z) BY <2>4, <2>5, Refitted
  <2>6. z \in RodElem /\ z.act = e.act /\ z.font = f BY <2>a, Zenon DEF RefitOf
  <2>7. y \in RodElem /\ y.act = z.act /\ y.font = z.font BY <1>13, <2>5, <2>6, Unbuffered, Zenon
  <2>8. e.act = TRUE BY <1>19, Zenon DEF RodElem
  <2>9. Fits(y, f) BY <2>6, <2>7, <2>8, Zenon DEF Fits
  <2>10. PICK s : s = [v EXCEPT ![k] = y] BY Zenon
  <2>11. k \in 1 .. Len(v) BY <1>15, <2>3, Zenon
  <2>12. s \in Seq(RodElem) /\ Len(s) = Len(v) /\ Counts(s, b, lost)
    <3>1. FontWanted(v, k, r, lost, sz, y, f, s, b) BY <1>9, <1>11, <1>12, <2>3, <2>7, <2>9, <2>10, <2>11, Zenon DEF FontWanted
    <3>2. FontHad(v, lost, s, b) BY <3>1, FontTaken
    <3>3. QED BY <3>2, Zenon DEF FontHad
  <2>13. s = [es EXCEPT ![k] = y] BY <1>2, <2>1, <2>10, Zenon
  <2>14. s \in [1 .. n -> RodElem] BY <1>2, <2>7, <2>13, Zenon
  <2>15. b \in [1 .. MaxFonts -> RodFont] BY <2>12, Zenon DEF Counts
  <2>16. PICK x : x = Refont(w, k) BY Zenon
  <2>17. x = [w EXCEPT !.fs = b, !.es = s] BY <1>14, <1>19, <2>13, <2>16, Zenon
  <2>18. x = [es |-> s, fs |-> b, size |-> size, lost |-> lost] BY <1>6, <2>17, Zenon
  <2>19. x \in Refonting(n) BY <2>14, <2>15, <2>18, Zenon DEF Refonting
  <2>20. x.es = s /\ x.fs = b /\ x.lost = lost BY <2>18, Zenon
  <2>21. QED BY <2>12, <2>16, <2>19, <2>20, Zenon DEF Refonted
<1>20. QED BY <1>17, <1>18, <1>19, Zenon

LEMMA AllRefonted ==
    ASSUME NEW n \in Nat, NEW a \in Refonted(n), NEW r,
           r = (CHOOSE c : c = [k \in 0 .. n |-> IF k = 0 THEN a ELSE Refont(c[k - 1], k)])[n]
    PROVE  r \in Refonted(n)
<1>1. PICK A : A = Refonted(n) BY Zenon
<1>2. \A w \in A : \A k \in 1 .. n : Refont(w, k) \in A
  <2>1. ASSUME NEW w \in A, NEW k \in 1 .. n PROVE Refont(w, k) \in A
    <3>1. w \in Refonted(n) BY <1>1, Zenon
    <3>2. Refont(w, k) \in Refonted(n) BY <3>1, OneRefonted
    <3>3. QED BY <1>1, <3>2, Zenon
  <2>2. QED BY <2>1, Zenon
<1>3. PICK F : F = [k \in 1 .. n |-> [w \in A |-> Refont(w, k)]] BY Zenon
<1>4. F \in Rounds(n, A) BY <1>2, <1>3, Zenon DEF Rounds
<1>5. a \in A BY <1>1, Zenon
<1>6. PICK f : Iterates(f, n, A, a, F) BY <1>4, <1>5, IterationExists, Zenon
<1>7. f \in [0 .. n -> A] /\ f[0] = a /\ \A k \in 1 .. n : f[k] = F[k][f[k - 1]] BY <1>6, Zenon DEF Iterates
<1>8. \A k \in 1 .. n : k - 1 \in 0 .. n /\ k \in 0 .. n /\ k # 0 OBVIOUS
<1>9. \A k \in 1 .. n : f[k] = Refont(f[k - 1], k) BY <1>3, <1>7, <1>8, Zenon
<1>10. \A k \in 0 .. n : k = 0 \/ k \in 1 .. n OBVIOUS
<1>11. f = [k \in 0 .. n |-> IF k = 0 THEN a ELSE Refont(f[k - 1], k)] BY <1>7, <1>9, <1>10, Zenon
<1>12. PICK g : g = (CHOOSE c : c = [k \in 0 .. n |-> IF k = 0 THEN a ELSE Refont(c[k - 1], k)]) BY Zenon
<1>13. g = [k \in 0 .. n |-> IF k = 0 THEN a ELSE Refont(g[k - 1], k)] BY <1>11, <1>12, Zenon
<1>14. 0 \in 0 .. n /\ n \in 0 .. n OBVIOUS
<1>15. g[0] = a /\ \A k \in 1 .. n : g[k] = Refont(g[k - 1], k) BY <1>8, <1>13, <1>14, Zenon
<1>16. PICK D : D = {k \in 0 .. n : g[k] \in A} BY Zenon
<1>17. 0 \in D BY <1>5, <1>14, <1>15, <1>16, Zenon
<1>18. \A k \in 1 .. n : k - 1 \in D => k \in D BY <1>2, <1>8, <1>15, <1>16, Zenon
<1>19. \A k \in 0 .. n : k \in D BY <1>17, <1>18, Upto, Zenon
<1>20. QED BY <1>1, <1>12, <1>14, <1>16, <1>19, Zenon

\* The slot of an element, the first idle one and the first free place.
LEMMA FirstOf ==
    ASSUME NEW n \in Nat, NEW I \in SUBSET (1 .. n), NEW k, k = IF I # {} THEN Min(I) ELSE 0
    PROVE  k \in 0 .. n /\ (k # 0 => k \in I) /\ (k = 0 => I = {})
<1>1. \A i \in 1 .. n : i \in Nat OBVIOUS
<1>2. I \in SUBSET Nat BY <1>1, Zenon
<1>3. I # {} => Min(I) \in I BY <1>2, SmallestNumber
<1>4. 0 \in 0 .. n /\ \A i \in 1 .. n : i \in 0 .. n /\ i # 0 OBVIOUS
<1>5. QED BY <1>3, <1>4, Zenon

LEMMA Found ==
    ASSUME els \in Seq(RodElem), NEW n, NEW i, i = rod_find_element(n), i > 0
    PROVE  i \in 1 .. Len(els) /\ InUse(els, i) /\ els[i].name = n
<1>1. PICK m \in Nat : m = Len(els) BY LenProperties, Zenon
<1>2. PICK I : I = {j \in 1 .. m : els[j].act /\ els[j].name = n} BY Zenon
<1>3. I \in SUBSET (1 .. m) BY <1>2, Zenon
<1>4. i = IF I # {} THEN Min(I) ELSE 0 BY <1>1, <1>2, Zenon DEF rod_find_element, SelectInSeq
<1>5. i \in 0 .. m /\ (i # 0 => i \in I) BY <1>3, <1>4, FirstOf
<1>6. i # 0 BY <1>5
<1>7. QED BY <1>1, <1>2, <1>5, <1>6, Zenon DEF InUse

LEMMA FreePlace == rod_free_place \in Spots
<1>1. PICK held : held = {els[i].place : i \in {j \in 1 .. Len(els) : els[j].act}} BY Zenon
<1>2. PICK m \in Nat : m = Len(EPlaces) /\ DOMAIN EPlaces = 1 .. m BY RodNumbers, LenProperties, Zenon
<1>3. PICK I : I = {j \in 1 .. m : EPlaces[j] \notin held} BY Zenon
<1>4. PICK k : k = IF I # {} THEN Min(I) ELSE 0 BY Zenon
<1>5. rod_free_place = IF k = 0 THEN "top_left" ELSE EPlaces[k]
  BY <1>1, <1>2, <1>3, <1>4, Zenon DEF rod_free_place, SelectInSeq
<1>6. I \in SUBSET (1 .. m) BY <1>3, Zenon
<1>7. k # 0 => k \in I BY <1>4, <1>6, FirstOf
<1>8. QED BY <1>2, <1>5, <1>6, <1>7, Zenon DEF Spots, Range

Room(s, k, lost, fs) == s \in Seq(RodElem) /\ Len(s) <= MaxElements /\ k \in 1 .. Len(s) /\ Idle(s, k) /\ Counts(s, fs, lost)

PutAt(k, x, at) ==
    k = Slot /\ k <= MaxElements /\ x \in RodElem /\ at = IF k > Len(els) THEN Append(els, x) ELSE [els EXCEPT ![k] = x]

LEMMA SlotRoom ==
    ASSUME RodInv, NEW k, NEW x, NEW at, PutAt(k, x, at)
    PROVE  \E s : Room(s, k, fontLost, fonts) /\ at = [s EXCEPT ![k] = x]
<1>a. k = Slot /\ k <= MaxElements /\ x \in RodElem BY Zenon DEF PutAt
<1>b. at = IF k > Len(els) THEN Append(els, x) ELSE [els EXCEPT ![k] = x] BY Zenon DEF PutAt
<1>1. els \in Seq(RodElem) /\ Counts(els, fonts, fontLost) /\ Len(els) <= MaxElements BY Zenon DEF RodInv
<1>2. PICK m \in Nat : m = Len(els) /\ DOMAIN els = 1 .. m BY <1>1, LenProperties, Zenon
<1>3. PICK I : I = {j \in 1 .. m : ~els[j].act} BY Zenon
<1>4. PICK j : j = IF I # {} THEN Min(I) ELSE 0 BY Zenon
<1>5. k = IF j > 0 THEN j ELSE m + 1 BY <1>a, <1>2, <1>3, <1>4, Zenon DEF Slot, SelectInSeq
<1>6. I \in SUBSET (1 .. m) BY <1>3, Zenon
<1>7. j \in 0 .. m /\ (j # 0 => j \in I) BY <1>4, <1>6, FirstOf
<1>8. CASE j # 0
  <2>1. j > 0 /\ ~(j > m) BY <1>7, <1>8
  <2>2. k = j /\ at = [els EXCEPT ![k] = x] BY <1>b, <1>2, <1>5, <2>1, Zenon
  <2>3. k \in 1 .. m /\ ~els[k].act BY <1>3, <1>7, <1>8, <2>2, Zenon
  <2>4. els[k] \in RodElem BY <1>1, <1>2, <2>3, ElementOfSeq
  <2>5. Idle(els, k) BY <2>3, <2>4, Zenon DEF Idle, RodElem
  <2>6. Room(els, k, fontLost, fonts) BY <1>1, <1>2, <2>3, <2>5, Zenon DEF Room
  <2>7. QED BY <2>2, <2>6, Zenon
<1>9. CASE j = 0
  <2>1. ~(j > 0) /\ m + 1 > m BY <1>9
  <2>2. k = m + 1 /\ at = Append(els, x) BY <1>b, <1>2, <1>5, <2>1, Zenon
  <2>3. PICK v \in RodElem : v = Vacant /\ v.act = FALSE BY VacantTyped, Zenon
  <2>4. PICK s : s = Append(els, v) BY Zenon
  <2>5. s \in Seq(RodElem) /\ Len(s) = m + 1 /\ s[m + 1] = v /\ \A i \in 1 .. m : s[i] = els[i]
    BY <1>1, <1>2, <2>4, AppendProperties
  <2>7. DOMAIN s = 1 .. m + 1 BY <2>5, LenProperties, Zenon
  <2>8. \A i \in 1 .. m + 1 : i = m + 1 \/ (i \in 1 .. m /\ i # m + 1) OBVIOUS
  <2>9. \A i \in 1 .. m : i \in 1 .. m + 1 OBVIOUS
  <2>6. at = [s EXCEPT ![k] = x]
    <3>1. at \in Seq(RodElem) /\ Len(at) = m + 1 /\ at[m + 1] = x /\ \A i \in 1 .. m : at[i] = els[i]
      BY <1>a, <1>1, <1>2, <2>2, AppendProperties
    <3>2. DOMAIN at = 1 .. m + 1 /\ k \in 1 .. m + 1 BY <2>2, <3>1, LenProperties
    <3>9. at \in [1 .. m + 1 -> RodElem]
      <4>1. PICK q \in Nat : q = m + 1 BY <1>2
      <4>2. at \in Seq(RodElem) /\ Len(at) = q BY <3>1, <4>1, Zenon
      <4>3. at \in [1 .. q -> RodElem] BY <4>2, LenProperties, Zenon
      <4>4. QED BY <4>1, <4>3, Zenon
    <3>3. at = [i \in 1 .. m + 1 |-> at[i]] BY <3>9, Zenon
    <3>4. PICK u : u = [s EXCEPT ![k] = x] BY Zenon
    <3>5. u = [i \in 1 .. m + 1 |-> u[i]] BY <2>7, <3>4
    <3>6. \A i \in 1 .. m + 1 : u[i] = IF i = k THEN x ELSE s[i] BY <2>7, <3>4, Zenon
    <3>7. \A i \in 1 .. m + 1 : u[i] = at[i] BY <2>2, <2>5, <2>8, <3>1, <3>6, Zenon
    <3>8. QED BY <3>3, <3>4, <3>5, <3>7, Zenon
  <2>10. \A f : Having(s, f) = Having(els, f)
    <3>1. ASSUME NEW f PROVE Having(s, f) = Having(els, f)
      <4>1. Having(s, f) \subseteq Having(els, f) BY <1>2, <2>3, <2>5, <2>7, <2>8, Zenon DEF Having
      <4>2. Having(els, f) \subseteq Having(s, f) BY <1>2, <2>5, <2>7, <2>9, Zenon DEF Having
      <4>3. QED BY <4>1, <4>2, Zenon
    <3>2. QED BY <3>1, Zenon
  <2>11. Counts(s, fonts, fontLost) BY <1>1, <2>10, Zenon DEF Counts
  <2>12. k \in 1 .. Len(s) /\ Len(s) <= MaxElements BY <1>a, <2>2, <2>5
  <2>13. Idle(s, k) BY <2>2, <2>3, <2>5, Zenon DEF Idle
  <2>14. Room(s, k, fontLost, fonts) BY <2>5, <2>11, <2>12, <2>13, Zenon DEF Room
  <2>15. QED BY <2>6, <2>14, Zenon
<1>10. QED BY <1>8, <1>9, Zenon

-----------------------------------------------------------------------------
LEMMA RodStarts == RodInit => RodInv
<1> SUFFICES ASSUME RodInit PROVE RodInv OBVIOUS
<1>1. els = <<>> /\ fontLost = FALSE /\ fonts = [i \in 1 .. MaxFonts |-> [size |-> 0, refs |-> 0]] /\ fsize \in ESizes
  BY Zenon DEF RodInit
<1>2. els \in Seq(RodElem) /\ Len(els) = 0 /\ Len(els) <= MaxElements /\ DOMAIN els = {}
  <2>1. els \in Seq(RodElem) /\ Len(els) = 0 BY <1>1
  <2>2. QED BY <2>1, RodNumbers, LenProperties
<1>3. Counts(els, fonts, fontLost)
  <2>1. PICK z : z = [size |-> 0, refs |-> 0] BY Zenon
  <2>2. 0 \in Nat OBVIOUS
  <2>3. z \in RodFont /\ z.refs = 0 BY <2>1, <2>2, Zenon DEF RodFont
  <2>4. fonts = [i \in 1 .. MaxFonts |-> z] BY <1>1, <2>1, Zenon
  <2>5. fonts \in [1 .. MaxFonts -> RodFont] /\ \A f \in 1 .. MaxFonts : fonts[f].refs = 0 BY <2>3, <2>4, Zenon
  <2>6. \A f : Having(els, f) = {} BY <1>2, Zenon DEF Having
  <2>7. \A f : Cardinality(Having(els, f)) = 0 BY <2>6, FS_EmptySet
  <2>8. 0 <= 0 OBVIOUS
  <2>9. QED BY <2>5, <2>7, <2>8, Zenon DEF Counts
<1>4. Exclusive(kinds, els)
  <2>1. 1 .. Len(els) = {} BY <1>2
  <2>2. QED BY <2>1, Zenon DEF Exclusive
<1>5. QED BY <1>1, <1>2, <1>3, <1>4, Zenon DEF RodInv

\* After a command that goes through the slots once more.
LEMMA SyncedStep ==
    ASSUME NEW at \in Seq(RodElem), Len(at) <= MaxElements, els' = rod_sync_shms(at), kinds' = kinds,
           Counts(at, fonts', fontLost'), fsize' \in ESizes, fontLost' \in BOOLEAN
    PROVE  RodInv'
<1>1. PICK kd : kd = kinds BY Zenon
<1>2. PICK s : s = rod_sync_shms(at) BY Zenon
<1>3. PICK fs, lost : fs = fonts' /\ lost = fontLost' BY Zenon
<1>4. Counts(at, fs, lost) BY <1>3, Zenon
<1>5. s \in Seq(RodElem) /\ Len(s) = Len(at) /\ Counts(s, fs, lost) /\ Exclusive(kd, s) BY <1>1, <1>2, <1>4, Synchronised
<1>6. els' = s BY <1>2, Zenon
<1>7. els' \in Seq(RodElem) /\ Len(els') <= MaxElements BY <1>5, <1>6, Zenon
<1>8. Counts(els', fonts', fontLost') /\ Exclusive(kinds', els') BY <1>1, <1>3, <1>5, <1>6, Zenon
<1>9. QED BY <1>7, <1>8, Zenon DEF RodInv

\* After a step that draws or blanks.
LEMMA DrawnStep ==
    ASSUME RodInv, NEW n \in Nat, n = Len(els), NEW s \in [1 .. n -> RodElem], els' = s,
           \A i \in 1 .. n : Bones(els[i], s[i]) /\ s[i].shm = els[i].shm /\ s[i].denied = els[i].denied,
           UNCHANGED <<kinds, fonts, fsize, fontLost>>
    PROVE  RodInv'
<1>1. PICK es, kd, fs, lost : es = els /\ kd = kinds /\ fs = fonts /\ lost = fontLost BY Zenon
<1>2. es \in Seq(RodElem) /\ n = Len(es) /\ Counts(es, fs, lost) /\ Exclusive(kd, es) BY <1>1, Zenon DEF RodInv
<1>3. \A i \in 1 .. n : Bones(es[i], s[i]) /\ s[i].shm = es[i].shm /\ s[i].denied = es[i].denied BY <1>1, Zenon
<1>4. s \in Seq(RodElem) /\ Len(s) = Len(es) /\ Counts(s, fs, lost) /\ Exclusive(kd, s) BY <1>2, <1>3, OnlyMarks
<1>5. kinds' = kd /\ fonts' = fs /\ fontLost' = lost /\ fsize' = fsize BY <1>1, Zenon
<1>6. Len(s) <= MaxElements BY <1>1, <1>4, Zenon DEF RodInv
<1>7. fsize \in ESizes /\ fontLost \in BOOLEAN BY Zenon DEF RodInv
<1>8. QED BY <1>1, <1>4, <1>5, <1>6, <1>7, Zenon DEF RodInv

LEMMA EditStep ==
    ASSUME RodInv, NEW n, NEW i, i = rod_find_element(n), NEW e \in RodElem, e.act = els[i].act, e.font = els[i].font,
           Edit(n, e)
    PROVE  RodInv'
<1>1. PICK es, fs, lost : es = els /\ fs = fonts /\ lost = fontLost BY Zenon
<1>2. es \in Seq(RodElem) /\ Counts(es, fs, lost) /\ Len(es) <= MaxElements /\ fsize \in ESizes /\ fontLost \in BOOLEAN
  BY <1>1, Zenon DEF RodInv
<1>3. i > 0 /\ els' = rod_sync_shms([els EXCEPT ![i] = e]) /\ UNCHANGED <<kinds, fonts, fsize, fontLost>> BY Zenon DEF Edit
<1>4. i \in 1 .. Len(els) BY <1>1, <1>2, <1>3, Found
<1>5. PICK s : s = [es EXCEPT ![i] = e] BY Zenon
<1>6. FontAsIs(es, i, fs, lost, e, s) BY <1>1, <1>2, <1>4, <1>5, Zenon DEF FontAsIs
<1>7. FontHad(es, lost, s, fs) BY <1>6, FontKept
<1>8. s \in Seq(RodElem) /\ Len(s) = Len(es) /\ Counts(s, fs, lost) BY <1>7, Zenon DEF FontHad
<1>9. Len(s) <= MaxElements BY <1>2, <1>8, Zenon
<1>10. els' = rod_sync_shms(s) /\ kinds' = kinds BY <1>1, <1>3, <1>5, Zenon
<1>11. Counts(s, fonts', fontLost') BY <1>1, <1>3, <1>8, Zenon
<1>12. fsize' \in ESizes /\ fontLost' \in BOOLEAN BY <1>2, <1>3, Zenon
<1>13. QED BY <1>8, <1>9, <1>10, <1>11, <1>12, SyncedStep

EditOf(e, p, a, b, c, d, x) ==
    \/ x = [e EXCEPT !.filled = a, !.fresh = b, !.need = c, !.drawn = d] \/ x = [e EXCEPT !.need = c, !.drawn = d]
    \/ x = [e EXCEPT !.place = p] \/ x = [e EXCEPT !.vis = a]

LEMMA EditedElems ==
    ASSUME NEW e \in RodElem, NEW p \in Spots, NEW a \in BOOLEAN, NEW b \in BOOLEAN, NEW c \in BOOLEAN, NEW d \in BOOLEAN,
           NEW x, EditOf(e, p, a, b, c, d, x)
    PROVE  x \in RodElem /\ x.act = e.act /\ x.font = e.font
<1>1. CASE x = [e EXCEPT !.filled = a, !.fresh = b, !.need = c, !.drawn = d]
  <2>1. x \in RodElem BY <1>1, ZenonT(60) DEF RodElem
  <2>2. x.act = e.act /\ x.font = e.font BY <1>1, Zenon DEF RodElem
  <2>3. QED BY <2>1, <2>2, Zenon
<1>2. CASE x = [e EXCEPT !.need = c, !.drawn = d]
  <2>1. x \in RodElem BY <1>2, Zenon DEF RodElem
  <2>2. x.act = e.act /\ x.font = e.font BY <1>2, Zenon DEF RodElem
  <2>3. QED BY <2>1, <2>2, Zenon
<1>3. CASE x = [e EXCEPT !.place = p]
  <2>1. x \in RodElem BY <1>3, Zenon DEF RodElem
  <2>2. x.act = e.act /\ x.font = e.font BY <1>3, Zenon DEF RodElem
  <2>3. QED BY <2>1, <2>2, Zenon
<1>4. CASE x = [e EXCEPT !.vis = a]
  <2>1. x \in RodElem BY <1>4, Zenon DEF RodElem
  <2>2. x.act = e.act /\ x.font = e.font BY <1>4, Zenon DEF RodElem
  <2>3. QED BY <2>1, <2>2, Zenon
<1>5. QED BY <1>1, <1>2, <1>3, <1>4, Zenon DEF EditOf

LEMMA EditsStep ==
    ASSUME RodInv, NEW n, NEW a \in BOOLEAN, NEW p \in Spots,
           SetTemplate(n, a) \/ SetColour(n) \/ handle_set_position(n, p) \/ handle_show_hide(n, a)
    PROVE  RodInv'
<1>1. PICK i : i = rod_find_element(n) BY Zenon
<1>2. PICK f \in BOOLEAN, t \in BOOLEAN : f = FALSE /\ t = TRUE BY Zenon
<1>3. els \in Seq(RodElem) BY Zenon DEF RodInv
<1>4. \A x : Edit(n, x) => i > 0 BY <1>1, Zenon DEF Edit
<1>5. \E x : Edit(n, x) BY Zenon DEF SetTemplate, SetColour, handle_set_position, handle_show_hide
<1>6. i \in 1 .. Len(els) BY <1>1, <1>3, <1>4, <1>5, Found
<1>7. PICK e \in RodElem : e = els[i] BY <1>3, <1>6, ElementOfSeq
<1>8. Elem(n) = e BY <1>1, <1>7, Zenon DEF Elem
<1>a. PICK c \in BOOLEAN : c = Redraws(e) BY Zenon DEF Redraws, RodElem
<1>9. PICK x : Edit(n, x) /\ EditOf(e, p, a, f, c, f, x)
  BY <1>2, <1>8, <1>a, Zenon DEF SetTemplate, SetColour, handle_set_position, handle_show_hide, EditOf
<1>10. x \in RodElem /\ x.act = e.act /\ x.font = e.font
  BY <1>9, EditedElems
<1>11. x.act = els[i].act /\ x.font = els[i].font BY <1>7, <1>10, Zenon
<1>12. QED BY <1>1, <1>9, <1>10, <1>11, EditStep

LEMMA RemoveStep == ASSUME RodInv, NEW n, handle_remove_element(n) PROVE RodInv'
<1>1. PICK es, fs, lost, i : es = els /\ fs = fonts /\ lost = fontLost /\ i = rod_find_element(n) BY Zenon
<1>2. es \in Seq(RodElem) /\ Counts(es, fs, lost) /\ Len(es) <= MaxElements /\ fsize \in ESizes /\ fontLost \in BOOLEAN
  BY <1>1, Zenon DEF RodInv
<1>3. /\ i > 0 /\ fonts' = release_font(fonts, els[i].font) /\ els' = rod_sync_shms([els EXCEPT ![i] = Vacant])
      /\ UNCHANGED <<kinds, fsize, fontLost>>
  BY <1>1, Zenon DEF handle_remove_element
<1>4. i \in 1 .. Len(els) /\ InUse(els, i) BY <1>1, <1>2, <1>3, Found
<1>5. i \in 1 .. Len(es) /\ InUse(es, i) BY <1>1, <1>4, Zenon
<1>6. PICK s, r : s = [es EXCEPT ![i] = Vacant] /\ r = release_font(fs, es[i].font) BY Zenon
<1>7. s \in Seq(RodElem) /\ Len(s) = Len(es) /\ Counts(s, r, lost)
  <2>1. FontLeft(es, i, fs, lost, s, r) BY <1>2, <1>5, <1>6, Zenon DEF FontLeft
  <2>2. FontGone(es, i, lost, s, r) BY <2>1, FontLetGo
  <2>3. QED BY <2>2, Zenon DEF FontGone
<1>8. Len(s) <= MaxElements BY <1>2, <1>7, Zenon
<1>9. els' = rod_sync_shms(s) /\ kinds' = kinds BY <1>1, <1>3, <1>6, Zenon
<1>10. Counts(s, fonts', fontLost') BY <1>1, <1>3, <1>6, <1>7, Zenon
<1>11. fsize' \in ESizes /\ fontLost' \in BOOLEAN BY <1>2, <1>3, Zenon
<1>12. QED BY <1>7, <1>8, <1>9, <1>10, <1>11, SyncedStep

AddedAs(n, p, b, own, t, e) ==
    /\ n \in ENames /\ p \in Spots /\ b \in BOOLEAN /\ own \in {0} \cup EOwn /\ t \in BOOLEAN
    /\ e = [Vacant EXCEPT !.name = n, !.act = t, !.vis = t, !.place = p, !.filled = b, !.own = own]

LEMMA AddedElem ==
    ASSUME NEW n, NEW p, NEW b, NEW own, NEW t, NEW e, AddedAs(n, p, b, own, t, e)
    PROVE  e \in RodElem /\ e.act = t /\ e.font = 0
<1>a. n \in ENames /\ p \in Spots /\ b \in BOOLEAN /\ own \in {0} \cup EOwn /\ t \in BOOLEAN BY Zenon DEF AddedAs
<1>b. e = [Vacant EXCEPT !.name = n, !.act = t, !.vis = t, !.place = p, !.filled = b, !.own = own] BY Zenon DEF AddedAs
<1>1. PICK v \in RodElem : v = Vacant BY VacantTyped, Zenon
<1>2. e = [v EXCEPT !.name = n, !.act = t, !.vis = t, !.place = p, !.filled = b, !.own = own] BY <1>b, <1>1, Zenon
<1>3. e \in RodElem BY <1>a, <1>2, Zenon DEF RodElem
<1>4. e.act = t /\ e.font = v.font BY <1>a, <1>2, Zenon DEF RodElem
<1>5. v.font = 0 BY <1>1, Zenon DEF Vacant
<1>6. QED BY <1>3, <1>4, <1>5, Zenon

LEMMA AddStep ==
    ASSUME RodInv, NEW n \in ENames, NEW p \in Range(EPlaces) \cup {"any"}, NEW b \in BOOLEAN, NEW own \in {0} \cup EOwn,
           handle_add_element(n, p, b, own)
    PROVE  RodInv'
<1>1. PICK place : place = IF p = "any" THEN rod_free_place ELSE p BY Zenon
<1>2. place \in Spots BY <1>1, FreePlace, Zenon DEF Spots
<1>3. PICK size : size = IF own > 0 THEN own ELSE fsize BY Zenon
<1>4. size \in Sizes BY <1>3, Zenon DEF Sizes, RodInv
<1>5. PICK t \in BOOLEAN : t = TRUE BY Zenon
<1>6. PICK e : e = [Vacant EXCEPT !.name = n, !.act = t, !.vis = t, !.place = place, !.filled = b, !.own = own] BY Zenon
<1>a. AddedAs(n, place, b, own, t, e) BY <1>2, <1>5, <1>6, Zenon DEF AddedAs
<1>7. e \in RodElem /\ e.act = t /\ e.font = 0 BY <1>a, AddedElem
<1>8. PICK g \in 0 .. MaxFonts : g = FontOf(fonts, size) BY FontOfTyped, Zenon
<1>9. PICK fe : fe = IF RodWritten(e) THEN [e EXCEPT !.font = g] ELSE e BY Zenon
<1>10. 0 \in {0} \cup EOwn OBVIOUS
<1>b. RefitOf(e, g, [e EXCEPT !.font = g]) BY <1>7, <1>8, <1>10, Refitted
<1>11. [e EXCEPT !.font = g] \in RodElem /\ [e EXCEPT !.font = g].act = e.act /\ [e EXCEPT !.font = g].font = g
  BY <1>b, Zenon DEF RefitOf
<1>12. fe \in RodElem BY <1>7, <1>9, <1>11, Zenon
<1>13. PICK k, at : k = Slot /\ at = IF k > Len(els) THEN Append(els, fe) ELSE [els EXCEPT ![k] = fe] BY Zenon
<1>14. /\ k <= MaxElements /\ els' = rod_sync_shms(at)
       /\ fonts' = IF RodWritten(e) THEN rod_alloc_font(fonts, size) ELSE fonts
       /\ UNCHANGED <<kinds, fsize, fontLost>>
  BY <1>1, <1>3, <1>5, <1>6, <1>8, <1>9, <1>13, Zenon DEF handle_add_element
<1>15. PICK s : Room(s, k, fontLost, fonts) /\ at = [s EXCEPT ![k] = fe] 
  <2>1. PutAt(k, fe, at) BY <1>12, <1>13, <1>14, Zenon DEF PutAt
  <2>2. QED BY <2>1, SlotRoom
<1>16. PICK fs, lost : fs = fonts /\ lost = fontLost BY Zenon
<1>17. s \in Seq(RodElem) /\ Len(s) <= MaxElements /\ k \in 1 .. Len(s) /\ Idle(s, k) /\ Counts(s, fs, lost)
  BY <1>15, <1>16, Zenon DEF Room
<1>18. PICK r : r = fonts' BY Zenon
<1>19. FontHad(s, lost, at, r)
  <2>1. CASE RodWritten(e)
    <3>1. Fits(fe, g) BY <1>5, <1>7, <1>9, <1>11, <2>1, Zenon DEF Fits
    <3>2. r = rod_alloc_font(fs, size) /\ g = FontOf(fs, size) BY <1>8, <1>14, <1>16, <1>18, <2>1, Zenon
    <3>3. FontWanted(s, k, fs, lost, size, fe, g, at, r) BY <1>4, <1>12, <1>15, <1>17, <3>1, <3>2, Zenon DEF FontWanted
    <3>4. QED BY <3>3, FontTaken
  <2>2. CASE ~RodWritten(e)
    <3>1. fe = e /\ r = fs BY <1>9, <1>14, <1>16, <1>18, <2>2, Zenon
    <3>2. s[k].act = FALSE /\ fe.font = 0 BY <1>7, <1>17, <3>1, Zenon DEF Idle
    <3>3. FontAsIs(s, k, fs, lost, fe, at) BY <1>12, <1>15, <1>17, <3>2, Zenon DEF FontAsIs
    <3>4. FontHad(s, lost, at, fs) BY <3>3, FontKept
    <3>5. QED BY <3>1, <3>4, Zenon
  <2>3. QED BY <2>1, <2>2, Zenon
<1>20. at \in Seq(RodElem) /\ Len(at) = Len(s) /\ Counts(at, r, lost) BY <1>19, Zenon DEF FontHad
<1>21. Len(at) <= MaxElements BY <1>17, <1>20, Zenon
<1>22. Counts(at, fonts', fontLost') BY <1>14, <1>16, <1>18, <1>20, Zenon
<1>23. kinds' = kinds /\ fsize' \in ESizes /\ fontLost' \in BOOLEAN BY <1>14, Zenon DEF RodInv
<1>24. QED BY <1>14, <1>20, <1>21, <1>22, <1>23, SyncedStep

LEMMA OwnFontStep == ASSUME RodInv, NEW n, NEW size \in EOwn, SetOwnFont(n, size) PROVE RodInv'
<1>1. PICK es, fs, lost, i : es = els /\ fs = fonts /\ lost = fontLost /\ i = rod_find_element(n) BY Zenon
<1>2. es \in Seq(RodElem) /\ Counts(es, fs, lost) /\ Len(es) <= MaxElements /\ fsize \in ESizes /\ fontLost \in BOOLEAN
  BY <1>1, Zenon DEF RodInv
<1>3. PICK e, r : e = es[i] /\ r = release_font(fs, e.font) BY Zenon
<1>4. PICK g \in 0 .. MaxFonts : g = FontOf(r, size) BY FontOfTyped, Zenon
<1>5. PICK x : x = [e EXCEPT !.own = size, !.font = g] BY Zenon
<1>6. PICK y : y = IF g = 0 THEN x ELSE destroy_elem_shm(x) BY Zenon
<1>7. PICK q, at : q = rod_alloc_font(r, size) /\ at = [es EXCEPT ![i] = y] BY Zenon
<1>8. i > 0 /\ fonts' = q /\ els' = rod_sync_shms(at) /\ UNCHANGED <<kinds, fsize, fontLost>>
  BY <1>1, <1>3, <1>4, <1>5, <1>6, <1>7, Zenon DEF SetOwnFont
<1>9. i \in 1 .. Len(els) /\ InUse(els, i) BY <1>1, <1>2, <1>8, Found
<1>10. i \in 1 .. Len(es) /\ InUse(es, i) BY <1>1, <1>9, Zenon
<1>11. e \in RodElem BY <1>2, <1>3, <1>10, ElementOfSeq
<1>12. e.act = TRUE BY <1>3, <1>10, <1>11, Zenon DEF InUse, RodElem
<1>13. size \in {0} \cup EOwn /\ size \in Sizes BY Zenon DEF Sizes
<1>a. RefitOf(e, g, x) BY <1>4, <1>5, <1>11, <1>13, Refitted
<1>14. x \in RodElem /\ x.act = e.act /\ x.font = g BY <1>a, Zenon DEF RefitOf
<1>15. y \in RodElem /\ Fits(y, g)
  <2>1. destroy_elem_shm(x) \in RodElem /\ destroy_elem_shm(x).act = x.act /\ destroy_elem_shm(x).font = x.font
    BY <1>14, Unbuffered
  <2>2. QED BY <1>6, <1>12, <1>14, <2>1, Zenon DEF Fits
<1>16. PICK v : v = [es EXCEPT ![i] = Vacant] BY Zenon
<1>17. r = release_font(fs, es[i].font) BY <1>3, Zenon
<1>18. v \in Seq(RodElem) /\ Len(v) = Len(es) /\ Idle(v, i) /\ Counts(v, r, lost)
  <2>1. FontLeft(es, i, fs, lost, v, r) BY <1>2, <1>10, <1>16, <1>17, Zenon DEF FontLeft
  <2>2. FontGone(es, i, lost, v, r) BY <2>1, FontLetGo
  <2>3. QED BY <2>2, Zenon DEF FontGone
<1>19. at = [v EXCEPT ![i] = y]
  <2>1. PICK m \in Nat : m = Len(es) BY <1>2, LenProperties, Zenon
  <2>2. es \in [1 .. m -> RodElem] BY <1>2, <2>1, LenProperties, Zenon
  <2>3. QED BY <1>7, <1>16, <2>2, Zenon
<1>20. i \in 1 .. Len(v) BY <1>10, <1>18, Zenon
<1>21. FontWanted(v, i, r, lost, size, y, g, at, q)
  BY <1>4, <1>7, <1>13, <1>15, <1>18, <1>19, <1>20, Zenon DEF FontWanted
<1>22. FontHad(v, lost, at, q) BY <1>21, FontTaken
<1>23. at \in Seq(RodElem) /\ Len(at) = Len(v) /\ Counts(at, q, lost) BY <1>22, Zenon DEF FontHad
<1>24. Len(at) <= MaxElements BY <1>2, <1>18, <1>23, Zenon
<1>25. Counts(at, fonts', fontLost') BY <1>1, <1>8, <1>23, Zenon
<1>26. kinds' = kinds /\ fsize' \in ESizes /\ fontLost' \in BOOLEAN BY <1>2, <1>8, Zenon
<1>27. QED BY <1>8, <1>23, <1>24, <1>25, <1>26, SyncedStep

LEMMA FontSizeStep == ASSUME RodInv, NEW size \in ESizes, handle_font_size_change(size) PROVE RodInv'
<1>1. PICK es, fs, lost : es = els /\ fs = fonts /\ lost = fontLost BY Zenon
<1>2. es \in Seq(RodElem) /\ Counts(es, fs, lost) /\ Len(es) <= MaxElements /\ lost \in BOOLEAN BY <1>1, Zenon DEF RodInv
<1>3. PICK n \in Nat : n = Len(es) BY <1>2, LenProperties, Zenon
<1>4. es \in [1 .. n -> RodElem] BY <1>2, <1>3, LenProperties, Zenon
<1>5. fs \in [1 .. MaxFonts -> RodFont] BY <1>2, Zenon DEF Counts
<1>6. PICK a : a = [es |-> es, fs |-> fs, size |-> size, lost |-> lost] BY Zenon
<1>7. a \in Refonting(n) BY <1>2, <1>4, <1>5, <1>6, Zenon DEF Refonting
<1>8. a.es = es /\ a.fs = fs /\ a.lost = lost BY <1>6, Zenon
<1>9. a \in Refonted(n) BY <1>2, <1>7, <1>8, Zenon DEF Refonted
<1>10. PICK r : r = (CHOOSE c : c = [k \in 0 .. n |-> IF k = 0 THEN a ELSE Refont(c[k - 1], k)])[n] BY Zenon
<1>11. fsize' = size /\ fonts' = r.fs /\ fontLost' = r.lost /\ els' = rod_sync_shms(r.es) /\ kinds' = kinds
  BY <1>1, <1>3, <1>6, <1>10, Zenon DEF handle_font_size_change
<1>12. r \in Refonted(n) BY <1>9, <1>10, AllRefonted
<1>13. PICK at \in [1 .. n -> RodElem] : at = r.es BY <1>12, Zenon DEF Refonted, Refonting
<1>14. Counts(at, fonts', fontLost') /\ fontLost' \in BOOLEAN BY <1>11, <1>12, <1>13, Zenon DEF Refonted, Refonting
<1>15. at \in Seq(RodElem) /\ Len(at) = n BY <1>13
<1>16. Len(at) <= MaxElements BY <1>2, <1>3, <1>15, Zenon
<1>17. els' = rod_sync_shms(at) /\ fsize' \in ESizes BY <1>11, <1>13, Zenon
<1>18. QED BY <1>11, <1>14, <1>15, <1>16, <1>17, SyncedStep

MarkOf(e, a, b, c, x) ==
    \/ x = e \/ x = [e EXCEPT !.drawn = a] \/ x = [e EXCEPT !.need = a]
    \/ x = [e EXCEPT !.fresh = a, !.drawn = b, !.dirty = c] \/ x = [e EXCEPT !.fresh = a, !.need = b, !.drawn = c]
    \/ x = [e EXCEPT !.need = a, !.drawn = b] \/ x = [e EXCEPT !.dirty = a, !.drawn = b]
Drawing(e, x) == x \in RodElem /\ Bones(e, x) /\ x.shm = e.shm /\ x.denied = e.denied

LEMMA MarkedElem ==
    ASSUME NEW e \in RodElem, NEW a \in BOOLEAN, NEW b \in BOOLEAN, NEW c \in BOOLEAN, NEW x, MarkOf(e, a, b, c, x)
    PROVE  Drawing(e, x)
<1>7. CASE x = e BY <1>7, Zenon DEF Drawing, Bones
<1>1. CASE x = [e EXCEPT !.drawn = a]
  <2>1. x \in RodElem BY <1>1, ZenonT(30) DEF RodElem
  <2>2. x.name = e.name /\ x.act = e.act /\ x.vis = e.vis /\ x.place = e.place BY <1>1, ZenonT(30) DEF RodElem
  <2>3. x.filled = e.filled /\ x.own = e.own /\ x.font = e.font /\ x.shm = e.shm /\ x.denied = e.denied BY <1>1, ZenonT(30) DEF RodElem
  <2>4. QED BY <2>1, <2>2, <2>3, Zenon DEF Drawing, Bones
<1>2. CASE x = [e EXCEPT !.need = a]
  <2>1. x \in RodElem BY <1>2, ZenonT(30) DEF RodElem
  <2>2. x.name = e.name /\ x.act = e.act /\ x.vis = e.vis /\ x.place = e.place BY <1>2, ZenonT(30) DEF RodElem
  <2>3. x.filled = e.filled /\ x.own = e.own /\ x.font = e.font /\ x.shm = e.shm /\ x.denied = e.denied BY <1>2, ZenonT(30) DEF RodElem
  <2>4. QED BY <2>1, <2>2, <2>3, Zenon DEF Drawing, Bones
<1>3. CASE x = [e EXCEPT !.fresh = a, !.drawn = b, !.dirty = c]
  <2>1. x \in RodElem BY <1>3, ZenonT(30) DEF RodElem
  <2>2. x.name = e.name /\ x.act = e.act /\ x.vis = e.vis /\ x.place = e.place BY <1>3, ZenonT(30) DEF RodElem
  <2>3. x.filled = e.filled /\ x.own = e.own /\ x.font = e.font /\ x.shm = e.shm /\ x.denied = e.denied BY <1>3, ZenonT(30) DEF RodElem
  <2>4. QED BY <2>1, <2>2, <2>3, Zenon DEF Drawing, Bones
<1>4. CASE x = [e EXCEPT !.fresh = a, !.need = b, !.drawn = c]
  <2>1. x \in RodElem BY <1>4, ZenonT(30) DEF RodElem
  <2>2. x.name = e.name /\ x.act = e.act /\ x.vis = e.vis /\ x.place = e.place BY <1>4, ZenonT(30) DEF RodElem
  <2>3. x.filled = e.filled /\ x.own = e.own /\ x.font = e.font /\ x.shm = e.shm /\ x.denied = e.denied BY <1>4, ZenonT(30) DEF RodElem
  <2>4. QED BY <2>1, <2>2, <2>3, Zenon DEF Drawing, Bones
<1>5. CASE x = [e EXCEPT !.need = a, !.drawn = b]
  <2>1. x \in RodElem BY <1>5, ZenonT(30) DEF RodElem
  <2>2. x.name = e.name /\ x.act = e.act /\ x.vis = e.vis /\ x.place = e.place BY <1>5, ZenonT(30) DEF RodElem
  <2>3. x.filled = e.filled /\ x.own = e.own /\ x.font = e.font /\ x.shm = e.shm /\ x.denied = e.denied BY <1>5, ZenonT(30) DEF RodElem
  <2>4. QED BY <2>1, <2>2, <2>3, Zenon DEF Drawing, Bones
<1>6. CASE x = [e EXCEPT !.dirty = a, !.drawn = b]
  <2>1. x \in RodElem BY <1>6, ZenonT(30) DEF RodElem
  <2>2. x.name = e.name /\ x.act = e.act /\ x.vis = e.vis /\ x.place = e.place BY <1>6, ZenonT(30) DEF RodElem
  <2>3. x.filled = e.filled /\ x.own = e.own /\ x.font = e.font /\ x.shm = e.shm /\ x.denied = e.denied BY <1>6, ZenonT(30) DEF RodElem
  <2>4. QED BY <2>1, <2>2, <2>3, Zenon DEF Drawing, Bones
<1>8. QED BY <1>1, <1>2, <1>3, <1>4, <1>5, <1>6, <1>7, Zenon DEF MarkOf

LEMMA RedrawnStep ==
    ASSUME RodInv, NEW n \in Nat, n = Len(els), NEW s, s = [i \in 1 .. n |-> s[i]], els' = s,
           \A i \in 1 .. n : Drawing(els[i], s[i]), UNCHANGED <<kinds, fonts, fsize, fontLost>>
    PROVE  RodInv'
<1>1. s \in [1 .. n -> RodElem] BY Zenon DEF Drawing
<1>2. \A i \in 1 .. n : Bones(els[i], s[i]) /\ s[i].shm = els[i].shm /\ s[i].denied = els[i].denied BY Zenon DEF Drawing
<1>3. QED BY <1>1, <1>2, DrawnStep

\* One element in one tick, one blanked, one to be drawn again.
LEMMA TickedElem == ASSUME NEW e \in RodElem PROVE Drawing(e, Rendered(e))
<1>1. PICK f \in BOOLEAN, t \in BOOLEAN : f = FALSE /\ t = TRUE BY Zenon
<1>2. PICK q \in BOOLEAN : q = (kinds[e.name] = "text" \/ ~e.fresh \/ (e.need /\ e.shm)) BY Zenon
<1>3. PICK a \in BOOLEAN : a = (kinds[e.name] = "change") BY Zenon
<1>4. PICK b \in BOOLEAN : b = (e.need /\ ~q) BY Zenon
<1>a. Lettered(e) \in BOOLEAN /\ e.drawn \in BOOLEAN BY Zenon DEF Lettered, RodElem
<1>5. PICK c \in BOOLEAN : c = IF q /\ e.shm /\ e.font # 0 THEN Lettered(e) ELSE e.drawn BY <1>a, Zenon
<1>6. PICK d \in BOOLEAN : d = IF e.shm /\ e.font # 0 THEN Lettered(e) ELSE e.drawn BY <1>a, Zenon
<1>7. PICK x : x = Rendered(e) BY Zenon
<1>8. \/ x = e \/ x = [e EXCEPT !.fresh = a, !.need = b, !.drawn = c] \/ x = [e EXCEPT !.need = f, !.drawn = t]
      \/ x = [e EXCEPT !.dirty = f, !.drawn = d]
  <2>1. CASE ~e.act \/ ~e.vis BY <1>7, <2>1, Zenon DEF Rendered
  <2>2. CASE e.act /\ e.vis /\ Texty(e)
    <3>1. kinds[e.name] # "image" /\ kinds[e.name] # "receipt" BY <2>2, Zenon DEF Texty
    <3>2. x = [e EXCEPT !.fresh = (kinds[e.name] = "change"),
                        !.need = @ /\ ~(kinds[e.name] = "text" \/ ~e.fresh \/ (e.need /\ e.shm)),
                        !.drawn = IF (kinds[e.name] = "text" \/ ~e.fresh \/ (e.need /\ e.shm)) /\ e.shm /\ e.font # 0
                                  THEN Lettered(e) ELSE @]
      BY <1>7, <2>2, <3>1, Zenon DEF Rendered
    <3>3. x = [e EXCEPT !.fresh = a, !.need = b, !.drawn = c] BY <1>2, <1>3, <1>4, <1>5, <3>2, Zenon
    <3>4. QED BY <3>3, Zenon
  <2>3. CASE e.act /\ e.vis /\ ~Texty(e) /\ kinds[e.name] = "image" /\ e.need /\ e.shm
    BY <1>1, <1>7, <2>3, Zenon DEF Rendered
  <2>4. CASE e.act /\ e.vis /\ ~Texty(e) /\ kinds[e.name] = "receipt" /\ e.dirty
    BY <1>1, <1>6, <1>7, <2>4, Zenon DEF Rendered
  <2>5. CASE /\ e.act /\ e.vis /\ ~Texty(e) /\ ~(kinds[e.name] = "image" /\ e.need /\ e.shm)
             /\ ~(kinds[e.name] = "receipt" /\ e.dirty)
    BY <1>7, <2>5, Zenon DEF Rendered
  <2>6. QED BY <2>1, <2>2, <2>3, <2>4, <2>5, Zenon
<1>9. Drawing(e, x)
  <2>1. CASE x = e
    <3>1. MarkOf(e, a, b, c, x) BY <2>1, Zenon DEF MarkOf
    <3>2. QED BY <3>1, MarkedElem
  <2>2. CASE x = [e EXCEPT !.fresh = a, !.need = b, !.drawn = c]
    <3>1. MarkOf(e, a, b, c, x) BY <2>2, Zenon DEF MarkOf
    <3>2. QED BY <3>1, MarkedElem
  <2>3. CASE x = [e EXCEPT !.need = f, !.drawn = t]
    <3>1. MarkOf(e, f, t, c, x) BY <2>3, Zenon DEF MarkOf
    <3>2. QED BY <3>1, MarkedElem
  <2>4. CASE x = [e EXCEPT !.dirty = f, !.drawn = d]
    <3>1. MarkOf(e, f, d, c, x) BY <2>4, Zenon DEF MarkOf
    <3>2. QED BY <3>1, MarkedElem
  <2>5. QED BY <1>8, <2>1, <2>2, <2>3, <2>4, Zenon
<1>10. QED BY <1>7, <1>9, Zenon

LEMMA DrawingsStep == RodInv /\ (RodDisable \/ RodEnable \/ render_tick \/ render_detections) => RodInv'
<1> SUFFICES ASSUME RodInv, RodDisable \/ RodEnable \/ render_tick \/ render_detections PROVE RodInv' OBVIOUS
<1>1. els \in Seq(RodElem) BY Zenon DEF RodInv
<1>2. PICK n \in Nat : n = Len(els) BY <1>1, LenProperties, Zenon
<1>3. \A i \in 1 .. n : els[i] \in RodElem BY <1>1, <1>2, ElementOfSeq
<1>4. PICK f \in BOOLEAN, t \in BOOLEAN : f = FALSE /\ t = TRUE BY Zenon
<1>5. CASE RodDisable
  <2>1. PICK s : s = [i \in 1 .. n |-> [els[i] EXCEPT !.drawn = f]] BY Zenon
  <2>2. els' = s /\ UNCHANGED <<kinds, fonts, fsize, fontLost>> BY <1>2, <1>4, <1>5, <2>1, Zenon DEF RodDisable
  <2>3. ASSUME NEW i \in 1 .. n PROVE Drawing(els[i], s[i])
    <3>1. PICK e \in RodElem : e = els[i] BY <1>3, Zenon
    <3>2. PICK x : x = [e EXCEPT !.drawn = f] BY Zenon
    <3>3. MarkOf(e, f, t, t, x) BY <3>2, Zenon DEF MarkOf
    <3>4. Drawing(e, x) BY <3>3, MarkedElem
    <3>5. QED BY <2>1, <3>1, <3>2, <3>4, Zenon
  <2>4. s = [i \in 1 .. n |-> s[i]] BY <2>1, Zenon
  <2>5. QED BY <1>2, <2>2, <2>3, <2>4, RedrawnStep
<1>6. CASE RodEnable
  <2>1. PICK s : s = [i \in 1 .. n |-> [els[i] EXCEPT !.need = Redraws(els[i])]] BY Zenon
  <2>2. els' = s /\ UNCHANGED <<kinds, fonts, fsize, fontLost>> BY <1>2, <1>6, <2>1, Zenon DEF RodEnable
  <2>3. ASSUME NEW i \in 1 .. n PROVE Drawing(els[i], s[i])
    <3>1. PICK e \in RodElem : e = els[i] BY <1>3, Zenon
    <3>2. PICK a \in BOOLEAN : a = Redraws(e) BY Zenon DEF Redraws, RodElem
    <3>3. PICK x : x = [e EXCEPT !.need = a] BY Zenon
    <3>4. MarkOf(e, a, t, t, x) BY <3>3, Zenon DEF MarkOf
    <3>5. Drawing(e, x) BY <3>4, MarkedElem
    <3>6. QED BY <2>1, <3>1, <3>2, <3>3, <3>5, Zenon
  <2>4. s = [i \in 1 .. n |-> s[i]] BY <2>1, Zenon
  <2>5. QED BY <1>2, <2>2, <2>3, <2>4, RedrawnStep
<1>7. CASE render_tick
  <2>1. PICK s : s = [i \in 1 .. n |-> Rendered(els[i])] BY Zenon
  <2>2. els' = s /\ UNCHANGED <<kinds, fonts, fsize, fontLost>> BY <1>2, <1>7, <2>1, Zenon DEF render_tick
  <2>3. ASSUME NEW i \in 1 .. n PROVE Drawing(els[i], s[i])
    <3>1. PICK e \in RodElem : e = els[i] BY <1>3, Zenon
    <3>2. Drawing(e, Rendered(e)) BY <3>1, TickedElem
    <3>3. QED BY <2>1, <3>1, <3>2, Zenon
  <2>4. s = [i \in 1 .. n |-> s[i]] BY <2>1, Zenon
  <2>5. QED BY <1>2, <2>2, <2>3, <2>4, RedrawnStep
<1>8. CASE render_detections
  <2>a. PICK d : d = rod_find_element(EDetect) BY Zenon
  <2>1. PICK s : s = [i \in 1 .. n |-> IF i = d /\ els[i].shm
                                       THEN [els[i] EXCEPT !.drawn = (kinds[els[i].name] = "overlay")] ELSE els[i]] BY Zenon
  <2>2. els' = s /\ UNCHANGED <<kinds, fonts, fsize, fontLost>> BY <1>2, <1>8, <2>a, <2>1, Zenon DEF render_detections
  <2>3. ASSUME NEW i \in 1 .. n PROVE Drawing(els[i], s[i])
    <3>1. PICK e \in RodElem : e = els[i] BY <1>3, Zenon
    <3>2. PICK x : x = s[i] BY Zenon
    <3>a. PICK a \in BOOLEAN : a = (kinds[e.name] = "overlay") BY Zenon
    <3>3. x = e \/ x = [e EXCEPT !.drawn = a] BY <2>1, <3>1, <3>2, <3>a, Zenon
    <3>4. MarkOf(e, a, t, t, x) BY <3>3, Zenon DEF MarkOf
    <3>5. Drawing(e, x) BY <3>4, MarkedElem
    <3>6. QED BY <3>1, <3>2, <3>5, Zenon
  <2>4. s = [i \in 1 .. n |-> s[i]] BY <2>1, Zenon
  <2>5. QED BY <1>2, <2>2, <2>3, <2>4, RedrawnStep
<1>9. QED BY <1>5, <1>6, <1>7, <1>8, Zenon

LEMMA ContentStep == ASSUME RodInv, NEW n, Content(n) PROVE RodInv'
<1>1. els \in Seq(RodElem) BY Zenon DEF RodInv
<1>2. PICK m \in Nat : m = Len(els) BY <1>1, LenProperties, Zenon
<1>3. els \in [1 .. m -> RodElem] BY <1>1, <1>2, LenProperties, Zenon
<1>4. PICK f \in BOOLEAN : f = FALSE BY Zenon
<1>5. PICK d \in BOOLEAN : d = (kinds[n] = "receipt") BY Zenon
<1>6. PICK i : i = rod_find_element(n) BY Zenon
<1>7. /\ i > 0 /\ els' = [els EXCEPT ![i].fresh = f, ![i].drawn = f, ![i].dirty = d]
      /\ UNCHANGED <<kinds, fonts, fsize, fontLost>>
  BY <1>4, <1>5, <1>6, Zenon DEF Content
<1>8. i \in 1 .. m BY <1>1, <1>2, <1>6, <1>7, Found
<1>9. PICK e \in RodElem : e = els[i] BY <1>3, <1>8, Zenon
<1>10. PICK x : x = [e EXCEPT !.fresh = f, !.drawn = f, !.dirty = d] BY Zenon
<1>11. MarkOf(e, f, f, d, x) BY <1>10, Zenon DEF MarkOf
<1>12. Drawing(e, x) BY <1>11, MarkedElem
<1>13. PICK s : s = [els EXCEPT ![i] = x] BY Zenon
<1>14. els' = s
  <2>1. PICK s1, s2, s3 : /\ s1 = [els EXCEPT ![i] = [els[i] EXCEPT !.fresh = f]]
                          /\ s2 = [s1 EXCEPT ![i] = [s1[i] EXCEPT !.drawn = f]]
                          /\ s3 = [s2 EXCEPT ![i] = [s2[i] EXCEPT !.dirty = d]] BY Zenon
  <2>2. els' = s3 BY <1>7, <2>1, Zenon
  <2>3. s1[i] = [e EXCEPT !.fresh = f] BY <1>3, <1>8, <1>9, <2>1, Zenon
  <2>4. s3 = s BY <1>3, <1>8, <1>9, <1>10, <1>13, <2>1, <2>3, Zenon
  <2>5. QED BY <2>2, <2>4, Zenon
<1>15. ASSUME NEW j \in 1 .. m PROVE Drawing(els[j], s[j])
  <2>1. CASE j = i BY <1>3, <1>8, <1>9, <1>12, <1>13, <2>1, Zenon
  <2>2. CASE j # i
    <3>1. s[j] = els[j] /\ els[j] \in RodElem BY <1>3, <1>13, <2>2, Zenon
    <3>2. QED BY <3>1, Zenon DEF Drawing, Bones
  <2>3. QED BY <2>1, <2>2, Zenon
<1>16. s = [j \in 1 .. m |-> s[j]] BY <1>3, <1>13, Zenon
<1>17. QED BY <1>2, <1>7, <1>14, <1>15, <1>16, RedrawnStep

LEMMA RodSteps == RodInv /\ [RodNext]_rodvars => RodInv'
<1> SUFFICES ASSUME RodInv, [RodNext]_rodvars PROVE RodInv' OBVIOUS
<1>1. CASE UNCHANGED rodvars BY <1>1, Zenon DEF rodvars, RodInv, Counts, Exclusive, Having, Drawable, Fontless
<1>2. CASE \E n \in ENames, p \in Range(EPlaces) \cup {"any"}, own \in {0} \cup EOwn, b \in BOOLEAN :
              handle_add_element(n, p, b, own)
  <2>1. PICK n \in ENames, p \in Range(EPlaces) \cup {"any"}, own \in {0} \cup EOwn, b \in BOOLEAN :
            handle_add_element(n, p, b, own) BY <1>2, Zenon
  <2>2. QED BY <2>1, AddStep
<1>3. ASSUME NEW n \in ENames, handle_remove_element(n) PROVE RodInv' BY <1>3, RemoveStep
<1>4. ASSUME NEW n \in ENames, Content(n) PROVE RodInv' BY <1>4, ContentStep
<1>5. PICK any \in Spots : TRUE
  <2>1. "top_left" \in Spots BY Zenon DEF Spots
  <2>2. QED BY <2>1, Zenon
<1>6. ASSUME NEW n \in ENames, SetColour(n) PROVE RodInv'
  <2>1. PICK b \in BOOLEAN : TRUE BY Zenon
  <2>2. QED BY <1>5, <1>6, <2>1, EditsStep
<1>7. ASSUME NEW n \in ENames, NEW b \in BOOLEAN, SetTemplate(n, b) \/ handle_show_hide(n, b) PROVE RodInv'
  BY <1>5, <1>7, EditsStep
<1>8. ASSUME NEW n \in ENames, NEW p \in Range(EPlaces), handle_set_position(n, p) PROVE RodInv'
  <2>1. PICK b \in BOOLEAN : TRUE BY Zenon
  <2>2. p \in Spots BY Zenon DEF Spots
  <2>3. QED BY <1>8, <2>1, <2>2, EditsStep
<1>9. ASSUME NEW n \in ENames, NEW size \in EOwn, SetOwnFont(n, size) PROVE RodInv' BY <1>9, OwnFontStep
<1>10. ASSUME NEW size \in ESizes, handle_font_size_change(size) PROVE RodInv' BY <1>10, FontSizeStep
<1>11. CASE RodDisable \/ RodEnable \/ render_tick \/ render_detections BY <1>11, DrawingsStep
<1>13. CASE RodFault
  BY <1>13, Zenon DEF RodFault, RodInv, Counts, Exclusive, Having, Drawable, Fontless
<1>12. QED BY <1>1, <1>2, <1>3, <1>4, <1>6, <1>7, <1>8, <1>9, <1>10, <1>11, <1>13, Zenon DEF RodNext

\* No two buffers at one place, every font counted, every field in its range.
LEMMA RodHolds == RodInv => PlacesExclusive /\ FontsCounted /\ RodTypeOK
<1> SUFFICES ASSUME RodInv PROVE PlacesExclusive /\ FontsCounted /\ RodTypeOK OBVIOUS
<1>1. els \in Seq(RodElem) /\ Len(els) <= MaxElements /\ Counts(els, fonts, fontLost) /\ Exclusive(kinds, els)
  BY Zenon DEF RodInv
<1>2. PICK n \in Nat : n = Len(els) /\ DOMAIN els = 1 .. n BY <1>1, LenProperties, Zenon
<1>3. PlacesExclusive
  <2>1. \A e : (elem_draws(e) <=> Drawable(kinds, e)) /\ (Sizeless(e) <=> Fontless(kinds, e))
    BY Zenon DEF elem_draws, Texty, Drawable, Sizeless, Fontless
  <2>2. QED BY <1>1, <2>1, Zenon DEF PlacesExclusive, Exclusive
<1>4. FontsCounted
  <2>1. \A f : Having(els, f) = {i \in 1 .. Len(els) : els[i].act /\ els[i].font = f} BY <1>2, Zenon DEF Having
  <2>2. QED BY <1>1, <2>1, Zenon DEF FontsCounted, Counts
<1>5. RodTypeOK
  <2>1. \A i \in 1 .. Len(els) : els[i] \in RodElem BY <1>1, ElementOfSeq
  <2>2. \A i \in 1 .. Len(els) : els[i].font \in 0 .. MaxFonts /\ els[i].place \in Range(EPlaces) \cup {"top_left"}
    BY <2>1, Zenon DEF RodElem, Spots
  <2>3. ASSUME NEW f \in 1 .. MaxFonts PROVE fonts[f].refs \in 0 .. MaxElements
    <3>1. PICK m \in Nat : m = fonts[f].refs BY <1>1, Zenon DEF Counts, RodFont
    <3>2. PICK c : c = Cardinality(Having(els, f)) BY Zenon
    <3>3. m <= c BY <1>1, <3>1, <3>2, Zenon DEF Counts
    <3>4. c \in Nat /\ c <= n BY <1>1, <1>2, <3>2, HoldersFinite
    <3>5. n <= MaxElements BY <1>1, <1>2, Zenon
    <3>6. m \in 0 .. MaxElements BY <3>1, <3>3, <3>4, <3>5, RodNumbers
    <3>7. QED BY <3>1, <3>6, Zenon
  <2>4. QED BY <1>1, <2>2, <2>3, Zenon DEF RodTypeOK
<1>6. QED BY <1>3, <1>4, <1>5, Zenon

-----------------------------------------------------------------------------
(* The composition. *)

SourcesInv == AiInv /\ AoTypeOK /\ SpeakerInv /\ ClkInv /\ RcInv /\ RowsInv /\ RodInv

LEMMA SourcesStart == SourcesInit => SourcesInv
BY AiStarts, AoStarts, ClkStarts, RcStarts, RowsHold, RodStarts, Zenon DEF SourcesInit, SourcesInv

\* A step of the composition is a step of one part and a stutter of the others.
LEMMA SourcesParts ==
    ASSUME [SourcesNext]_sources
    PROVE  [AiNext]_aivars /\ [AoNext]_aovars /\ [ClkNext]_clkvars /\ [RcNext]_rcvars /\ [RodNext]_rodvars
<1>1. CASE Only("input") /\ AiNext
  <2>1. UNCHANGED aovars /\ UNCHANGED clkvars /\ UNCHANGED rcvars /\ UNCHANGED rodvars
    <3> HIDE DEF aovars, clkvars, rcvars, rodvars
    <3>1. QED BY <1>1 DEF Only
  <2>2. QED BY <1>1, <2>1
<1>2. CASE Only("output") /\ AoNext
  <2>1. UNCHANGED aivars /\ UNCHANGED clkvars /\ UNCHANGED rcvars /\ UNCHANGED rodvars BY <1>2 DEF Only
  <2>2. QED BY <1>2, <2>1
<1>3. CASE Only("clock") /\ ClkNext
  <2>1. UNCHANGED aivars /\ UNCHANGED aovars /\ UNCHANGED rcvars /\ UNCHANGED rodvars BY <1>3 DEF Only
  <2>2. QED BY <1>3, <2>1
<1>4. CASE Only("elements") /\ RodNext
  <2>1. UNCHANGED aivars /\ UNCHANGED aovars /\ UNCHANGED clkvars /\ UNCHANGED rcvars BY <1>4 DEF Only
  <2>2. QED BY <1>4, <2>1
<1>5. CASE Only("receipt") /\ RcNext
  <2>1. UNCHANGED aivars /\ UNCHANGED aovars /\ UNCHANGED clkvars /\ UNCHANGED rodvars BY <1>5 DEF Only
  <2>2. QED BY <1>5, <2>1
<1>6. CASE UNCHANGED sources BY <1>6, Zenon DEF sources
<1>7. QED BY <1>1, <1>2, <1>3, <1>4, <1>5, <1>6, Zenon DEF SourcesNext

LEMMA SourcesStep == SourcesInv /\ [SourcesNext]_sources => SourcesInv'
<1> SUFFICES ASSUME SourcesInv, [SourcesNext]_sources PROVE SourcesInv' OBVIOUS
<1>1. [AiNext]_aivars /\ [AoNext]_aovars /\ [ClkNext]_clkvars /\ [RcNext]_rcvars /\ [RodNext]_rodvars BY SourcesParts
<1>2. QED BY <1>1, AiSteps, AoSteps, ClkSteps, RcSteps, RowsHold, RodSteps, Zenon DEF SourcesInv

\* rad and rod keep their types (rad_main.c, rad_clock.c, rod_elem.c,
\* rod_receipt.c): every backoff, drain target and clock error within its
\* bound, every font index and reference count within the pool and the
\* number of elements, whatever the bounds are.
THEOREM SourcesTypes == SourcesSpec => []TypesOK
<1>1. SourcesInv => TypesOK
  BY AiInvShows, RcInvShows, RodHolds, Zenon DEF SourcesInv, ClkInv, TypesOK
<1>2. QED BY <1>1, SourcesStart, SourcesStep, PTL DEF SourcesSpec

\* rad's published stream is what its ring says after every sequence of failed
\* restarts and recoveries, its echo canceller has a speaker, an enabled
\* speaker has its thread unless that found no memory for a ring, and the
\* synthetic clock tracks the monotonic one without turning a burst's
\* timestamps back (rad_main.c, rad_clock.c).
THEOREM SourcesAudioTrue == SourcesSpec => []AudioTrue
<1>1. SourcesInv => AudioTrue
  BY AiInvShows, SpeakerInvServes, Zenon DEF SourcesInv, ClkInv, AudioTrue
<1>2. QED BY <1>1, SourcesStart, SourcesStep, PTL DEF SourcesSpec

\* After every command, whichever fonts did not load and buffers were refused,
\* two elements never have a buffer at one place and one that draws lacks its
\* buffer only for want of the place, of a font or bitmap or because the system
\* refused it, every font is referenced by exactly the elements that have it
\* until set-font-size went without one, and a receipt draws from its last
\* lines, in the order they came, as many as there is room for (rod_elem.c,
\* rod_ctrl.c, rod_receipt.c) - for every number of elements, fonts, places,
\* lines and rows.
THEOREM SourcesOverlaysOwned == SourcesSpec => []OverlaysOwned
<1>1. SourcesInv => OverlaysOwned
  BY RodHolds, RcInvShows, Zenon DEF SourcesInv, OverlaysOwned
<1>2. QED BY <1>1, SourcesStart, SourcesStep, PTL DEF SourcesSpec
=============================================================================
