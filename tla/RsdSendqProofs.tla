--------------------------- MODULE RsdSendqProofs ---------------------------
(***************************************************************************)
(* For any number of slots and pushes of RsdSendq: the circular array and  *)
(* its indices agree, no wake-up is lost, every copy has one owner, each   *)
(* stream stays in order, and the array implements SendqPolicy.            *)
(*                                                                         *)
(* The queue is reasoned about by offset from tail: CellAt(es, t, i) is    *)
(* the entry at offset i of array es with tail t.  Four lemmas say what    *)
(* storing, popping, closing a gap and compacting do to the offsets, and   *)
(* Moved says it once for all of them: an operation keeps some entries, in *)
(* order, and may append one.  After that no index arithmetic is left.     *)
(***************************************************************************)
EXTENDS MCRsd, FiniteSetTheorems, FunctionTheorems, SequenceTheorems, TLAPS

CellAt(es, t, i) == es[(t + i) % Slots]

(* The array holds c entries from offset 0 on, and nothing elsewhere. *)
Packed(es, t, c) ==
    /\ es \in [Cells -> Entry \cup {NoData}] /\ t \in Cells /\ c \in 0..Slots
    /\ \A i \in Cells : CellAt(es, t, i) # NoData <=> i < c

(* The array after a store, a pop, a compaction. *)
Stored(es, t, c, e) == [es EXCEPT ![(t + c) % Slots] = e]
Popped(es, t) == [es EXCEPT ![t] = NoData]
Kept(n, keep) == [c \in Cells |-> IF c < n THEN entries[At(keep[c])] ELSE NoData]

-----------------------------------------------------------------------------
(* Index arithmetic. *)
LEMMA Wrap ==
    ASSUME NEW a \in 0..(2 * Slots - 1)
    PROVE  a % Slots = (IF a < Slots THEN a ELSE a - Slots) /\ a % Slots \in Cells
  BY SendqAssumption DEF Cells

LEMMA Turn ==
    ASSUME NEW t \in Cells, NEW i \in 0..Slots
    PROVE  /\ t + i < Slots => (t + i) % Slots = t + i
           /\ t + i >= Slots => (t + i) % Slots = (t + i) - Slots
           /\ (t + i) % Slots \in Cells
  <1>1. t + i \in 0..(2 * Slots - 1)
    BY SendqAssumption DEF Cells
  <1>2. /\ (t + i) % Slots = (IF t + i < Slots THEN t + i ELSE (t + i) - Slots)
        /\ (t + i) % Slots \in Cells
    BY <1>1, Wrap
  <1> QED BY <1>1, <1>2, SendqAssumption

(* Offsets name cells one to one. *)
LEMMA OneCell ==
    ASSUME NEW t \in Cells, NEW i \in Cells, NEW j \in Cells,
           (t + i) % Slots = (t + j) % Slots
    PROVE  i = j
  <1>1. i \in 0..Slots /\ j \in 0..Slots
    BY SendqAssumption DEF Cells
  <1>2. /\ t + i < Slots => (t + i) % Slots = t + i
        /\ t + i >= Slots => (t + i) % Slots = (t + i) - Slots
    BY <1>1, Turn
  <1>3. /\ t + j < Slots => (t + j) % Slots = t + j
        /\ t + j >= Slots => (t + j) % Slots = (t + j) - Slots
    BY <1>1, Turn
  <1> QED BY <1>2, <1>3, SendqAssumption DEF Cells

LEMMA EveryCell ==
    ASSUME NEW t \in Cells, NEW c \in Cells
    PROVE  \E i \in Cells : c = (t + i) % Slots
  <1> DEFINE i == IF t <= c THEN c - t ELSE (c + Slots) - t
  <1>1. i \in Cells
    BY SendqAssumption DEF Cells
  <1>2. c = (t + i) % Slots
    <2>1. i \in 0..Slots
      BY <1>1, SendqAssumption DEF Cells
    <2> HIDE DEF i
    <2>2. /\ t + i < Slots => (t + i) % Slots = t + i
          /\ t + i >= Slots => (t + i) % Slots = (t + i) - Slots
      BY <2>1, Turn
    <2> QED BY <2>2, SendqAssumption DEF Cells, i
  <1> QED BY <1>1, <1>2

(* From the next cell every offset is one less. *)
LEMMA NextCell ==
    ASSUME NEW t \in Cells, NEW i \in Cells
    PROVE  /\ (t + 1) % Slots \in Cells
           /\ (((t + 1) % Slots) + i) % Slots = (t + (i + 1)) % Slots
  <1>1. 1 \in 0..Slots /\ i + 1 \in 0..Slots /\ i \in 0..Slots
    BY SendqAssumption DEF Cells
  <1>2. (t + 1) % Slots \in Cells
    BY <1>1, Turn
  <1>3. /\ t + (i + 1) < Slots => (t + (i + 1)) % Slots = t + (i + 1)
        /\ t + (i + 1) >= Slots => (t + (i + 1)) % Slots = (t + (i + 1)) - Slots
    BY <1>1, Turn
  <1>4. CASE t + 1 < Slots
    <2>1. (t + 1) % Slots = t + 1 /\ t + 1 \in Cells
      BY <1>1, <1>4, Turn, SendqAssumption DEF Cells
    <2>2. /\ (t + 1) + i < Slots => ((t + 1) + i) % Slots = (t + 1) + i
          /\ (t + 1) + i >= Slots => ((t + 1) + i) % Slots = ((t + 1) + i) - Slots
      BY <1>1, <2>1, Turn
    <2>3. ((t + 1) + i) % Slots = (t + (i + 1)) % Slots
      BY <1>3, <2>2, SendqAssumption DEF Cells
    <2> QED BY <1>2, <2>1, <2>3
  <1>5. CASE t + 1 = Slots
    <2>1. (t + 1) % Slots = 0 /\ 0 \in Cells
      BY <1>1, <1>5, Turn, SendqAssumption DEF Cells
    <2>2. (0 + i) % Slots = i
      <3>1. 0 + i < Slots
        BY SendqAssumption DEF Cells
      <3>2. (0 + i) % Slots = 0 + i
        BY <1>1, <2>1, <3>1, Turn
      <3> QED BY <3>2 DEF Cells
    <2>3. (t + (i + 1)) % Slots = i
      BY <1>3, <1>5, SendqAssumption DEF Cells
    <2> QED BY <1>2, <2>1, <2>2, <2>3
  <1> QED BY <1>4, <1>5, SendqAssumption DEF Cells

LEMMA NoDataApart == ASSUME NEW e \in Entry PROVE e # NoData
  BY DEF Entry, NoData

-----------------------------------------------------------------------------
(* What the operations do to the offsets. *)
LEMMA StoreCell ==
    ASSUME NEW es, NEW t \in Cells, NEW c \in 0..Slots, Packed(es, t, c), c < Slots, NEW e \in Entry
    PROVE  /\ Packed(Stored(es, t, c, e), t, c + 1)
           /\ \A i \in Cells : i < c => CellAt(Stored(es, t, c, e), t, i) = CellAt(es, t, i)
           /\ CellAt(Stored(es, t, c, e), t, c) = e
  <1> USE SendqAssumption
  <1> DEFINE new == Stored(es, t, c, e)
  <1>0. new = [es EXCEPT ![(t + c) % Slots] = e]
    BY DEF Stored
  <1> HIDE DEF new
  <1>1. t \in Cells /\ c \in Cells /\ (t + c) % Slots \in Cells
    BY Turn DEF Packed, Cells
  <1>2. new \in [Cells -> Entry \cup {NoData}]
    BY <1>0, <1>1 DEF Packed
  <1>3. CellAt(new, t, c) = e
    BY <1>0, <1>1 DEF CellAt, Packed
  <1>4. \A i \in Cells \ {c} : CellAt(new, t, i) = CellAt(es, t, i)
    <2> SUFFICES ASSUME NEW i \in Cells, i # c PROVE CellAt(new, t, i) = CellAt(es, t, i)
      OBVIOUS
    <2>0. i \in 0..Slots
      BY DEF Cells
    <2>1. (t + i) % Slots \in Cells /\ (t + i) % Slots # (t + c) % Slots
      BY <1>1, <2>0, Turn, OneCell
    <2> QED BY <1>0, <1>1, <2>1 DEF CellAt, Packed
  <1>5. \A i \in Cells : CellAt(new, t, i) # NoData <=> i < c + 1
    <2> SUFFICES ASSUME NEW i \in Cells PROVE CellAt(new, t, i) # NoData <=> i < c + 1
      OBVIOUS
    <2>1. CASE i = c
      <3>1. e # NoData /\ c < c + 1
        BY <1>1, NoDataApart DEF Cells
      <3> QED BY <1>3, <2>1, <3>1
    <2>2. CASE i # c
      <3>1. CellAt(es, t, i) # NoData <=> i < c
        BY DEF Packed
      <3>2. i < c <=> i < c + 1
        BY <1>1, <2>2 DEF Cells
      <3> QED BY <1>4, <2>2, <3>1, <3>2
    <2> QED BY <2>1, <2>2
  <1>6. \A i \in Cells : i < c => i \in Cells \ {c}
    BY <1>1 DEF Cells
  <1>7. c + 1 \in 0..Slots
    BY <1>1 DEF Cells
  <1> QED BY <1>1, <1>2, <1>3, <1>4, <1>5, <1>6, <1>7 DEF Packed, new

LEMMA PopCell ==
    ASSUME NEW es, NEW t \in Cells, NEW c \in 0..Slots, Packed(es, t, c), c > 0
    PROVE  /\ Packed(Popped(es, t), (t + 1) % Slots, c - 1)
           /\ \A i \in Cells : i + 1 < c =>
                 i + 1 \in Cells /\ CellAt(Popped(es, t), (t + 1) % Slots, i) = CellAt(es, t, i + 1)
           /\ es[t] = CellAt(es, t, 0) /\ es[t] \in Entry
  <1> USE SendqAssumption
  <1> DEFINE new == Popped(es, t)
  <1>0. new = [es EXCEPT ![t] = NoData]
    BY DEF Popped
  <1> HIDE DEF new
  <1>1. t \in Cells /\ 0 \in Cells /\ (t + 0) % Slots = t
    <2>1. t \in Cells /\ 0 \in Cells /\ 0 \in 0..Slots /\ t + 0 < Slots
      BY DEF Packed, Cells
    <2>2. (t + 0) % Slots = t + 0
      BY <2>1, Turn
    <2> QED BY <2>1, <2>2 DEF Cells
  <1>2. new \in [Cells -> Entry \cup {NoData}]
    BY <1>0, <1>1 DEF Packed
  <1>3. es[t] = CellAt(es, t, 0) /\ es[t] \in Entry
    BY <1>1 DEF CellAt, Packed
  <1>4. \A i \in Cells : CellAt(new, (t + 1) % Slots, i) = new[(t + (i + 1)) % Slots]
    BY <1>1, NextCell DEF CellAt
  <1>5. \A i \in Cells : i + 1 \in Cells =>
           CellAt(new, (t + 1) % Slots, i) = CellAt(es, t, i + 1)
    <2> SUFFICES ASSUME NEW i \in Cells, i + 1 \in Cells
                 PROVE  CellAt(new, (t + 1) % Slots, i) = CellAt(es, t, i + 1)
      OBVIOUS
    <2>0. i + 1 \in 0..Slots /\ i + 1 # 0
      BY DEF Cells
    <2>1. (t + (i + 1)) % Slots \in Cells
      BY <1>1, <2>0, Turn
    <2>2. (t + (i + 1)) % Slots # t
      BY <1>1, <2>0, OneCell
    <2> QED BY <1>0, <1>4, <2>1, <2>2 DEF CellAt, Packed
  <1>6. \A i \in Cells : i + 1 \notin Cells => CellAt(new, (t + 1) % Slots, i) = NoData
    <2> SUFFICES ASSUME NEW i \in Cells, i + 1 \notin Cells
                 PROVE  CellAt(new, (t + 1) % Slots, i) = NoData
      OBVIOUS
    <2>1. i + 1 = Slots
      BY DEF Cells
    <2>2. (t + (i + 1)) % Slots = t
      <3>1. i + 1 \in 0..Slots /\ t + (i + 1) >= Slots /\ (t + (i + 1)) - Slots = t
        BY <1>1, <2>1 DEF Cells
      <3> QED BY <1>1, <3>1, Turn
    <2> QED BY <1>0, <1>1, <1>4, <2>2 DEF Packed
  <1>7. \A i \in Cells : CellAt(new, (t + 1) % Slots, i) # NoData <=> i < c - 1
    <2> SUFFICES ASSUME NEW i \in Cells
                 PROVE  CellAt(new, (t + 1) % Slots, i) # NoData <=> i < c - 1
      OBVIOUS
    <2>1. c \in 0..Slots
      BY DEF Packed
    <2>2. CASE i + 1 \in Cells
      <3>1. CellAt(es, t, i + 1) # NoData <=> i + 1 < c
        BY <2>2 DEF Packed
      <3>2. i + 1 < c <=> i < c - 1
        BY <2>1 DEF Cells
      <3> QED BY <1>5, <2>2, <3>1, <3>2
    <2>3. CASE i + 1 \notin Cells
      <3>1. ~(i < c - 1)
        BY <2>1, <2>3 DEF Cells
      <3> QED BY <1>6, <2>3, <3>1
    <2> QED BY <2>2, <2>3
  <1>8. (t + 1) % Slots \in Cells /\ c - 1 \in 0..Slots
    BY <1>1, NextCell DEF Packed
  <1>9. \A i \in Cells : i + 1 < c => i + 1 \in Cells
    BY DEF Packed, Cells
  <1> QED BY <1>2, <1>3, <1>5, <1>7, <1>8, <1>9 DEF Packed, new

LEMMA PrevCell ==
    ASSUME NEW t \in Cells, NEW j \in Cells, j # 0
    PROVE  /\ j - 1 \in Cells
           /\ (((t + j) % Slots) + Slots - 1) % Slots = (t + (j - 1)) % Slots
  <1> USE SendqAssumption
  <1> DEFINE c == (t + j) % Slots
  <1>1. j \in 0..Slots /\ j - 1 \in 0..Slots /\ j - 1 \in Cells
    BY DEF Cells
  <1>2. /\ t + j < Slots => c = t + j
        /\ t + j >= Slots => c = (t + j) - Slots
        /\ c \in Cells
    BY <1>1, Turn
  <1>3. /\ t + (j - 1) < Slots => (t + (j - 1)) % Slots = t + (j - 1)
        /\ t + (j - 1) >= Slots => (t + (j - 1)) % Slots = (t + (j - 1)) - Slots
    BY <1>1, Turn
  <1> HIDE DEF c
  <1>4. c + Slots - 1 \in 0..(2 * Slots - 1)
    BY <1>2 DEF Cells
  <1>5. (c + Slots - 1) % Slots =
           (IF c + Slots - 1 < Slots THEN c + Slots - 1 ELSE (c + Slots - 1) - Slots)
    BY <1>4, Wrap
  <1>6. (c + Slots - 1) % Slots = (t + (j - 1)) % Slots
    BY <1>2, <1>3, <1>5 DEF Cells
  <1> QED BY <1>1, <1>6 DEF c

(* rsd_sendq_take_audio_locked removes the entry at offset i. *)
LEMMA CloseCell ==
    ASSUME Packed(entries, tail, count), NEW i \in Offsets
    PROVE  /\ Packed(Closed(i), (tail + 1) % Slots, count - 1)
           /\ \A j \in Cells : j + 1 < count => CellAt(Closed(i), (tail + 1) % Slots, j) =
                 CellAt(entries, tail, IF j < i THEN j ELSE j + 1)
  <1> USE SendqAssumption
  <1> DEFINE moved == [c \in Cells |-> IF \E j \in 1..i : c = At(j)
                          THEN entries[(c + Slots - 1) % Slots] ELSE entries[c]]
  <1>1. tail \in Cells /\ count \in 0..Slots /\ i \in Cells /\ i < count
    BY DEF Packed, Offsets, Cells
  <1>2. \A j \in Cells : (tail + j) % Slots \in Cells
    <2> SUFFICES ASSUME NEW j \in Cells PROVE (tail + j) % Slots \in Cells
      OBVIOUS
    <2>1. j \in 0..Slots
      BY DEF Cells
    <2> QED BY <1>1, <2>1, Turn
  <1>3. \A j \in Cells : (\E k \in 1..i : (tail + j) % Slots = At(k)) <=> j \in 1..i
    <2>1. 1..i \subseteq Cells
      BY <1>1 DEF Cells
    <2> QED BY <1>1, <2>1, OneCell DEF At
  <1>4. \A j \in Cells : CellAt(moved, tail, j) =
           IF j \in 1..i THEN CellAt(entries, tail, j - 1) ELSE CellAt(entries, tail, j)
    <2> SUFFICES ASSUME NEW j \in Cells
                 PROVE  CellAt(moved, tail, j) =
                           IF j \in 1..i THEN CellAt(entries, tail, j - 1)
                                         ELSE CellAt(entries, tail, j)
      OBVIOUS
    <2> DEFINE c == (tail + j) % Slots
    <2>1. c \in Cells
      BY <1>2
    <2>2. CASE j \in 1..i
      <3>1. CellAt(moved, tail, j) = entries[(c + Slots - 1) % Slots]
        BY <1>3, <2>1, <2>2 DEF CellAt
      <3>2. tail \in Cells /\ j # 0
        BY <1>1, <2>2
      <3>3. (c + Slots - 1) % Slots = (tail + (j - 1)) % Slots
        BY <3>2, PrevCell
      <3> QED BY <2>2, <3>1, <3>3 DEF CellAt
    <2>3. CASE j \notin 1..i
      BY <1>3, <2>1, <2>3 DEF CellAt
    <2> QED BY <2>2, <2>3
  <1>5. moved \in [Cells -> Entry \cup {NoData}]
    <2> SUFFICES ASSUME NEW c \in Cells PROVE moved[c] \in Entry \cup {NoData}
      OBVIOUS
    <2>1. PICK j \in Cells : c = (tail + j) % Slots
      BY <1>1, EveryCell
    <2>2. moved[c] = CellAt(moved, tail, j)
      BY <2>1 DEF CellAt
    <2>3. \A k \in Cells : CellAt(entries, tail, k) \in Entry \cup {NoData}
      BY <1>2 DEF CellAt, Packed
    <2>4. j \in 1..i => j - 1 \in Cells
      BY <1>1 DEF Cells
    <2> QED BY <1>4, <2>2, <2>3, <2>4
  <1>6. \A j \in Cells : CellAt(moved, tail, j) # NoData <=> j < count
    <2> SUFFICES ASSUME NEW j \in Cells PROVE CellAt(moved, tail, j) # NoData <=> j < count
      OBVIOUS
    <2>1. CASE j \in 1..i
      <3>1. j - 1 \in Cells /\ j - 1 < count /\ j < count
        BY <1>1, <2>1 DEF Cells
      <3>2. CellAt(entries, tail, j - 1) # NoData
        BY <3>1 DEF Packed
      <3> QED BY <1>4, <2>1, <3>1, <3>2
    <2>2. CASE j \notin 1..i
      BY <1>4, <2>2 DEF Packed
    <2> QED BY <2>1, <2>2
  <1>7. Packed(moved, tail, count)
    BY <1>1, <1>5, <1>6 DEF Packed
  <1>8. Closed(i) = Popped(moved, tail)
    BY Zenon DEF Closed, Popped
  <1> HIDE DEF moved
  <1>9. /\ Packed(Closed(i), (tail + 1) % Slots, count - 1)
        /\ \A j \in Cells : j + 1 < count =>
              CellAt(Closed(i), (tail + 1) % Slots, j) = CellAt(moved, tail, j + 1)
    <2>1. count > 0
      BY <1>1 DEF Cells
    <2> QED BY <1>1, <1>7, <1>8, <2>1, PopCell
  <1>10. ASSUME NEW j \in Cells, j + 1 < count
         PROVE  CellAt(moved, tail, j + 1) = CellAt(entries, tail, IF j < i THEN j ELSE j + 1)
    <2>1. j + 1 \in Cells
      BY <1>1, <1>10 DEF Cells
    <2>2. (j + 1 \in 1..i <=> j < i) /\ (j + 1) - 1 = j
      BY <1>1 DEF Cells
    <2> QED BY <1>4, <2>1, <2>2
  <1> QED BY <1>9, <1>10

(* sendq_drop_video_locked keeps the entries at the offsets keep. *)
LEMMA DropCell ==
    ASSUME Packed(entries, tail, count), NEW n \in 0..count,
           NEW keep \in [0..(n - 1) -> AudioOffsets]
    PROVE  /\ Packed(Kept(n, keep), 0, n)
           /\ \A i \in Cells : i < n => keep[i] \in Cells /\ keep[i] < count
                                         /\ CellAt(Kept(n, keep), 0, i) = CellAt(entries, tail, keep[i])
  <1> USE SendqAssumption
  <1> DEFINE new == Kept(n, keep)
  <1>0. new = [c \in Cells |-> IF c < n THEN entries[At(keep[c])] ELSE NoData]
    BY DEF Kept
  <1> HIDE DEF new
  <1>1. tail \in Cells /\ count \in 0..Slots /\ n \in 0..Slots /\ 0 \in Cells
    BY DEF Packed, Cells
  <1>2. \A i \in Cells : (0 + i) % Slots = i
    <2> SUFFICES ASSUME NEW i \in Cells PROVE (0 + i) % Slots = i
      OBVIOUS
    <2>1. i \in 0..Slots /\ 0 + i < Slots /\ 0 + i = i
      BY DEF Cells
    <2> QED BY <1>1, <2>1, Turn
  <1>3. \A i \in Cells : CellAt(new, 0, i) = new[i]
    BY <1>2 DEF CellAt
  <1>4. \A i \in 0..(n - 1) : /\ i \in Cells /\ keep[i] \in Cells /\ keep[i] < count
                              /\ new[i] = CellAt(entries, tail, keep[i])
    BY <1>0, <1>1 DEF Cells, AudioOffsets, Offsets, CellAt, At
  <1>5. \A i \in Cells : new[i] \in Entry \cup {NoData} /\ (new[i] # NoData <=> i < n)
    <2> SUFFICES ASSUME NEW i \in Cells
                 PROVE  new[i] \in Entry \cup {NoData} /\ (new[i] # NoData <=> i < n)
      OBVIOUS
    <2>1. CASE i < n
      <3>1. i \in 0..(n - 1)
        BY <1>1, <2>1 DEF Cells
      <3>2. keep[i] \in 0..Slots
        <4>1. PICK k \in Cells : k = keep[i]
          BY <1>4, <3>1
        <4> QED BY <4>1 DEF Cells
      <3>3. (tail + keep[i]) % Slots \in Cells
        BY <1>1, <3>2, Turn
      <3>4. CellAt(entries, tail, keep[i]) \in Entry \cup {NoData}
        BY <3>3 DEF CellAt, Packed
      <3>5. CellAt(entries, tail, keep[i]) # NoData
        BY <1>4, <3>1 DEF Packed
      <3> QED BY <1>4, <2>1, <3>1, <3>4, <3>5
    <2>2. CASE ~(i < n)
      BY <1>0, <2>2
    <2> QED BY <2>1, <2>2
  <1>6. new \in [Cells -> Entry \cup {NoData}]
    BY <1>0, <1>5
  <1>7. \A i \in Cells : i < n => i \in 0..(n - 1)
    BY <1>1 DEF Cells
  <1> QED BY <1>1, <1>3, <1>4, <1>5, <1>6, <1>7 DEF Packed, new

LEMMA HeadCell ==
    ASSUME NEW t \in Cells, NEW c \in Cells
    PROVE  /\ (((t + c) % Slots) + 1) % Slots = (t + (c + 1)) % Slots
           /\ (t + (c + 1)) % Slots \in Cells
  <1> USE SendqAssumption
  <1> DEFINE h == (t + c) % Slots
  <1>1. c \in 0..Slots /\ c + 1 \in 0..Slots /\ 1 \in 0..Slots
    BY DEF Cells
  <1>2. /\ t + c < Slots => h = t + c
        /\ t + c >= Slots => h = (t + c) - Slots
        /\ h \in Cells
    BY <1>1, Turn
  <1>3. /\ t + (c + 1) < Slots => (t + (c + 1)) % Slots = t + (c + 1)
        /\ t + (c + 1) >= Slots => (t + (c + 1)) % Slots = (t + (c + 1)) - Slots
        /\ (t + (c + 1)) % Slots \in Cells
    BY <1>1, Turn
  <1> HIDE DEF h
  <1>4. /\ h + 1 < Slots => (h + 1) % Slots = h + 1
        /\ h + 1 >= Slots => (h + 1) % Slots = (h + 1) - Slots
    BY <1>1, <1>2, Turn
  <1>5. (h + 1) % Slots = (t + (c + 1)) % Slots
    <2>1. CASE t + c < Slots
      <3>1. h = t + c
        BY <1>2, <2>1
      <3> QED BY <1>3, <1>4, <3>1 DEF Cells
    <2>2. CASE t + c >= Slots
      <3>1. h = (t + c) - Slots
        BY <1>2, <2>2
      <3>2. t + (c + 1) >= Slots /\ h + 1 < Slots
        BY <2>2, <3>1 DEF Cells
      <3> QED BY <1>3, <1>4, <3>1, <3>2 DEF Cells
    <2> QED BY <2>1, <2>2 DEF Cells
  <1> QED BY <1>3, <1>5 DEF h

LEMMA HomeCell == ASSUME NEW t \in Cells PROVE (t + 0) % Slots = t
  <1>1. 0 \in 0..Slots /\ t + 0 < Slots /\ t + 0 = t
    BY SendqAssumption DEF Cells
  <1> QED BY <1>1, Turn

-----------------------------------------------------------------------------
(* The queue by offsets. *)
Cell(i) == CellAt(entries, tail, i)

LEMMA Occupied ==
    ASSUME Packed(entries, tail, count)
    PROVE  /\ \A c \in Cells : entries[c] # NoData <=> \E i \in Offsets : c = At(i)
           /\ Queued = {Cell(i).ts : i \in Offsets}
           /\ \A i \in Offsets : i \in Cells /\ i < count /\ Cell(i) \in Entry /\ entries[At(i)] = Cell(i)
           /\ \A i \in Cells : i < count <=> i \in Offsets
  <1> USE SendqAssumption
  <1>1. tail \in Cells /\ count \in 0..Slots
    BY DEF Packed
  <1>2. \A i \in Cells : At(i) \in Cells
    <2> SUFFICES ASSUME NEW i \in Cells PROVE At(i) \in Cells
      OBVIOUS
    <2>1. i \in 0..Slots
      BY DEF Cells
    <2> QED BY <1>1, <2>1, Turn DEF At
  <1>3. \A i \in Cells : i < count <=> i \in Offsets
    BY <1>1 DEF Cells, Offsets
  <1>4. Offsets \subseteq Cells
    BY <1>1 DEF Cells, Offsets
  <1>5. \A i \in Cells : entries[At(i)] = Cell(i) /\ (Cell(i) # NoData <=> i \in Offsets)
    BY <1>3 DEF Packed, Cell, CellAt, At
  <1>6. \A i \in Offsets : Cell(i) \in Entry
    BY <1>2, <1>4, <1>5 DEF Packed
  <1>7. \A c \in Cells : entries[c] # NoData <=> \E i \in Offsets : c = At(i)
    <2> SUFFICES ASSUME NEW c \in Cells PROVE entries[c] # NoData <=> \E i \in Offsets : c = At(i)
      OBVIOUS
    <2>1. PICK k \in Cells : c = At(k)
      BY <1>1, EveryCell DEF At
    <2>2. entries[c] # NoData <=> k \in Offsets
      BY <1>5, <2>1
    <2>3. ASSUME NEW i \in Offsets, c = At(i) PROVE k \in Offsets
      BY <1>4, <1>5, <2>1, <2>3
    <2> QED BY <2>1, <2>2, <2>3
  <1>8. Queued = {Cell(i).ts : i \in Offsets}
    BY <1>2, <1>4, <1>5, <1>7 DEF Queued
  <1> QED BY <1>3, <1>4, <1>5, <1>6, <1>7, <1>8

(* Pushes number the entries, so the numbers grow along the queue. *)
Increasing == \A i, j \in Cells : i < j /\ j < count => Cell(i).ts < Cell(j).ts
Numbered == \A i \in Cells : i < count => Cell(i).ts <= npush

(* What was sent of a kind was pushed before what is queued of that kind. *)
SentSorted ==
    /\ \A a, b \in 1..Len(sent) : a < b /\ sent[a].type = sent[b].type => sent[a].ts < sent[b].ts
    /\ \A a \in 1..Len(sent) : sent[a].ts <= npush
SentFirst == \A a \in 1..Len(sent), i \in Cells :
    i < count /\ sent[a].type = Cell(i).type => sent[a].ts < Cell(i).ts

(* Every operation keeps some entries, in order, and may append the entry  *)
(* of this push: m names the offsets kept.                                 *)
Moved(k, m, e) ==
    /\ Packed(entries', tail', count')
    /\ \A i \in Cells : i < k => m[i] \in Cells /\ m[i] < count /\ Cell(i)' = Cell(m[i])
    /\ \A i, j \in Cells : i < j /\ j < k => m[i] < m[j]
    /\ npush' \in {npush, npush + 1}
    /\ \/ count' = k
       \/ count' = k + 1 /\ CellAt(entries', tail', k) = e /\ e.ts = npush + 1 /\ npush' = npush + 1

LEMMA EntryNumber == ASSUME NEW e \in Entry PROVE e.ts \in Nat /\ e.ts \in 1..MaxPush
  BY SendqAssumption DEF Entry

LEMMA MovedOrder ==
    ASSUME Packed(entries, tail, count), Increasing, Numbered, npush \in Nat,
           NEW k \in 0..Slots, NEW m, NEW e \in Entry, Moved(k, m, e)
    PROVE  Increasing' /\ Numbered'
  <1> USE SendqAssumption
  <1>1. \A i \in Cells : i < count => Cell(i).ts \in Nat
    BY Occupied, EntryNumber
  <1>2. ASSUME NEW i \in Cells, i < k
        PROVE  \E a \in Cells : a = m[i] /\ a < count /\ Cell(i)' = Cell(a) /\ Cell(a).ts \in Nat
    BY <1>1, <1>2 DEF Moved
  <1>3. k \in Nat /\ \A i \in Cells : i < count' => i < k \/ (i = k /\ count' = k + 1)
    BY DEF Moved, Cells
  <1>4. count' = k + 1 => Cell(k)'.ts = npush + 1 /\ npush' = npush + 1
    BY <1>3 DEF Moved, Cell
  <1>5. Increasing'
    <2> SUFFICES ASSUME NEW i \in Cells, NEW j \in Cells, i < j, j < count'
                 PROVE  Cell(i)'.ts < Cell(j)'.ts
      BY DEF Increasing, Cells
    <2>1. i < k
      BY <1>3 DEF Cells
    <2>2. PICK a \in Cells : a = m[i] /\ a < count /\ Cell(i)' = Cell(a) /\ Cell(a).ts \in Nat
      BY <1>2, <2>1
    <2>3. CASE j < k
      <3>1. PICK b \in Cells : b = m[j] /\ b < count /\ Cell(j)' = Cell(b) /\ Cell(b).ts \in Nat
        BY <1>2, <2>3
      <3>2. a < b
        BY <2>2, <2>3, <3>1 DEF Moved
      <3>3. Cell(a).ts < Cell(b).ts
        BY <3>1, <3>2 DEF Increasing
      <3> QED BY <2>2, <3>1, <3>3
    <2>4. CASE j = k /\ count' = k + 1
      <3>1. Cell(a).ts <= npush
        BY <2>2 DEF Numbered
      <3>2. Cell(j)'.ts = npush + 1
        BY <1>4, <2>4
      <3>3. Cell(a).ts < npush + 1
        BY <2>2, <3>1
      <3> QED BY <2>2, <3>2, <3>3
    <2> QED BY <1>3, <2>3, <2>4
  <1>6. Numbered'
    <2> SUFFICES ASSUME NEW i \in Cells, i < count' PROVE Cell(i)'.ts <= npush'
      BY DEF Numbered, Cells
    <2>1. CASE i < k
      <3>1. PICK a \in Cells : a = m[i] /\ a < count /\ Cell(i)' = Cell(a) /\ Cell(a).ts \in Nat
        BY <1>2, <2>1
      <3>2. Cell(a).ts <= npush
        BY <3>1 DEF Numbered
      <3>3. Cell(a).ts <= npush + 1
        BY <3>1, <3>2
      <3>4. npush' = npush \/ npush' = npush + 1
        BY DEF Moved
      <3> QED BY <3>1, <3>2, <3>3, <3>4
    <2>2. CASE i = k /\ count' = k + 1
      <3>1. npush + 1 <= npush + 1
        OBVIOUS
      <3> QED BY <1>4, <2>2, <3>1
    <2> QED BY <1>3, <2>1, <2>2
  <1> QED BY <1>5, <1>6

(* Nothing is sent by the step. *)
LEMMA MovedQuiet ==
    ASSUME Packed(entries, tail, count), SentSorted, SentFirst, npush \in Nat,
           NEW k \in 0..Slots, NEW m, NEW e \in Entry, Moved(k, m, e),
           sent \in Seq(Entry), sent' = sent
    PROVE  SentSorted' /\ SentFirst'
  <1> USE SendqAssumption
  <1>0. Len(sent) \in Nat /\ \A a \in 1..Len(sent) : sent[a].ts \in Nat
    BY EntryNumber
  <1>1. npush' = npush \/ npush' = npush + 1
    BY DEF Moved
  <1>2. SentSorted'
    <2>1. \A a \in 1..Len(sent) : sent[a].ts <= npush /\ sent[a].ts <= npush + 1
      BY <1>0 DEF SentSorted
    <2>2. \A a \in 1..Len(sent) : sent[a].ts <= npush'
      BY <1>1, <2>1
    <2> QED BY <2>2, Zenon DEF SentSorted
  <1>3. SentFirst'
    <2> SUFFICES ASSUME NEW a \in 1..Len(sent), NEW i \in Cells, i < count',
                        sent[a].type = Cell(i)'.type
                 PROVE  sent[a].ts < Cell(i)'.ts
      BY DEF SentFirst, Cells
    <2>1. k \in Nat /\ (i < k \/ (i = k /\ count' = k + 1))
      BY DEF Moved, Cells
    <2>2. CASE i < k
      <3>1. PICK b \in Cells : b < count /\ Cell(i)' = Cell(b)
        BY <2>2 DEF Moved
      <3> QED BY <3>1 DEF SentFirst
    <2>3. CASE i = k /\ count' = k + 1
      <3>1. Cell(i)'.ts = npush + 1
        BY <2>1, <2>3 DEF Moved, Cell
      <3>2. sent[a].ts < npush + 1
        BY <1>0 DEF SentSorted
      <3> QED BY <3>1, <3>2
    <2> QED BY <2>1, <2>2, <2>3
  <1> QED BY <1>2, <1>3

(* The step sends the entry at offset r, the first of its kind. *)
LEMMA MovedSends ==
    ASSUME Packed(entries, tail, count), Increasing, Numbered, SentSorted, SentFirst,
           npush \in Nat, npush' = npush,
           NEW m, NEW e \in Entry, Moved(count - 1, m, e), count' = count - 1,
           NEW r \in Cells, r < count, \A i \in Cells : i < count - 1 => m[i] # r,
           \A i \in Cells : i < count /\ Cell(i).type = Cell(r).type => r <= i,
           sent \in Seq(Entry), sent' = Append(sent, Cell(r))
    PROVE  SentSorted' /\ SentFirst' /\ sent' \in Seq(Entry) /\ Len(sent') = Len(sent) + 1
  <1> USE SendqAssumption
  <1>0. Len(sent) \in Nat /\ \A a \in 1..Len(sent) : sent[a] \in Entry /\ sent[a].ts \in Nat
    BY EntryNumber
  <1>1. Cell(r) \in Entry /\ Cell(r).ts \in Nat /\ Cell(r).ts <= npush
    BY Occupied, EntryNumber DEF Numbered
  <1>2. sent' \in Seq(Entry) /\ Len(sent') = Len(sent) + 1 /\ sent'[Len(sent) + 1] = Cell(r)
    BY <1>1
  <1>3. \A a \in 1..Len(sent) : sent'[a] = sent[a]
    BY <1>1
  <1>4. \A a \in 1..Len(sent') : a \in 1..Len(sent) \/ a = Len(sent) + 1
    BY <1>0, <1>2
  <1>5. \A a \in 1..Len(sent) : sent[a].type = Cell(r).type => sent[a].ts < Cell(r).ts
    BY DEF SentFirst
  <1>6. ASSUME NEW a \in 1..Len(sent'), NEW b \in 1..Len(sent'), a < b,
               sent'[a].type = sent'[b].type
        PROVE  sent'[a].ts < sent'[b].ts
    <2>1. a \in 1..Len(sent)
      BY <1>0, <1>2, <1>6
    <2>2. CASE b \in 1..Len(sent)
      BY <1>3, <1>6, <2>1, <2>2 DEF SentSorted
    <2>3. CASE b = Len(sent) + 1
      BY <1>2, <1>3, <1>5, <1>6, <2>1, <2>3
    <2> QED BY <1>4, <2>2, <2>3
  <1>7. ASSUME NEW a \in 1..Len(sent') PROVE sent'[a].ts <= npush
    <2>1. CASE a \in 1..Len(sent)
      BY <1>3, <2>1 DEF SentSorted
    <2>2. CASE a = Len(sent) + 1
      BY <1>1, <1>2, <2>2
    <2> QED BY <1>4, <2>1, <2>2
  <1>8. ASSUME NEW a \in 1..Len(sent'), NEW i \in Cells, i < count',
               sent'[a].type = Cell(i)'.type
        PROVE  sent'[a].ts < Cell(i)'.ts
    <2>0. count - 1 \in Nat /\ i < count - 1
      BY <1>8 DEF Packed, Cells
    <2>1. PICK b \in Cells : b = m[i] /\ b < count /\ Cell(i)' = Cell(b)
      BY <2>0 DEF Moved
    <2>2. CASE a \in 1..Len(sent)
      BY <1>3, <1>8, <2>1, <2>2 DEF SentFirst
    <2>3. CASE a = Len(sent) + 1
      <3>1. Cell(b).type = Cell(r).type /\ b # r
        BY <1>2, <1>8, <2>0, <2>1, <2>3
      <3>2. r <= b
        BY <2>1, <3>1
      <3>3. r < b
        BY <3>1, <3>2 DEF Cells
      <3>4. Cell(r).ts < Cell(b).ts
        BY <2>1, <3>3 DEF Increasing
      <3> QED BY <1>2, <2>1, <2>3, <3>4
    <2> QED BY <1>4, <2>2, <2>3
  <1> QED BY <1>2, <1>6, <1>7, <1>8 DEF SentSorted, SentFirst, Cells

-----------------------------------------------------------------------------
(* The four ways the array changes, as moves. *)
Same == [i \in Cells |-> i]
Without(r) == [i \in Cells |-> IF i < r THEN i ELSE i + 1]

(* The same facts of the next state. *)
LEMMA OccupiedNow ==
    Packed(entries, tail, count) =>
       /\ Queued = {Cell(i).ts : i \in Offsets}
       /\ \A i \in Offsets : i \in Cells /\ i < count
       /\ \A i \in Cells : i < count <=> i \in Offsets
  BY Occupied

LEMMA OccupiedNext ==
    (Packed(entries, tail, count) =>
       /\ Queued = {Cell(i).ts : i \in Offsets}
       /\ \A i \in Offsets : i \in Cells /\ i < count
       /\ \A i \in Cells : i < count <=> i \in Offsets)'
  BY OccupiedNow, PTL

LEMMA MovedQueued ==
    ASSUME NEW k \in 0..Slots, NEW m, NEW e, Moved(k, m, e)
    PROVE  \A x : x \in Queued' <=> \/ \E i \in Cells : i < k /\ x = Cell(m[i]).ts
                                    \/ count' = k + 1 /\ x = npush + 1
  <1> USE SendqAssumption
  <1>1. Packed(entries, tail, count)' /\ count' \in 0..Slots
    BY DEF Moved, Packed
  <1>2. /\ Queued' = {Cell(i)'.ts : i \in Offsets'}
        /\ \A i \in Offsets' : i \in Cells /\ i < count'
        /\ \A i \in Cells : i < count' <=> i \in Offsets'
    BY <1>1, OccupiedNext DEF Cells
  <1>3. \A x : x \in Queued' <=> \E i \in Cells : i < count' /\ x = Cell(i)'.ts
    BY <1>2
  <1>4. \A i \in Cells : i < k => Cell(i)' = Cell(m[i])
    BY DEF Moved
  <1>5. count' = k \/ (count' = k + 1 /\ Cell(k)'.ts = npush + 1)
    BY DEF Moved, Cell
  <1>6. CASE count' = k
    <2>1. count' # k + 1
      BY <1>6
    <2> QED BY <1>3, <1>4, <1>6, <2>1
  <1>7. CASE count' = k + 1 /\ Cell(k)'.ts = npush + 1
    <2>1. k \in Cells /\ \A i \in Cells : i < count' <=> i < k \/ i = k
      BY <1>1, <1>7 DEF Cells
    <2> QED BY <1>3, <1>4, <1>7, <2>1
  <1> QED BY <1>5, <1>6, <1>7

LEMMA StoreMoves ==
    ASSUME Packed(entries, tail, count), count < Slots, NEW e \in Entry, e.ts = npush + 1,
           StoreIn(entries, tail, count, e), npush' = npush + 1
    PROVE  /\ Moved(count, Same, e) /\ count' = count + 1
           /\ head' = (tail' + count') % Slots /\ head' \in Cells
           /\ Queued' = Queued \cup {npush + 1}
  <1> USE SendqAssumption
  <1>1. tail \in Cells /\ count \in Cells /\ count \in 0..Slots
    BY DEF Packed, Cells
  <1>2. /\ entries' = Stored(entries, tail, count, e) /\ tail' = tail /\ count' = count + 1
        /\ head' = (((tail + count) % Slots) + 1) % Slots
    BY Zenon DEF StoreIn, Stored
  <1>3. /\ Packed(entries', tail', count')
        /\ \A i \in Cells : i < count => CellAt(entries', tail', i) = CellAt(entries, tail, i)
        /\ CellAt(entries', tail', count) = e
    BY <1>1, <1>2, StoreCell
  <1>4. \A i \in Cells : Same[i] = i
    BY DEF Same
  <1>5. Moved(count, Same, e)
    <2>1. \A i \in Cells : i < count => Same[i] \in Cells /\ Same[i] < count /\ Cell(i)' = Cell(Same[i])
      BY <1>3, <1>4 DEF Cell, Cells
    <2>2. \A i, j \in Cells : i < j /\ j < count => Same[i] < Same[j]
      BY <1>4
    <2> QED BY <1>2, <1>3, <2>1, <2>2 DEF Moved
  <1>6. head' = (tail' + count') % Slots /\ head' \in Cells
    BY <1>1, <1>2, HeadCell
  <1>7. \A x : x \in Queued' <=> x \in Queued \/ x = npush + 1
    <2>1. \A x : x \in Queued' <=> \/ \E i \in Cells : i < count /\ x = Cell(Same[i]).ts
                                   \/ count' = count + 1 /\ x = npush + 1
      BY <1>1, <1>5, MovedQueued
    <2>2. \A x : x \in Queued <=> \E i \in Cells : i < count /\ x = Cell(i).ts
      BY Occupied
    <2> QED BY <1>2, <1>4, <2>1, <2>2
  <1>8. Queued' = Queued \cup {npush + 1}
    BY <1>7
  <1> QED BY <1>2, <1>5, <1>6, <1>8

LEMMA WithoutMap ==
    ASSUME NEW r \in Cells
    PROVE  /\ \A i \in Cells : Without(r)[i] = IF i < r THEN i ELSE i + 1
           /\ \A i, j \in Cells : i < j => Without(r)[i] < Without(r)[j]
           /\ \A i \in Cells : Without(r)[i] # r
           /\ \A i \in Cells : i # r => \E j \in Cells : i = Without(r)[j] /\ (r < i => j + 1 = i)
                                                     /\ (i < r => j = i)
  <1> USE SendqAssumption
  <1>1. \A i \in Cells : Without(r)[i] = IF i < r THEN i ELSE i + 1
    BY DEF Without
  <1>2. ASSUME NEW i \in Cells, i # r
        PROVE  \E j \in Cells : i = Without(r)[j] /\ (r < i => j + 1 = i) /\ (i < r => j = i)
    <2>1. CASE i < r
      <3>1. i = Without(r)[i] /\ ~(r < i)
        BY <1>1, <2>1 DEF Cells
      <3> QED BY <2>1, <3>1
    <2>2. CASE r < i
      <3>1. i - 1 \in Cells /\ ~(i - 1 < r) /\ (i - 1) + 1 = i /\ ~(i < r)
        BY <2>2 DEF Cells
      <3>2. Without(r)[i - 1] = i
        BY <1>1, <3>1
      <3> QED BY <3>1, <3>2
    <2> QED BY <1>2, <2>1, <2>2 DEF Cells
  <1> QED BY <1>1, <1>2 DEF Cells

LEMMA Distinct ==
    ASSUME Packed(entries, tail, count), Increasing,
           NEW i \in Cells, NEW j \in Cells, i < count, j < count, Cell(i).ts = Cell(j).ts
    PROVE  i = j
  <1>1. Cell(i).ts \in Nat /\ Cell(j).ts \in Nat
    BY Occupied, EntryNumber
  <1>2. ~(Cell(i).ts < Cell(j).ts) /\ ~(Cell(j).ts < Cell(i).ts)
    BY <1>1
  <1>3. ~(i < j) /\ ~(j < i)
    BY <1>2 DEF Increasing
  <1> QED BY <1>3, SendqAssumption DEF Cells

LEMMA QueuedWithout ==
    ASSUME Packed(entries, tail, count), Increasing, npush \in Nat,
           NEW r \in Cells, r < count, NEW e, Moved(count - 1, Without(r), e)
    PROVE  /\ count' = count - 1 => Queued' = Queued \ {Cell(r).ts}
           /\ count' = count => Queued' = (Queued \ {Cell(r).ts}) \cup {npush + 1}
           /\ Cell(r).ts \in Queued
  <1> USE SendqAssumption
  <1>1. count \in 0..Slots /\ count - 1 \in 0..Slots /\ count > 0 /\ (count - 1) + 1 = count
    BY DEF Packed, Cells
  <1>2. \A x : x \in Queued' <=> \/ \E i \in Cells : i < count - 1 /\ x = Cell(Without(r)[i]).ts
                                 \/ count' = (count - 1) + 1 /\ x = npush + 1
    BY <1>1, MovedQueued
  <1>3. \A x : x \in Queued <=> \E i \in Cells : i < count /\ x = Cell(i).ts
    BY Occupied
  <1>4. ASSUME NEW i \in Cells, i < count - 1
        PROVE  \E j \in Cells : j = Without(r)[i] /\ j < count /\ j # r
    <2>1. Without(r)[i] = IF i < r THEN i ELSE i + 1
      BY WithoutMap
    <2>2. (IF i < r THEN i ELSE i + 1) \in Cells /\ (IF i < r THEN i ELSE i + 1) < count
             /\ (IF i < r THEN i ELSE i + 1) # r
      BY <1>1, <1>4 DEF Cells
    <2> QED BY <2>1, <2>2
  <1>5. ASSUME NEW j \in Cells, j < count, j # r
        PROVE  \E i \in Cells : i < count - 1 /\ j = Without(r)[i]
    <2>1. PICK i \in Cells : j = Without(r)[i] /\ (r < j => i + 1 = j) /\ (j < r => i = j)
      BY <1>5, WithoutMap
    <2>2. i < count - 1
      BY <1>1, <1>5, <2>1 DEF Cells
    <2> QED BY <2>1, <2>2
  <1>6. ASSUME NEW x
        PROVE  (\E i \in Cells : i < count - 1 /\ x = Cell(Without(r)[i]).ts)
                  <=> x \in Queued \ {Cell(r).ts}
    <2>1. ASSUME NEW i \in Cells, i < count - 1, x = Cell(Without(r)[i]).ts
          PROVE  x \in Queued \ {Cell(r).ts}
      <3>1. PICK j \in Cells : j = Without(r)[i] /\ j < count /\ j # r
        BY <1>4, <2>1
      <3>2. x = Cell(j).ts
        BY <2>1, <3>1
      <3>3. x # Cell(r).ts
        BY <3>1, <3>2, Distinct
      <3> QED BY <1>3, <3>1, <3>2, <3>3
    <2>2. ASSUME x \in Queued \ {Cell(r).ts}
          PROVE  \E i \in Cells : i < count - 1 /\ x = Cell(Without(r)[i]).ts
      <3>1. PICK j \in Cells : j < count /\ x = Cell(j).ts
        BY <1>3, <2>2
      <3>2. j # r
        BY <2>2, <3>1
      <3> QED BY <1>5, <3>1, <3>2
    <2> QED BY <2>1, <2>2
  <1>7. Cell(r).ts \in Queued
    BY <1>3
  <1>8. ASSUME count' = count - 1 PROVE Queued' = Queued \ {Cell(r).ts}
    <2>1. count' # (count - 1) + 1
      BY <1>1, <1>8
    <2> QED BY <1>2, <1>6, <2>1
  <1>9. ASSUME count' = count PROVE Queued' = (Queued \ {Cell(r).ts}) \cup {npush + 1}
    BY <1>1, <1>2, <1>6, <1>9
  <1> QED BY <1>7, <1>8, <1>9

(* An entry is removed: the pop takes offset 0, the drain the offset r. *)
LEMMA RemoveMoves ==
    ASSUME Packed(entries, tail, count), NEW r \in Offsets, NEW e,
           tail' = (tail + 1) % Slots, count' = count - 1, npush' = npush,
           entries' = Closed(r) \/ (r = 0 /\ entries' = Popped(entries, tail)),
           head = (tail + count) % Slots, head' = head
    PROVE  /\ Moved(count - 1, Without(r), e)
           /\ head' = (tail' + count') % Slots /\ head' \in Cells
           /\ r \in Cells /\ r < count /\ count - 1 \in 0..Slots /\ Cell(r) \in Entry
           /\ entries[At(r)] = Cell(r)
  <1> USE SendqAssumption
  <1>1. /\ tail \in Cells /\ count \in 0..Slots /\ r \in Cells /\ r < count /\ count > 0
        /\ count - 1 \in 0..Slots /\ count - 1 \in Cells /\ (count - 1) + 1 = count
    BY DEF Packed, Offsets, Cells
  <1>2. /\ Packed(entries', tail', count')
        /\ \A j \in Cells : j + 1 < count =>
              CellAt(entries', tail', j) = CellAt(entries, tail, IF j < r THEN j ELSE j + 1)
    <2>1. CASE entries' = Closed(r)
      BY <2>1, CloseCell
    <2>2. CASE r = 0 /\ entries' = Popped(entries, tail)
      <3>1. \A j \in Cells : (IF j < r THEN j ELSE j + 1) = j + 1
        BY <2>2 DEF Cells
      <3>2. /\ Packed(entries', tail', count')
            /\ \A j \in Cells : j + 1 < count => CellAt(entries', tail', j) = CellAt(entries, tail, j + 1)
        BY <1>1, <2>2, PopCell
      <3> QED BY <3>1, <3>2
    <2> QED BY <2>1, <2>2
  <1>3. \A j \in Cells : j < count - 1 => Without(r)[j] \in Cells /\ Without(r)[j] < count
                                           /\ Cell(j)' = Cell(Without(r)[j])
    <2> SUFFICES ASSUME NEW j \in Cells, j < count - 1
                 PROVE  Without(r)[j] \in Cells /\ Without(r)[j] < count /\ Cell(j)' = Cell(Without(r)[j])
      OBVIOUS
    <2>1. Without(r)[j] = IF j < r THEN j ELSE j + 1
      BY <1>1, WithoutMap
    <2>2. j + 1 < count /\ (IF j < r THEN j ELSE j + 1) \in Cells /\ (IF j < r THEN j ELSE j + 1) < count
      BY <1>1 DEF Cells
    <2> QED BY <1>2, <2>1, <2>2 DEF Cell
  <1>4. \A i, j \in Cells : i < j /\ j < count - 1 => Without(r)[i] < Without(r)[j]
    BY <1>1, WithoutMap
  <1>5. Moved(count - 1, Without(r), e)
    BY <1>2, <1>3, <1>4 DEF Moved
  <1>6. head' = (tail' + count') % Slots /\ head' \in Cells
    <2>1. (((tail + 1) % Slots) + (count - 1)) % Slots = (tail + ((count - 1) + 1)) % Slots
      BY <1>1, NextCell
    <2>2. (tail + count) % Slots \in Cells
      BY <1>1, Turn
    <2> QED BY <1>1, <2>1, <2>2
  <1> QED BY <1>1, <1>5, <1>6, Occupied

(* The oldest audio makes room for the entry pushed. *)
LEMMA ReplaceMoves ==
    ASSUME Packed(entries, tail, count), NEW r \in Offsets,
           NEW e \in Entry, e.ts = npush + 1, npush' = npush + 1,
           StoreIn(Closed(r), (tail + 1) % Slots, count - 1, e)
    PROVE  /\ Moved(count - 1, Without(r), e) /\ count' = count
           /\ head' = (tail' + count') % Slots /\ head' \in Cells
           /\ r \in Cells /\ r < count /\ count - 1 \in 0..Slots /\ Cell(r) \in Entry
           /\ entries[At(r)] = Cell(r) /\ CellAt(entries', tail', count - 1) = e
  <1> USE SendqAssumption
  <1> DEFINE es == Closed(r)
             t == (tail + 1) % Slots
  <1>1. /\ tail \in Cells /\ count \in 0..Slots /\ r \in Cells /\ r < count /\ count > 0
        /\ count - 1 \in 0..Slots /\ count - 1 \in Cells /\ (count - 1) + 1 = count /\ count - 1 < Slots
    BY DEF Packed, Offsets, Cells
  <1>2. t \in Cells
    BY <1>1, NextCell
  <1>3. /\ Packed(es, t, count - 1)
        /\ \A j \in Cells : j + 1 < count =>
              CellAt(es, t, j) = CellAt(entries, tail, IF j < r THEN j ELSE j + 1)
    BY CloseCell
  <1>4. /\ entries' = Stored(es, t, count - 1, e) /\ tail' = t /\ count' = count
        /\ head' = (((t + (count - 1)) % Slots) + 1) % Slots
    <2>1. /\ entries' = Stored(es, t, count - 1, e) /\ tail' = t /\ count' = (count - 1) + 1
          /\ head' = (((t + (count - 1)) % Slots) + 1) % Slots
      BY Zenon DEF StoreIn, Stored
    <2> QED BY <1>1, <2>1
  <1> HIDE DEF es, t
  <1>5. /\ Packed(entries', tail', count')
        /\ \A i \in Cells : i < count - 1 => CellAt(entries', tail', i) = CellAt(es, t, i)
        /\ CellAt(entries', tail', count - 1) = e
    <2>1. /\ Packed(Stored(es, t, count - 1, e), t, (count - 1) + 1)
          /\ \A i \in Cells : i < count - 1 => CellAt(Stored(es, t, count - 1, e), t, i) = CellAt(es, t, i)
          /\ CellAt(Stored(es, t, count - 1, e), t, count - 1) = e
      BY <1>1, <1>2, <1>3, StoreCell
    <2> QED BY <1>1, <1>4, <2>1
  <1>6. \A j \in Cells : j < count - 1 => Without(r)[j] \in Cells /\ Without(r)[j] < count
                                           /\ Cell(j)' = Cell(Without(r)[j])
    <2> SUFFICES ASSUME NEW j \in Cells, j < count - 1
                 PROVE  Without(r)[j] \in Cells /\ Without(r)[j] < count /\ Cell(j)' = Cell(Without(r)[j])
      OBVIOUS
    <2>1. Without(r)[j] = IF j < r THEN j ELSE j + 1
      BY <1>1, WithoutMap
    <2>2. j + 1 < count /\ (IF j < r THEN j ELSE j + 1) \in Cells /\ (IF j < r THEN j ELSE j + 1) < count
      BY <1>1 DEF Cells
    <2> QED BY <1>3, <1>5, <2>1, <2>2 DEF Cell
  <1>7. \A i, j \in Cells : i < j /\ j < count - 1 => Without(r)[i] < Without(r)[j]
    BY <1>1, WithoutMap
  <1>8. Moved(count - 1, Without(r), e)
    BY <1>1, <1>4, <1>5, <1>6, <1>7 DEF Moved
  <1>9. head' = (tail' + count') % Slots /\ head' \in Cells
    <2>1. /\ (((t + (count - 1)) % Slots) + 1) % Slots = (t + ((count - 1) + 1)) % Slots
          /\ (t + ((count - 1) + 1)) % Slots \in Cells
      BY <1>1, <1>2, HeadCell
    <2> QED BY <1>1, <1>4, <2>1
  <1> QED BY <1>1, <1>4, <1>5, <1>8, <1>9, Occupied

(* The queued audio survives an overflow by video, and nothing else. *)
LEMMA DropMoves ==
    ASSUME Packed(entries, tail, count), Increasing, npush \in Nat, npush' = npush + 1,
           NEW n \in 0..count, NEW keep \in [0..(n - 1) -> AudioOffsets], AudioInOrder(n, keep),
           NEW d, Overflow(n, keep, d), NEW e
    PROVE  /\ Moved(n, keep, e) /\ count' = n /\ n \in 0..Slots
           /\ head' = (tail' + count') % Slots /\ head' \in Cells
           /\ Queued' \cup VideoCopies = Queued \cup {npush + 1}
           /\ Queued' \subseteq Queued
           /\ \A x \in Queued' : x \in VideoCopies => x = npush + 1
  <1> USE SendqAssumption
  <1>1. tail \in Cells /\ count \in 0..Slots /\ n \in 0..Slots /\ n \in Nat /\ 0 \in Cells
    BY DEF Packed, Cells
  <1>2. entries' = Kept(n, keep) /\ tail' = 0 /\ count' = n /\ head' = n % Slots
    BY Zenon DEF Overflow, Kept
  <1>3. /\ Packed(entries', tail', count')
        /\ \A i \in Cells : i < n => keep[i] \in Cells /\ keep[i] < count /\ Cell(i)' = Cell(keep[i])
    <2>1. /\ Packed(Kept(n, keep), 0, n)
          /\ \A i \in Cells : i < n => keep[i] \in Cells /\ keep[i] < count
                                         /\ CellAt(Kept(n, keep), 0, i) = CellAt(entries, tail, keep[i])
      BY DropCell
    <2> QED BY <1>2, <2>1 DEF Cell
  <1>4. \A i \in Cells : i < n <=> i \in 0..(n - 1)
    BY <1>1 DEF Cells
  <1>5. \A i, j \in Cells : i < j /\ j < n => keep[i] < keep[j]
    <2> SUFFICES ASSUME NEW i \in Cells, NEW j \in Cells, i < j, j < n PROVE keep[i] < keep[j]
      OBVIOUS
    <2>1. i \in 0..(n - 1) /\ j \in 0..(n - 1)
      BY <1>1 DEF Cells
    <2> QED BY <2>1 DEF AudioInOrder
  <1>6. Moved(n, keep, e)
    BY <1>2, <1>3, <1>5 DEF Moved
  <1>7. head' = (tail' + count') % Slots /\ head' \in Cells
    <2>1. 0 + n = n /\ (0 + n) % Slots \in Cells
      BY <1>1, Turn
    <2> QED BY <1>2, <2>1
  <1>8. \A x : x \in Queued' <=> \E a \in AudioOffsets : x = Cell(a).ts
    <2>1. \A x : x \in Queued' <=> \/ \E i \in Cells : i < n /\ x = Cell(keep[i]).ts
                                   \/ count' = n + 1 /\ x = npush + 1
      BY <1>1, <1>6, MovedQueued
    <2>2. count' # n + 1
      BY <1>1, <1>2
    <2>3. \A i \in 0..(n - 1) : keep[i] \in AudioOffsets /\ i \in Cells
      BY <1>1 DEF Cells
    <2>4. \A a \in AudioOffsets : \E i \in 0..(n - 1) : keep[i] = a
      BY DEF AudioInOrder
    <2> QED BY <1>4, <2>1, <2>2, <2>3, <2>4
  <1>9. \A x : x \in Queued <=> \E i \in Offsets : x = Cell(i).ts
    BY Occupied
  <1>10. \A x : x \in VideoCopies <=> x = npush + 1 \/ \E i \in Offsets \ AudioOffsets : x = Cell(i).ts
    BY Occupied DEF VideoCopies
  <1>11. AudioOffsets \subseteq Offsets
    BY DEF AudioOffsets
  <1>12. Queued' \cup VideoCopies = Queued \cup {npush + 1}
    BY <1>8, <1>9, <1>10, <1>11
  <1>13. ASSUME NEW x \in Queued', x \in VideoCopies PROVE x = npush + 1
    <2>1. PICK a \in AudioOffsets : x = Cell(a).ts
      BY <1>8
    <2>2. ASSUME NEW i \in Offsets \ AudioOffsets, x = Cell(i).ts PROVE FALSE
      BY <1>11, <2>1, <2>2, Distinct, Occupied
    <2> QED BY <1>10, <1>13, <2>2
  <1>14. Queued' \subseteq Queued
    BY <1>8, <1>9, <1>11
  <1> QED BY <1>1, <1>2, <1>6, <1>7, <1>12, <1>13, <1>14

-----------------------------------------------------------------------------
(* The inductive invariant. *)
SqTypes ==
    /\ thread \in {"loop", "wait", "send", "exited", "gone"}
    /\ held \in Entry \cup {NoData}
    /\ shutdown \in BOOLEAN /\ inList \in BOOLEAN
    /\ npush \in 0..MaxPush
    /\ lost \in [audio : Nat, video : Nat]
    /\ counters \in [audio : Nat, video : Nat, overflows : Nat]
    /\ sent \in Seq(Entry)
Placed ==
    /\ Packed(entries, tail, count)
    /\ head = (tail + count) % Slots /\ head \in Cells
Ordered == Increasing /\ Numbered /\ SentSorted /\ SentFirst
(* The thread holds an entry while it sends one, and ends on shutdown only. *)
Threads ==
    /\ NoLostWakeup
    /\ held = NoData <=> thread # "send"
    /\ thread \in {"exited", "gone"} => shutdown
Owned ==
    /\ Queued \cup InHand \cup freed = 1..npush
    /\ Queued \cap (InHand \cup freed) = {}
    /\ InHand \cap freed = {}
SqInv == SqTypes /\ Placed /\ Ordered /\ Threads /\ Owned /\ Accounted

(* What a push that sends nothing has to show: the order part is common. *)
LEMMA PushOrdered ==
    ASSUME SqInv, NEW k \in 0..Slots, NEW m, NEW e \in Entry, Moved(k, m, e), sent' = sent
    PROVE  Ordered'
  <1>1. npush \in Nat /\ sent \in Seq(Entry) /\ Packed(entries, tail, count)
    BY SendqAssumption DEF SqInv, SqTypes, Placed
  <1>2. Increasing /\ Numbered /\ SentSorted /\ SentFirst
    BY DEF SqInv, Ordered
  <1>3. Increasing' /\ Numbered'
    BY <1>1, <1>2, MovedOrder
  <1>4. SentSorted' /\ SentFirst'
    BY <1>1, <1>2, MovedQuiet
  <1> QED BY <1>3, <1>4 DEF Ordered

LEMMA NewEntry ==
    ASSUME SqInv, CanPush, NEW type \in {"audio", "video"}
    PROVE  /\ New(type) \in Entry /\ New(type).ts = npush + 1 /\ New(type).type = type
           /\ npush \in Nat /\ npush + 1 \in 0..MaxPush
  <1>1. npush \in Nat /\ npush + 1 \in 1..MaxPush
    BY SendqAssumption DEF SqInv, SqTypes, CanPush
  <1>2. New(type) = [type |-> type, ts |-> npush + 1]
    BY Zenon DEF New
  <1>3. npush + 1 \in 0..MaxPush
    BY <1>1, SendqAssumption
  <1> QED BY <1>1, <1>2, <1>3 DEF Entry

LEMMA StoreKeeps ==
    ASSUME SqInv, CanPush, npush' = npush + 1, count < Slots,
           NEW type \in {"audio", "video"}, StoreIn(entries, tail, count, New(type)),
           UNCHANGED <<freed, lost, counters, shutdown, inList, held, sent>>
    PROVE  SqInv'
  <1> USE SendqAssumption
  <1> DEFINE e == New(type)
  <1>1. e \in Entry /\ e.ts = npush + 1 /\ npush \in Nat /\ npush + 1 \in 0..MaxPush
    BY NewEntry
  <1> HIDE DEF e
  <1>2. Packed(entries, tail, count) /\ count \in 0..Slots
    BY DEF SqInv, Placed, Packed
  <1>3. /\ Moved(count, Same, e) /\ count' = count + 1
        /\ head' = (tail' + count') % Slots /\ head' \in Cells
        /\ Queued' = Queued \cup {npush + 1}
    BY <1>1, <1>2, StoreMoves DEF e
  <1>4. thread' = IF thread = "wait" THEN "loop" ELSE thread
    BY Zenon DEF StoreIn
  <1>5. SqTypes'
    <2>1. thread' \in {"loop", "wait", "send", "exited", "gone"}
      BY <1>4 DEF SqInv, SqTypes
    <2> QED BY <1>1, <2>1, Zenon DEF SqInv, SqTypes
  <1>6. Placed'
    BY <1>3 DEF Moved, Placed
  <1>7. Ordered'
    BY <1>1, <1>2, <1>3, PushOrdered
  <1>8. Threads'
    <2>1. thread' # "wait" /\ (thread' = "send" <=> thread = "send")
             /\ (thread' \in {"exited", "gone"} <=> thread \in {"exited", "gone"})
      BY <1>4
    <2> QED BY <2>1, Zenon DEF SqInv, Threads, NoLostWakeup
  <1>9. Owned'
    <2>1. InHand' = InHand /\ freed' = freed
      BY DEF InHand
    <2>2. 1..(npush + 1) = (1..npush) \cup {npush + 1} /\ npush + 1 \notin 1..npush
      BY <1>1
    <2>3. Owned
      BY DEF SqInv
    <2> HIDE DEF InHand
    <2> QED BY <1>3, <2>1, <2>2, <2>3 DEF Owned
  <1>10. Accounted'
    <2>1. lost.audio \in Nat /\ lost.video \in Nat /\ Len(sent) \in Nat
      BY DEF SqInv, SqTypes
    <2>2. thread' # "gone" => thread # "gone"
      BY <1>4
    <2>3. thread # "gone" => lost.audio + lost.video + Len(sent) + count = npush
             /\ counters.audio <= lost.audio /\ counters.video <= lost.video
      BY DEF SqInv, Accounted
    <2>4. thread # "gone" => lost.audio + lost.video + Len(sent) + (count + 1) = npush + 1
      BY <1>1, <1>2, <2>1, <2>3
    <2> QED BY <1>3, <2>2, <2>3, <2>4 DEF Accounted
  <1> QED BY <1>5, <1>6, <1>7, <1>8, <1>9, <1>10 DEF SqInv

LEMMA DropKeeps ==
    ASSUME SqInv, CanPush, npush' = npush + 1, DropVideo,
           UNCHANGED <<thread, shutdown, inList, held, sent>>
    PROVE  SqInv'
  <1> USE SendqAssumption
  <1>0. npush \in Nat /\ npush + 1 \in 0..MaxPush /\ New("video") \in Entry
    BY NewEntry
  <1>1. PICK n \in 0..count : \E keep \in [0..(n - 1) -> AudioOffsets] :
           AudioInOrder(n, keep) /\ Overflow(n, keep, count - n + 1) /\ freed' = freed \cup VideoCopies
    BY Zenon DEF DropVideo
  <1>2. PICK keep \in [0..(n - 1) -> AudioOffsets] :
           AudioInOrder(n, keep) /\ Overflow(n, keep, count - n + 1) /\ freed' = freed \cup VideoCopies
    BY <1>1
  <1>3. Packed(entries, tail, count) /\ count \in 0..Slots /\ Increasing
    BY DEF SqInv, Placed, Packed, Ordered
  <1>4. /\ Moved(n, keep, New("video")) /\ count' = n /\ n \in 0..Slots
        /\ head' = (tail' + count') % Slots /\ head' \in Cells
        /\ Queued' \cup VideoCopies = Queued \cup {npush + 1}
        /\ Queued' \subseteq Queued
        /\ \A x \in Queued' : x \in VideoCopies => x = npush + 1
    BY <1>0, <1>2, <1>3, DropMoves
  <1>5. count - n + 1 \in Nat /\ n \in Nat /\ count \in Nat
    BY <1>3
  <1>6. /\ lost' = [lost EXCEPT !.video = @ + (count - n + 1)]
        /\ counters' = [counters EXCEPT !.video = @ + (count - n + 1), !.overflows = @ + 1]
    BY <1>2, Zenon DEF Overflow
  <1>7. /\ lost \in [audio : Nat, video : Nat]
        /\ counters \in [audio : Nat, video : Nat, overflows : Nat]
    BY DEF SqInv, SqTypes
  <1>8. lost'.audio = lost.audio /\ lost'.video = lost.video + (count - n + 1)
           /\ lost' \in [audio : Nat, video : Nat]
    BY <1>5, <1>6, <1>7, SMTT(30)
  <1>9. counters'.audio = counters.audio /\ counters'.video = counters.video + (count - n + 1)
           /\ counters' \in [audio : Nat, video : Nat, overflows : Nat]
    <2>1. PICK d \in Nat : d = count - n + 1
      BY <1>5
    <2>2. counters' = [counters EXCEPT !.video = @ + d, !.overflows = @ + 1]
      BY <1>6, <2>1
    <2>3. counters'.audio = counters.audio /\ counters'.video = counters.video + d
      BY <1>7, <2>2
    <2>4. counters' \in [audio : Nat, video : Nat, overflows : Nat]
      <3>1. counters' = [audio |-> counters.audio, video |-> counters.video + d,
                         overflows |-> counters.overflows + 1]
        BY <1>7, <2>2
      <3>2. counters.audio \in Nat /\ counters.video + d \in Nat /\ counters.overflows + 1 \in Nat
        BY <1>7
      <3> QED BY <3>1, <3>2
    <2> QED BY <2>1, <2>3, <2>4
  <1>10. SqTypes'
    BY <1>0, <1>8, <1>9, Zenon DEF SqInv, SqTypes
  <1>11. Placed'
    BY <1>4 DEF Moved, Placed
  <1>12. Ordered'
    BY <1>0, <1>4, PushOrdered
  <1>13. Threads'
    <2>1. thread = "wait" => count' = 0
      <3>1. thread = "wait" => count = 0
        BY DEF SqInv, Threads, NoLostWakeup
      <3> QED BY <1>4, <3>1
    <2> QED BY <2>1, Zenon DEF SqInv, Threads, NoLostWakeup
  <1>14. Owned'
    <2>1. InHand' = InHand /\ freed' = freed \cup VideoCopies
      BY <1>2 DEF InHand
    <2>2. 1..(npush + 1) = (1..npush) \cup {npush + 1} /\ npush + 1 \notin 1..npush
      BY <1>0
    <2>3. Owned
      BY DEF SqInv
    <2>4. VideoCopies \subseteq Queued \cup {npush + 1}
      BY <1>4
    <2>5. npush + 1 \notin Queued /\ npush + 1 \notin InHand
      BY <2>2, <2>3 DEF Owned
    <2>6. Queued' \cap VideoCopies = {}
      BY <1>4, <2>5
    <2>7. VideoCopies \cap InHand = {}
      BY <2>3, <2>4, <2>5 DEF Owned
    <2>8. Queued' \cup InHand \cup (freed \cup VideoCopies) = 1..(npush + 1)
      BY <1>4, <2>2, <2>3 DEF Owned
    <2> QED BY <1>4, <2>1, <2>3, <2>6, <2>7, <2>8 DEF Owned
  <1>15. Accounted'
    <2>1. lost.audio \in Nat /\ lost.video \in Nat /\ Len(sent) \in Nat
             /\ counters.audio \in Nat /\ counters.video \in Nat
      BY <1>7 DEF SqInv, SqTypes
    <2>2. thread # "gone" => lost.audio + lost.video + Len(sent) + count = npush
             /\ counters.audio <= lost.audio /\ counters.video <= lost.video
      BY DEF SqInv, Accounted
    <2>3. thread # "gone" =>
             /\ lost.audio + (lost.video + (count - n + 1)) + Len(sent) + n = npush + 1
             /\ counters.video + (count - n + 1) <= lost.video + (count - n + 1)
      BY <1>0, <1>5, <2>1, <2>2, SMTT(30)
    <2> QED BY <1>4, <1>8, <1>9, <2>2, <2>3 DEF Accounted
  <1> QED BY <1>10, <1>11, <1>12, <1>13, <1>14, <1>15 DEF SqInv

LEMMA AudioCounted ==
    ASSUME SqInv, AudioLost
    PROVE  /\ lost'.audio = lost.audio + 1 /\ lost'.video = lost.video
           /\ counters'.audio = counters.audio + 1 /\ counters'.video = counters.video
           /\ lost' \in [audio : Nat, video : Nat]
           /\ counters' \in [audio : Nat, video : Nat, overflows : Nat]
           /\ lost.audio \in Nat /\ lost.video \in Nat
           /\ counters.audio \in Nat /\ counters.video \in Nat
  <1>1. /\ lost \in [audio : Nat, video : Nat]
        /\ counters \in [audio : Nat, video : Nat, overflows : Nat]
    BY DEF SqInv, SqTypes
  <1>2. /\ lost' = [lost EXCEPT !.audio = @ + 1]
        /\ counters' = [counters EXCEPT !.audio = @ + 1, !.overflows = @ + 1]
    BY DEF AudioLost
  <1>3. counters' = [audio |-> counters.audio + 1, video |-> counters.video,
                     overflows |-> counters.overflows + 1]
    BY <1>1, <1>2
  <1>4. counters.audio + 1 \in Nat /\ counters.video \in Nat /\ counters.overflows + 1 \in Nat
    BY <1>1
  <1>5. /\ lost'.audio = lost.audio + 1 /\ lost'.video = lost.video
        /\ lost' \in [audio : Nat, video : Nat]
    BY <1>1, <1>2
  <1> QED BY <1>1, <1>3, <1>4, <1>5

(* An audio chunk is counted as lost: the balance moves by one. *)
LEMMA AudioBalanced ==
    ASSUME SqInv, AudioLost, npush' = npush + 1, thread' = "gone" <=> thread = "gone",
           sent' = sent, count' = count
    PROVE  Accounted'
  <1>1. Len(sent) \in Nat /\ count \in Nat /\ npush \in Nat
    BY SendqAssumption DEF SqInv, SqTypes, Placed, Packed
  <1>2. thread # "gone" => lost.audio + lost.video + Len(sent) + count = npush
             /\ counters.audio <= lost.audio /\ counters.video <= lost.video
    BY DEF SqInv, Accounted
  <1>3. thread # "gone" => (lost.audio + 1) + lost.video + Len(sent) + count = npush + 1
             /\ counters.audio + 1 <= lost.audio + 1 /\ counters.video <= lost.video
    <2>1. lost.audio \in Nat /\ lost.video \in Nat /\ counters.audio \in Nat
      BY AudioCounted
    <2>2. counters.audio <= lost.audio => counters.audio + 1 <= lost.audio + 1
      BY <2>1
    <2>3. lost.audio + lost.video + Len(sent) + count = npush
             => (lost.audio + 1) + lost.video + Len(sent) + count = npush + 1
      BY <1>1, <2>1, SMTT(30)
    <2> QED BY <1>2, <2>2, <2>3
  <1> QED BY <1>3, AudioCounted DEF Accounted

LEMMA RefuseKeeps ==
    ASSUME SqInv, CanPush, npush' = npush + 1, AudioLost, freed' = freed \cup {npush + 1},
           UNCHANGED <<entries, head, tail, count, thread, shutdown, inList, held, sent>>
    PROVE  SqInv'
  <1>1. npush \in Nat /\ npush + 1 \in 0..MaxPush /\ New("audio") \in Entry
    BY NewEntry
  <1>2. SqTypes'
    BY <1>1, AudioCounted, Zenon DEF SqInv, SqTypes
  <1>3. Placed'
    BY Zenon DEF SqInv, Placed
  <1>4. Ordered'
    <2>1. Packed(entries, tail, count) /\ count \in 0..Slots
      BY DEF SqInv, Placed, Packed
    <2>2. \A i \in Cells : Same[i] = i
      BY DEF Same
    <2>3. Moved(count, Same, New("audio"))
      <3>1. \A i \in Cells : i < count => Same[i] \in Cells /\ Same[i] < count /\ Cell(i)' = Cell(Same[i])
        BY <2>2 DEF Cell, Cells
      <3>2. \A i, j \in Cells : i < j /\ j < count => Same[i] < Same[j]
        BY <2>2
      <3> QED BY <2>1, <3>1, <3>2 DEF Moved
    <2> QED BY <1>1, <2>1, <2>3, PushOrdered
  <1>5. Threads'
    BY Zenon DEF SqInv, Threads, NoLostWakeup
  <1>6. Owned'
    <2>1. InHand' = InHand /\ Queued' = Queued
      BY DEF InHand, Queued, Cells
    <2>2. 1..(npush + 1) = (1..npush) \cup {npush + 1} /\ npush + 1 \notin 1..npush
      BY <1>1
    <2>3. Owned
      BY DEF SqInv
    <2>4. npush + 1 \notin Queued /\ npush + 1 \notin InHand
      BY <2>2, <2>3 DEF Owned
    <2> QED BY <2>1, <2>2, <2>3, <2>4 DEF Owned
  <1>7. Accounted'
    BY AudioBalanced
  <1> QED BY <1>2, <1>3, <1>4, <1>5, <1>6, <1>7 DEF SqInv

LEMMA ReplaceKeeps ==
    ASSUME SqInv, CanPush, npush' = npush + 1, AudioLost, NEW r \in AudioOffsets,
           freed' = freed \cup {entries[At(r)].ts},
           StoreIn(Closed(r), (tail + 1) % Slots, count - 1, New("audio")),
           UNCHANGED <<shutdown, inList, held, sent>>
    PROVE  SqInv'
  <1> USE SendqAssumption
  <1>1. npush \in Nat /\ npush + 1 \in 0..MaxPush /\ New("audio") \in Entry /\ New("audio").ts = npush + 1
    BY NewEntry
  <1>2. Packed(entries, tail, count) /\ Increasing /\ r \in Offsets
    BY DEF SqInv, Placed, Ordered, AudioOffsets
  <1>3. /\ Moved(count - 1, Without(r), New("audio")) /\ count' = count
        /\ head' = (tail' + count') % Slots /\ head' \in Cells
        /\ r \in Cells /\ r < count /\ count - 1 \in 0..Slots /\ Cell(r) \in Entry
        /\ entries[At(r)] = Cell(r)
    BY <1>1, <1>2, ReplaceMoves
  <1>4. thread' = IF thread = "wait" THEN "loop" ELSE thread
    BY Zenon DEF StoreIn
  <1>5. thread' # "wait" /\ (thread' = "send" <=> thread = "send")
             /\ (thread' \in {"exited", "gone"} <=> thread \in {"exited", "gone"})
             /\ (thread' = "gone" <=> thread = "gone")
    BY <1>4
  <1>6. SqTypes'
    <2>1. thread' \in {"loop", "wait", "send", "exited", "gone"}
      BY <1>4 DEF SqInv, SqTypes
    <2> QED BY <1>1, <2>1, AudioCounted, Zenon DEF SqInv, SqTypes
  <1>7. Placed'
    BY <1>3 DEF Moved, Placed
  <1>8. Ordered'
    BY <1>1, <1>3, PushOrdered
  <1>9. Threads'
    BY <1>5, Zenon DEF SqInv, Threads, NoLostWakeup
  <1>10. Owned'
    <2>1. InHand' = InHand /\ freed' = freed \cup {Cell(r).ts}
      BY <1>3 DEF InHand
    <2>2. 1..(npush + 1) = (1..npush) \cup {npush + 1} /\ npush + 1 \notin 1..npush
      BY <1>1
    <2>3. Owned
      BY DEF SqInv
    <2>4. Queued' = (Queued \ {Cell(r).ts}) \cup {npush + 1} /\ Cell(r).ts \in Queued
      BY <1>1, <1>2, <1>3, QueuedWithout
    <2>5. npush + 1 \notin Queued /\ npush + 1 \notin InHand /\ npush + 1 \notin freed
             /\ npush + 1 # Cell(r).ts
      BY <2>2, <2>3, <2>4 DEF Owned
    <2>6. Queued' \cup InHand \cup (freed \cup {Cell(r).ts}) = 1..(npush + 1)
      BY <2>2, <2>3, <2>4 DEF Owned
    <2>7. Queued' \cap (InHand \cup (freed \cup {Cell(r).ts})) = {}
      BY <2>3, <2>4, <2>5 DEF Owned
    <2> QED BY <2>1, <2>3, <2>4, <2>6, <2>7 DEF Owned
  <1>11. Accounted'
    BY <1>3, <1>5, AudioBalanced
  <1> QED BY <1>6, <1>7, <1>8, <1>9, <1>10, <1>11 DEF SqInv

LEMMA PushVideoKeeps == ASSUME SqInv, PushVideo PROVE SqInv'
  <1>1. CanPush /\ npush' = npush + 1 /\ UNCHANGED <<shutdown, inList, held, sent>>
    BY Zenon DEF PushVideo
  <1>2. CASE DropVideo /\ UNCHANGED thread
    BY <1>1, <1>2, DropKeeps
  <1>3. CASE /\ count < Slots /\ StoreIn(entries, tail, count, New("video"))
             /\ UNCHANGED <<freed, lost, counters>>
    BY <1>1, <1>3, StoreKeeps
  <1> QED BY <1>2, <1>3, Zenon DEF PushVideo

LEMMA PushAudioKeeps == ASSUME SqInv, PushAudio PROVE SqInv'
  <1>1. CanPush /\ npush' = npush + 1 /\ UNCHANGED <<shutdown, inList, held, sent>>
    BY Zenon DEF PushAudio
  <1>2. CASE /\ count < Slots /\ StoreIn(entries, tail, count, New("audio"))
             /\ UNCHANGED <<freed, lost, counters>>
    BY <1>1, <1>2, StoreKeeps
  <1>3. CASE /\ AudioLost /\ freed' = freed \cup {npush + 1}
             /\ UNCHANGED <<entries, head, tail, count, thread>>
    BY <1>1, <1>3, RefuseKeeps
  <1>4. CASE /\ AudioLost
             /\ \E i \in AudioOffsets :
                   /\ Oldest(i)
                   /\ freed' = freed \cup {entries[At(i)].ts}
                   /\ StoreIn(Closed(i), (tail + 1) % Slots, count - 1, New("audio"))
    BY <1>1, <1>4, ReplaceKeeps
  <1> QED BY <1>2, <1>3, <1>4, Zenon DEF PushAudio

LEMMA TakeBalance ==
    ASSUME NEW a \in Nat, NEW b \in Nat, NEW l \in Nat, NEW c \in Nat, NEW n, a + b + l + c = n
    PROVE  a + b + (l + 1) + (c - 1) = n
  OBVIOUS

(* The send thread takes the entry at offset r, the first of its kind. *)
LEMMA TakeKeeps ==
    ASSUME SqInv, NEW r \in Offsets,
           \A i \in Offsets : Cell(i).type = Cell(r).type => r <= i,
           tail' = (tail + 1) % Slots, count' = count - 1, head' = head, npush' = npush,
           entries' = Closed(r) \/ (r = 0 /\ entries' = Popped(entries, tail)),
           sent' = Append(sent, entries[At(r)]), lost' = lost, counters' = counters,
           thread # "gone"
    PROVE  /\ Placed' /\ Ordered' /\ Accounted' /\ sent' \in Seq(Entry)
           /\ Queued' = Queued \ {Cell(r).ts} /\ Cell(r).ts \in Queued
           /\ Cell(r) \in Entry /\ entries[At(r)] = Cell(r)
           /\ count \in Nat /\ count > 0
  <1> USE SendqAssumption
  <1>1. /\ Packed(entries, tail, count) /\ Increasing /\ Numbered /\ SentSorted /\ SentFirst
        /\ npush \in Nat /\ count \in 0..Slots /\ sent \in Seq(Entry)
        /\ head = (tail + count) % Slots
    BY DEF SqInv, SqTypes, Placed, Packed, Ordered
  <1>2. /\ Moved(count - 1, Without(r), Cell(r))
        /\ head' = (tail' + count') % Slots /\ head' \in Cells
        /\ r \in Cells /\ r < count /\ count - 1 \in 0..Slots /\ Cell(r) \in Entry
        /\ entries[At(r)] = Cell(r)
    BY <1>1, RemoveMoves
  <1>3. count \in Nat /\ count > 0
    BY <1>1, <1>2 DEF Cells
  <1>4. Placed'
    BY <1>2 DEF Moved, Placed
  <1>5. Increasing' /\ Numbered'
    BY <1>1, <1>2, MovedOrder
  <1>6. SentSorted' /\ SentFirst' /\ sent' \in Seq(Entry) /\ Len(sent') = Len(sent) + 1
    <2>1. \A i \in Cells : i < count - 1 => Without(r)[i] # r
      BY <1>2, WithoutMap
    <2>2. \A i \in Cells : i < count /\ Cell(i).type = Cell(r).type => r <= i
      BY <1>1, Occupied
    <2>3. sent' = Append(sent, Cell(r))
      BY <1>2
    <2> QED BY <1>1, <1>2, <2>1, <2>2, <2>3, MovedSends
  <1>7. Queued' = Queued \ {Cell(r).ts} /\ Cell(r).ts \in Queued
    BY <1>1, <1>2, QueuedWithout
  <1>8. Accounted'
    <2>1. lost.audio \in Nat /\ lost.video \in Nat /\ Len(sent) \in Nat
      BY DEF SqInv, SqTypes
    <2>2. lost.audio + lost.video + Len(sent) + count = npush
             /\ counters.audio <= lost.audio /\ counters.video <= lost.video
      BY DEF SqInv, Accounted
    <2>3. lost.audio + lost.video + (Len(sent) + 1) + (count - 1) = npush
      <3>1. PICK a \in Nat, b \in Nat, l \in Nat, c \in Nat :
               a = lost.audio /\ b = lost.video /\ l = Len(sent) /\ c = count
        BY <1>3, <2>1
      <3>2. a + b + l + c = npush
        BY <2>2, <3>1
      <3>3. a + b + (l + 1) + (c - 1) = npush
        BY <3>2, TakeBalance
      <3> QED BY <3>1, <3>3
    <2> QED BY <1>6, <2>2, <2>3 DEF Accounted
  <1> QED BY <1>2, <1>3, <1>4, <1>5, <1>6, <1>7, <1>8 DEF Ordered

LEMMA PopKeeps == ASSUME SqInv, Pop PROVE SqInv'
  <1>1. /\ thread = "loop" /\ count > 0 /\ ~shutdown
        /\ held' = entries[tail] /\ sent' = Append(sent, entries[tail])
        /\ entries' = Popped(entries, tail) /\ tail' = (tail + 1) % Slots
        /\ count' = count - 1 /\ thread' = "send"
        /\ UNCHANGED <<head, shutdown, counters, inList, npush, freed, lost>>
    BY Zenon DEF Pop, Popped
  <1>2. tail \in Cells /\ count \in 0..Slots /\ 0 \in Offsets /\ At(0) = tail
    <2>1. tail \in Cells /\ count \in 0..Slots
      BY DEF SqInv, Placed, Packed
    <2>2. (tail + 0) % Slots = tail
      BY <2>1, HomeCell
    <2>3. 0 \in Offsets
      BY <1>1, <2>1, SendqAssumption DEF Offsets
    <2> QED BY <2>1, <2>2, <2>3 DEF At
  <1>3. \A i \in Offsets : 0 <= i
    BY <1>2 DEF Offsets
  <1>4. /\ Placed' /\ Ordered' /\ Accounted' /\ sent' \in Seq(Entry)
        /\ Queued' = Queued \ {Cell(0).ts} /\ Cell(0).ts \in Queued
        /\ Cell(0) \in Entry /\ entries[tail] = Cell(0)
    <2>1. sent' = Append(sent, entries[At(0)]) /\ thread # "gone"
      BY <1>1, <1>2
    <2> QED BY <1>1, <1>2, <1>3, <2>1, TakeKeeps
  <1>5. held' \in Entry /\ held' # NoData /\ held = NoData
    <2>1. held = NoData
      BY <1>1 DEF SqInv, Threads
    <2> QED BY <1>1, <1>4, <2>1, NoDataApart
  <1>6. SqTypes'
    BY <1>1, <1>4, <1>5, Zenon DEF SqInv, SqTypes
  <1>7. Threads'
    BY <1>1, <1>5 DEF Threads, NoLostWakeup
  <1>8. Owned'
    <2>1. InHand = {} /\ InHand' = {Cell(0).ts} /\ freed' = freed /\ npush' = npush
      BY <1>1, <1>4, <1>5 DEF InHand
    <2>2. Owned
      BY DEF SqInv
    <2> HIDE DEF InHand
    <2> QED BY <1>4, <2>1, <2>2 DEF Owned
  <1> QED BY <1>4, <1>6, <1>7, <1>8 DEF SqInv

LEMMA DrainKeeps == ASSUME SqInv, DrainAudio PROVE SqInv'
  <1>1. /\ thread = "send" /\ tail' = (tail + 1) % Slots /\ count' = count - 1
        /\ UNCHANGED <<head, shutdown, counters, inList, thread, held, npush, lost>>
    BY Zenon DEF DrainAudio
  <1>2. PICK r \in AudioOffsets :
           /\ Oldest(r) /\ sent' = Append(sent, entries[At(r)])
           /\ freed' = freed \cup {entries[At(r)].ts} /\ entries' = Closed(r)
    BY Zenon DEF DrainAudio
  <1>3. r \in Offsets /\ Packed(entries, tail, count)
    BY DEF AudioOffsets, SqInv, Placed
  <1>4. \A i \in Offsets : Cell(i).type = Cell(r).type => r <= i
    <2>1. \A i \in Offsets : i \in AudioOffsets <=> Cell(i).type = "audio"
      BY <1>3, Occupied DEF AudioOffsets, IsAudio
    <2> QED BY <1>2, <1>3, <2>1 DEF Oldest
  <1>5. /\ Placed' /\ Ordered' /\ Accounted' /\ sent' \in Seq(Entry)
        /\ Queued' = Queued \ {Cell(r).ts} /\ Cell(r).ts \in Queued
        /\ Cell(r) \in Entry /\ entries[At(r)] = Cell(r)
    <2>1. thread # "gone"
      BY <1>1
    <2> QED BY <1>1, <1>2, <1>3, <1>4, <2>1, TakeKeeps
  <1>6. SqTypes'
    BY <1>1, <1>5, Zenon DEF SqInv, SqTypes
  <1>7. Threads'
    BY <1>1 DEF SqInv, Threads, NoLostWakeup
  <1>8. Owned'
    <2>1. InHand' = InHand /\ freed' = freed \cup {Cell(r).ts} /\ npush' = npush
      BY <1>1, <1>2, <1>5 DEF InHand
    <2>2. Owned
      BY DEF SqInv
    <2> QED BY <1>5, <2>1, <2>2 DEF Owned
  <1> QED BY <1>5, <1>6, <1>7, <1>8 DEF SqInv

(* Steps that leave the queue and what was sent alone. *)
LEMMA RestKeeps ==
    ASSUME SqInv, UNCHANGED <<entries, head, tail, count, sent, npush>>
    PROVE  Placed' /\ Ordered' /\ Queued' = Queued
  <1>1. Placed'
    BY Zenon DEF SqInv, Placed
  <1>2. \A i \in Cells : Cell(i)' = Cell(i)
    BY DEF Cell
  <1>3. Increasing' /\ Numbered'
    BY <1>2, Zenon DEF SqInv, Ordered, Increasing, Numbered, Cells
  <1>4. SentSorted' /\ SentFirst'
    BY <1>2, Zenon DEF SqInv, Ordered, SentSorted, SentFirst, Cells
  <1>5. Queued' = Queued
    BY DEF Queued, Cells
  <1> QED BY <1>1, <1>3, <1>4, <1>5 DEF Ordered

LEMMA ReleaseKeeps == ASSUME SqInv, Release PROVE SqInv'
  <1>1. /\ thread = "send" /\ freed' = freed \cup {held.ts} /\ held' = NoData /\ thread' = "loop"
        /\ UNCHANGED <<entries, head, tail, count, shutdown, counters, inList, npush, sent, lost>>
    BY Zenon DEF Release
  <1>2. Placed' /\ Ordered' /\ Queued' = Queued
    BY <1>1, RestKeeps
  <1>3. SqTypes'
    BY <1>1, Zenon DEF SqInv, SqTypes
  <1>4. Threads'
    BY <1>1 DEF Threads, NoLostWakeup
  <1>5. Owned'
    <2>1. held # NoData
      BY <1>1 DEF SqInv, Threads
    <2>2. InHand = {held.ts} /\ InHand' = {} /\ npush' = npush
      BY <1>1, <2>1 DEF InHand
    <2>3. Owned
      BY DEF SqInv
    <2> HIDE DEF InHand
    <2> QED BY <1>1, <1>2, <2>2, <2>3 DEF Owned
  <1>6. Accounted'
    <2>1. thread # "gone" /\ thread' # "gone"
      BY <1>1
    <2> QED BY <1>1, <2>1, Zenon DEF SqInv, Accounted
  <1> QED BY <1>2, <1>3, <1>4, <1>5, <1>6 DEF SqInv

LEMMA QuietKeeps ==
    ASSUME SqInv, Wait \/ Exit \/ ReportDrops \/ SqUnlist \/ Shutdown
    PROVE  SqInv'
  <1>1. UNCHANGED <<entries, head, tail, count, held, npush, sent, freed, lost>>
    BY Zenon DEF Wait, Exit, ReportDrops, SqUnlist, Shutdown
  <1>2. Placed' /\ Ordered' /\ Queued' = Queued
    BY <1>1, RestKeeps
  <1>3. \/ thread' = thread /\ shutdown' = shutdown
        \/ thread = "loop" /\ count = 0 /\ ~shutdown /\ thread' = "wait" /\ shutdown' = shutdown
        \/ thread = "loop" /\ shutdown /\ thread' = "exited" /\ shutdown' = shutdown
        \/ shutdown' = TRUE /\ thread' = IF thread = "wait" THEN "loop" ELSE thread
    BY Zenon DEF Wait, Exit, ReportDrops, SqUnlist, Shutdown
  <1>4. /\ inList' \in BOOLEAN /\ shutdown' \in BOOLEAN
    BY Zenon DEF Wait, Exit, ReportDrops, SqUnlist, Shutdown, SqInv, SqTypes
  <1>5. counters' = counters \/ counters' = NoDrops
    BY Zenon DEF Wait, Exit, ReportDrops, SqUnlist, Shutdown
  <1>6. thread \in {"loop", "wait", "send", "exited", "gone"}
    BY DEF SqInv, SqTypes
  <1>7. thread' \in {"loop", "wait", "send", "exited", "gone"} /\ (thread' = "gone" => thread = "gone")
           /\ (thread' = "send" <=> thread = "send")
    BY <1>3, <1>6
  <1>8. NoDrops \in [audio : Nat, video : Nat, overflows : Nat] /\ NoDrops.audio = 0 /\ NoDrops.video = 0
    BY DEF NoDrops
  <1>9. SqTypes'
    <2>1. counters' \in [audio : Nat, video : Nat, overflows : Nat]
      BY <1>5, <1>8 DEF SqInv, SqTypes
    <2> QED BY <1>1, <1>4, <1>7, <2>1, Zenon DEF SqInv, SqTypes
  <1>10. Threads'
    <2>1. NoLostWakeup'
      BY <1>1, <1>3, Zenon DEF SqInv, Threads, NoLostWakeup
    <2>2. thread' \in {"exited", "gone"} => shutdown'
      BY <1>3, <1>6 DEF SqInv, Threads
    <2>3. held' = NoData <=> thread' # "send"
      BY <1>1, <1>7 DEF SqInv, Threads
    <2> QED BY <2>1, <2>2, <2>3 DEF Threads
  <1>11. Owned'
    <2>1. InHand' = InHand
      BY <1>1 DEF InHand
    <2> QED BY <1>1, <1>2, <2>1, Zenon DEF SqInv, Owned
  <1>12. Accounted'
    <2>1. lost.audio \in Nat /\ lost.video \in Nat
      BY DEF SqInv, SqTypes
    <2>2. thread # "gone" => counters'.audio <= lost.audio /\ counters'.video <= lost.video
      <3>1. CASE counters' = counters
        BY <3>1 DEF SqInv, Accounted
      <3>2. CASE counters' = NoDrops
        BY <1>8, <2>1, <3>2
      <3> QED BY <1>5, <3>1, <3>2
    <2>3. thread # "gone" => lost.audio + lost.video + Len(sent) + count = npush
      BY DEF SqInv, Accounted
    <2>4. lost' = lost /\ Len(sent') = Len(sent) /\ count' = count /\ npush' = npush
      BY <1>1
    <2>5. thread' \notin {"gone"} => thread # "gone"
      BY <1>3, <1>6
    <2> QED BY <2>2, <2>3, <2>4, <2>5, Zenon DEF Accounted
  <1> QED BY <1>2, <1>9, <1>10, <1>11, <1>12 DEF SqInv

LEMMA DestroyKeeps == ASSUME SqInv, Destroy PROVE SqInv'
  <1> USE SendqAssumption
  <1>1. /\ thread = "exited" /\ freed' = freed \cup {entries[At(i)].ts : i \in Offsets}
        /\ entries' = [i \in Cells |-> NoData] /\ tail' = (tail + count) % Slots /\ count' = 0
        /\ thread' = "gone"
        /\ UNCHANGED <<head, shutdown, counters, inList, held, npush, sent, lost>>
    BY Zenon DEF Destroy
  <1>2. /\ Packed(entries, tail, count) /\ tail \in Cells /\ count \in 0..Slots
        /\ head = (tail + count) % Slots /\ head \in Cells
    BY DEF SqInv, Placed, Packed
  <1>3. tail' = head /\ (tail' + count') % Slots = head
    <2>1. (head + 0) % Slots = head
      BY <1>2, HomeCell
    <2> QED BY <1>1, <1>2, <2>1
  <1>4. Packed(entries', tail', count')
    <2>1. \A i \in Cells : (head + i) % Slots \in Cells
      <3> SUFFICES ASSUME NEW i \in Cells PROVE (head + i) % Slots \in Cells
        OBVIOUS
      <3>1. i \in 0..Slots
        BY DEF Cells
      <3> QED BY <1>2, <3>1, Turn
    <2>2. \A i \in Cells : CellAt(entries', tail', i) = NoData
      BY <1>1, <1>3, <2>1 DEF CellAt
    <2>3. \A i \in Cells : ~(i < 0)
      BY DEF Cells
    <2>4. entries' \in [Cells -> Entry \cup {NoData}] /\ tail' \in Cells /\ 0 \in 0..Slots
      BY <1>1, <1>2, <1>3
    <2> QED BY <1>1, <2>2, <2>3, <2>4 DEF Packed
  <1>5. Placed'
    BY <1>1, <1>2, <1>3, <1>4 DEF Placed
  <1>6. Ordered'
    <2>1. \A i \in Cells : ~(i < count')
      BY <1>1 DEF Cells
    <2>2. SentSorted'
      BY <1>1, Zenon DEF SqInv, Ordered, SentSorted
    <2>3. Increasing' /\ Numbered' /\ SentFirst'
      BY <2>1, Zenon DEF Increasing, Numbered, SentFirst, Cells
    <2> QED BY <2>2, <2>3 DEF Ordered
  <1>7. SqTypes'
    BY <1>1, Zenon DEF SqInv, SqTypes
  <1>8. Threads'
    <2>1. shutdown /\ held = NoData
      BY <1>1 DEF SqInv, Threads
    <2> QED BY <1>1, <2>1 DEF Threads, NoLostWakeup
  <1>9. Owned'
    <2>1. Queued' = {}
      <3>1. \A c \in Cells : entries'[c] = NoData
        BY <1>1
      <3> QED BY <3>1 DEF Queued, Cells
    <2>2. {entries[At(i)].ts : i \in Offsets} = Queued
      BY <1>2, Occupied
    <2>3. InHand' = InHand /\ npush' = npush
      BY <1>1 DEF InHand
    <2>4. Owned
      BY DEF SqInv
    <2>5. freed' = freed \cup Queued
      BY <1>1, <2>2
    <2> QED BY <2>1, <2>3, <2>4, <2>5 DEF Owned
  <1>10. Accounted'
    BY <1>1 DEF Accounted
  <1> QED BY <1>5, <1>6, <1>7, <1>8, <1>9, <1>10 DEF SqInv

LEMMA SqInitInv == SqInit => SqInv
  <1> USE SendqAssumption
  <1> SUFFICES ASSUME SqInit PROVE SqInv
    OBVIOUS
  <1>1. /\ entries = [i \in Cells |-> NoData] /\ head = 0 /\ tail = 0 /\ count = 0
        /\ shutdown = FALSE /\ counters = NoDrops /\ inList = TRUE /\ thread = "loop"
        /\ held = NoData /\ npush = 0 /\ sent = <<>> /\ freed = {} /\ lost = [audio |-> 0, video |-> 0]
    BY DEF SqInit
  <1>2. 0 \in Cells /\ 0 \in 0..Slots /\ \A i \in Cells : ~(i < 0)
    BY DEF Cells
  <1>3. (0 + 0) % Slots = 0
    BY <1>2, HomeCell
  <1>4. Packed(entries, tail, count)
    <2>1. \A i \in Cells : CellAt(entries, tail, i) = NoData
      <3> SUFFICES ASSUME NEW i \in Cells PROVE entries[(0 + i) % Slots] = NoData
        BY <1>1 DEF CellAt
      <3>1. i \in 0..Slots
        BY DEF Cells
      <3>2. (0 + i) % Slots \in Cells
        BY <1>2, <3>1, Turn
      <3> QED BY <1>1, <3>2
    <2> QED BY <1>1, <1>2, <2>1 DEF Packed
  <1>5. Placed
    BY <1>1, <1>2, <1>3, <1>4 DEF Placed
  <1>6. SqTypes
    <2>1. counters \in [audio : Nat, video : Nat, overflows : Nat] /\ lost \in [audio : Nat, video : Nat]
      BY <1>1 DEF NoDrops
    <2>2. sent \in Seq(Entry) /\ npush \in 0..MaxPush
      BY <1>1
    <2> QED BY <1>1, <2>1, <2>2, Zenon DEF SqTypes
  <1>7. Ordered
    <2>1. Len(sent) = 0
      BY <1>1
    <2>2. SentSorted /\ SentFirst
      BY <2>1 DEF SentSorted, SentFirst
    <2>3. Increasing /\ Numbered
      BY <1>1, <1>2 DEF Increasing, Numbered
    <2> QED BY <2>2, <2>3 DEF Ordered
  <1>8. Threads
    BY <1>1 DEF Threads, NoLostWakeup
  <1>9. Owned
    <2>1. Queued = {} /\ InHand = {} /\ 1..npush = {}
      BY <1>1 DEF Queued, InHand
    <2> QED BY <1>1, <2>1 DEF Owned
  <1>10. Accounted
    <2>1. Len(sent) = 0 /\ lost.audio = 0 /\ lost.video = 0 /\ counters.audio = 0 /\ counters.video = 0
      BY <1>1 DEF NoDrops
    <2> QED BY <1>1, <2>1 DEF Accounted
  <1> QED BY <1>5, <1>6, <1>7, <1>8, <1>9, <1>10 DEF SqInv

LEMMA SqNextInv == ASSUME SqInv, SqNext PROVE SqInv'
  <1>1. CASE PushVideo
    BY <1>1, PushVideoKeeps
  <1>2. CASE PushAudio
    BY <1>2, PushAudioKeeps
  <1>3. CASE Wait \/ Exit \/ ReportDrops \/ SqUnlist \/ Shutdown
    BY <1>3, QuietKeeps
  <1>4. CASE Pop
    BY <1>4, PopKeeps
  <1>5. CASE DrainAudio
    BY <1>5, DrainKeeps
  <1>6. CASE Release
    BY <1>6, ReleaseKeeps
  <1>7. CASE Destroy
    BY <1>7, DestroyKeeps
  <1> QED BY <1>1, <1>2, <1>3, <1>4, <1>5, <1>6, <1>7, Zenon DEF SqNext, SendThread, Teardown

-----------------------------------------------------------------------------
(* The invariants the runs check. *)
LEMMA InvQueueSound == SqInv => QueueSound
  <1> SUFFICES ASSUME SqInv PROVE QueueSound
    OBVIOUS
  <1>1. \A c \in Cells : entries[c] # NoData <=> \E i \in Offsets : c = At(i)
    BY Occupied DEF SqInv, Placed
  <1> QED BY <1>1, Zenon DEF SqInv, SqTypes, Placed, Packed, Threads, QueueSound, SqTypeOK

LEMMA InvOneOwner == SqInv => OneOwner
  <1> SUFFICES ASSUME SqInv PROVE Cardinality(Queued) = count
    BY DEF SqInv, Owned, OneOwner
  <1>1. Packed(entries, tail, count) /\ Increasing /\ count \in 0..Slots /\ count \in Nat
    BY SendqAssumption DEF SqInv, Placed, Packed, Ordered
  <1> DEFINE number == [i \in 0..(count - 1) |-> Cell(i).ts]
  <1>2. number \in Bijection(0..(count - 1), Queued)
    <2>1. Queued = {Cell(i).ts : i \in 0..(count - 1)}
      BY <1>1, Occupied DEF Offsets
    <2>2. \A i \in 0..(count - 1) : i \in Cells /\ i < count
      BY <1>1, Occupied DEF Offsets
    <2>3. number \in [0..(count - 1) -> Queued]
      BY <2>1
    <2>4. \A i, j \in 0..(count - 1) : number[i] = number[j] => i = j
      BY <1>1, <2>2, Distinct
    <2>5. \A x \in Queued : \E i \in 0..(count - 1) : number[i] = x
      BY <2>1
    <2> HIDE DEF number
    <2> QED BY <2>3, <2>4, <2>5, Fun_IsBij
  <1>3. IsFiniteSet(0..(count - 1)) /\ Cardinality(0..(count - 1)) = count
    <2>1. 0 \in Int /\ count - 1 \in Int /\ (IF 0 > count - 1 THEN 0 ELSE (count - 1) - 0 + 1) = count
      BY <1>1
    <2> QED BY <2>1, FS_Interval
  <1>4. ExistsBijection(0..(count - 1), Queued)
    BY <1>2, Zenon DEF ExistsBijection
  <1> QED BY <1>3, <1>4, FS_Bijection

LEMMA InvCopies == SqInv => CopiesAccounted
  BY InvOneOwner DEF SqInv, CopiesAccounted

LEMMA InvStreams == SqInv => StreamsInOrder
  <1> SUFFICES ASSUME SqInv, NEW t \in {"audio", "video"} PROVE InOrder(sent \o Queue, t)
    BY DEF StreamsInOrder
  <1> DEFINE L == Len(sent)
             s == sent \o Queue
  <1>1. /\ Packed(entries, tail, count) /\ Increasing /\ SentSorted /\ SentFirst
        /\ count \in 0..Slots /\ count \in Nat /\ sent \in Seq(Entry) /\ L \in Nat
    BY SendqAssumption DEF SqInv, SqTypes, Placed, Packed, Ordered
  <1>2. \A j \in 1..count : Queue[j] = Cell(j - 1) /\ j - 1 \in Cells /\ j - 1 < count /\ Cell(j - 1) \in Entry
    <2>1. \A j \in 1..count : j - 1 \in Offsets
      BY <1>1 DEF Offsets
    <2>2. \A j \in 1..count : Queue[j] = entries[At(j - 1)]
      BY DEF Queue
    <2> QED BY <1>1, <2>1, <2>2, Occupied
  <1>3. Queue \in Seq(Entry) /\ Len(Queue) = count
    <2>1. Queue \in [1..count -> Entry]
      BY <1>2 DEF Queue
    <2> QED BY <1>1, <2>1
  <1>4. /\ Len(s) = L + count
        /\ \A i \in 1..L : s[i] = sent[i]
        /\ \A j \in 1..count : s[L + j] = Queue[j]
    BY <1>1, <1>3
  <1> HIDE DEF L, s
  <1>5. ASSUME NEW i \in 1..(L + count), ~(i \in 1..L)
        PROVE  \E j \in 1..count : i = L + j
    <2>1. i - L \in 1..count /\ i = L + (i - L)
      BY <1>1, <1>5
    <2> QED BY <2>1
  <1>6. ASSUME NEW i \in 1..(L + count), NEW j \in 1..(L + count), i < j, s[i].type = t, s[j].type = t
        PROVE  s[i].ts < s[j].ts
    <2>1. CASE i \in 1..L /\ j \in 1..L
      <3>1. s[i] = sent[i] /\ s[j] = sent[j]
        BY <1>4, <2>1
      <3> QED BY <1>1, <1>6, <2>1, <3>1 DEF SentSorted, L
    <2>2. CASE i \in 1..L /\ j \notin 1..L
      <3>1. PICK b \in 1..count : j = L + b
        BY <1>5, <2>2
      <3>2. s[i] = sent[i] /\ s[j] = Cell(b - 1) /\ b - 1 \in Cells /\ b - 1 < count
        BY <1>2, <1>4, <2>2, <3>1
      <3> QED BY <1>1, <1>6, <2>2, <3>2 DEF SentFirst, L
    <2>3. CASE i \notin 1..L
      <3>1. PICK a \in 1..count : i = L + a
        BY <1>5, <2>3
      <3>2. j \notin 1..L
        BY <1>1, <1>6, <2>3
      <3>3. PICK b \in 1..count : j = L + b
        BY <1>5, <3>2
      <3>4. /\ s[i] = Cell(a - 1) /\ a - 1 \in Cells
            /\ s[j] = Cell(b - 1) /\ b - 1 \in Cells /\ b - 1 < count
        BY <1>2, <1>4, <3>1, <3>3
      <3>5. a - 1 < b - 1
        BY <1>1, <1>6, <3>1, <3>3
      <3> QED BY <1>1, <3>4, <3>5 DEF Increasing
    <2> QED BY <2>1, <2>2, <2>3
  <1>7. \A i, j \in 1..Len(s) : i < j /\ s[i].type = t /\ s[j].type = t => s[i].ts < s[j].ts
    BY <1>4, <1>6
  <1> QED BY <1>7 DEF InOrder, s

LEMMA SqRest == ASSUME SqInv, UNCHANGED sqvars PROVE SqInv'
  <1>1. UNCHANGED <<entries, head, tail, count, shutdown, counters, inList, thread,
                    held, npush, sent, freed, lost>>
    BY Zenon DEF sqvars
  <1>2. Placed' /\ Ordered' /\ Queued' = Queued
    BY <1>1, RestKeeps
  <1>3. SqTypes' /\ Threads' /\ Accounted'
    BY <1>1, Zenon DEF SqInv, SqTypes, Threads, NoLostWakeup, Accounted
  <1>4. InHand' = InHand
    BY <1>1 DEF InHand
  <1>5. Owned'
    BY <1>1, <1>2, <1>4, Zenon DEF SqInv, Owned
  <1> QED BY <1>2, <1>3, <1>5 DEF SqInv

LEMMA RsdSqInv == RsdSpec => []SqInv
  <1>1. RsdInit => SqInv
    BY SqInitInv DEF RsdInit
  <1>2. SqInv /\ [RsdNext]_<<which, vars, sqvars>> => SqInv'
    BY SqNextInv, SqRest, Zenon DEF RsdNext
  <1> QED BY <1>1, <1>2, PTL DEF RsdSpec

(* The circular array and its indices agree, and the send thread never     *)
(* sleeps on a queued frame or a shutdown request: for every capacity of   *)
(* the queue and any number of pushes (rsd_sendq.c, rsd_client_send_thread).*)
THEOREM QueueStaysSound == RsdSpec => []QueueSound
  BY RsdSqInv, InvQueueSound, PTL

(* Every payload copy has one owner and every push is sent, queued or      *)
(* counted as a drop of its kind (rsd_sendq.c).                            *)
THEOREM CopiesStayAccounted == RsdSpec => []CopiesAccounted
  BY RsdSqInv, InvCopies, PTL

(* Audio and video each leave in push order, whatever overflows and        *)
(* whichever audio overtakes (rsd_sendq.c, sendq_drain_audio).             *)
THEOREM StreamsStayInOrder == RsdSpec => []StreamsInOrder
  BY RsdSqInv, InvStreams, PTL

-----------------------------------------------------------------------------
(* The array implements the policy: the queue as a sequence. *)
IsQueue(s, es, t, c) ==
    /\ s \in Seq(Entry) /\ Len(s) = c
    /\ \A j \in 1..c : j - 1 \in Cells /\ j - 1 < c /\ s[j] = CellAt(es, t, j - 1) /\ s[j] \in Entry

LEMMA QueueSeq == Packed(entries, tail, count) => IsQueue(Queue, entries, tail, count)
  <1> SUFFICES ASSUME Packed(entries, tail, count) PROVE IsQueue(Queue, entries, tail, count)
    OBVIOUS
  <1>1. count \in Nat
    BY SendqAssumption DEF Packed
  <1>2. \A j \in 1..count : j - 1 \in Offsets
    BY <1>1 DEF Offsets
  <1>3. \A j \in 1..count : entries[At(j - 1)] = Cell(j - 1) /\ Cell(j - 1) \in Entry
           /\ j - 1 \in Cells /\ j - 1 < count
    BY <1>2, Occupied
  <1>4. Queue \in [1..count -> Entry] /\ \A j \in 1..count : Queue[j] = Cell(j - 1)
    BY <1>3 DEF Queue
  <1>5. Queue \in Seq(Entry) /\ Len(Queue) = count
    BY <1>1, <1>4
  <1> QED BY <1>3, <1>4, <1>5 DEF IsQueue, Cell

LEMMA QueueSeqNext == Packed(entries, tail, count)' => IsQueue(Queue, entries, tail, count)'
  BY QueueSeq, PTL

LEMMA QueueAfter ==
    ASSUME NEW k, NEW m, NEW e, Moved(k, m, e)
    PROVE  IsQueue(Queue', entries', tail', count')
  <1>1. Packed(entries, tail, count)'
    BY DEF Moved
  <1> QED BY <1>1, QueueSeqNext DEF IsQueue

(* What RemoveAt of the policy does. *)
LEMMA RemoveAtSeq ==
    ASSUME NEW S, NEW s \in Seq(S), NEW i \in 1..Len(s)
    PROVE  /\ Policy!RemoveAt(s, i) \in Seq(S)
           /\ Len(Policy!RemoveAt(s, i)) = Len(s) - 1
           /\ \A j \in 1..(Len(s) - 1) : Policy!RemoveAt(s, i)[j] = s[IF j < i THEN j ELSE j + 1]
  <1> DEFINE a == SubSeq(s, 1, i - 1)
             b == SubSeq(s, i + 1, Len(s))
  <1>0. Len(s) \in Nat /\ i \in Int /\ i - 1 \in Int /\ i + 1 \in Int /\ \A j \in 1..Len(s) : s[j] \in S
    OBVIOUS
  <1>1. /\ a \in Seq(S) /\ Len(a) = i - 1
        /\ \A j \in 1..(i - 1) : a[j] = s[j]
    <2>1. \A j \in 1..(i - 1) : s[j] \in S
      BY <1>0
    <2>2. /\ SubSeq(s, 1, i - 1) \in Seq(S)
          /\ Len(SubSeq(s, 1, i - 1)) = IF 1 <= i - 1 THEN (i - 1) - 1 + 1 ELSE 0
          /\ \A j \in 1..((i - 1) - 1 + 1) : SubSeq(s, 1, i - 1)[j] = s[1 + j - 1]
      BY <1>0, <2>1, SubSeqProperties
    <2>3. (i - 1) - 1 + 1 = i - 1 /\ \A j \in 1..(i - 1) : 1 + j - 1 = j
      BY <1>0
    <2> QED BY <1>0, <2>2, <2>3
  <1>2. /\ b \in Seq(S) /\ Len(b) = Len(s) - i
        /\ \A j \in 1..(Len(s) - i) : b[j] = s[i + j]
    <2>1. \A j \in (i + 1)..Len(s) : s[j] \in S
      BY <1>0
    <2>2. /\ SubSeq(s, i + 1, Len(s)) \in Seq(S)
          /\ Len(SubSeq(s, i + 1, Len(s))) = IF i + 1 <= Len(s) THEN Len(s) - (i + 1) + 1 ELSE 0
          /\ \A j \in 1..(Len(s) - (i + 1) + 1) : SubSeq(s, i + 1, Len(s))[j] = s[(i + 1) + j - 1]
      BY <1>0, <2>1, SubSeqProperties
    <2>3. Len(s) - (i + 1) + 1 = Len(s) - i
      BY <1>0
    <2>4. \A j \in 1..(Len(s) - i) : (i + 1) + j - 1 = i + j
      BY <1>0
    <2>5. (IF i + 1 <= Len(s) THEN Len(s) - (i + 1) + 1 ELSE 0) = Len(s) - i
      BY <1>0
    <2>6. b \in Seq(S) /\ Len(b) = Len(s) - i
      BY <2>2, <2>5
    <2>7. \A j \in 1..(Len(s) - i) : b[j] = s[i + j]
      BY <2>2, <2>3, <2>4
    <2> QED BY <2>6, <2>7
  <1>3. Policy!RemoveAt(s, i) = a \o b
    BY DEF Policy!RemoveAt
  <1> HIDE DEF a, b
  <1>4. /\ a \o b \in Seq(S) /\ Len(a \o b) = Len(a) + Len(b)
        /\ \A j \in 1..(Len(a) + Len(b)) : (a \o b)[j] = IF j <= Len(a) THEN a[j] ELSE b[j - Len(a)]
    BY <1>1, <1>2, ConcatProperties
  <1>5. Len(a) + Len(b) = Len(s) - 1
    BY <1>0, <1>1, <1>2
  <1>6. ASSUME NEW j \in 1..(Len(s) - 1)
        PROVE  (a \o b)[j] = s[IF j < i THEN j ELSE j + 1]
    <2>1. CASE j < i
      <3>1. j \in 1..(i - 1) /\ j <= Len(a) /\ j \in 1..(Len(a) + Len(b))
        BY <1>0, <1>1, <1>5, <2>1
      <3> QED BY <1>1, <1>4, <2>1, <3>1
    <2>2. CASE ~(j < i)
      <3>1. /\ ~(j <= Len(a)) /\ j \in 1..(Len(a) + Len(b)) /\ j - Len(a) \in 1..(Len(s) - i)
            /\ i + (j - Len(a)) = j + 1
        BY <1>0, <1>1, <1>5, <2>2
      <3>2. (a \o b)[j] = b[j - Len(a)]
        BY <1>4, <3>1
      <3>3. b[j - Len(a)] = s[j + 1]
        BY <1>2, <3>1
      <3> QED BY <2>2, <3>2, <3>3
    <2> QED BY <2>1, <2>2
  <1> QED BY <1>3, <1>4, <1>5, <1>6

LEMMA MapStore ==
    ASSUME Packed(entries, tail, count), NEW e \in Entry, Moved(count, Same, e), count' = count + 1
    PROVE  Queue' = Append(Queue, e)
  <1> USE SendqAssumption
  <1>1. IsQueue(Queue, entries, tail, count) /\ IsQueue(Queue', entries', tail', count')
    BY QueueSeq, QueueAfter
  <1>2. count \in Nat /\ CellAt(entries', tail', count) = e
    BY DEF Packed, Moved
  <1>3. /\ Append(Queue, e) \in Seq(Entry) /\ Len(Append(Queue, e)) = count + 1
        /\ \A j \in 1..count : Append(Queue, e)[j] = Queue[j]
        /\ Append(Queue, e)[count + 1] = e
    BY <1>1, AppendProperties DEF IsQueue
  <1>4. ASSUME NEW j \in 1..(count + 1) PROVE Queue'[j] = Append(Queue, e)[j]
    <2>1. CASE j \in 1..count
      <3>1. Queue'[j] = Cell(j - 1)' /\ j - 1 \in Cells /\ j - 1 < count
        BY <1>1, <2>1 DEF IsQueue, Cell
      <3>2. Cell(j - 1)' = Cell(j - 1)
        <4>1. Same[j - 1] = j - 1
          BY <3>1 DEF Same
        <4> QED BY <3>1, <4>1 DEF Moved
      <3>3. Queue[j] = Cell(j - 1)
        BY <1>1, <2>1 DEF IsQueue, Cell
      <3> QED BY <1>3, <2>1, <3>1, <3>2, <3>3
    <2>2. CASE j = count + 1
      <3>1. (count + 1) - 1 = count /\ count + 1 \in 1..count'
        BY <1>2
      <3>2. Queue'[count + 1] = CellAt(entries', tail', (count + 1) - 1)
        BY <1>1, <3>1 DEF IsQueue
      <3>3. Queue'[count + 1] = e
        BY <1>2, <3>1, <3>2
      <3> QED BY <1>3, <2>2, <3>3
    <2>3. PICK c \in Nat : c = count
      BY <1>2
    <2>4. j \in 1..c \/ j = c + 1
      BY <2>3
    <2> QED BY <2>1, <2>2, <2>3, <2>4
  <1>5. Queue' \in Seq(Entry) /\ Len(Queue') = count + 1
    BY <1>1 DEF IsQueue
  <1> QED BY <1>3, <1>4, <1>5, SeqEqual

(* The queue without its entry at offset r, cell by cell. *)
LEMMA MapWithout ==
    ASSUME Packed(entries, tail, count), NEW r \in Cells, r < count,
           NEW e, Moved(count - 1, Without(r), e)
    PROVE  /\ count \in Nat /\ r + 1 \in 1..Len(Queue) /\ Queue[r + 1] = Cell(r)
           /\ Policy!RemoveAt(Queue, r + 1) \in Seq(Entry)
           /\ Len(Policy!RemoveAt(Queue, r + 1)) = count - 1
           /\ \A j \in 1..(count - 1) :
                 j \in 1..count' => Queue'[j] = Policy!RemoveAt(Queue, r + 1)[j]
  <1> USE SendqAssumption
  <1>1. IsQueue(Queue, entries, tail, count) /\ IsQueue(Queue', entries', tail', count')
    BY QueueSeq, QueueAfter
  <1>2. count \in Nat /\ r + 1 \in 1..count /\ (r + 1) - 1 = r
    BY DEF Packed, Cells
  <1>3. Queue \in Seq(Entry) /\ Len(Queue) = count /\ Queue[r + 1] = Cell(r)
    BY <1>1, <1>2 DEF IsQueue, Cell
  <1>4. /\ Policy!RemoveAt(Queue, r + 1) \in Seq(Entry)
        /\ Len(Policy!RemoveAt(Queue, r + 1)) = count - 1
        /\ \A j \in 1..(count - 1) :
              Policy!RemoveAt(Queue, r + 1)[j] = Queue[IF j < r + 1 THEN j ELSE j + 1]
    BY <1>2, <1>3, RemoveAtSeq
  <1>5. ASSUME NEW j \in 1..(count - 1), j \in 1..count'
        PROVE  Queue'[j] = Policy!RemoveAt(Queue, r + 1)[j]
    <2>1. Queue'[j] = Cell(j - 1)' /\ j - 1 \in Cells
      BY <1>1, <1>5 DEF IsQueue, Cell
    <2>2. j - 1 < count - 1
      BY <1>2
    <2>3. Cell(j - 1)' = Cell(Without(r)[j - 1])
      BY <2>1, <2>2 DEF Moved
    <2>4. CASE j < r + 1
      <3>1. j - 1 < r /\ j \in 1..count
        BY <1>2, <2>4 DEF Cells
      <3>2. Without(r)[j - 1] = j - 1
        BY <2>1, <3>1, WithoutMap
      <3>3. Queue[j] = Cell(j - 1)
        BY <1>1, <3>1 DEF IsQueue, Cell
      <3> QED BY <1>4, <2>1, <2>3, <2>4, <3>2, <3>3
    <2>5. CASE ~(j < r + 1)
      <3>1. ~(j - 1 < r) /\ j + 1 \in 1..count /\ (j - 1) + 1 = j /\ (j + 1) - 1 = j
        BY <1>2, <2>5 DEF Cells
      <3>2. Without(r)[j - 1] = j
        BY <2>1, <3>1, WithoutMap
      <3>3. Queue[j + 1] = Cell(j)
        BY <1>1, <3>1 DEF IsQueue, Cell
      <3> QED BY <1>4, <2>1, <2>3, <2>5, <3>2, <3>3
    <2> QED BY <2>4, <2>5
  <1> QED BY <1>2, <1>3, <1>4, <1>5

LEMMA MapRemove ==
    ASSUME Packed(entries, tail, count), NEW r \in Cells, r < count,
           NEW e, Moved(count - 1, Without(r), e), count' = count - 1
    PROVE  Queue' = Policy!RemoveAt(Queue, r + 1)
  <1>1. Queue' \in Seq(Entry) /\ Len(Queue') = count - 1
    BY QueueAfter DEF IsQueue
  <1>2. \A j \in 1..(count - 1) : Queue'[j] = Policy!RemoveAt(Queue, r + 1)[j]
    BY MapWithout
  <1>3. /\ Policy!RemoveAt(Queue, r + 1) \in Seq(Entry)
        /\ Len(Policy!RemoveAt(Queue, r + 1)) = count - 1
    BY MapWithout
  <1> QED BY <1>1, <1>2, <1>3, SeqEqual

LEMMA MapReplace ==
    ASSUME Packed(entries, tail, count), NEW r \in Cells, r < count,
           NEW e \in Entry, Moved(count - 1, Without(r), e), count' = count,
           CellAt(entries', tail', count - 1) = e
    PROVE  Queue' = Append(Policy!RemoveAt(Queue, r + 1), e)
  <1> DEFINE s == Policy!RemoveAt(Queue, r + 1)
  <1>1. /\ count \in Nat /\ s \in Seq(Entry) /\ Len(s) = count - 1
        /\ \A j \in 1..(count - 1) : j \in 1..count' => Queue'[j] = s[j]
    BY MapWithout
  <1>2. IsQueue(Queue', entries', tail', count')
    BY QueueAfter
  <1> HIDE DEF s
  <1>3. /\ Append(s, e) \in Seq(Entry) /\ Len(Append(s, e)) = (count - 1) + 1
        /\ \A j \in 1..(count - 1) : Append(s, e)[j] = s[j]
        /\ Append(s, e)[(count - 1) + 1] = e
    BY <1>1, AppendProperties
  <1>4. (count - 1) + 1 = count
    BY <1>1
  <1>5. ASSUME NEW j \in 1..count PROVE Queue'[j] = Append(s, e)[j]
    <2>1. CASE j \in 1..(count - 1)
      BY <1>1, <1>3, <2>1
    <2>2. CASE j = count
      <3>1. Queue'[count] = CellAt(entries', tail', count - 1)
        BY <1>2, <2>2 DEF IsQueue
      <3> QED BY <1>3, <1>4, <2>2, <3>1
    <2> QED BY <1>1, <2>1, <2>2
  <1>6. Queue' \in Seq(Entry) /\ Len(Queue') = count
    BY <1>2 DEF IsQueue
  <1>7. Queue' = Append(s, e)
    BY <1>3, <1>4, <1>5, <1>6, SeqEqual
  <1> QED BY <1>7 DEF s

LEMMA MapHead ==
    ASSUME Packed(entries, tail, count), count > 0,
           NEW e, Moved(count - 1, Without(0), e), count' = count - 1
    PROVE  Queue # <<>> /\ Queue' = Tail(Queue) /\ Head(Queue) = Cell(0)
  <1> USE SendqAssumption
  <1>1. 0 \in Cells /\ count \in Nat
    BY DEF Cells, Packed
  <1>2. /\ Queue[0 + 1] = Cell(0) /\ Policy!RemoveAt(Queue, 0 + 1) \in Seq(Entry)
        /\ Len(Policy!RemoveAt(Queue, 0 + 1)) = count - 1
    BY <1>1, MapWithout
  <1>3. Queue' = Policy!RemoveAt(Queue, 0 + 1)
    BY <1>1, MapRemove
  <1>4. Queue \in Seq(Entry) /\ Len(Queue) = count
    BY QueueSeq DEF IsQueue
  <1>5. Queue # <<>>
    BY <1>4
  <1>6. /\ Tail(Queue) \in Seq(Entry) /\ Len(Tail(Queue)) = count - 1
        /\ \A j \in 1..(count - 1) : Tail(Queue)[j] = Queue[j + 1]
    BY <1>4, <1>5, HeadTailProperties
  <1>7. 1 \in 1..Len(Queue)
    BY <1>1, <1>4
  <1>8. \A j \in 1..(Len(Queue) - 1) :
           Policy!RemoveAt(Queue, 1)[j] = Queue[IF j < 1 THEN j ELSE j + 1]
    BY <1>4, <1>7, RemoveAtSeq
  <1>9. \A j \in 1..(count - 1) : Policy!RemoveAt(Queue, 1)[j] = Tail(Queue)[j]
    BY <1>4, <1>6, <1>8
  <1>10. Policy!RemoveAt(Queue, 1) = Tail(Queue)
    <2>1. 0 + 1 = 1
      OBVIOUS
    <2> QED BY <1>2, <1>6, <1>9, <2>1, SeqEqual
  <1>11. Head(Queue) = Queue[1]
    BY <1>4, <1>5
  <1> QED BY <1>2, <1>3, <1>5, <1>10, <1>11

LEMMA MapOldest ==
    ASSUME Packed(entries, tail, count), NEW r \in AudioOffsets, Oldest(r)
    PROVE  Policy!OldestAudio(r + 1)
  <1>1. IsQueue(Queue, entries, tail, count) /\ count \in Nat
    BY QueueSeq, SendqAssumption DEF Packed
  <1>2. \A i \in Offsets : i \in AudioOffsets <=> Cell(i).type = "audio"
    BY Occupied DEF AudioOffsets, IsAudio
  <1>3. r \in 0..(count - 1) /\ r \in Offsets
    BY <1>1 DEF AudioOffsets, Offsets
  <1>4. \A j \in 1..count : Queue[j] = Cell(j - 1) /\ j - 1 \in Offsets
    BY <1>1 DEF IsQueue, Cell, Offsets
  <1>5. Queue[r + 1].type = "audio"
    <2>1. r + 1 \in 1..count /\ (r + 1) - 1 = r
      BY <1>1, <1>3
    <2> QED BY <1>2, <1>3, <1>4, <2>1
  <1>6. ASSUME NEW j \in 1..((r + 1) - 1) PROVE Queue[j].type # "audio"
    <2>1. j \in 1..count /\ ~(r <= j - 1)
      BY <1>1, <1>3
    <2>2. j - 1 \notin AudioOffsets
      BY <2>1 DEF Oldest
    <2> QED BY <1>2, <1>4, <2>1, <2>2
  <1> QED BY <1>5, <1>6 DEF Policy!OldestAudio, Policy!IsAudio

LEMMA MapDrop ==
    ASSUME Packed(entries, tail, count), NEW n \in 0..count,
           NEW keep \in [0..(n - 1) -> AudioOffsets], AudioInOrder(n, keep),
           NEW e, Moved(n, keep, e), count' = n
    PROVE  Policy!AudioOf(Queue, Queue')
  <1> USE SendqAssumption
  <1> DEFINE places == {i \in 1..Len(Queue) : Policy!IsAudio(Queue[i])}
             k == [j \in 1..n |-> keep[j - 1] + 1]
  <1>1. IsQueue(Queue, entries, tail, count) /\ IsQueue(Queue', entries', tail', count')
    BY QueueSeq, QueueAfter
  <1>2. count \in Nat /\ n \in Nat /\ Len(Queue) = count /\ Len(Queue') = n
    BY <1>1 DEF IsQueue, Packed
  <1>3. \A j \in 1..n : j - 1 \in 0..(n - 1)
    BY <1>2
  <1>4. \A i \in Offsets : i \in AudioOffsets <=> Cell(i).type = "audio"
    BY Occupied DEF AudioOffsets, IsAudio
  <1>5. \A j \in 1..count : Queue[j] = Cell(j - 1) /\ j - 1 \in Offsets
    BY <1>1, <1>2 DEF IsQueue, Cell, Offsets
  <1>6. \A a \in AudioOffsets : a \in 0..(count - 1) /\ a \in Offsets
    BY DEF AudioOffsets, Offsets
  <1>7. \A a \in AudioOffsets : a + 1 \in places /\ Queue[a + 1] = Cell(a)
    <2> SUFFICES ASSUME NEW a \in AudioOffsets PROVE a + 1 \in places /\ Queue[a + 1] = Cell(a)
      OBVIOUS
    <2>1. a + 1 \in 1..count /\ (a + 1) - 1 = a
      BY <1>2, <1>6
    <2>2. Queue[a + 1] = Cell(a) /\ Cell(a).type = "audio"
      BY <1>4, <1>5, <1>6, <2>1
    <2> QED BY <1>2, <2>1, <2>2 DEF Policy!IsAudio
  <1>8. k \in [1..n -> places]
    BY <1>3, <1>7
  <1>9. ASSUME NEW i \in 1..count, Policy!IsAudio(Queue[i])
        PROVE  \E j \in 1..n : k[j] = i
    <2>1. i - 1 \in AudioOffsets /\ (i - 1) + 1 = i
      BY <1>2, <1>4, <1>5, <1>9 DEF Policy!IsAudio
    <2>2. PICK c \in 0..(n - 1) : keep[c] = i - 1
      BY <2>1 DEF AudioInOrder
    <2>3. c + 1 \in 1..n /\ (c + 1) - 1 = c
      BY <1>2
    <2>4. k[c + 1] = i
      BY <2>1, <2>2, <2>3
    <2> QED BY <2>3, <2>4
  <1>10. ASSUME NEW i \in 1..n, NEW j \in 1..n, i < j PROVE k[i] < k[j]
    <2>1. i - 1 \in 0..(n - 1) /\ j - 1 \in 0..(n - 1) /\ i - 1 < j - 1
      BY <1>2, <1>10
    <2>2. keep[i - 1] < keep[j - 1]
      BY <2>1 DEF AudioInOrder
    <2>3. PICK a \in AudioOffsets, b \in AudioOffsets : a = keep[i - 1] /\ b = keep[j - 1]
      BY <2>1
    <2>4. a + 1 < b + 1
      BY <1>6, <2>2, <2>3
    <2> QED BY <2>3, <2>4
  <1>11. ASSUME NEW j \in 1..n PROVE Queue'[j] = Queue[k[j]]
    <2>1. Queue'[j] = Cell(j - 1)' /\ j - 1 \in Cells /\ j - 1 < n
      BY <1>1 DEF IsQueue, Cell
    <2>2. Cell(j - 1)' = Cell(keep[j - 1])
      BY <2>1 DEF Moved
    <2>3. Queue[keep[j - 1] + 1] = Cell(keep[j - 1])
      BY <1>3, <1>7
    <2> QED BY <2>1, <2>2, <2>3
  <1> HIDE DEF k
  <1>12. \E f \in [1..Len(Queue') -> {i \in 1..Len(Queue) : Policy!IsAudio(Queue[i])}] :
            /\ \A i \in 1..Len(Queue) : Policy!IsAudio(Queue[i]) => \E j \in 1..Len(Queue') : f[j] = i
            /\ \A i, j \in 1..Len(Queue') : i < j => f[i] < f[j]
            /\ \A j \in 1..Len(Queue') : Queue'[j] = Queue[f[j]]
    BY <1>2, <1>8, <1>9, <1>10, <1>11
  <1> QED BY <1>12 DEF Policy!AudioOf

-----------------------------------------------------------------------------
(* Every step of the array is a step of the policy, or none. *)
LEMMA StoreImplements ==
    ASSUME SqInv, CanPush, npush' = npush + 1, count < Slots, NEW type \in {"audio", "video"},
           StoreIn(entries, tail, count, New(type)), sent' = sent, shutdown' = shutdown
    PROVE  Policy!PNext
  <1>1. New(type) \in Entry /\ New(type).ts = npush + 1
    BY NewEntry
  <1>2. Packed(entries, tail, count) /\ ~shutdown
    BY Zenon DEF SqInv, Placed, CanPush
  <1>3. Moved(count, Same, New(type)) /\ count' = count + 1
    BY <1>1, <1>2, StoreMoves
  <1>4. Queue' = Append(Queue, New(type))
    BY <1>1, <1>2, <1>3, MapStore
  <1>5. Len(Queue) = count /\ ~(count >= Slots)
    <2>1. count \in Nat /\ Len(Queue) = count
      BY <1>2, QueueSeq, SendqAssumption DEF IsQueue, Packed
    <2> QED BY <2>1, SendqAssumption
  <1>6. Policy!Enqueue(New(type))
    BY <1>2, <1>4, <1>5, Zenon DEF Policy!Enqueue, Policy!Full
  <1> QED BY <1>1, <1>6, Zenon DEF Policy!PNext

LEMMA PushVideoImplements == ASSUME SqInv, PushVideo PROVE Policy!PNext
  <1>1. CanPush /\ npush' = npush + 1 /\ UNCHANGED <<shutdown, inList, held, sent>>
    BY Zenon DEF PushVideo
  <1>2. CASE count < Slots /\ StoreIn(entries, tail, count, New("video"))
    BY <1>1, <1>2, StoreImplements
  <1>3. CASE count >= Slots /\ DropVideo
    <2>1. PICK n \in 0..count : \E keep \in [0..(n - 1) -> AudioOffsets] :
             AudioInOrder(n, keep) /\ Overflow(n, keep, count - n + 1)
      BY <1>3, Zenon DEF DropVideo
    <2>2. PICK keep \in [0..(n - 1) -> AudioOffsets] :
             AudioInOrder(n, keep) /\ Overflow(n, keep, count - n + 1)
      BY <2>1
    <2>3. Packed(entries, tail, count) /\ Increasing /\ npush \in Nat /\ ~shutdown
      <3>1. npush \in Nat
        BY SendqAssumption DEF SqInv, SqTypes
      <3> QED BY <1>1, <3>1, Zenon DEF SqInv, Placed, Ordered, CanPush
    <2>4. Moved(n, keep, New("video")) /\ count' = n
      BY <1>1, <2>2, <2>3, DropMoves
    <2>5. Policy!AudioOf(Queue, Queue')
      BY <2>2, <2>3, <2>4, MapDrop
    <2>6. Len(Queue) = count
      BY <2>3, QueueSeq DEF IsQueue
    <2>7. Policy!RefuseVideo
      BY <1>1, <1>3, <2>3, <2>5, <2>6, Zenon DEF Policy!RefuseVideo, Policy!Full
    <2> QED BY <2>7, Zenon DEF Policy!PNext
  <1> QED BY <1>2, <1>3, Zenon DEF PushVideo

LEMMA QueueStays == ASSUME UNCHANGED <<entries, tail, count>> PROVE Queue' = Queue
  BY Zenon DEF Queue, At

LEMMA PushAudioImplements ==
    ASSUME SqInv, PushAudio PROVE Policy!PNext \/ UNCHANGED Policy!pvars
  <1>1. CanPush /\ npush' = npush + 1 /\ UNCHANGED <<shutdown, inList, held, sent>>
    BY Zenon DEF PushAudio
  <1>2. CASE count < Slots /\ StoreIn(entries, tail, count, New("audio"))
    BY <1>1, <1>2, StoreImplements
  <1>3. CASE UNCHANGED <<entries, head, tail, count, thread>>
    <2>1. Queue' = Queue
      BY <1>3, QueueStays
    <2> QED BY <1>1, <2>1, Zenon DEF Policy!pvars
  <1>4. CASE count >= Slots /\ \E i \in AudioOffsets :
                /\ Oldest(i)
                /\ StoreIn(Closed(i), (tail + 1) % Slots, count - 1, New("audio"))
    <2>1. PICK r \in AudioOffsets :
             Oldest(r) /\ StoreIn(Closed(r), (tail + 1) % Slots, count - 1, New("audio"))
      BY <1>4
    <2>2. New("audio") \in Entry /\ New("audio").ts = npush + 1 /\ New("audio").type = "audio"
      BY <1>1, NewEntry
    <2>3. Packed(entries, tail, count) /\ ~shutdown /\ r \in Offsets
      BY <1>1, Zenon DEF SqInv, Placed, CanPush, AudioOffsets
    <2>4. /\ Moved(count - 1, Without(r), New("audio")) /\ count' = count
          /\ r \in Cells /\ r < count /\ CellAt(entries', tail', count - 1) = New("audio")
      BY <1>1, <2>1, <2>2, <2>3, ReplaceMoves
    <2>5. Queue' = Append(Policy!RemoveAt(Queue, r + 1), New("audio"))
      BY <2>2, <2>3, <2>4, MapReplace
    <2>6. r + 1 \in 1..Len(Queue)
      BY <2>3, <2>4, MapWithout
    <2>7. Policy!OldestAudio(r + 1)
      BY <2>1, <2>3, MapOldest
    <2>8. Len(Queue) = count
      BY <2>3, QueueSeq DEF IsQueue
    <2>9. Policy!ReplaceAudio(New("audio"))
      BY <1>1, <1>4, <2>2, <2>3, <2>5, <2>6, <2>7, <2>8, Zenon
         DEF Policy!ReplaceAudio, Policy!Full, Policy!IsAudio
    <2> QED BY <2>2, <2>9, Zenon DEF Policy!PNext
  <1> QED BY <1>2, <1>3, <1>4, Zenon DEF PushAudio

LEMMA PopImplements == ASSUME SqInv, Pop PROVE Policy!PNext
  <1>1. /\ count > 0 /\ sent' = Append(sent, entries[tail])
        /\ entries' = Popped(entries, tail) /\ tail' = (tail + 1) % Slots
        /\ count' = count - 1 /\ npush' = npush /\ head' = head /\ shutdown' = shutdown
    BY Zenon DEF Pop, Popped
  <1>2. /\ Packed(entries, tail, count) /\ head = (tail + count) % Slots
        /\ tail \in Cells /\ count \in 0..Slots
    BY DEF SqInv, Placed, Packed
  <1>3. 0 \in Offsets
    BY <1>1, <1>2, SendqAssumption DEF Offsets
  <1>4. Moved(count - 1, Without(0), Cell(0)) /\ entries[At(0)] = Cell(0)
    BY <1>1, <1>2, <1>3, RemoveMoves
  <1>5. Queue # <<>> /\ Queue' = Tail(Queue) /\ Head(Queue) = Cell(0)
    BY <1>1, <1>2, <1>4, MapHead
  <1>6. At(0) = tail
    BY <1>2, HomeCell DEF At
  <1>7. sent' = Append(sent, Head(Queue))
    BY <1>1, <1>4, <1>5, <1>6
  <1>8. Policy!TakeHead
    BY <1>1, <1>5, <1>7, Zenon DEF Policy!TakeHead
  <1> QED BY <1>8, Zenon DEF Policy!PNext

LEMMA DrainImplements == ASSUME SqInv, DrainAudio PROVE Policy!PNext
  <1>1. /\ tail' = (tail + 1) % Slots /\ count' = count - 1
        /\ npush' = npush /\ head' = head /\ shutdown' = shutdown
    BY Zenon DEF DrainAudio
  <1>2. PICK r \in AudioOffsets :
           Oldest(r) /\ sent' = Append(sent, entries[At(r)]) /\ entries' = Closed(r)
    BY Zenon DEF DrainAudio
  <1>3. /\ Packed(entries, tail, count) /\ head = (tail + count) % Slots /\ r \in Offsets
    BY DEF SqInv, Placed, AudioOffsets
  <1>4. /\ Moved(count - 1, Without(r), Cell(r)) /\ entries[At(r)] = Cell(r)
        /\ r \in Cells /\ r < count
    BY <1>1, <1>2, <1>3, RemoveMoves
  <1>5. Queue' = Policy!RemoveAt(Queue, r + 1)
    BY <1>1, <1>3, <1>4, MapRemove
  <1>6. r + 1 \in 1..Len(Queue) /\ Queue[r + 1] = Cell(r)
    BY <1>3, <1>4, MapWithout
  <1>7. Policy!OldestAudio(r + 1)
    BY <1>2, <1>3, MapOldest
  <1>8. sent' = Append(sent, Queue[r + 1])
    BY <1>2, <1>4, <1>6
  <1>9. Policy!TakeAudio
    BY <1>1, <1>5, <1>6, <1>7, <1>8, Zenon DEF Policy!TakeAudio
  <1> QED BY <1>9, Zenon DEF Policy!PNext

LEMMA DestroyImplements == ASSUME SqInv, Destroy PROVE Policy!PNext
  <1>1. thread = "exited" /\ count' = 0 /\ sent' = sent /\ shutdown' = shutdown
    BY Zenon DEF Destroy
  <1>2. shutdown
    BY <1>1 DEF SqInv, Threads
  <1>3. SqInv'
    BY DestroyKeeps
  <1>4. IsQueue(Queue', entries', tail', count')
    <2>1. Packed(entries, tail, count)'
      BY <1>3 DEF SqInv, Placed
    <2> QED BY <2>1, QueueSeqNext DEF IsQueue
  <1>5. Queue' \in Seq(Entry) /\ Len(Queue') = 0
    BY <1>1, <1>4 DEF IsQueue
  <1>6. Queue' = <<>>
    BY <1>5, EmptySeq
  <1>7. Policy!Discard
    BY <1>1, <1>2, <1>6, Zenon DEF Policy!Discard
  <1> QED BY <1>7, Zenon DEF Policy!PNext

LEMMA ShutdownImplements == ASSUME Shutdown PROVE Policy!PNext
  <1>1. ~shutdown /\ shutdown' = TRUE /\ UNCHANGED <<entries, tail, count, sent>>
    BY Zenon DEF Shutdown
  <1>2. Queue' = Queue
    BY <1>1, QueueStays
  <1>3. Policy!Close
    BY <1>1, <1>2, Zenon DEF Policy!Close
  <1> QED BY <1>3, Zenon DEF Policy!PNext

LEMMA QuietImplements ==
    ASSUME Wait \/ Exit \/ Release \/ ReportDrops \/ SqUnlist \/ UNCHANGED sqvars
    PROVE  UNCHANGED Policy!pvars
  <1>1. UNCHANGED <<entries, tail, count, sent, shutdown>>
    BY Zenon DEF Wait, Exit, Release, ReportDrops, SqUnlist, sqvars
  <1>2. Queue' = Queue
    BY <1>1, QueueStays
  <1> QED BY <1>1, <1>2, Zenon DEF Policy!pvars

LEMMA SqNextImplements ==
    ASSUME SqInv, SqNext PROVE Policy!PNext \/ UNCHANGED Policy!pvars
  <1>1. CASE PushVideo
    BY <1>1, PushVideoImplements
  <1>2. CASE PushAudio
    BY <1>2, PushAudioImplements
  <1>3. CASE Pop
    BY <1>3, PopImplements
  <1>4. CASE DrainAudio
    BY <1>4, DrainImplements
  <1>5. CASE Shutdown
    BY <1>5, ShutdownImplements
  <1>6. CASE Destroy
    BY <1>6, DestroyImplements
  <1>7. CASE Wait \/ Exit \/ Release \/ ReportDrops \/ SqUnlist
    BY <1>7, QuietImplements
  <1> QED BY <1>1, <1>2, <1>3, <1>4, <1>5, <1>6, <1>7, Zenon DEF SqNext, SendThread, Teardown

LEMMA InitImplements == SqInit => Policy!PInit
  <1> SUFFICES ASSUME SqInit PROVE Policy!PInit
    OBVIOUS
  <1>1. SqInv /\ count = 0 /\ sent = <<>> /\ shutdown = FALSE
    BY SqInitInv DEF SqInit
  <1>2. IsQueue(Queue, entries, tail, count)
    BY <1>1, QueueSeq DEF SqInv, Placed
  <1>3. Queue = <<>>
    BY <1>1, <1>2, EmptySeq DEF IsQueue
  <1> QED BY <1>1, <1>3, Zenon DEF Policy!PInit

(* The circular array with its gap closing and compaction does what the    *)
(* policy over plain sequences says, step by step: SendqPolicy is the      *)
(* promise of rsd_sendq.h, RsdSendq what rsd_sendq.c does.                 *)
THEOREM ArrayImplementsPolicy == RsdSpec => ImplementsPolicy
  <1>1. RsdInit => Policy!PInit
    BY InitImplements DEF RsdInit
  <1>2. SqInv /\ [RsdNext]_<<which, vars, sqvars>> => [Policy!PNext]_(Policy!pvars)
    <2> SUFFICES ASSUME SqInv, [RsdNext]_<<which, vars, sqvars>>
                 PROVE  Policy!PNext \/ UNCHANGED Policy!pvars
      OBVIOUS
    <2>1. CASE SqNext
      BY <2>1, SqNextImplements
    <2>2. CASE UNCHANGED sqvars
      BY <2>2, QuietImplements
    <2> QED BY <2>1, <2>2, Zenon DEF RsdNext
  <1> QED BY <1>1, <1>2, RsdSqInv, PTL DEF RsdSpec, ImplementsPolicy, Policy!PSpec
=============================================================================
