--------------------------- MODULE ControlProofs ---------------------------
(***************************************************************************)
(* Proofs about the daemons that hold the settings: rcd's guard undoes     *)
(* what nobody confirmed, its apply puts rad back and reports every daemon *)
(* that runs with something else than the file, its stores keep what is    *)
(* not theirs, and rmq offers Home Assistant documents it can take and     *)
(* finds the broker that was announced - for any keys, daemons, files,     *)
(* announcements and limits.                                               *)
(***************************************************************************)
EXTENDS MCControl, FiniteSetTheorems, SequenceTheorems, WellFoundedInduction, TLAPS

-----------------------------------------------------------------------------
(* Induction over numbers, and the loops it makes: a loop of the code is a *)
(* function on 0..n whose value at k is its state after k rounds.          *)
LEMMA SmallestNumber ==
    ASSUME NEW I \in SUBSET Nat, I # {}
    PROVE  Min(I) \in I /\ \A y \in I : Min(I) <= y
<1>1. \E x \in I : \A y \in I : ~(<<y, x>> \in OpToRel(<, Nat))
  BY NatLessThanWellFounded, WFMin, Zenon
<1>2. PICK x \in I : \A y \in I : ~(<<y, x>> \in OpToRel(<, Nat)) BY <1>1, Zenon
<1>3. ASSUME NEW y \in I PROVE x =< y
  <2>1. <<y, x>> \in Nat \X Nat OBVIOUS
  <2>2. ~(y < x) BY <1>2, <2>1 DEF OpToRel
  <2>3. QED BY <2>2
<1>4. \E z \in I : \A y \in I : z =< y BY <1>3
<1>5. QED BY <1>4, Zenon DEF Min

LEMMA Upto ==
    ASSUME NEW n \in Nat, NEW D, 0 \in D, \A k \in 1 .. n : k - 1 \in D => k \in D
    PROVE  \A k \in 0 .. n : k \in D
<1>1. SUFFICES ASSUME NEW z \in 0 .. n, z \notin D PROVE FALSE OBVIOUS
<1> DEFINE I == {k \in 0 .. n : k \notin D}
<1>2. I \in SUBSET Nat /\ I # {} BY <1>1
<1>3. Min(I) \in I /\ \A y \in I : Min(I) <= y BY <1>2, SmallestNumber
<1>4. PICK m : m = Min(I) BY Zenon
<1>5. m \in 0 .. n /\ m \notin D /\ \A y \in 0 .. n : y \notin D => m <= y BY <1>3, <1>4
<1>6. m # 0 BY <1>5
<1>7. m \in 1 .. n /\ m - 1 \in 0 .. n /\ ~(m <= m - 1) BY <1>5, <1>6
<1>8. m - 1 \in D BY <1>5, <1>7
<1>9. QED BY <1>5, <1>7, <1>8

Rounds(n, A) == [1 .. n -> [A -> A]]
Iterates(f, n, A, a, F) == f \in [0 .. n -> A] /\ f[0] = a /\ \A k \in 1 .. n : f[k] = F[k][f[k - 1]]

LEMMA IterationExists ==
    ASSUME NEW n \in Nat, NEW A, NEW a \in A, NEW F \in Rounds(n, A)
    PROVE  \E f : Iterates(f, n, A, a, F)
<1>0. F \in [1 .. n -> [A -> A]] BY DEF Rounds
<1> DEFINE D == {m \in 0 .. n : \E f \in [0 .. m -> A] : f[0] = a /\ \A k \in 1 .. m : f[k] = F[k][f[k - 1]]}
<1>1. 0 \in D
  <2>1. [i \in 0 .. 0 |-> a] \in [0 .. 0 -> A] /\ [i \in 0 .. 0 |-> a][0] = a /\ 1 .. 0 = {} OBVIOUS
  <2>2. 0 \in 0 .. n OBVIOUS
  <2>3. QED BY <2>1, <2>2
<1>2. ASSUME NEW m \in 1 .. n, m - 1 \in D PROVE m \in D
  <2>1. PICK f \in [0 .. m - 1 -> A] : f[0] = a /\ \A k \in 1 .. m - 1 : f[k] = F[k][f[k - 1]] BY <1>2
  <2> DEFINE g == [i \in 0 .. m |-> IF i = m THEN F[m][f[m - 1]] ELSE f[i]]
  <2>2. m - 1 \in 0 .. m - 1 /\ f[m - 1] \in A BY <2>1
  <2>3. F[m][f[m - 1]] \in A BY <1>0, <2>2
  <2>4. \A i \in 0 .. m : i = m \/ i \in 0 .. m - 1 OBVIOUS
  <2>5. g \in [0 .. m -> A] BY <2>1, <2>3, <2>4
  <2>6. g[0] = a BY <2>1
  <2>7. ASSUME NEW k \in 1 .. m PROVE g[k] = F[k][g[k - 1]]
    <3>1. k \in 0 .. m /\ k - 1 \in 0 .. m /\ k - 1 # m BY <2>7
    <3>2. g[k - 1] = f[k - 1] BY <3>1
    <3>3. CASE k = m BY <3>1, <3>2, <3>3
    <3>4. CASE k # m
      <4>1. k \in 1 .. m - 1 BY <3>4
      <4>2. QED BY <2>1, <3>1, <3>2, <3>4, <4>1
    <3>5. QED BY <3>3, <3>4
  <2>8. m \in 0 .. n OBVIOUS
  <2> HIDE DEF g
  <2>9. QED BY <2>5, <2>6, <2>7, <2>8
<1>3. n \in 0 .. n OBVIOUS
<1> HIDE DEF D
<1>4. n \in D BY <1>1, <1>2, <1>3, Upto
<1>5. PICK f \in [0 .. n -> A] : f[0] = a /\ \A k \in 1 .. n : f[k] = F[k][f[k - 1]] BY <1>4 DEF D
<1>6. Iterates(f, n, A, a, F) BY <1>5, Zenon DEF Iterates
<1>7. QED BY <1>6, Zenon

-----------------------------------------------------------------------------
(* rcd's guard, for any guarded keys, any sharing of enact calls between   *)
(* them and any number of retries.                                         *)

(* The conjuncts of TypeOK, which the provers take apart. *)
Kinds ==
    /\ {store, force, snap, proven} \subseteq Settings
    /\ guard \in {"steady", "held", "armed"} /\ doing \in {"none", "enact", "undo", "end"}
    /\ record \in [state : {"none", "held", "armed"}, snap : Settings]
    /\ marker \in {"none", "live", "past"}
    /\ {owed, stale, staleFile} \subseteq SUBSET Keys /\ calls \subseteq GroupsOf(Keys)
    /\ retries \in 0..Retries
Flags == {up, net, due, wifiMoved, refused, unrecorded, unlisted, hole} \subseteq BOOLEAN
GuardOver == up /\ guard = "steady" /\ ~hole => record.state = "none"
LEMMA TypeParts == /\ TypeOK <=> Kinds /\ Flags /\ GuardOver
                   /\ (TypeOK <=> Kinds /\ Flags /\ GuardOver)'
  BY Zenon DEF TypeOK, Kinds, Flags, GuardOver

Agree ==
    /\ up /\ guard # "steady" => snap = proven
    /\ record.state # "none" => record.snap = proven
    /\ doing = "none" /\ guard = "held" => record.state # "armed"
    /\ doing = "enact" => guard = "armed" /\ (record.state = "armed" \/ unrecorded)
    /\ unrecorded => up /\ guard = "armed"
    /\ owed # {} => guard = "armed" \/ doing \in {"undo", "end"}
    /\ ~up /\ net /\ record.state = "armed" /\ marker = "none" => force = proven

(* A revert that is under way: which enacts are left, and what it has put  *)
(* back when nothing refused.                                              *)
Undoing ==
    /\ doing \in {"undo", "end"} => guard # "steady"
    /\ doing \in {"undo", "end"} /\ ~refused => store = snap /\ (guard = "held" /\ net => force = proven)
    /\ doing = "undo" => calls = IF guard = "armed" THEN GroupsOf({k \in owed : store[k] = snap[k]}) ELSE {}
    /\ doing = "end" /\ ~refused /\ guard = "armed" => owed = {}

(* The snapshot is what was last confirmed, and what differs from it in    *)
(* force is found by a revert: the store still differs, or the key is owed *)
(* an enact.  What is stored and not in force is on the list or owed.      *)
Undoable ==
    /\ net /\ force # proven => record.state = "armed" \/ unrecorded
    /\ net => \A k \in Keys : force[k] # proven[k] => store[k] # proven[k] \/ k \in owed
    /\ net /\ ~unlisted => \A k \in Keys : store[k] # force[k] =>
                               k \in (IF up THEN stale ELSE staleFile) \/ k \in owed

(* What a dead rcd remembers. *)
Dead == ~up => owed = {} /\ doing = "none" /\ guard = "steady"

GuardInv == TypeOK /\ Dead /\ (hole \/ (Agree /\ Undoing /\ Undoable))

LEMMA NothingSet == Nothing \in Settings /\ NoRecord \in [state : {"none", "held", "armed"}, snap : Settings]
                    /\ NoRecord.state = "none"
  BY GuardAssumption DEF Nothing, NoRecord, Settings

LEMMA GroupsIn == ASSUME NEW ks \in SUBSET Keys PROVE GroupsOf(ks) \subseteq GroupsOf(Keys)
  BY DEF GroupsOf

LEMMA SettingsEqual == ASSUME NEW a \in Settings, NEW d \in Settings, \A k \in Keys : a[k] = d[k] PROVE a = d
  BY DEF Settings

LEMMA GuardInit == Init => GuardInv
  <1> SUFFICES ASSUME Init PROVE GuardInv
    OBVIOUS
  <1>1. Kinds
    BY NothingSet, GuardAssumption DEF Init, Kinds
  <1>2. Flags
    BY Zenon DEF Init, Flags
  <1>3. GuardOver
    BY NothingSet DEF Init, GuardOver
  <1>4. Dead
    BY DEF Init, Dead
  <1>5. Agree /\ Undoing /\ Undoable
    BY NothingSet DEF Init, Agree, Undoing, Undoable
  <1> QED BY <1>1, <1>2, <1>3, <1>4, <1>5, TypeParts DEF GuardInv

(* The first half of a revert to the confirmed settings.  "armed" or       *)
(* nothing unconfirmed in force: what differs in force is found.           *)
LEMMA BackStep ==
    ASSUME GuardInv, NEW s \in Settings, NEW g \in {"held", "armed"}, NEW t \in SUBSET Keys,
           Back(s, g, t), up' = TRUE, doing = "none",
           t = (IF up THEN stale ELSE staleFile),
           ~hole => /\ s = proven
                    /\ g = "armed" \/ force = proven \/ ~net
                    /\ record.state # "none" \/ up
                    /\ unrecorded => g = "armed"
    PROVE  GuardInv'
  <1>0. TypeOK /\ Kinds /\ Flags /\ Dead
    BY TypeParts DEF GuardInv
  <1>1. PICK kept \in SUBSET {k \in Keys : store[k] # s[k]} :
        /\ store' = [k \in Keys |-> IF k \in kept THEN store[k] ELSE s[k]]
        /\ stale' = t \cap kept
        /\ owed' = owed \cup {k \in Keys \ kept : store[k] # s[k]}
        /\ calls' = IF g = "armed" THEN GroupsOf(owed' \ kept) ELSE {}
        /\ refused' = (kept # {})
    BY Zenon DEF Back
  <1>2. /\ guard' = g /\ snap' = s /\ doing' = "undo"
        /\ UNCHANGED <<retries, wifiMoved, record, marker, staleFile, due, force, net, proven,
                       unrecorded, unlisted, hole>>
    BY DEF Back, files, ghosts
  <1>3. Kinds'
    <2>1. store' \in Settings /\ owed' \subseteq Keys /\ stale' \subseteq Keys
      BY <1>0, <1>1 DEF Settings, Kinds
    <2>2. owed' \ kept \in SUBSET Keys
      BY <2>1
    <2>3. calls' \subseteq GroupsOf(Keys)
      BY <1>1, <2>2, GroupsIn
    <2> QED BY <1>0, <1>2, <2>1, <2>3 DEF Kinds
  <1>4. Flags'
    <2>1. refused' \in BOOLEAN
      BY <1>1, Zenon
    <2> QED BY <1>0, <1>2, <2>1, Zenon DEF Flags
  <1>5. GuardOver' /\ Dead'
    BY <1>2 DEF GuardOver, Dead
  <1>6. ASSUME ~hole PROVE Agree' /\ Undoing' /\ Undoable'
    <2>1. Agree /\ Undoable /\ s = proven
      BY <1>6 DEF GuardInv
    <2>2. \A k \in Keys : /\ store'[k] = (IF k \in kept THEN store[k] ELSE s[k])
                          /\ k \in kept => store[k] # s[k]
                          /\ k \in owed' <=> k \in owed \/ (k \notin kept /\ store[k] # s[k])
      BY <1>1
    <2>3. Agree'
      BY <1>2, <1>6, <2>1 DEF Agree
    <2>4. Undoing'
      <3>1. ~refused' => store' = s
        <4>1. ASSUME ~refused' PROVE kept = {}
          BY <1>1, <4>1, Zenon
        <4>2. ASSUME kept = {} PROVE store' = s
          BY <1>1, <4>2 DEF Settings
        <4> QED BY <4>1, <4>2
      <3>2. owed' \ kept = {k \in owed' : store'[k] = s[k]}
        BY <1>0, <1>1, <2>2 DEF Kinds
      <3> QED BY <1>1, <1>2, <1>6, <3>1, <3>2 DEF Undoing
    <2>5. net => \A k \in Keys : force[k] # proven[k] => store'[k] # proven[k] \/ k \in owed'
      BY <2>1, <2>2 DEF Undoable
    <2>6. net /\ ~unlisted => \A k \in Keys : store'[k] # force[k] => k \in stale' \/ k \in owed'
      BY <1>1, <2>1, <2>2 DEF Undoable
    <2>7. Undoable'
      BY <1>2, <2>1, <2>5, <2>6 DEF Undoable
    <2> QED BY <2>3, <2>4, <2>7
  <1>7. hole' = hole
    BY <1>2
  <1> QED BY <1>3, <1>4, <1>5, <1>6, <1>7, TypeParts DEF GuardInv

LEMMA CancelStep == ASSUME GuardInv, Cancel \/ TickRevert PROVE GuardInv'
  <1>1. up /\ doing = "none" /\ guard # "steady" /\ up' = up /\ Back(snap, guard, stale)
    BY DEF Cancel, TickRevert, Ready, Idling
  <1>2. Kinds /\ Flags
    BY TypeParts DEF GuardInv
  <1>3. snap \in Settings /\ stale \in SUBSET Keys /\ guard \in {"held", "armed"}
    BY <1>1, <1>2 DEF Kinds
  <1>4. up' = TRUE
    BY <1>1, <1>2, Zenon DEF Flags
  <1>5. ~hole => /\ snap = proven
                 /\ guard = "armed" \/ force = proven \/ ~net
                 /\ unrecorded => guard = "armed"
    BY <1>1, <1>3 DEF GuardInv, Agree, Undoable
  <1> QED BY <1>1, <1>3, <1>4, <1>5, BackStep

LEMMA UndoEnactStep == ASSUME GuardInv, NEW dead \in SUBSET GroupsOf(Keys), UndoEnact(dead) PROVE GuardInv'
  <1>0. Kinds /\ Flags /\ GuardOver /\ Dead
    BY TypeParts DEF GuardInv
  <1> DEFINE done == calls \ dead
  <1>1. /\ up /\ doing = "undo" /\ doing' = "end" /\ dead \subseteq calls
        /\ force' = [k \in Keys |-> IF Group[k] \in done THEN store[k] ELSE force[k]]
        /\ owed' = {k \in owed : Group[k] \notin done}
        /\ UNCHANGED <<up, guard, snap, retries, wifiMoved, stale, calls, record, marker, staleFile,
                       due, store, net, proven, unlisted, hole>>
    BY DEF UndoEnact, files
  <1>2. /\ refused' = (refused \/ dead # {})
        /\ unrecorded' = (unrecorded \/ (guard = "armed" /\ record.state # "armed" /\ force' # snap))
    BY Zenon DEF UndoEnact
  <1> HIDE DEF done
  <1>3. Kinds'
    BY <1>0, <1>1 DEF Kinds, Settings
  <1>4. Flags'
    <2>1. refused' \in BOOLEAN /\ unrecorded' \in BOOLEAN
      BY <1>2, Zenon
    <2> QED BY <1>0, <1>1, <2>1, Zenon DEF Flags
  <1>5. GuardOver' /\ Dead'
    BY <1>0, <1>1 DEF GuardOver, Dead
  <1>6. ASSUME ~hole PROVE Agree' /\ Undoing' /\ Undoable'
    <2>1. Agree /\ Undoing /\ Undoable
      BY <1>6 DEF GuardInv
    <2>2. guard # "steady" /\ snap = proven
      BY <1>1, <2>1 DEF Agree, Undoing
    <2>3. unrecorded' => up /\ guard = "armed"
      <3>1. unrecorded => guard = "armed"
        BY <2>1 DEF Agree
      <3> QED BY <1>1, <1>2, <3>1, Zenon
    <2>4. Agree'
      BY <1>1, <2>1, <2>2, <2>3 DEF Agree
    <2>5. ASSUME ~refused' PROVE ~refused /\ dead = {}
      BY <1>2, <2>5, Zenon
    <2>6. guard = "held" => force' = force /\ done = {}
      BY <1>0, <1>1, <2>1 DEF Undoing, done, Kinds, Settings
    <2>7. ASSUME ~refused', guard = "armed" PROVE owed' = {}
      <3>1. store = snap /\ done = GroupsOf({k \in owed : store[k] = snap[k]})
        BY <1>1, <2>1, <2>5, <2>7 DEF Undoing, done
      <3> QED BY <1>1, <3>1 DEF GroupsOf
    <2>8. Undoing'
      BY <1>1, <2>1, <2>2, <2>5, <2>6, <2>7 DEF Undoing
    <2>9. \A k \in Keys : /\ Group[k] \in done => force'[k] = store[k]
                          /\ Group[k] \notin done => force'[k] = force[k] /\ (k \in owed => k \in owed')
      BY <1>1
    <2>10. net => \A k \in Keys : force'[k] # proven[k] => store[k] # proven[k] \/ k \in owed'
      BY <2>1, <2>9 DEF Undoable
    <2>11. net /\ ~unlisted => \A k \in Keys : store[k] # force'[k] => k \in stale \/ k \in owed'
      BY <1>1, <2>1, <2>9 DEF Undoable
    <2>12. net /\ force' # proven => record.state = "armed" \/ unrecorded'
      <3>1. CASE guard = "armed"
        BY <1>2, <2>2, <3>1, Zenon
      <3>2. CASE guard # "armed"
        <4>1. net /\ force # proven => record.state = "armed" \/ unrecorded
          BY <2>1 DEF Undoable
        <4>2. guard = "held"
          BY <1>0, <2>2, <3>2 DEF Kinds
        <4> QED BY <1>2, <2>6, <4>1, <4>2, Zenon
      <3> QED BY <3>1, <3>2
    <2>13. Undoable'
      BY <1>1, <2>10, <2>11, <2>12 DEF Undoable
    <2> QED BY <2>4, <2>8, <2>13
  <1>7. hole' = hole
    BY <1>1
  <1> QED BY <1>3, <1>4, <1>5, <1>6, <1>7, TypeParts DEF GuardInv

LEMMA DisarmIs ==
    ASSUME NEW h, Disarm(h)
    PROVE  /\ guard' = "steady" /\ snap' = Nothing /\ due' = FALSE /\ retries' = 0 /\ unrecorded' = FALSE
           /\ record' \in {NoRecord, record} /\ marker' \in {"none", marker}
           /\ hole' \in BOOLEAN /\ (~hole' => ~hole /\ ~h /\ record'.state = "none")
  <1>1. hole' \in BOOLEAN /\ (~hole' => ~hole /\ ~h /\ record'.state = "none")
    BY Zenon DEF Disarm
  <1> QED BY <1>1 DEF Disarm

LEMMA UndoEndStep == ASSUME GuardInv, UndoEnd PROVE GuardInv'
  <1>0. Kinds /\ Flags /\ GuardOver /\ Dead
    BY TypeParts DEF GuardInv
  <1>1. /\ up /\ doing = "end" /\ doing' = "none" /\ calls' = {} /\ refused' = FALSE /\ stale' = stale
        /\ staleFile' \in {stale, staleFile, {}}
        /\ UNCHANGED <<up, wifiMoved, store, force, net, proven, unlisted>>
    BY DEF UndoEnd, ListSave
  <1>2. CASE ~refused /\ Disarm(FALSE) /\ owed' = {}
    <2>1. /\ guard' = "steady" /\ snap' = Nothing /\ due' = FALSE /\ retries' = 0 /\ unrecorded' = FALSE
          /\ record' \in {NoRecord, record} /\ marker' \in {"none", marker}
      BY <1>2, DisarmIs
    <2>2. hole' \in BOOLEAN /\ (~hole' => ~hole /\ record'.state = "none")
      BY <1>2, DisarmIs, Zenon
    <2>3. Kinds'
      BY <1>0, <1>1, <1>2, <2>1, NothingSet, GuardAssumption DEF Kinds
    <2>4. Flags'
      BY <1>0, <1>1, <2>1, <2>2, Zenon DEF Flags
    <2>5. GuardOver' /\ Dead'
      BY <1>1, <2>2 DEF GuardOver, Dead
    <2>6. ASSUME ~hole' PROVE Agree' /\ Undoing' /\ Undoable'
      <3>1. Agree /\ Undoing /\ Undoable /\ record'.state = "none"
        BY <2>2, <2>6 DEF GuardInv
      <3>2. store = proven
        BY <1>1, <1>2, <3>1 DEF Agree, Undoing
      <3>3. net => force = proven
        <4>1. CASE guard = "held"
          BY <1>1, <1>2, <3>1, <4>1 DEF Undoing
        <4>2. CASE guard = "armed"
          <5>1. net => \A k \in Keys : force[k] = proven[k]
            BY <1>1, <1>2, <3>1, <3>2, <4>2 DEF Undoing, Undoable
          <5> QED BY <1>0, <5>1, SettingsEqual DEF Kinds
        <4> QED BY <1>0, <1>1, <3>1, <4>1, <4>2 DEF Kinds, Undoing
      <3>4. Agree'
        BY <1>1, <1>2, <2>1, <3>1 DEF Agree
      <3>5. Undoing'
        BY <1>1 DEF Undoing
      <3>6. Undoable'
        BY <1>1, <3>2, <3>3 DEF Undoable
      <3> QED BY <3>4, <3>5, <3>6
    <2> QED BY <2>3, <2>4, <2>5, <2>6, TypeParts DEF GuardInv
  <1>3. CASE /\ refused /\ retries < Retries
             /\ guard' = "armed" /\ due' = FALSE /\ retries' = retries + 1 /\ ArmedWrite
             /\ UNCHANGED <<snap, owed, record, unrecorded, hole>>
    <2>1. marker' \in {"live", "none", marker}
      BY <1>3 DEF ArmedWrite
    <2>2. Kinds'
      <3>1. retries' \in 0..Retries
        BY <1>0, <1>3, GuardAssumption DEF Kinds
      <3> QED BY <1>0, <1>1, <1>3, <2>1, <3>1 DEF Kinds
    <2>3. Flags'
      BY <1>0, <1>1, <1>3, Zenon DEF Flags
    <2>4. GuardOver' /\ Dead'
      BY <1>0, <1>1, <1>3 DEF GuardOver, Dead
    <2>5. ASSUME ~hole PROVE Agree' /\ Undoing' /\ Undoable'
      <3>1. Agree /\ Undoing /\ Undoable
        BY <2>5 DEF GuardInv
      <3>2. guard # "steady"
        BY <1>1, <3>1 DEF Undoing
      <3>3. Agree'
        BY <1>1, <1>3, <3>1, <3>2 DEF Agree
      <3>4. Undoing'
        BY <1>1 DEF Undoing
      <3>5. Undoable'
        BY <1>1, <1>3, <3>1 DEF Undoable
      <3> QED BY <3>3, <3>4, <3>5
    <2> QED BY <1>3, <2>2, <2>3, <2>4, <2>5, TypeParts DEF GuardInv
  <1>4. CASE /\ refused /\ retries = Retries
             /\ guard' = "steady" /\ retries' = 0 /\ marker' = "none" /\ owed' = {} /\ hole' = TRUE
             /\ snap' = Nothing /\ due' = FALSE /\ unrecorded' = FALSE /\ UNCHANGED record
    <2>1. Kinds'
      BY <1>0, <1>1, <1>4, NothingSet, GuardAssumption DEF Kinds
    <2>2. Flags'
      BY <1>0, <1>1, <1>4, Zenon DEF Flags
    <2>3. GuardOver' /\ Dead' /\ hole'
      BY <1>0, <1>1, <1>4 DEF GuardOver, Dead
    <2> QED BY <2>1, <2>2, <2>3, TypeParts DEF GuardInv
  <1> QED BY <1>2, <1>3, <1>4, Zenon DEF UndoEnd

LEMMA ConfirmStep == ASSUME GuardInv, Confirm PROVE GuardInv'
  <1>0. Kinds /\ Flags /\ GuardOver /\ Dead
    BY TypeParts DEF GuardInv
  <1>1. /\ up /\ net /\ doing = "none" /\ guard = "armed" /\ wifiMoved' = FALSE
        /\ proven' = force /\ owed' = {} /\ Disarm(owed # {})
        /\ UNCHANGED <<up, doing, stale, calls, refused, staleFile, store, force, net, unlisted>>
    BY DEF Confirm, Ready, Idling
  <1>2. /\ guard' = "steady" /\ snap' = Nothing /\ due' = FALSE /\ retries' = 0 /\ unrecorded' = FALSE
        /\ record' \in {NoRecord, record} /\ marker' \in {"none", marker}
    BY <1>1 DEF Disarm
  <1>3. hole' \in BOOLEAN /\ (~hole' => ~hole /\ owed = {} /\ record'.state = "none")
    BY <1>1, Zenon DEF Disarm
  <1>4. Kinds'
    BY <1>0, <1>1, <1>2, NothingSet, GuardAssumption DEF Kinds
  <1>5. Flags'
    BY <1>0, <1>1, <1>2, <1>3, Zenon DEF Flags
  <1>6. GuardOver' /\ Dead'
    BY <1>1, <1>3 DEF GuardOver, Dead
  <1>7. ASSUME ~hole' PROVE Agree' /\ Undoing' /\ Undoable'
    <2>1. Agree /\ Undoable /\ owed = {} /\ record'.state = "none"
      BY <1>3, <1>7 DEF GuardInv
    <2>2. Agree'
      BY <1>1, <1>2, <2>1 DEF Agree
    <2>3. Undoing'
      BY <1>1 DEF Undoing
    <2>4. Undoable'
      BY <1>1, <1>2, <2>1 DEF Undoable
    <2> QED BY <2>2, <2>3, <2>4
  <1> QED BY <1>4, <1>5, <1>6, <1>7, TypeParts DEF GuardInv

LEMMA ArmStep == ASSUME GuardInv, Arm PROVE GuardInv'
  <1>0. Kinds /\ Flags /\ GuardOver /\ Dead
    BY TypeParts DEF GuardInv
  <1>1. /\ up /\ net /\ doing = "none" /\ guard' = "armed" /\ due' = FALSE /\ retries' = 0
        /\ marker' \in {"live", "none", marker} /\ doing' = "enact"
        /\ snap' = (IF guard = "steady" THEN store ELSE snap)
        /\ record' \in {[state |-> "armed", snap |-> snap'], record}
        /\ UNCHANGED <<up, owed, stale, calls, refused, staleFile, store, force, net, proven, unlisted>>
    BY DEF Arm, Armed, Ready, Idling, ArmedWrite, RecordWrite
  <1>2. wifiMoved' \in BOOLEAN /\ hole' = (hole \/ (guard = "steady" /\ store # proven))
    BY Zenon DEF Arm, Armed
  <1>3. unrecorded' \in BOOLEAN /\ (~unrecorded' => record' = [state |-> "armed", snap |-> snap'])
    BY Zenon DEF Arm
  <1>4. Kinds'
    <2>1. snap' \in Settings
      BY <1>0, <1>1 DEF Kinds
    <2>2. record' \in [state : {"none", "held", "armed"}, snap : Settings]
      BY <1>0, <1>1, <2>1 DEF Kinds
    <2> QED BY <1>0, <1>1, <2>1, <2>2, GuardAssumption DEF Kinds
  <1>5. Flags'
    <2>1. hole' \in BOOLEAN
      BY <1>2, Zenon
    <2> QED BY <1>0, <1>1, <1>2, <1>3, <2>1, Zenon DEF Flags
  <1>6. GuardOver' /\ Dead'
    BY <1>1 DEF GuardOver, Dead
  <1>7. ASSUME ~hole' PROVE Agree' /\ Undoing' /\ Undoable'
    <2>1. ~hole /\ (guard = "steady" => store = proven)
      BY <1>2, <1>7, Zenon
    <2>2. Agree /\ Undoable
      BY <2>1 DEF GuardInv
    <2>3. snap' = proven
      BY <1>1, <2>1, <2>2 DEF Agree
    <2>4. record'.state # "none" => record'.snap = proven
      BY <1>1, <2>2, <2>3 DEF Agree
    <2>5. record'.state = "armed" \/ unrecorded'
      <3>1. [state |-> "armed", snap |-> snap'].state = "armed"
        OBVIOUS
      <3> QED BY <1>3, <3>1, Zenon
    <2>6. Agree'
      BY <1>1, <2>2, <2>3, <2>4, <2>5 DEF Agree
    <2>7. Undoing'
      BY <1>1 DEF Undoing
    <2>8. Undoable'
      BY <1>1, <2>2, <2>5 DEF Undoable
    <2> QED BY <2>6, <2>7, <2>8
  <1> QED BY <1>4, <1>5, <1>6, <1>7, TypeParts DEF GuardInv

LEMMA EnactStep == ASSUME GuardInv, NEW failed \in SUBSET GroupsOf(Keys), Enact(failed) PROVE GuardInv'
  <1>0. Kinds /\ Flags /\ GuardOver /\ Dead
    BY TypeParts DEF GuardInv
  <1> DEFINE done == GroupsOf(stale) \ failed
  <1>1. /\ up /\ doing = "enact" /\ doing' = "none"
        /\ force' = [k \in Keys |-> IF Group[k] \in done THEN store[k] ELSE force[k]]
        /\ stale' = EnactDone(done) /\ staleFile' \in {stale', staleFile, {}}
        /\ UNCHANGED <<up, guard, snap, owed, retries, wifiMoved, calls, refused, record, marker,
                       due, store, net, proven, unrecorded, unlisted, hole>>
    BY DEF Enact, ListSave, ghosts
  <1> HIDE DEF done
  <1>2. stale' \subseteq stale
    BY <1>1 DEF EnactDone
  <1>3. Kinds'
    BY <1>0, <1>1, <1>2 DEF Kinds, Settings
  <1>4. Flags'
    BY <1>0, <1>1, Zenon DEF Flags
  <1>5. GuardOver' /\ Dead'
    BY <1>0, <1>1 DEF GuardOver, Dead
  <1>6. ASSUME ~hole PROVE Agree' /\ Undoing' /\ Undoable'
    <2>1. Agree /\ Undoable
      BY <1>6 DEF GuardInv
    <2>2. guard = "armed" /\ (record.state = "armed" \/ unrecorded)
      BY <1>1, <2>1 DEF Agree
    <2>3. Agree'
      BY <1>1, <2>1, <2>2 DEF Agree
    <2>4. Undoing'
      BY <1>1 DEF Undoing
    <2>5. net => \A k \in Keys : force'[k] # proven[k] => store[k] # proven[k] \/ k \in owed
      BY <1>1, <2>1 DEF Undoable
    <2>6. net /\ ~unlisted => \A k \in Keys : store[k] # force'[k] => k \in stale' \/ k \in owed
      BY <1>1, <2>1 DEF Undoable, EnactDone
    <2>7. Undoable'
      BY <1>1, <2>2, <2>5, <2>6 DEF Undoable
    <2> QED BY <2>3, <2>4, <2>7
  <1>7. hole' = hole
    BY <1>1
  <1> QED BY <1>3, <1>4, <1>5, <1>6, <1>7, TypeParts DEF GuardInv

LEMMA SetStep == ASSUME GuardInv, NEW k \in Keys, NEW v \in Vals, Set(k, v) PROVE GuardInv'
  <1>0. Kinds /\ Flags /\ GuardOver /\ Dead
    BY TypeParts DEF GuardInv
  <1>1. /\ up /\ net /\ doing = "none" /\ Hold /\ store' = [store EXCEPT ![k] = v]
        /\ UNCHANGED <<up, doing, owed, retries, wifiMoved, calls, refused, marker, due, force, net,
                       proven, unrecorded>>
    BY DEF Set, Ready, Idling
  <1>2. \/ guard = "steady" /\ guard' = "held" /\ snap' = store
           /\ record' \in {[state |-> "held", snap |-> store], record}
        \/ guard # "steady" /\ UNCHANGED <<guard, snap, record>>
    BY <1>1 DEF Hold, RecordWrite
  <1>3. stale \subseteq stale' /\ stale' \subseteq Keys /\ staleFile' \subseteq Keys
        /\ (v # store[k] => stale' \in {stale \cup {k}, stale})
    BY <1>0 DEF Set, StaleAdd, ListSave, Kinds
  <1>4. unlisted' \in BOOLEAN /\ (~unlisted' => ~unlisted /\ (v # store[k] => k \in stale'))
    <2>1. CASE v = store[k]
      <3>1. unlisted' = unlisted
        BY <2>1 DEF Set
      <3> QED BY <1>0, <2>1, <3>1, Zenon DEF Flags
    <2>2. CASE v # store[k]
      <3>1. unlisted' = (unlisted \/ k \notin stale')
        BY <2>2, Zenon DEF Set, StaleAdd
      <3> QED BY <3>1, Zenon
    <2> QED BY <2>1, <2>2
  <1>5. /\ hole' \in BOOLEAN
        /\ ~hole' => /\ ~hole /\ (guard = "steady" => store = proven)
                     /\ ~(v = snap'[k] /\ force[k] # v /\ k \notin owed)
    BY Zenon DEF Set
  <1>6. Kinds'
    <2>1. store' \in Settings /\ snap' \in Settings
      BY <1>0, <1>1, <1>2 DEF Kinds, Settings
    <2>2. record' \in [state : {"none", "held", "armed"}, snap : Settings]
      BY <1>0, <1>2 DEF Kinds
    <2> QED BY <1>0, <1>1, <1>2, <1>3, <2>1, <2>2 DEF Kinds
  <1>7. Flags'
    BY <1>0, <1>1, <1>4, <1>5, Zenon DEF Flags
  <1>8. GuardOver' /\ Dead'
    BY <1>0, <1>1, <1>2 DEF GuardOver, Dead
  <1>9. ASSUME ~hole' PROVE Agree' /\ Undoing' /\ Undoable'
    <2>1. ~hole /\ (guard = "steady" => store = proven) /\ ~(v = snap'[k] /\ force[k] # v /\ k \notin owed)
      BY <1>5, <1>9, Zenon
    <2>2. Agree /\ Undoable
      BY <2>1 DEF GuardInv
    <2>3. snap' = proven
      BY <1>1, <1>2, <2>1, <2>2 DEF Agree
    <2>4. Agree'
      <3>1. CASE guard = "steady"
        <4>1. record.state = "none"
          BY <1>0, <1>1, <2>1, <3>1 DEF GuardOver
        <4> QED BY <1>1, <1>2, <2>1, <2>2, <2>3, <3>1, <4>1 DEF Agree
      <3>2. CASE guard # "steady"
        BY <1>1, <1>2, <2>2, <2>3, <3>2 DEF Agree
      <3> QED BY <3>1, <3>2
    <2>5. Undoing'
      BY <1>1 DEF Undoing
    <2>6. \A j \in Keys : store'[j] = IF j = k THEN v ELSE store[j]
      BY <1>0, <1>1 DEF Kinds, Settings
    <2>7. \A j \in Keys : force[j] # proven[j] => store'[j] # proven[j] \/ j \in owed
      BY <1>1, <2>1, <2>2, <2>3, <2>6 DEF Undoable
    <2>8. ~unlisted' => \A j \in Keys : store'[j] # force[j] => j \in stale' \/ j \in owed
      BY <1>1, <1>3, <1>4, <2>2, <2>6 DEF Undoable
    <2>9. force # proven => record'.state = "armed" \/ unrecorded
      <3>1. force # proven => record.state = "armed" \/ unrecorded
        BY <1>1, <2>2 DEF Undoable
      <3>2. guard = "steady" => record.state = "none" /\ ~unrecorded
        BY <1>0, <1>1, <2>1, <2>2 DEF GuardOver, Agree
      <3> QED BY <1>2, <3>1, <3>2
    <2>10. Undoable'
      BY <1>1, <2>7, <2>8, <2>9 DEF Undoable
    <2> QED BY <2>4, <2>5, <2>10
  <1> QED BY <1>6, <1>7, <1>8, <1>9, TypeParts DEF GuardInv

LEMMA LoadStep == ASSUME GuardInv, Load PROVE GuardInv'
  <1>0. Kinds /\ Flags /\ GuardOver /\ Dead
    BY TypeParts DEF GuardInv
  <1>1. ~up /\ up' = TRUE /\ owed = {} /\ doing = "none" /\ guard = "steady"
    BY <1>0 DEF Load, Dead
  <1>2. ASSUME NEW g \in {"steady", "held", "armed"}, Resume(g),
               record.state = (IF g = "steady" THEN "none" ELSE g)
        PROVE  GuardInv'
    <2>1. /\ guard' = g /\ snap' = record.snap /\ stale' = staleFile /\ due' = FALSE
          /\ UNCHANGED <<owed, retries, wifiMoved, doing, calls, refused, record, marker, staleFile,
                         store, force, net, proven, unrecorded, unlisted, hole>>
      BY <1>2 DEF Resume, files, ghosts
    <2>2. Kinds'
      BY <1>0, <1>2, <2>1 DEF Kinds
    <2>3. Flags'
      BY <1>0, <1>1, <2>1, Zenon DEF Flags
    <2>4. GuardOver' /\ Dead'
      BY <1>1, <1>2, <2>1 DEF GuardOver, Dead
    <2>5. ASSUME ~hole PROVE Agree' /\ Undoing' /\ Undoable'
      <3>1. Agree /\ Undoable
        BY <2>5 DEF GuardInv
      <3>2. Agree'
        BY <1>1, <1>2, <2>1, <3>1 DEF Agree
      <3>3. Undoing'
        BY <1>1, <2>1 DEF Undoing
      <3>4. Undoable'
        BY <1>1, <2>1, <3>1 DEF Undoable
      <3> QED BY <3>2, <3>3, <3>4
    <2>6. hole' = hole
      BY <2>1
    <2> QED BY <2>2, <2>3, <2>4, <2>5, <2>6, TypeParts DEF GuardInv
  <1>3. ASSUME NEW g \in {"held", "armed"}, Back(record.snap, g, staleFile), record.state = "armed",
               g = "armed" \/ marker = "none"
        PROVE  GuardInv'
    <2>1. record.snap \in Settings /\ staleFile \in SUBSET Keys
      BY <1>0 DEF Kinds
    <2>2. ~hole => record.snap = proven /\ (g = "armed" \/ force = proven \/ ~net) /\ ~unrecorded
      BY <1>1, <1>3 DEF GuardInv, Agree
    <2> QED BY <1>1, <1>3, <2>1, <2>2, BackStep
  <1> QED BY <1>2, <1>3 DEF Load

LEMMA DownStep == ASSUME GuardInv, Die \/ Reboot PROVE GuardInv'
  <1>0. Kinds /\ Flags /\ GuardOver /\ Dead
    BY TypeParts DEF GuardInv
  <1>1. /\ up' = FALSE /\ doing' = "none" /\ guard' = "steady" /\ snap' = Nothing /\ due' = FALSE
        /\ owed' = {} /\ retries' = 0 /\ wifiMoved' = FALSE /\ stale' = {}
        /\ calls' = {} /\ refused' = FALSE /\ unrecorded' = FALSE
        /\ UNCHANGED <<store, force, proven>>
    BY DEF Die, Reboot, Forget
  <1>2. GuardOver' /\ Dead'
    BY <1>1 DEF GuardOver, Dead
  <1>3. CASE Die
    <2>1. UNCHANGED <<record, marker, staleFile, net>> /\ up
      BY <1>3 DEF Die, files
    <2>2. hole' \in BOOLEAN /\ unlisted' \in BOOLEAN
          /\ (~hole' => /\ ~hole /\ \A k \in owed : force[k] = store[k]
                        /\ net /\ force # proven => ~unrecorded /\ marker # "none")
          /\ (~unlisted' => ~unlisted /\ stale \subseteq staleFile)
      BY <1>3, Zenon DEF Die
    <2>3. Kinds'
      BY <1>0, <1>1, <2>1, NothingSet, GuardAssumption DEF Kinds
    <2>4. Flags'
      BY <1>0, <1>1, <2>1, <2>2, Zenon DEF Flags
    <2>5. ASSUME ~hole' PROVE Agree' /\ Undoing' /\ Undoable'
      <3>1. /\ ~hole /\ \A k \in owed : force[k] = store[k]
            /\ net /\ force # proven => ~unrecorded /\ marker # "none"
        BY <2>2, <2>5, Zenon
      <3>2. Agree /\ Undoable
        BY <3>1 DEF GuardInv
      <3>3. Agree'
        BY <1>1, <2>1, <3>1, <3>2 DEF Agree
      <3>4. Undoing'
        BY <1>1 DEF Undoing
      <3>5. net => \A k \in Keys : force[k] # proven[k] => store[k] # proven[k]
        BY <3>1, <3>2 DEF Undoable
      <3>6. net /\ ~unlisted' => \A k \in Keys : store[k] # force[k] => k \in staleFile
        <4>1. ~unlisted' => ~unlisted /\ stale \subseteq staleFile
          BY <2>2, Zenon
        <4> QED BY <2>1, <3>1, <3>2, <4>1 DEF Undoable
      <3>7. Undoable'
        BY <1>1, <2>1, <3>1, <3>2, <3>5, <3>6 DEF Undoable
      <3> QED BY <3>3, <3>4, <3>7
    <2> QED BY <1>2, <2>3, <2>4, <2>5, TypeParts DEF GuardInv
  <1>4. CASE Reboot
    <2>1. /\ net' = FALSE /\ marker' = "none" /\ staleFile' = {}
          /\ record' \in {record, NoRecord} /\ UNCHANGED <<unlisted, hole>>
      BY <1>4 DEF Reboot
    <2>2. Kinds'
      BY <1>0, <1>1, <2>1, NothingSet, GuardAssumption DEF Kinds
    <2>3. Flags'
      BY <1>0, <1>1, <2>1, Zenon DEF Flags
    <2>4. ASSUME ~hole PROVE Agree' /\ Undoing' /\ Undoable'
      <3>1. Agree
        BY <2>4 DEF GuardInv
      <3>2. Agree'
        BY <1>1, <2>1, <3>1, NothingSet DEF Agree
      <3>3. Undoing' /\ Undoable'
        BY <1>1, <2>1 DEF Undoing, Undoable
      <3> QED BY <3>2, <3>3
    <2>5. hole' = hole
      BY <2>1
    <2> QED BY <1>2, <2>2, <2>3, <2>4, <2>5, TypeParts DEF GuardInv
  <1> QED BY <1>3, <1>4

LEMMA NetUpStep == ASSUME GuardInv, NetUp PROVE GuardInv'
  <1>0. Kinds /\ Flags /\ GuardOver /\ Dead
    BY TypeParts DEF GuardInv
  <1>1. /\ up /\ net' = TRUE /\ force' = store /\ unlisted' = FALSE
        /\ UNCHANGED <<up, doing, guard, snap, owed, retries, wifiMoved, stale, calls, refused,
                       record, marker, staleFile, due, store, proven, unrecorded>>
    BY DEF NetUp, memory, files
  <1>2. hole' \in BOOLEAN /\ (~hole' => ~hole /\ (store = proven \/ record.state = "armed"))
    BY Zenon DEF NetUp
  <1>3. Kinds'
    BY <1>0, <1>1 DEF Kinds
  <1>4. Flags'
    BY <1>0, <1>1, <1>2, Zenon DEF Flags
  <1>5. GuardOver' /\ Dead'
    <2>1. ~hole' => ~hole
      BY <1>2, Zenon
    <2> QED BY <1>0, <1>1, <2>1 DEF GuardOver, Dead
  <1>6. ASSUME ~hole' PROVE Agree' /\ Undoing' /\ Undoable'
    <2>1. ~hole /\ (store = proven \/ record.state = "armed")
      BY <1>2, <1>6, Zenon
    <2>2. Agree /\ Undoing /\ Undoable
      BY <2>1 DEF GuardInv
    <2>3. Agree'
      BY <1>1, <2>2 DEF Agree
    <2>4. Undoing'
      BY <1>1, <2>2 DEF Agree, Undoing
    <2>5. Undoable'
      BY <1>1, <2>1, <2>2 DEF Undoable
    <2> QED BY <2>3, <2>4, <2>5
  <1> QED BY <1>3, <1>4, <1>5, <1>6, TypeParts DEF GuardInv

LEMMA ClockStep == ASSUME GuardInv, ClockPasses \/ UNCHANGED vars PROVE GuardInv'
  <1>0. Kinds /\ Flags /\ GuardOver /\ Dead
    BY TypeParts DEF GuardInv
  <1>1. /\ UNCHANGED <<up, doing, guard, snap, owed, retries, wifiMoved, stale, calls, refused,
                       record, staleFile, store, force, net, proven, unrecorded, unlisted, hole>>
        /\ marker' \in {marker, "past"} /\ (marker = "none" => marker' = "none")
    BY DEF ClockPasses, vars, memory, files, ghosts
  <1>2. due' \in BOOLEAN
    <2>1. due' = due \/ due' = TRUE
      BY DEF ClockPasses, vars
    <2> QED BY <1>0, <2>1, Zenon DEF Flags
  <1>3. Kinds'
    BY <1>0, <1>1 DEF Kinds
  <1>4. Flags'
    BY <1>0, <1>1, <1>2, Zenon DEF Flags
  <1>5. GuardOver' /\ Dead'
    BY <1>0, <1>1 DEF GuardOver, Dead
  <1>6. ASSUME ~hole PROVE Agree' /\ Undoing' /\ Undoable'
    <2>1. Agree /\ Undoing /\ Undoable
      BY <1>6 DEF GuardInv
    <2>2. marker' = "none" => marker = "none"
      BY <1>0, <1>1 DEF Kinds
    <2>3. Agree' /\ Undoing'
      BY <1>1, <2>1, <2>2 DEF Agree, Undoing
    <2>4. Undoable'
      BY <1>1, <2>1 DEF Undoable
    <2> QED BY <2>3, <2>4
  <1>7. hole' = hole
    BY <1>1
  <1> QED BY <1>3, <1>4, <1>5, <1>6, <1>7, TypeParts DEF GuardInv

LEMMA GuardStep == GuardInv /\ [Next]_vars => GuardInv'
  <1> SUFFICES ASSUME GuardInv, [Next]_vars PROVE GuardInv'
    OBVIOUS
  <1> QED
    BY SetStep, ArmStep, EnactStep, ConfirmStep, CancelStep, UndoEnactStep, UndoEndStep, LoadStep,
       DownStep, NetUpStep, ClockStep
    DEF Next, TickConfirm

LEMMA GuardInvariant == Spec => []GuardInv
  BY GuardInit, GuardStep, PTL DEF Spec

(* rcd's memory and its files keep their types, and a guard that is over   *)
(* has no record.                                                          *)
THEOREM GuardTypeCorrect == Spec => []TypeOK
  BY GuardInvariant, PTL DEF GuardInv

(* Whatever is in force without having been confirmed can be undone from   *)
(* flash or, where record_write failed, by the rcd that runs - at every    *)
(* instant, those inside a revert included, however enact calls are        *)
(* shared and whichever stores, enacts and writes fail.                    *)
THEOREM UnconfirmedUndoable == Spec => []Guarded
  <1>1. GuardInv => Guarded
    BY DEF GuardInv, Agree, Undoable, Guarded
  <1> QED BY <1>1, GuardInvariant, PTL

(* What is stored and not in force is on the drift list, or is one a       *)
(* revert has put back and still owes its enact - unless the list was full *)
(* or rcd died before it was saved.                                        *)
THEOREM DriftListed == Spec => []DriftKnown
  <1>1. GuardInv => DriftKnown
    BY DEF GuardInv, Undoable, DriftKnown
  <1> QED BY <1>1, GuardInvariant, PTL

-----------------------------------------------------------------------------
(* rcd's apply: types. *)

DmnStates == {"down", "gone", "starting", "up", "leaving"}
ApPlaces == {"idle", "next", "quiesce", "restart", "down", "up", "resume", "finish"}
DmnTypes == dmn \in [Daemons -> DmnStates] /\ cur \in Daemons /\ apTodo \subseteq Daemons /\ apc \in ApPlaces
ConfTypes == fileVal \in [DKeys -> DVals] /\ runVal \in [DKeys -> DVals] /\ dirty \subseteq DKeys
ApFlagTypes == {forget, curOk, late, audioErr} \subseteq BOOLEAN
\* And rad's speaker is on, or is to be put on, only if it was.
RadTypes ==
    /\ q \in [ai : BOOLEAN, ao : BOOLEAN] /\ rad \in [up : BOOLEAN, ai : BOOLEAN, ao : BOOLEAN]
    /\ (q.ao => speaker) /\ (rad.ao => speaker)

LEMMA OwnerTyped == ASSUME NEW k \in DKeys PROVE Owner[k] \in Daemons
BY Zenon DEF Daemons

LEMMA ApTypesStart == ApInit => DmnTypes /\ ConfTypes /\ ApFlagTypes /\ RadTypes
<1> SUFFICES ASSUME ApInit PROVE DmnTypes /\ ConfTypes /\ ApFlagTypes /\ RadTypes OBVIOUS
<1>1. "rvd" \in Daemons /\ "unset" \in DVals BY RcdApplyConstants
<1>2. DmnTypes
  <2>1. [d \in Daemons |-> "up"] \in [Daemons -> DmnStates] BY DEF DmnStates
  <2>2. QED BY <1>1, <2>1, Zenon DEF ApInit, DmnTypes, ApPlaces
<1>3. ConfTypes
  <2>1. [k \in DKeys |-> "unset"] \in [DKeys -> DVals] BY <1>1
  <2>2. QED BY <2>1, Zenon DEF ApInit, ConfTypes
<1>4. ApFlagTypes BY Zenon DEF ApInit, ApFlagTypes
<1>5. RadTypes
  <2>1. q = [ai |-> FALSE, ao |-> FALSE] /\ rad = [up |-> FALSE, ai |-> FALSE, ao |-> FALSE]
    BY Zenon DEF ApInit, AudioQuiet, RadDown
  <2>2. q.ao = FALSE /\ rad.ao = FALSE BY <2>1, Zenon
  <2>3. QED BY <2>1, <2>2, Zenon DEF RadTypes
<1>6. QED BY <1>2, <1>3, <1>4, <1>5

\* A set touches neither the daemons' lives nor an apply; its batch, named.
LEMMA SetEditsKeeps == ASSUME SetEdits PROVE apc = "idle" /\ dmn' = dmn /\ UNCHANGED apply /\ UNCHANGED audio
<1>1. PICK ks \in SUBSET DKeys, stage \in BOOLEAN, wrote \in BOOLEAN :
         \E val \in [ks -> DVals], taken \in SUBSET (ks \cap LiveKeys) : SetBatch(ks, val, stage, taken, wrote)
  BY Zenon DEF SetEdits
<1>2. PICK val \in [ks -> DVals], taken \in SUBSET (ks \cap LiveKeys) : SetBatch(ks, val, stage, taken, wrote)
  BY <1>1
<1>3. QED BY <1>2, Zenon DEF SetBatch

LEMMA DmnTypesStep == DmnTypes /\ [ApNext]_apvars => DmnTypes'
<1> SUFFICES ASSUME DmnTypes, [ApNext]_apvars PROVE DmnTypes' OBVIOUS
<1>0. dmn \in [Daemons -> DmnStates] /\ cur \in Daemons /\ apTodo \subseteq Daemons /\ apc \in ApPlaces
  BY Zenon DEF DmnTypes
<1>1. ASSUME dmn' = dmn, cur' = cur, apTodo' = apTodo, apc' = apc PROVE DmnTypes'
  BY <1>0, <1>1, Zenon DEF DmnTypes
<1>2. ASSUME NEW d \in Daemons, NEW s \in DmnStates, dmn' = [dmn EXCEPT ![d] = s],
             cur' = cur, apTodo' = apTodo, apc' \in ApPlaces
      PROVE  DmnTypes'
  <2>1. dmn' \in [Daemons -> DmnStates] BY <1>0, <1>2
  <2>2. QED BY <1>0, <1>2, <2>1, Zenon DEF DmnTypes
<1>3. ASSUME dmn' = dmn, cur' \in Daemons, apTodo' \subseteq Daemons, apc' \in ApPlaces PROVE DmnTypes'
  BY <1>0, <1>3, Zenon DEF DmnTypes
<1>4. CASE SetEdits
  <2>1. dmn' = dmn /\ cur' = cur /\ apTodo' = apTodo /\ apc' = apc
    BY <1>4, SetEditsKeeps, Zenon DEF apply
  <2>2. QED BY <1>1, <2>1
<1>5. CASE StateQuery \/ ApTick \/ RcdRestart \/ RadCrash
  <2>1. dmn' = dmn /\ cur' = cur /\ apTodo' = apTodo /\ apc' = apc
    BY <1>5, Zenon DEF StateQuery, ApTick, RcdRestart, RadCrash, apply
  <2>2. QED BY <1>1, <2>1
<1>6. CASE ApplyStart
  <2>1. dmn' = dmn /\ cur' = cur /\ apTodo' \subseteq Daemons /\ apc' = "next"
    BY <1>6, Zenon DEF ApplyStart
  <2>2. QED BY <1>0, <1>3, <2>1, Zenon DEF ApPlaces
<1>7. CASE NextDaemon
  <2>1. PICK d \in apTodo : /\ cur' = d /\ apTodo' = apTodo \ {d}
                            /\ apc' \in {"quiesce", "restart", "next"}
    BY <1>7, Zenon DEF NextDaemon
  <2>2. dmn' = dmn BY <1>7, Zenon DEF NextDaemon
  <2>3. QED BY <1>0, <1>3, <2>1, <2>2, Zenon DEF ApPlaces
<1>8. CASE Quiesce \/ WaitDown \/ WaitUp \/ ApResume \/ ApplyDone
  <2>1. dmn' = dmn /\ cur' = cur /\ apTodo' = apTodo
    BY <1>8, Zenon DEF Quiesce, WaitDown, WaitUp, ApResume, ApplyDone
  <2>2. apc' \in ApPlaces
    BY <1>8, Zenon DEF Quiesce, WaitDown, WaitUp, ApResume, ApplyDone, After, ApPlaces
  <2>3. QED BY <1>0, <1>3, <2>1, <2>2
<1>9. CASE AskRestart
  <2>1. cur' = cur /\ apTodo' = apTodo BY <1>9, Zenon DEF AskRestart
  <2>2. apc' \in ApPlaces BY <1>9, Zenon DEF AskRestart, After, ApPlaces
  <2>3. dmn' = dmn \/ dmn' = [dmn EXCEPT ![cur] = "leaving"] BY <1>9, Zenon DEF AskRestart
  <2>4. "leaving" \in DmnStates BY DEF DmnStates
  <2>5. QED BY <1>0, <1>2, <1>3, <2>1, <2>2, <2>3, <2>4
<1>10. CASE Finish
  <2>1. dmn' = dmn /\ cur' = "rvd" /\ apTodo' = apTodo /\ apc' = "next" BY <1>10, Zenon DEF Finish, FreshLocals
  <2>2. QED BY <1>0, <1>3, <2>1, RcdApplyConstants, Zenon DEF ApPlaces
<1>11. ASSUME NEW d \in Daemons, ApLeave(d) \/ ApBoot(d) \/ ApReady(d) \/ Crash(d) PROVE DmnTypes'
  <2>1. cur' = cur /\ apTodo' = apTodo /\ apc' = apc
    BY <1>11, Zenon DEF ApLeave, ApBoot, ApReady, Crash, apply
  <2>2. \E s \in DmnStates : dmn' = [dmn EXCEPT ![d] = s]
    BY <1>11, Zenon DEF ApLeave, ApBoot, ApReady, Crash, Move, DmnStates
  <2>3. QED BY <1>0, <1>2, <2>1, <2>2
<1>12. CASE UNCHANGED apvars
  <2>1. dmn' = dmn /\ cur' = cur /\ apTodo' = apTodo /\ apc' = apc BY <1>12, Zenon DEF apvars, apply
  <2>2. QED BY <1>1, <2>1
<1>13. QED BY <1>4, <1>5, <1>6, <1>7, <1>8, <1>9, <1>10, <1>11, <1>12, Zenon DEF ApNext, ApplyStep, Environment

LEMMA FlushTyped == ASSUME ConfTypes, SaveFlush, runVal' = runVal PROVE ConfTypes'
<1> DEFINE saved == {k \in dirty : Owner[k] \in saveOwed /\ Answers(Owner[k])}
<1>1. fileVal' = [k \in DKeys |-> IF k \in saved THEN runVal[k] ELSE fileVal[k]] /\ dirty' = dirty \ saved
  BY Zenon DEF SaveFlush
<1> HIDE DEF saved
<1>2. fileVal' \in [DKeys -> DVals] BY <1>1 DEF ConfTypes
<1>3. QED BY <1>1, <1>2, Zenon DEF ConfTypes

LEMMA ConfTypesStep == ConfTypes /\ [ApNext]_apvars => ConfTypes'
<1> SUFFICES ASSUME ConfTypes, [ApNext]_apvars PROVE ConfTypes' OBVIOUS
<1>1. ASSUME UNCHANGED conf PROVE ConfTypes'
  <2>1. fileVal' = fileVal /\ runVal' = runVal /\ dirty' = dirty BY <1>1, Zenon DEF conf
  <2>2. QED BY <2>1, Zenon DEF ConfTypes
<1>2. CASE SetEdits
  <2>1. PICK ks \in SUBSET DKeys, stage \in BOOLEAN, wrote \in BOOLEAN :
           \E val \in [ks -> DVals], taken \in SUBSET (ks \cap LiveKeys) : SetBatch(ks, val, stage, taken, wrote)
    BY <1>2, Zenon DEF SetEdits
  <2>2. PICK val \in [ks -> DVals], taken \in SUBSET (ks \cap LiveKeys) : SetBatch(ks, val, stage, taken, wrote)
    BY <2>1
  <2> DEFINE live == {k \in taken : val[k] # "unset"}
             restored == taken \ live
             filed == ks \ live
  <2>3. /\ runVal' = [k \in DKeys |-> IF k \in taken THEN val[k] ELSE runVal[k]]
        /\ dirty' = (dirty \cup live) \ restored
        /\ \/ fileVal' = [k \in DKeys |-> IF k \in filed THEN val[k] ELSE fileVal[k]]
           \/ fileVal' = fileVal
    BY <2>2, Zenon DEF SetBatch
  <2>4. live \subseteq ks /\ filed \subseteq ks OBVIOUS
  <2> HIDE DEF live, restored, filed
  <2>5. runVal' \in [DKeys -> DVals] BY <2>3 DEF ConfTypes
  <2>6. fileVal' \in [DKeys -> DVals] BY <2>3, <2>4 DEF ConfTypes
  <2>7. dirty' \subseteq DKeys BY <2>3, <2>4 DEF ConfTypes
  <2>8. QED BY <2>5, <2>6, <2>7 DEF ConfTypes
<1>3. CASE ApTick \/ RcdRestart \/ ApplyStart
  <2>1. (SaveFlush /\ runVal' = runVal) \/ UNCHANGED conf
    BY <1>3, Zenon DEF ApTick, RcdRestart, ApplyStart, conf
  <2>2. QED BY <1>1, <2>1, FlushTyped
<1>4. CASE StateQuery \/ ApplyStep \/ RadCrash
  BY <1>1, <1>4, Zenon DEF StateQuery, ApplyStep, RadCrash, NextDaemon, Quiesce, AskRestart, WaitDown, WaitUp,
        ApResume, Finish, ApplyDone
<1>5. ASSUME NEW d \in Daemons, ApBoot(d) PROVE ConfTypes'
  <2>1. /\ runVal' = [k \in DKeys |-> IF Owner[k] = d THEN fileVal[k] ELSE runVal[k]]
        /\ dirty' = dirty \ KeysOf(d) /\ fileVal' = fileVal
    BY <1>5, Zenon DEF ApBoot
  <2>2. QED BY <2>1 DEF ConfTypes
<1>6. ASSUME NEW d \in Daemons, ApLeave(d) \/ ApReady(d) \/ Crash(d) PROVE ConfTypes'
  BY <1>1, <1>6, Zenon DEF ApLeave, ApReady, Crash
<1>7. CASE UNCHANGED apvars BY <1>1, <1>7, Zenon DEF apvars
<1>8. QED BY <1>2, <1>3, <1>4, <1>5, <1>6, <1>7, Zenon DEF ApNext, Environment

LEMMA ApFlagTypesStep == ApFlagTypes /\ [ApNext]_apvars => ApFlagTypes'
<1> SUFFICES ASSUME ApFlagTypes, [ApNext]_apvars PROVE ApFlagTypes' OBVIOUS
<1> USE DEF ApFlagTypes, apply, audio
<1>1. CASE SetEdits BY <1>1, SetEditsKeeps, Zenon
<1>2. CASE StateQuery \/ ApTick \/ RcdRestart \/ RadCrash
  BY <1>2, Zenon DEF StateQuery, ApTick, RcdRestart, RadCrash
<1>3. CASE ApplyStart BY <1>3, Zenon DEF ApplyStart
<1>4. CASE NextDaemon \/ Quiesce \/ AskRestart \/ WaitDown \/ WaitUp
  BY <1>4, Zenon DEF NextDaemon, Quiesce, AskRestart, WaitDown, WaitUp
<1>5. CASE ApResume BY <1>5, Zenon DEF ApResume
<1>6. CASE Finish \/ ApplyDone BY <1>6, Zenon DEF Finish, ApplyDone, FreshLocals
<1>7. ASSUME NEW d \in Daemons, ApLeave(d) \/ ApBoot(d) \/ ApReady(d) \/ Crash(d) PROVE ApFlagTypes'
  BY <1>7, Zenon DEF ApLeave, ApBoot, ApReady, Crash
<1>8. CASE UNCHANGED apvars BY <1>8, Zenon DEF apvars
<1>9. QED BY <1>1, <1>2, <1>3, <1>4, <1>5, <1>6, <1>7, <1>8, Zenon DEF ApNext, ApplyStep, Environment

\* A quiesce takes rad as it finds it, and gives it no more back than it had.
LEMMA QuiesceGives ==
    ASSUME Quiesce
    PROVE  \E up1, ai1, ao1, in1, out1 \in BOOLEAN :
              /\ q' = [ai |-> up1 /\ in1, ao |-> ao1 /\ out1] /\ speaker' = ao1
              /\ \E ai2, ao2 \in BOOLEAN : rad' = [up |-> up1, ai |-> ai2, ao |-> ao2] /\ (ao2 => ao1)
<1>1. PICK r \in RadStates, in \in Obeyed, out \in Obeyed :
        /\ q' = [ai |-> r.up /\ in = "yes", ao |-> r.ao /\ out = "yes"]
        /\ rad' = [r EXCEPT !.ai = @ /\ in = "no", !.ao = @ /\ out = "no"]
        /\ speaker' = r.ao
  BY Zenon DEF Quiesce
<1>2. r \in [up : BOOLEAN, ai : BOOLEAN, ao : BOOLEAN]
  <2>1. CASE r \in [up : {TRUE}, ai : BOOLEAN, ao : BOOLEAN] BY <2>1, Zenon
  <2>2. CASE r = [up |-> FALSE, ai |-> FALSE, ao |-> FALSE] BY <2>2, Zenon
  <2>3. QED BY <2>1, <2>2, Zenon DEF RadStates
<1>3. PICK up1 \in BOOLEAN, ai1 \in BOOLEAN, ao1 \in BOOLEAN : r = [up |-> up1, ai |-> ai1, ao |-> ao1]
  BY <1>2, Zenon
<1> DEFINE in1 == (in = "yes")
           out1 == (out = "yes")
           ai2 == (ai1 /\ in = "no")
           ao2 == (ao1 /\ out = "no")
<1>4. in1 \in BOOLEAN /\ out1 \in BOOLEAN /\ ai2 \in BOOLEAN /\ ao2 \in BOOLEAN BY Zenon
<1>5. r.up = up1 /\ r.ai = ai1 /\ r.ao = ao1 BY <1>3, Zenon
<1>6. rad' = [up |-> up1, ai |-> ai2, ao |-> ao2] BY <1>1, <1>3, <1>5, Zenon
<1>7. q' = [ai |-> up1 /\ in1, ao |-> ao1 /\ out1] /\ speaker' = ao1 BY <1>1, <1>5, Zenon
<1>8. ao2 => ao1 BY Zenon
<1> HIDE DEF in1, out1, ai2, ao2
<1>9. QED BY <1>4, <1>6, <1>7, <1>8, Zenon

LEMMA QuiesceTyped == ASSUME Quiesce PROVE RadTypes'
<1>1. PICK up1 \in BOOLEAN, ai1 \in BOOLEAN, ao1 \in BOOLEAN, in1 \in BOOLEAN, out1 \in BOOLEAN :
        /\ q' = [ai |-> up1 /\ in1, ao |-> ao1 /\ out1] /\ speaker' = ao1
        /\ \E ai2, ao2 \in BOOLEAN : rad' = [up |-> up1, ai |-> ai2, ao |-> ao2] /\ (ao2 => ao1)
  BY QuiesceGives, Zenon
<1>2. PICK ai2 \in BOOLEAN, ao2 \in BOOLEAN : rad' = [up |-> up1, ai |-> ai2, ao |-> ao2] /\ (ao2 => ao1) BY <1>1, Zenon
<1>3. q' \in [ai : BOOLEAN, ao : BOOLEAN] BY <1>1, Zenon
<1>4. rad' \in [up : BOOLEAN, ai : BOOLEAN, ao : BOOLEAN] BY <1>2, Zenon
<1>5. q.ao' = (ao1 /\ out1) /\ rad.ao' = ao2 BY <1>1, <1>2, Zenon
<1>6. QED BY <1>1, <1>2, <1>3, <1>4, <1>5, Zenon DEF RadTypes

LEMMA RadTypesStep == RadTypes /\ [ApNext]_apvars => RadTypes'
<1> SUFFICES ASSUME RadTypes, [ApNext]_apvars PROVE RadTypes' OBVIOUS
<1>0. /\ q \in [ai : BOOLEAN, ao : BOOLEAN] /\ rad \in [up : BOOLEAN, ai : BOOLEAN, ao : BOOLEAN]
      /\ (q.ao => speaker) /\ (rad.ao => speaker)
  BY Zenon DEF RadTypes
<1>1. ASSUME q' = q, rad' = rad, speaker' = speaker PROVE RadTypes' BY <1>0, <1>1, Zenon DEF RadTypes
<1>2. AudioQuiet \in [ai : BOOLEAN, ao : BOOLEAN] /\ ~AudioQuiet.ao BY Zenon DEF AudioQuiet
<1>3. RadDown \in [up : BOOLEAN, ai : BOOLEAN, ao : BOOLEAN] /\ ~RadDown.ao BY Zenon DEF RadDown
<1>4. CASE SetEdits
  <2>1. q' = q /\ rad' = rad /\ speaker' = speaker BY <1>4, SetEditsKeeps, Zenon DEF audio
  <2>2. QED BY <1>1, <2>1
<1>5. CASE StateQuery \/ ApTick \/ RcdRestart \/ ApplyStart
  <2>1. q' = q /\ rad' = rad /\ speaker' = speaker BY <1>5, Zenon DEF StateQuery, ApTick, RcdRestart, ApplyStart, audio
  <2>2. QED BY <1>1, <2>1
<1>6. CASE NextDaemon \/ AskRestart \/ WaitDown \/ WaitUp \/ ApplyDone
  <2>1. q' = q /\ rad' = rad /\ speaker' = speaker BY <1>6, Zenon DEF NextDaemon, AskRestart, WaitDown, WaitUp, ApplyDone, audio
  <2>2. QED BY <1>1, <2>1
<1>7. CASE Quiesce BY <1>7, QuiesceTyped
<1>8. CASE ApResume
  <2>1. PICK aiOk \in BOOLEAN, aoOk \in BOOLEAN :
           rad' = [rad EXCEPT !.ai = @ \/ (q.ai /\ aiOk), !.ao = @ \/ (q.ao /\ aoOk /\ (q.ai => aiOk))]
    BY <1>8, Zenon DEF ApResume
  <2> DEFINE x == rad.ai \/ (q.ai /\ aiOk)
             y == rad.ao \/ (q.ao /\ aoOk /\ (q.ai => aiOk))
  <2>2. x \in BOOLEAN /\ y \in BOOLEAN BY <1>0, Zenon
  <2>3. rad' = [rad EXCEPT !.ai = x, !.ao = y] BY <1>0, <2>1, Zenon
  <2>7. y => speaker BY <1>0, Zenon
  <2> HIDE DEF x, y
  <2>8. rad'.ao = y BY <1>0, <2>3, Zenon
  <2>4. rad' \in [up : BOOLEAN, ai : BOOLEAN, ao : BOOLEAN] BY <1>0, <2>2, <2>3, Zenon
  <2>5. q' = q /\ speaker' = speaker BY <1>8, Zenon DEF ApResume
  <2>6. QED BY <1>0, <2>4, <2>5, <2>7, <2>8, Zenon DEF RadTypes
<1>9. CASE Finish BY <1>2, <1>3, <1>9, Zenon DEF Finish, FreshLocals, RadTypes
<1>10. CASE RadCrash BY <1>0, <1>3, <1>10, Zenon DEF RadCrash, RadTypes
<1>11. ASSUME NEW d \in Daemons, ApLeave(d) \/ ApBoot(d) \/ ApReady(d) \/ Crash(d) PROVE RadTypes'
  <2>1. q' = q /\ rad' = rad /\ speaker' = speaker BY <1>11, Zenon DEF ApLeave, ApBoot, ApReady, Crash, audio
  <2>2. QED BY <1>1, <2>1
<1>12. CASE UNCHANGED apvars
  <2>1. q' = q /\ rad' = rad /\ speaker' = speaker BY <1>12, Zenon DEF apvars, audio
  <2>2. QED BY <1>1, <2>1
<1>13. QED BY <1>4, <1>5, <1>6, <1>7, <1>8, <1>9, <1>10, <1>11, <1>12, Zenon DEF ApNext, ApplyStep, Environment

-----------------------------------------------------------------------------
(* The drift record. *)

\* The list and its file hold no more keys than there is room for, and the
\* daemons of the keys that are on it are on record.
DriftInv ==
    /\ driftKeys \subseteq DKeys /\ driftFile \subseteq DKeys /\ unseen \subseteq DKeys
    /\ Cardinality(driftKeys) <= DriftMax /\ Cardinality(driftFile) <= DriftMax
    /\ driftDmn \subseteq Daemons /\ \A k \in driftKeys : Owner[k] \in driftDmn

\* A full list loses the key and keeps the daemon.
LEMMA StaleAddFits ==
    ASSUME DriftInv, NEW ks \in SUBSET DKeys, ApStaleAdd(ks)
    PROVE  /\ driftKeys' \subseteq DKeys /\ Cardinality(driftKeys') <= DriftMax
           /\ driftDmn' \subseteq Daemons /\ \A k \in driftKeys' : Owner[k] \in driftDmn'
<1>1. /\ driftDmn' = driftDmn \cup {Owner[k] : k \in ks} /\ driftKeys' \subseteq driftKeys \cup ks
      /\ Cardinality(driftKeys') <= DriftMax
  BY Zenon DEF ApStaleAdd
<1>2. {Owner[k] : k \in ks} \subseteq Daemons BY OwnerTyped, Zenon
<1>3. QED BY <1>1, <1>2, Zenon DEF DriftInv

LEMMA StaleClearFits ==
    ASSUME DriftInv, NEW ds, StaleClear(ds)
    PROVE  /\ driftKeys' \subseteq DKeys /\ Cardinality(driftKeys') <= DriftMax
           /\ driftDmn' \subseteq Daemons /\ \A k \in driftKeys' : Owner[k] \in driftDmn'
<1>1. driftDmn' = driftDmn \ ds /\ driftKeys' = {k \in driftKeys : Owner[k] \notin ds} BY Zenon DEF StaleClear
<1>2. /\ driftKeys' \subseteq DKeys /\ driftDmn' \subseteq Daemons
      /\ \A k \in driftKeys' : Owner[k] \in driftDmn'
  BY <1>1, Zenon DEF DriftInv
<1>3. driftKeys \in SUBSET DKeys /\ driftKeys' \in SUBSET driftKeys BY <1>1 DEF DriftInv
<1>4. IsFiniteSet(DKeys) BY RcdApplyConstants
<1>5. IsFiniteSet(driftKeys) BY <1>3, <1>4, FS_Subset
<1>6. IsFiniteSet(driftKeys') /\ Cardinality(driftKeys') <= Cardinality(driftKeys) BY <1>3, <1>5, FS_Subset
<1>7. Cardinality(driftKeys) \in Nat /\ Cardinality(driftKeys') \in Nat BY <1>5, <1>6, FS_CardinalityType
<1>8. Cardinality(driftKeys) <= DriftMax /\ DriftMax \in Nat BY RcdApplyConstants DEF DriftInv
<1>9. QED BY <1>2, <1>6, <1>7, <1>8

LEMMA NoKeysFit == Cardinality({}) <= DriftMax
BY FS_EmptySet, RcdApplyConstants

\* What the file holds after a save, one that failed included.
LEMMA StaleSaveFits ==
    ASSUME DriftInv, driftKeys' \subseteq DKeys, Cardinality(driftKeys') <= DriftMax, StaleSave
    PROVE  driftFile' \subseteq DKeys /\ Cardinality(driftFile') <= DriftMax
<1>1. driftFile' = driftKeys' \/ driftFile' = driftFile \/ driftFile' = {} BY Zenon DEF StaleSave
<1>2. QED BY <1>1, NoKeysFit, Zenon DEF DriftInv

LEMMA DriftStart == ApInit => DriftInv
<1> SUFFICES ASSUME ApInit PROVE DriftInv OBVIOUS
<1>1. driftKeys = {} /\ driftDmn = {} /\ driftFile = {} /\ unseen = {} BY Zenon DEF ApInit
<1>2. QED BY <1>1, NoKeysFit, Zenon DEF DriftInv

LEMMA DriftStep == ASSUME ConfTypes, DriftInv, [ApNext]_apvars PROVE DriftInv'
<1>0. /\ driftKeys \subseteq DKeys /\ driftFile \subseteq DKeys /\ unseen \subseteq DKeys
      /\ Cardinality(driftKeys) <= DriftMax /\ Cardinality(driftFile) <= DriftMax
      /\ driftDmn \subseteq Daemons /\ \A k \in driftKeys : Owner[k] \in driftDmn
  BY Zenon DEF DriftInv
<1>1. ASSUME driftKeys' = driftKeys, driftDmn' = driftDmn, driftFile' = driftFile, unseen' \subseteq unseen
      PROVE  DriftInv'
  BY <1>0, <1>1, Zenon DEF DriftInv
<1>2. ASSUME NEW ds, StaleClear(ds), driftFile' = driftFile \/ StaleSave, unseen' = unseen
      PROVE  DriftInv'
  <2>1. /\ driftKeys' \subseteq DKeys /\ Cardinality(driftKeys') <= DriftMax
        /\ driftDmn' \subseteq Daemons /\ \A k \in driftKeys' : Owner[k] \in driftDmn'
    BY <1>2, StaleClearFits
  <2>2. driftFile' \subseteq DKeys /\ Cardinality(driftFile') <= DriftMax
    BY <1>0, <1>2, <2>1, StaleSaveFits, Zenon
  <2>3. QED BY <1>0, <1>2, <2>1, <2>2, Zenon DEF DriftInv
<1>3. CASE SetEdits
  <2>1. PICK ks \in SUBSET DKeys, stage \in BOOLEAN, wrote \in BOOLEAN :
           \E val \in [ks -> DVals], taken \in SUBSET (ks \cap LiveKeys) : SetBatch(ks, val, stage, taken, wrote)
    BY <1>3, Zenon DEF SetEdits
  <2>2. PICK val \in [ks -> DVals], taken \in SUBSET (ks \cap LiveKeys) : SetBatch(ks, val, stage, taken, wrote)
    BY <2>1
  <2> DEFINE live == {k \in taken : val[k] # "unset"}
             restored == taken \ live
             filed == ks \ live
             changed == {k \in filed \ restored : ~(val[k] = "unset" /\ fileVal[k] = "unset")}
  <2>3. live \subseteq DKeys /\ restored \subseteq DKeys /\ changed \in SUBSET DKeys OBVIOUS
  <2>4. \/ /\ driftKeys' = driftKeys /\ driftDmn' = driftDmn /\ driftFile' = driftFile
           /\ unseen' = (unseen \ live) \cup restored
        \/ /\ ApStaleAdd(changed) /\ (driftFile' = driftFile \/ StaleSave)
           /\ unseen' = unseen \ (taken \cup changed)
    BY <2>2, Zenon DEF SetBatch
  <2> HIDE DEF live, restored, filed, changed
  <2>5. unseen' \subseteq DKeys BY <1>0, <2>3, <2>4
  <2>6. CASE driftKeys' = driftKeys /\ driftDmn' = driftDmn /\ driftFile' = driftFile
    BY <1>0, <2>5, <2>6, Zenon DEF DriftInv
  <2>7. CASE ApStaleAdd(changed) /\ (driftFile' = driftFile \/ StaleSave)
    <3>1. /\ driftKeys' \subseteq DKeys /\ Cardinality(driftKeys') <= DriftMax
          /\ driftDmn' \subseteq Daemons /\ \A k \in driftKeys' : Owner[k] \in driftDmn'
      BY <2>3, <2>7, StaleAddFits
    <3>2. driftFile' \subseteq DKeys /\ Cardinality(driftFile') <= DriftMax
      BY <1>0, <2>7, <3>1, StaleSaveFits, Zenon
    <3>3. QED BY <2>5, <3>1, <3>2, Zenon DEF DriftInv
  <2>8. QED BY <2>4, <2>6, <2>7
<1>4. CASE StateQuery
  <2>1. StaleSave /\ unseen' = unseen BY <1>4, Zenon DEF StateQuery
  <2>2. PICK ds : StaleClear(ds) BY <1>4, Zenon DEF StateQuery
  <2>3. QED BY <1>2, <2>1, <2>2
<1>5. CASE ApTick \/ ApplyStart \/ Quiesce \/ AskRestart \/ WaitDown \/ WaitUp \/ ApResume \/ RadCrash \/ UNCHANGED apvars
  <2>1. UNCHANGED drift
    BY <1>5, Zenon DEF ApTick, ApplyStart, Quiesce, AskRestart, WaitDown, WaitUp, ApResume, RadCrash, apvars
  <2>2. QED BY <1>1, <2>1, Zenon DEF drift
<1>6. CASE RcdRestart
  <2>1. /\ driftFile' = driftFile /\ driftKeys' = driftFile /\ driftDmn' = {Owner[k] : k \in driftFile}
        /\ unseen' = unseen \cup {k \in DKeys : Owner[k] \in driftDmn \ driftDmn'}
    BY <1>6, Zenon DEF RcdRestart, StaleLoad
  <2>2. driftDmn' \subseteq Daemons BY <1>0, <2>1, OwnerTyped, Zenon
  <2>3. unseen' \subseteq DKeys BY <1>0, <2>1, Zenon
  <2>4. \A k \in driftKeys' : Owner[k] \in driftDmn' BY <2>1, Zenon
  <2>5. QED BY <1>0, <2>1, <2>2, <2>3, <2>4, Zenon DEF DriftInv
<1>7. CASE NextDaemon
  <2>1. PICK d \in apTodo : UNCHANGED drift \/ (UNCHANGED <<driftFile, unseen>> /\ StaleClear({d}))
    BY <1>7, Zenon DEF NextDaemon, drift
  <2>2. QED BY <1>1, <1>2, <2>1, Zenon DEF drift
<1>8. CASE Finish
  <2>1. driftFile' = driftFile /\ unseen' = unseen BY <1>8, Zenon DEF Finish
  <2>2. StaleClear({cur}) \/ (driftKeys' = driftKeys /\ driftDmn' = driftDmn) BY <1>8, Zenon DEF Finish
  <2>3. QED BY <1>1, <1>2, <2>1, <2>2, Zenon
<1>9. CASE ApplyDone
  <2>1. StaleSave /\ driftKeys' = driftKeys /\ driftDmn' = driftDmn /\ unseen' = unseen BY <1>9, Zenon DEF ApplyDone
  <2>2. driftKeys' \subseteq DKeys /\ Cardinality(driftKeys') <= DriftMax BY <1>0, <2>1, Zenon
  <2>3. driftFile' \subseteq DKeys /\ Cardinality(driftFile') <= DriftMax BY <2>1, <2>2, StaleSaveFits
  <2>4. QED BY <1>0, <2>1, <2>3, Zenon DEF DriftInv
<1>10. ASSUME NEW d \in Daemons, ApLeave(d) \/ ApBoot(d) \/ ApReady(d) \/ Crash(d) PROVE DriftInv'
  <2>1. driftKeys' = driftKeys /\ driftDmn' = driftDmn /\ driftFile' = driftFile /\ unseen' \subseteq unseen
    BY <1>10, Zenon DEF ApLeave, ApBoot, ApReady, Crash, drift
  <2>2. QED BY <1>1, <2>1
<1>11. QED BY <1>3, <1>4, <1>5, <1>6, <1>7, <1>8, <1>9, <1>10, Zenon DEF ApNext, ApplyStep, Environment

-----------------------------------------------------------------------------
(* An apply and the daemon it restarts. *)

InStep(d) == \A k \in DKeys : Owner[k] = d => runVal[k] = fileVal[k]
UpAgain(d) == dmn[d] \in {"starting", "up"}

\* From the accepted restart until the record is cleared, the daemon can only
\* be there again after it has read the file anew.
Restarting == apc \in {"down", "up"} \/ (apc \in {"resume", "finish"} /\ curOk)
CurInStep == Restarting /\ UpAgain(cur) => InStep(cur)

LEMMA CurStart == ApInit => CurInStep
<1> SUFFICES ASSUME ApInit PROVE CurInStep OBVIOUS
<1>1. apc = "idle" BY Zenon DEF ApInit
<1>2. ~Restarting BY <1>1 DEF Restarting
<1>3. QED BY <1>2, Zenon DEF CurInStep

LEMMA CurStep ==
    ASSUME DmnTypes, CurInStep, [ApNext]_apvars
    PROVE  CurInStep'
<1>0. dmn \in [Daemons -> DmnStates] /\ cur \in Daemons BY Zenon DEF DmnTypes
<1>1. ASSUME apc' \notin {"down", "up", "resume", "finish"} PROVE CurInStep'
  BY <1>1, Zenon DEF CurInStep, Restarting
<1>2. ASSUME runVal' = runVal, fileVal' = fileVal, dmn' = dmn, cur' = cur, Restarting' => Restarting
      PROVE  CurInStep'
  <2>1. UpAgain(cur)' => UpAgain(cur) BY <1>2, Zenon DEF UpAgain
  <2>2. InStep(cur) => InStep(cur)' BY <1>2, Zenon DEF InStep
  <2>3. QED BY <1>2, <2>1, <2>2, Zenon DEF CurInStep
<1>3. CASE SetEdits \/ StateQuery \/ ApTick \/ RcdRestart
  <2>1. apc' = "idle"
    <3>1. CASE SetEdits BY <3>1, SetEditsKeeps, Zenon DEF apply
    <3>2. CASE StateQuery \/ ApTick \/ RcdRestart BY <3>2, Zenon DEF StateQuery, ApTick, RcdRestart, apply
    <3>3. QED BY <1>3, <3>1, <3>2
  <2>2. QED BY <1>1, <2>1
<1>4. CASE ApplyStart \/ Finish \/ ApplyDone
  <2>1. apc' = "next" \/ apc' = "idle" BY <1>4, Zenon DEF ApplyStart, Finish, ApplyDone
  <2>2. QED BY <1>1, <2>1
<1>5. CASE NextDaemon \/ Quiesce
  <2>1. apc' = "quiesce" \/ apc' = "restart" \/ apc' = "next" BY <1>5, Zenon DEF NextDaemon, Quiesce
  <2>2. QED BY <1>1, <2>1
<1>6. CASE AskRestart
  <2>1. cur' = cur BY <1>6, Zenon DEF AskRestart
  <2>2. CASE dmn' = [dmn EXCEPT ![cur] = "leaving"]
    <3>1. dmn'[cur'] = "leaving" BY <1>0, <2>1, <2>2
    <3>2. ~(dmn'[cur'] \in {"starting", "up"}) BY <3>1
    <3>3. QED BY <3>2, Zenon DEF CurInStep, UpAgain
  <2>3. CASE apc' = After /\ curOk' = FALSE
    <3>1. apc' = "resume" \/ apc' = "finish" BY <2>3, Zenon DEF After
    <3>2. ~(apc' \in {"down", "up"}) BY <3>1
    <3>3. QED BY <2>3, <3>2, Zenon DEF CurInStep, Restarting
  <2>4. QED BY <1>6, <2>2, <2>3, Zenon DEF AskRestart
<1>7. CASE WaitDown
  <2>1. apc = "down" /\ dmn' = dmn /\ cur' = cur /\ UNCHANGED conf BY <1>7, Zenon DEF WaitDown
  <2>2. Restarting BY <2>1, Zenon DEF Restarting
  <2>3. QED BY <1>2, <2>1, <2>2, Zenon DEF conf
<1>8. CASE WaitUp
  <2>1. apc = "up" /\ dmn' = dmn /\ cur' = cur /\ UNCHANGED conf BY <1>8, Zenon DEF WaitUp
  <2>2. Restarting BY <2>1, Zenon DEF Restarting
  <2>3. QED BY <1>2, <2>1, <2>2, Zenon DEF conf
<1>9. CASE ApResume
  <2>1. apc = "resume" /\ apc' = "finish" /\ curOk' = curOk /\ dmn' = dmn /\ cur' = cur /\ UNCHANGED conf
    BY <1>9, Zenon DEF ApResume
  <2>2. apc' \notin {"down", "up"} /\ apc \in {"resume", "finish"} BY <2>1
  <2>3. Restarting' => Restarting BY <2>1, <2>2, Zenon DEF Restarting
  <2>4. QED BY <1>2, <2>1, <2>3, Zenon DEF conf
<1>10. CASE RadCrash \/ UNCHANGED apvars
  <2>1. dmn' = dmn /\ UNCHANGED apply /\ UNCHANGED conf BY <1>10, Zenon DEF RadCrash, apvars
  <2>2. Restarting' => Restarting BY <2>1, Zenon DEF Restarting, apply
  <2>3. QED BY <1>2, <2>1, <2>2, Zenon DEF conf, apply
<1>11. ASSUME NEW d \in Daemons, ApLeave(d) \/ ApBoot(d) \/ ApReady(d) \/ Crash(d) PROVE CurInStep'
  <2>1. apc' = apc /\ cur' = cur /\ curOk' = curOk BY <1>11, Zenon DEF ApLeave, ApBoot, ApReady, Crash, apply
  <2>2. Restarting' => Restarting BY <2>1, Zenon DEF Restarting
  <2>3. SUFFICES ASSUME Restarting, UpAgain(cur)' PROVE InStep(cur)' BY <2>2, Zenon DEF CurInStep
  <2>4. PICK s \in DmnStates : dmn' = [dmn EXCEPT ![d] = s]
    BY <1>11, Zenon DEF ApLeave, ApBoot, ApReady, Crash, Move, DmnStates
  <2>5. CASE ApBoot(d)
    <3>1. runVal' = [k \in DKeys |-> IF Owner[k] = d THEN fileVal[k] ELSE runVal[k]] /\ fileVal' = fileVal
      BY <2>5, Zenon DEF ApBoot
    <3>2. CASE d = cur BY <2>1, <3>1, <3>2, Zenon DEF InStep
    <3>3. CASE d # cur
      <4>1. dmn'[cur] = dmn[cur] BY <1>0, <2>4, <3>3
      <4>2. InStep(cur) BY <2>1, <2>3, <4>1, Zenon DEF CurInStep, UpAgain
      <4>3. QED BY <2>1, <3>1, <3>3, <4>2, Zenon DEF InStep
    <3>4. QED BY <3>2, <3>3
  <2>6. CASE ApLeave(d) \/ ApReady(d) \/ Crash(d)
    <3>1. UNCHANGED conf BY <2>6, Zenon DEF ApLeave, ApReady, Crash
    <3>2. UpAgain(cur)
      <4>1. CASE ApLeave(d)
        <5>1. dmn' = [dmn EXCEPT ![d] = "gone"] BY <4>1, Zenon DEF ApLeave, Move
        <5>2. QED BY <1>0, <2>1, <2>3, <5>1 DEF UpAgain
      <4>2. CASE ApReady(d)
        <5>1. dmn[d] \in {"starting"} /\ dmn' = [dmn EXCEPT ![d] = "up"] BY <4>2, Zenon DEF ApReady, Move
        <5>2. QED BY <1>0, <2>1, <2>3, <5>1 DEF UpAgain
      <4>3. CASE Crash(d)
        <5>1. dmn' = [dmn EXCEPT ![d] = "down"] BY <4>3, Zenon DEF Crash, Move
        <5>2. QED BY <1>0, <2>1, <2>3, <5>1 DEF UpAgain
      <4>4. QED BY <2>6, <4>1, <4>2, <4>3
    <3>3. InStep(cur) BY <2>3, <3>2, Zenon DEF CurInStep
    <3>4. QED BY <2>1, <3>1, <3>3, Zenon DEF InStep, conf
  <2>7. QED BY <1>11, <2>5, <2>6
<1>12. QED BY <1>3, <1>4, <1>5, <1>6, <1>7, <1>8, <1>9, <1>10, <1>11, Zenon DEF ApNext, ApplyStep, Environment

-----------------------------------------------------------------------------
(* DriftReported. *)

LEMMA ReportedStart == ApInit => DriftReported
BY Zenon DEF ApInit, DriftReported

\* A key whose daemon is on record as behind, or whose drift rcd lost.
Behind(k) == Owner[k] \in driftDmn \/ k \in unseen
BehindStays == \A k \in DKeys : Behind(k) => Behind(k)'
Differs(k) == dmn[Owner[k]] \in {"starting", "up"} /\ runVal[k] # fileVal[k]

LEMMA ReportedIs == DriftReported <=> \A k \in DKeys : Differs(k) => k \in dirty \/ Behind(k)
BY Zenon DEF DriftReported, Behind, Differs

LEMMA FlushReports ==
    ASSUME ConfTypes, DriftReported, SaveFlush, runVal' = runVal, dmn' = dmn, BehindStays
    PROVE  DriftReported'
<1> DEFINE saved == {k \in dirty : Owner[k] \in saveOwed /\ Answers(Owner[k])}
<1>1. fileVal' = [k \in DKeys |-> IF k \in saved THEN runVal[k] ELSE fileVal[k]] /\ dirty' = dirty \ saved
  BY Zenon DEF SaveFlush
<1> HIDE DEF saved
<1>2. SUFFICES ASSUME NEW k \in DKeys, Differs(k)' PROVE k \in dirty' \/ Behind(k)' BY ReportedIs, Zenon DEF Differs, DriftReported, Behind
<1>3. k \notin saved /\ fileVal'[k] = fileVal[k] BY <1>1, <1>2 DEF Differs
<1>4. k \in dirty \/ Behind(k) BY <1>2, <1>3, ReportedIs, Zenon DEF Differs
<1>5. QED BY <1>1, <1>3, <1>4, Zenon DEF BehindStays

LEMMA SetReports == ASSUME ConfTypes, DriftReported, SetEdits PROVE DriftReported'
<1>1. PICK ks \in SUBSET DKeys, stage \in BOOLEAN, wrote \in BOOLEAN :
         \E val \in [ks -> DVals], taken \in SUBSET (ks \cap LiveKeys) : SetBatch(ks, val, stage, taken, wrote)
  BY Zenon DEF SetEdits
<1>2. PICK val \in [ks -> DVals], taken \in SUBSET (ks \cap LiveKeys) : SetBatch(ks, val, stage, taken, wrote)
  BY <1>1
<1> DEFINE live == {k \in taken : val[k] # "unset"}
           restored == taken \ live
           filed == ks \ live
           changed == {k \in filed \ restored : ~(val[k] = "unset" /\ fileVal[k] = "unset")}
<1>3. /\ runVal' = [k \in DKeys |-> IF k \in taken THEN val[k] ELSE runVal[k]]
      /\ dirty' = (dirty \cup live) \ restored /\ dmn' = dmn
  BY <1>2, Zenon DEF SetBatch
<1>4. SUFFICES ASSUME NEW k \in DKeys, Differs(k)' PROVE k \in dirty' \/ Behind(k)'
  BY ReportedIs, Zenon DEF Differs, DriftReported, Behind
<1>5. runVal'[k] = IF k \in taken THEN val[k] ELSE runVal[k] BY <1>3
<1>6. runVal'[k] # fileVal'[k] /\ dmn[Owner[k]] \in {"starting", "up"} BY <1>3, <1>4, Zenon DEF Differs
<1>7. runVal[k] # fileVal[k] => k \in dirty \/ Behind(k) BY <1>6, ReportedIs, Zenon DEF Differs
<1>8. k \in live => k \in dirty' BY <1>3
<1>9. k \notin restored /\ k \in dirty => k \in dirty' BY <1>3, Zenon
<1>10. CASE wrote
  <2>1. /\ fileVal' = [j \in DKeys |-> IF j \in filed THEN val[j] ELSE fileVal[j]]
        /\ ApStaleAdd(changed) /\ unseen' = unseen \ (taken \cup changed)
    BY <1>2, <1>10, Zenon DEF SetBatch
  <2>2. fileVal'[k] = IF k \in filed THEN val[k] ELSE fileVal[k] BY <2>1
  <2>3. driftDmn' = driftDmn \cup {Owner[j] : j \in changed} BY <2>1, Zenon DEF ApStaleAdd
  <2>4. k \in changed => Behind(k)' BY <2>3, Zenon DEF Behind
  <2>5. k \notin taken /\ k \notin changed /\ Behind(k) => Behind(k)' BY <2>1, <2>3, Zenon DEF Behind
  <2>6. CASE k \in taken
    <3>1. k \in live \/ (k \in restored /\ k \in filed) BY <2>6
    <3>2. CASE k \in restored /\ k \in filed BY <1>5, <1>6, <2>2, <2>6, <3>2
    <3>3. QED BY <1>8, <3>1, <3>2
  <2>7. CASE k \notin taken /\ k \notin changed
    <3>1. k \notin restored /\ k \notin live BY <2>7
    <3>2. k \in filed => val[k] = fileVal[k] BY <2>7, <3>1
    <3>3. runVal[k] # fileVal[k] BY <1>5, <1>6, <2>2, <2>7, <3>2
    <3>4. QED BY <1>7, <1>9, <2>5, <2>7, <3>1, <3>3
  <2>8. QED BY <2>4, <2>6, <2>7
<1>11. CASE ~wrote
  <2>1. fileVal' = fileVal /\ driftDmn' = driftDmn /\ unseen' = (unseen \ live) \cup restored
    BY <1>2, <1>11, Zenon DEF SetBatch
  <2>2. k \in restored => Behind(k)' BY <2>1, Zenon DEF Behind
  <2>3. k \notin live /\ Behind(k) => Behind(k)' BY <2>1, Zenon DEF Behind
  <2>4. CASE k \in taken
    <3>1. k \in live \/ k \in restored BY <2>4
    <3>2. QED BY <1>8, <2>2, <3>1
  <2>5. CASE k \notin taken
    <3>1. k \notin live /\ k \notin restored BY <2>5
    <3>2. runVal[k] # fileVal[k] BY <1>5, <1>6, <2>1, <2>5
    <3>3. QED BY <1>7, <1>9, <2>3, <3>1, <3>2
  <2>6. QED BY <2>4, <2>5
<1>12. QED BY <1>10, <1>11

LEMMA ReportedStep ==
    ASSUME DmnTypes, ConfTypes, CurInStep, DriftReported, [ApNext]_apvars
    PROVE  DriftReported'
<1>0. dmn \in [Daemons -> DmnStates] /\ cur \in Daemons BY Zenon DEF DmnTypes
<1>1. ASSUME UNCHANGED conf, dmn' = dmn, BehindStays PROVE DriftReported'
  BY <1>1, ReportedIs, Zenon DEF DriftReported, Behind, BehindStays, conf
<1>2. ASSUME driftDmn' = driftDmn, unseen' = unseen PROVE BehindStays BY <1>2, Zenon DEF BehindStays, Behind
<1>3. ASSUME NEW d, UNCHANGED conf, dmn' = dmn, driftDmn' = driftDmn \ {d}, unseen' = unseen, UpAgain(d) => InStep(d)
      PROVE  DriftReported'
  <2>1. SUFFICES ASSUME NEW k \in DKeys, Differs(k)' PROVE k \in dirty' \/ Behind(k)'
    BY ReportedIs, Zenon DEF Differs, DriftReported, Behind
  <2>2. Differs(k) /\ dirty' = dirty BY <1>3, <2>1, Zenon DEF conf, Differs
  <2>3. k \in dirty \/ Behind(k) BY <2>2, ReportedIs, Zenon
  <2>4. Owner[k] # d BY <1>3, <2>2, Zenon DEF UpAgain, InStep, Differs
  <2>5. QED BY <1>3, <2>2, <2>3, <2>4, Zenon DEF Behind
<1>4. CASE SetEdits BY <1>4, SetReports
<1>5. CASE StateQuery
  <2> DEFINE dead == {d \in driftDmn : ~Running(d)}
  <2>1. UNCHANGED conf /\ dmn' = dmn /\ driftDmn' = driftDmn \ dead /\ unseen' = unseen
    BY <1>5, Zenon DEF StateQuery, StaleClear
  <2>2. SUFFICES ASSUME NEW k \in DKeys, Differs(k)' PROVE k \in dirty' \/ Behind(k)'
    BY ReportedIs, Zenon DEF Differs, DriftReported, Behind
  <2>3. Differs(k) /\ dirty' = dirty BY <2>1, <2>2, Zenon DEF conf, Differs
  <2>4. k \in dirty \/ Behind(k) BY <2>3, ReportedIs, Zenon
  <2>5. dmn[Owner[k]] # "down" BY <2>3 DEF Differs
  <2>6. Owner[k] \notin dead BY <2>5, Zenon DEF Running
  <2>7. QED BY <2>1, <2>3, <2>4, <2>6, Zenon DEF Behind
<1>6. CASE ApTick \/ ApplyStart
  <2>1. dmn' = dmn /\ driftDmn' = driftDmn /\ unseen' = unseen /\ ((SaveFlush /\ runVal' = runVal) \/ UNCHANGED conf)
    BY <1>6, Zenon DEF ApTick, ApplyStart, conf, drift
  <2>2. BehindStays BY <1>2, <2>1
  <2>3. QED BY <1>1, <2>1, <2>2, FlushReports
<1>7. CASE RcdRestart
  <2>1. /\ dmn' = dmn /\ unseen' = unseen \cup {k \in DKeys : Owner[k] \in driftDmn \ driftDmn'}
        /\ ((SaveFlush /\ runVal' = runVal) \/ UNCHANGED conf)
    BY <1>7, Zenon DEF RcdRestart, StaleLoad, conf
  <2>2. BehindStays BY <2>1, Zenon DEF BehindStays, Behind
  <2>3. QED BY <1>1, <2>1, <2>2, FlushReports
<1>8. CASE NextDaemon
  <2>1. PICK d \in apTodo :
           UNCHANGED drift \/ (~Running(d) /\ UNCHANGED unseen /\ StaleClear({d}))
    BY <1>8, Zenon DEF NextDaemon, drift
  <2>2. UNCHANGED conf /\ dmn' = dmn BY <1>8, Zenon DEF NextDaemon
  <2>3. CASE UNCHANGED drift
    <3>1. BehindStays BY <1>2, <2>3, Zenon DEF drift
    <3>2. QED BY <1>1, <2>2, <3>1
  <2>4. CASE ~Running(d) /\ unseen' = unseen /\ driftDmn' = driftDmn \ {d}
    <3>1. dmn[d] = "down" BY <2>4, Zenon DEF Running
    <3>2. ~UpAgain(d) BY <3>1 DEF UpAgain
    <3>3. QED BY <1>3, <2>2, <2>4, <3>2
  <2>5. QED BY <2>1, <2>3, <2>4, Zenon DEF StaleClear
<1>9. CASE Quiesce \/ AskRestart \/ WaitDown \/ WaitUp \/ ApResume \/ ApplyDone
  <2>1. UNCHANGED conf /\ driftDmn' = driftDmn /\ unseen' = unseen
    BY <1>9, Zenon DEF Quiesce, AskRestart, WaitDown, WaitUp, ApResume, ApplyDone, drift
  <2>2. BehindStays BY <1>2, <2>1
  <2>3. CASE dmn' = dmn BY <1>1, <2>1, <2>2, <2>3
  <2>4. CASE dmn' = [dmn EXCEPT ![cur] = "leaving"]
    <3>1. SUFFICES ASSUME NEW k \in DKeys, Differs(k)' PROVE k \in dirty' \/ Behind(k)'
      BY ReportedIs, Zenon DEF Differs, DriftReported, Behind
    <3>2. Owner[k] \in Daemons BY OwnerTyped
    <3>3. dmn'[Owner[k]] \in {"starting", "up"} BY <3>1, Zenon DEF Differs
    <3>4. dmn[Owner[k]] \in {"starting", "up"} BY <1>0, <2>4, <3>2, <3>3
    <3>5. Differs(k) /\ dirty' = dirty BY <2>1, <3>1, <3>4, Zenon DEF Differs, conf
    <3>6. QED BY <2>2, <3>5, ReportedIs, Zenon DEF BehindStays
  <2>5. QED BY <1>9, <2>3, <2>4, Zenon DEF Quiesce, AskRestart, WaitDown, WaitUp, ApResume, ApplyDone
<1>10. CASE Finish
  <2>1. UNCHANGED conf /\ dmn' = dmn /\ apc = "finish" /\ unseen' = unseen BY <1>10, Zenon DEF Finish
  <2>2. CASE driftDmn' = driftDmn
    <3>1. BehindStays BY <1>2, <2>1, <2>2
    <3>2. QED BY <1>1, <2>1, <3>1
  <2>3. CASE curOk /\ driftDmn' = driftDmn \ {cur}
    <3>1. Restarting BY <2>1, <2>3, Zenon DEF Restarting
    <3>2. UpAgain(cur) => InStep(cur) BY <3>1, Zenon DEF CurInStep
    <3>3. QED BY <1>3, <2>1, <2>3, <3>2
  <2>4. QED BY <1>10, <2>2, <2>3, Zenon DEF Finish, StaleClear
<1>11. CASE RadCrash \/ UNCHANGED apvars
  <2>1. UNCHANGED conf /\ dmn' = dmn /\ driftDmn' = driftDmn /\ unseen' = unseen
    BY <1>11, Zenon DEF RadCrash, apvars, drift
  <2>2. BehindStays BY <1>2, <2>1
  <2>3. QED BY <1>1, <2>1, <2>2
<1>12. ASSUME NEW d \in Daemons, ApLeave(d) \/ ApBoot(d) \/ ApReady(d) \/ Crash(d) PROVE DriftReported'
  <2>1. driftDmn' = driftDmn BY <1>12, Zenon DEF ApLeave, ApBoot, ApReady, Crash, drift
  <2>2. SUFFICES ASSUME NEW k \in DKeys, Differs(k)' PROVE k \in dirty' \/ Behind(k)'
    BY ReportedIs, Zenon DEF Differs, DriftReported, Behind
  <2>3. Owner[k] \in Daemons BY OwnerTyped
  <2>4. CASE ApBoot(d)
    <3>1. /\ runVal' = [j \in DKeys |-> IF Owner[j] = d THEN fileVal[j] ELSE runVal[j]]
          /\ dirty' = dirty \ KeysOf(d) /\ fileVal' = fileVal /\ unseen' = unseen \ KeysOf(d)
      BY <2>4, Zenon DEF ApBoot
    <3>2. Owner[k] # d /\ runVal'[k] = runVal[k] BY <2>2, <3>1 DEF Differs
    <3>3. \E s \in DmnStates : dmn' = [dmn EXCEPT ![d] = s] BY <2>4, Zenon DEF ApBoot, Move, DmnStates
    <3>4. dmn'[Owner[k]] = dmn[Owner[k]] BY <1>0, <2>3, <3>2, <3>3
    <3>5. Differs(k) BY <2>2, <3>1, <3>2, <3>4, Zenon DEF Differs
    <3>6. k \in dirty \/ Behind(k) BY <3>5, ReportedIs, Zenon
    <3>7. k \notin KeysOf(d) BY <3>2, Zenon DEF KeysOf
    <3>8. QED BY <2>1, <3>1, <3>6, <3>7, Zenon DEF Behind
  <2>5. CASE ApLeave(d) \/ ApReady(d) \/ Crash(d)
    <3>1. UNCHANGED conf /\ unseen' = unseen BY <2>5, Zenon DEF ApLeave, ApReady, Crash, drift
    <3>2. dmn'[Owner[k]] \in {"starting", "up"} BY <2>2, Zenon DEF Differs
    <3>3. dmn[Owner[k]] \in {"starting", "up"}
      <4>1. CASE ApLeave(d)
        <5>1. dmn' = [dmn EXCEPT ![d] = "gone"] BY <4>1, Zenon DEF ApLeave, Move
        <5>2. QED BY <1>0, <2>3, <3>2, <5>1
      <4>2. CASE ApReady(d)
        <5>1. dmn[d] \in {"starting"} /\ dmn' = [dmn EXCEPT ![d] = "up"] BY <4>2, Zenon DEF ApReady, Move
        <5>2. QED BY <1>0, <2>3, <3>2, <5>1
      <4>3. CASE Crash(d)
        <5>1. dmn' = [dmn EXCEPT ![d] = "down"] BY <4>3, Zenon DEF Crash, Move
        <5>2. QED BY <1>0, <2>3, <3>2, <5>1
      <4>4. QED BY <2>5, <4>1, <4>2, <4>3
    <3>4. Differs(k) /\ dirty' = dirty BY <2>2, <3>1, <3>3, Zenon DEF Differs, conf
    <3>5. k \in dirty \/ Behind(k) BY <3>4, ReportedIs, Zenon
    <3>6. QED BY <2>1, <3>1, <3>4, <3>5, Zenon DEF Behind
  <2>6. QED BY <1>12, <2>4, <2>5
<1>13. QED BY <1>4, <1>5, <1>6, <1>7, <1>8, <1>9, <1>10, <1>11, <1>12, Zenon DEF ApNext, ApplyStep, Environment

-----------------------------------------------------------------------------
(* Owed saves. *)

\* The time a save has waited and the time it still waits stay under the
\* ceiling, however many edits come: a burst cannot put it off for ever.
SaveInv ==
    /\ saveOwed \subseteq Daemons /\ saveLeft \in Nat /\ saveAge \in Nat
    /\ saveLeft + saveAge <= SaveMax

LEMMA SumFits == ASSUME NEW m \in Nat, NEW x \in Nat, NEW y \in Nat, y <= m - x PROVE y + x <= m
OBVIOUS

LEMMA SaveStart == ApInit => SaveInv
<1> SUFFICES ASSUME ApInit PROVE SaveInv OBVIOUS
<1>1. saveOwed = {} /\ saveLeft = 0 /\ saveAge = 0 BY Zenon DEF ApInit
<1>2. QED BY <1>1, RcdApplyConstants DEF SaveInv

LEMMA SaveStep ==
    ASSUME SaveInv, [ApNext]_apvars
    PROVE  SaveInv'
<1>1. ASSUME UNCHANGED saves PROVE SaveInv'
  <2>1. saveOwed' = saveOwed /\ saveLeft' = saveLeft /\ saveAge' = saveAge BY <1>1, Zenon DEF saves
  <2>2. QED BY <2>1, Zenon DEF SaveInv
<1>2. ASSUME saveOwed' = {}, saveLeft' = 0, saveAge' = 0 PROVE SaveInv'
  BY <1>2, RcdApplyConstants DEF SaveInv
<1>3. CASE SetEdits
  <2>1. PICK ks \in SUBSET DKeys, stage \in BOOLEAN, wrote \in BOOLEAN :
           \E val \in [ks -> DVals], taken \in SUBSET (ks \cap LiveKeys) : SetBatch(ks, val, stage, taken, wrote)
    BY <1>3, Zenon DEF SetEdits
  <2>2. PICK val \in [ks -> DVals], taken \in SUBSET (ks \cap LiveKeys) : SetBatch(ks, val, stage, taken, wrote)
    BY <2>1
  <2> DEFINE ds == {Owner[k] : k \in {k \in taken : val[k] # "unset"}}
  <2>3. OweSave(ds) BY <2>2, Zenon DEF SetBatch
  <2>4. ds \subseteq Daemons BY OwnerTyped
  <2> HIDE DEF ds
  <2>5. CASE UNCHANGED saves BY <1>1, <2>5
  <2>6. CASE /\ saveOwed' = saveOwed \cup ds
             /\ saveAge' = IF saveOwed = {} THEN 0 ELSE saveAge
             /\ saveLeft' = Least(Debounce, SaveMax - saveAge')
    <3>1. saveOwed' \subseteq Daemons BY <2>4, <2>6 DEF SaveInv
    <3>2. saveAge' \in Nat /\ saveAge' <= SaveMax BY <2>6, RcdApplyConstants DEF SaveInv
    <3>3. saveLeft' \in Nat /\ saveLeft' <= SaveMax - saveAge' BY <2>6, <3>2, RcdApplyConstants DEF Least
    <3>4. SaveMax \in Nat BY RcdApplyConstants
    <3>5. saveLeft' + saveAge' <= SaveMax BY <3>2, <3>3, <3>4, SumFits, Zenon
    <3>6. QED BY <3>1, <3>2, <3>3, <3>5, Zenon DEF SaveInv
  <2>7. QED BY <2>3, <2>5, <2>6, Zenon DEF OweSave
<1>4. CASE ApTick
  <2>1. \/ saveOwed' = {} /\ saveLeft' = 0 /\ saveAge' = 0
        \/ saveLeft # 0 /\ saveLeft' = saveLeft - 1 /\ saveAge' = saveAge + 1 /\ saveOwed' = saveOwed
    BY <1>4, Zenon DEF ApTick, SaveFlush
  <2>2. CASE saveOwed' = {} /\ saveLeft' = 0 /\ saveAge' = 0 BY <1>2, <2>2
  <2>3. CASE saveLeft # 0 /\ saveLeft' = saveLeft - 1 /\ saveAge' = saveAge + 1 /\ saveOwed' = saveOwed
    BY <2>3, RcdApplyConstants DEF SaveInv
  <2>4. QED BY <2>1, <2>2, <2>3
<1>5. CASE RcdRestart \/ ApplyStart
  BY <1>2, <1>5, Zenon DEF RcdRestart, ApplyStart, SaveFlush
<1>6. CASE StateQuery \/ ApplyStep \/ Environment \/ UNCHANGED apvars
  BY <1>1, <1>6, Zenon DEF StateQuery, ApplyStep, Environment, NextDaemon, Quiesce, AskRestart, WaitDown, WaitUp,
        ApResume, Finish, ApplyDone, RadCrash, ApLeave, ApBoot, ApReady, Crash, apvars
<1>7. QED BY <1>3, <1>4, <1>5, <1>6, Zenon DEF ApNext

-----------------------------------------------------------------------------
(* rad is taken off the hardware and put back. *)

\* Between the quiesce and the resume it is rvd that restarts; once it has let
\* go of its socket it is not asked to leave again, so that a "ready" is the
\* word of the new process.
ReadyInv ==
    /\ apc \in {"quiesce", "resume"} => cur = "rvd"
    /\ apc = "up" /\ ~late => dmn[cur] # "leaving"
    /\ apc = "resume" /\ ~late /\ curOk => dmn[cur] = "up"

LEMMA ReadyStart == ApInit => ReadyInv
<1> SUFFICES ASSUME ApInit PROVE ReadyInv OBVIOUS
<1>1. apc = "idle" BY Zenon DEF ApInit
<1>2. QED BY <1>1 DEF ReadyInv

LEMMA ReadyStep ==
    ASSUME DmnTypes, ReadyInv, [ApNext]_apvars
    PROVE  ReadyInv'
<1>0. dmn \in [Daemons -> DmnStates] /\ cur \in Daemons BY Zenon DEF DmnTypes
<1>1. ASSUME apc' \notin {"quiesce", "up", "resume"} PROVE ReadyInv'
  BY <1>1 DEF ReadyInv
<1>2. ASSUME dmn' = dmn, UNCHANGED apply PROVE ReadyInv'
  BY <1>2, Zenon DEF ReadyInv, apply
<1>3. CASE SetEdits
  <2>1. dmn' = dmn /\ UNCHANGED apply BY <1>3, SetEditsKeeps
  <2>2. QED BY <1>2, <2>1
<1>4. CASE StateQuery \/ ApTick \/ RcdRestart \/ RadCrash
  BY <1>2, <1>4, Zenon DEF StateQuery, ApTick, RcdRestart, RadCrash
<1>5. CASE ApplyStart \/ Quiesce \/ ApResume \/ Finish \/ ApplyDone
  <2>1. apc' = "next" \/ apc' = "restart" \/ apc' = "finish" \/ apc' = "idle"
    BY <1>5, Zenon DEF ApplyStart, Quiesce, ApResume, Finish, ApplyDone
  <2>2. QED BY <1>1, <2>1
<1>6. CASE NextDaemon
  <2>1. PICK d \in apTodo : cur' = d /\ (apc' = (IF d = "rvd" THEN "quiesce" ELSE "restart") \/ apc' = "next")
    BY <1>6, Zenon DEF NextDaemon
  <2>2. CASE apc' = "quiesce" /\ cur' = "rvd" BY <2>2 DEF ReadyInv
  <2>3. CASE apc' = "restart" \/ apc' = "next" BY <1>1, <2>3
  <2>4. QED BY <2>1, <2>2, <2>3
<1>7. CASE AskRestart
  <2>1. cur' = cur /\ (apc' = "down" \/ (apc' = After /\ curOk' = FALSE)) BY <1>7, Zenon DEF AskRestart
  <2>2. CASE apc' = "down" \/ apc' = "finish" BY <1>1, <2>2
  <2>3. CASE cur = "rvd" /\ apc' = "resume" /\ curOk' = FALSE BY <2>1, <2>3 DEF ReadyInv
  <2>4. QED BY <2>1, <2>2, <2>3 DEF After
<1>8. CASE WaitDown
  <2>1. apc' = "up" /\ dmn' = dmn /\ cur' = cur /\ (~Answers(cur) \/ late' = TRUE) BY <1>8, Zenon DEF WaitDown
  <2>2. ~Answers(cur) => dmn[cur] # "leaving" BY DEF Answers
  <2>3. QED BY <2>1, <2>2 DEF ReadyInv
<1>9. CASE WaitUp
  <2>1. apc = "up" /\ apc' = After /\ dmn' = dmn /\ cur' = cur BY <1>9, Zenon DEF WaitUp
  <2>2. (DaemonReady(cur) /\ late' = late) \/ late' = TRUE BY <1>9, Zenon DEF WaitUp
  <2>3. CASE cur = "rvd"
    <3>1. apc' = "resume" BY <2>1, <2>3, Zenon DEF After
    <3>2. DaemonReady(cur) => dmn[cur] \in {"up", "leaving"} BY <2>3, Zenon DEF DaemonReady
    <3>3. ~late => dmn[cur] # "leaving" BY <2>1, Zenon DEF ReadyInv
    <3>4. ~late' => dmn'[cur'] = "up" BY <2>1, <2>2, <3>2, <3>3
    <3>5. QED BY <2>1, <2>3, <3>1, <3>4 DEF ReadyInv
  <2>4. CASE cur # "rvd"
    <3>1. apc' = "finish" BY <2>1, <2>4, Zenon DEF After
    <3>2. QED BY <1>1, <3>1
  <2>5. QED BY <2>3, <2>4
<1>10. ASSUME NEW d \in Daemons, ApLeave(d) \/ ApBoot(d) \/ ApReady(d) PROVE ReadyInv'
  <2>1. apc' = apc /\ cur' = cur /\ late' = late /\ curOk' = curOk
    BY <1>10, Zenon DEF ApLeave, ApBoot, ApReady, apply
  <2>2. PICK s \in {"gone", "starting", "up"} : dmn' = [dmn EXCEPT ![d] = s] /\ dmn[d] # "up"
    <3>1. CASE ApLeave(d)
      <4>1. dmn' = [dmn EXCEPT ![d] = "gone"] /\ dmn[d] \in {"leaving"} BY <3>1, Zenon DEF ApLeave, Move
      <4>2. QED BY <4>1
    <3>2. CASE ApBoot(d)
      <4>1. dmn[d] \in {"down", "gone"} /\ \E s \in {"starting", "up"} : dmn' = [dmn EXCEPT ![d] = s]
        BY <3>2, Zenon DEF ApBoot, Move
      <4>2. QED BY <4>1
    <3>3. CASE ApReady(d)
      <4>1. dmn' = [dmn EXCEPT ![d] = "up"] /\ dmn[d] \in {"starting"} BY <3>3, Zenon DEF ApReady, Move
      <4>2. QED BY <4>1
    <3>4. QED BY <1>10, <3>1, <3>2, <3>3
  <2>3. dmn'[cur] = dmn[cur] \/ (dmn'[cur] # "leaving" /\ dmn[cur] # "up") BY <1>0, <2>2
  <2>4. QED BY <2>1, <2>3 DEF ReadyInv
<1>11. ASSUME NEW d \in Daemons, Crash(d) PROVE ReadyInv'
  <2>1. apc' = apc /\ cur' = cur /\ curOk' = curOk /\ dmn' = [dmn EXCEPT ![d] = "down"]
        /\ late' = (late \/ (cur = d /\ apc \in {"up", "resume"}))
    BY <1>11, Zenon DEF Crash, Move
  <2>2. ~late' /\ apc \in {"up", "resume"} => ~late /\ cur # d BY <2>1, Zenon
  <2>3. cur # d => dmn'[cur] = dmn[cur] BY <1>0, <2>1
  <2>4. (apc = "up" \/ apc = "resume") /\ ~late' => ~late /\ dmn'[cur] = dmn[cur] BY <2>2, <2>3
  <2>5. QED BY <2>1, <2>4, Zenon DEF ReadyInv
<1>12. CASE UNCHANGED apvars
  BY <1>2, <1>12, Zenon DEF apvars
<1>13. QED BY <1>3, <1>4, <1>5, <1>6, <1>7, <1>8, <1>9, <1>10, <1>11, <1>12, Zenon
           DEF ApNext, ApplyStep, Environment

\* Only the resume itself leaves "resume".
LEMMA ResumeOnly ==
    ASSUME [ApNext]_apvars, apc = "resume", apc' # "resume"
    PROVE  ApResume
<1>1. CASE SetEdits \/ StateQuery \/ ApTick \/ RcdRestart \/ ApplyStart
  <2>1. apc = "idle"
    BY <1>1, SetEditsKeeps, Zenon DEF StateQuery, ApTick, RcdRestart, ApplyStart
  <2>2. QED BY <2>1
<1>2. CASE NextDaemon \/ Quiesce \/ AskRestart \/ WaitDown \/ WaitUp \/ Finish \/ ApplyDone
  <2>1. apc = "next" \/ apc = "quiesce" \/ apc = "restart" \/ apc = "down" \/ apc = "up" \/ apc = "finish"
    BY <1>2, Zenon DEF NextDaemon, Quiesce, AskRestart, WaitDown, WaitUp, Finish, ApplyDone
  <2>2. QED BY <2>1
<1>3. CASE Environment \/ UNCHANGED apvars
  <2>1. apc' = apc
    BY <1>3, Zenon DEF Environment, RadCrash, ApLeave, ApBoot, ApReady, Crash, apply, apvars
  <2>2. QED BY <2>1
<1>4. QED BY <1>1, <1>2, <1>3, Zenon DEF ApNext, ApplyStep

\* A resume gives back each device or reports the one that failed, and no
\* speaker that was off.
LEMMA ResumeGives ==
    ASSUME RadTypes, ApResume
    PROVE  /\ audioErr' \/ ((q.ai => rad.ai') /\ (q.ao => rad.ao'))
           /\ rad.ao' => speaker
<1>1. PICK aiOk \in BOOLEAN, aoOk \in BOOLEAN :
        /\ rad' = [rad EXCEPT !.ai = @ \/ (q.ai /\ aiOk),
                              !.ao = @ \/ (q.ao /\ aoOk /\ (q.ai => aiOk))]
        /\ audioErr' = ((q.ai /\ ~aiOk) \/ (q.ao /\ ~aoOk))
  BY Zenon DEF ApResume
<1> DEFINE ai == rad.ai \/ (q.ai /\ aiOk)
           ao == rad.ao \/ (q.ao /\ aoOk /\ (q.ai => aiOk))
<1>2. rad' = [rad EXCEPT !.ai = ai, !.ao = ao] BY <1>1, Zenon
<1> HIDE DEF ai, ao
<1>3. rad'.ai = ai /\ rad'.ao = ao BY <1>2, Zenon DEF RadTypes
<1>4. ai = (rad.ai \/ (q.ai /\ aiOk)) /\ ao = (rad.ao \/ (q.ao /\ aoOk /\ (q.ai => aiOk))) BY Zenon DEF ai, ao
<1>5. (q.ao => speaker) /\ (rad.ao => speaker) BY Zenon DEF RadTypes
<1>6. QED BY <1>1, <1>3, <1>4, <1>5, Zenon

-----------------------------------------------------------------------------
(* rmq's bridge. *)

\* What rmq believes Home Assistant has, Home Assistant has - unless the two
\* came apart unseen.
RecordHeld ==
    /\ "keys" \in DOMAIN b /\ {"has", "refused"} \subseteq DOMAIN ha
    /\ stray \/ (b.keys \subseteq ha.has /\ ~ha.refused)

\* A document's keys are a sequence of keys, and the record holds no others.
LEMMA PresentKeys == ASSUME NEW alive, NEW f PROVE Present(alive, f) \in Seq(AllKeys)
<1> DEFINE Settable(c) == /\ world.setup.commands /\ owner_available(c.owner, alive)
                          /\ c.cap => isp_settable(f.isp)
           Entity(i) == Listed(entities[i], owner_available(entities[i].owner, alive))
           Control(i) == Listed(controls[i], Settable(controls[i]))
           Picture == IF offer_picture(alive, f.jpeg) THEN <<"picture">> ELSE <<>>
<1>0. ASSUME NEW k \in AllKeys PROVE <<k>> \in Seq(AllKeys) /\ <<>> \in Seq(AllKeys) OBVIOUS
<1>1. Entity(1) \in Seq(AllKeys) /\ Entity(2) \in Seq(AllKeys)
  <2>1. entities[1].key \in AllKeys /\ entities[2].key \in AllKeys BY DEF entities, AllKeys
  <2>2. QED BY <1>0, <2>1, Zenon DEF Listed
<1>2. Control(1) \in Seq(AllKeys) /\ Control(2) \in Seq(AllKeys)
  <2>1. controls[1].key \in AllKeys /\ controls[2].key \in AllKeys BY DEF controls, AllKeys
  <2>2. QED BY <1>0, <2>1, Zenon DEF Listed
<1>3. Picture \in Seq(AllKeys)
  <2>1. "picture" \in AllKeys BY DEF AllKeys
  <2>2. QED BY <1>0, <2>1, Zenon
<1>4. Present(alive, f) = Entity(1) \o Entity(2) \o Picture \o Control(1) \o Control(2)
  BY Zenon DEF Present
<1> HIDE DEF Entity, Control, Picture
<1>5. QED BY <1>1, <1>2, <1>3, <1>4

LEMMA RecordedKeys == ASSUME NEW names \in Seq(AllKeys) PROVE ToSet(Recorded(names)) \subseteq ToSet(names)
BY RmqConstants DEF Recorded, ToSet

\* Home Assistant takes a document that withdraws only what it has, and then
\* has everything the document carries.
LEMMA LearnTakes ==
    ASSUME NEW h, NEW doc, doc # NoDoc, doc.gone \subseteq h.has
    PROVE  LET n == MqLearn(h, doc) IN
           {"has", "refused"} \subseteq DOMAIN n /\ doc.comps \subseteq n.has /\ ~n.refused
<1>1. PICK n : n = MqLearn(h, doc) OBVIOUS
<1>2. n = [has |-> (h.has \ doc.gone) \cup doc.comps, refused |-> FALSE] BY <1>1, Zenon DEF MqLearn
<1>3. ~n.refused BY <1>2, Zenon
<1>4. {"has", "refused"} \subseteq DOMAIN n /\ doc.comps \subseteq n.has BY <1>2
<1>5. QED BY <1>1, <1>3, <1>4, Zenon

\* One that withdraws more it refuses.
LEMMA LearnRefuses ==
    ASSUME NEW h, {"has", "refused"} \subseteq DOMAIN h, NEW doc, doc # NoDoc, ~(doc.gone \subseteq h.has)
    PROVE  MqLearn(h, doc).refused
<1>1. MqLearn(h, doc) = [h EXCEPT !.refused = TRUE] BY Zenon DEF MqLearn
<1>2. QED BY <1>1, Zenon

\* Every other way of learning leaves both fields where they were.
LEMMA LearnKeepsFields ==
    ASSUME NEW h, {"has", "refused"} \subseteq DOMAIN h, NEW doc
    PROVE  {"has", "refused"} \subseteq DOMAIN MqLearn(h, doc)
BY DEF MqLearn

\* A publication changes the connection only.
LEMMA PublishKeeps ==
    ASSUME NEW o, NEW s, "keys" \in DOMAIN s
    PROVE  LET t == rmq_mqtt_publish(o, s) IN "keys" \in DOMAIN t /\ t.keys = s.keys
BY DEF rmq_mqtt_publish

LEMMA RecordStart == MqInit => RecordHeld
<1> SUFFICES ASSUME MqInit PROVE RecordHeld OBVIOUS
<1>1. b = Boot /\ ha = [has |-> {}, refused |-> FALSE] BY Zenon DEF MqInit
<1>2. "keys" \in DOMAIN b /\ {"has", "refused"} \subseteq DOMAIN ha BY <1>1 DEF Boot
<1>3. b.keys = {} BY <1>1 DEF Boot
<1>4. ha.refused = FALSE BY <1>1, Zenon
<1>5. QED BY <1>2, <1>3, <1>4, Zenon DEF RecordHeld

\* rmq_poll_cycle: what it withdraws is in the record, and what it records is
\* in the document.
LEMMA PollStep ==
    ASSUME RecordHeld, NEW o, rmq_poll_cycle(o)
    PROVE  RecordHeld'
<1> DEFINE f == rmq_ha_note_camera(world)
           s == [b EXCEPT !.pc = "snap", !.poll = MqPoll, !.facts = f, !.http = "rhd" \in world.up]
           changed == ~b.disc \/ f # b.facts \/ world.up # b.last
           names == Present(world.up, f)
           doc == Document(world.up, f, b.keys)
<1>0. "keys" \in DOMAIN b /\ {"has", "refused"} \subseteq DOMAIN ha BY Zenon DEF RecordHeld
<1>1. CASE ~world.rcd
  <2>1. b' = [b EXCEPT !.pc = "snap", !.poll = MqPoll, !.http = FALSE] /\ ha' = ha /\ stray' = stray
    BY <1>1, Zenon DEF rmq_poll_cycle
  <2>2. "keys" \in DOMAIN b' /\ b'.keys = b.keys BY <1>0, <2>1
  <2>3. QED BY <1>0, <2>1, <2>2, Zenon DEF RecordHeld
<1>2. CASE world.rcd
  <2>1. /\ b' = rmq_mqtt_publish(o, IF changed THEN NoteDiscovery(o, s, names) ELSE s)
        /\ ha' = IF changed /\ o = "ok" THEN MqLearn(ha, doc) ELSE ha
        /\ stray' = IF changed /\ o = "ok" THEN stray /\ ha'.refused ELSE stray \/ (changed /\ o = "lost")
    BY <1>2, Zenon DEF rmq_poll_cycle
  <2>2. "keys" \in DOMAIN s /\ s.keys = b.keys BY <1>0
  <2>3. names \in Seq(AllKeys) BY PresentKeys
  <2>4. doc.gone \subseteq b.keys /\ doc.comps = ToSet(names) /\ doc # NoDoc
    <3>1. doc = [comps |-> ToSet(names), gone |-> Withdrawn(names, b.keys), range |-> isp_caps_range(f.isp)]
      BY Zenon DEF Document
    <3>2. Withdrawn(names, b.keys) \subseteq b.keys BY DEF Withdrawn
    <3>3. isp_caps_range(f.isp) # 0 BY DEF isp_caps_range
    <3> HIDE DEF doc, names, f, s, changed
    <3>4. doc.range # NoDoc.range BY <3>1, <3>3 DEF NoDoc
    <3>5. doc.gone \subseteq b.keys /\ doc.comps = ToSet(names) BY <3>1, <3>2, Zenon
    <3>6. QED BY <3>4, <3>5
  <2>5. ~(changed /\ o = "ok") => (stray => stray') BY <2>1, Zenon
  <2> HIDE DEF f, s, changed, names, doc
  <2>6. CASE ~changed
    <3>1. b' = rmq_mqtt_publish(o, s) /\ ha' = ha BY <2>1, <2>6, Zenon
    <3>2. "keys" \in DOMAIN b' /\ b'.keys = b.keys BY <2>2, <3>1, PublishKeeps, Zenon
    <3>3. QED BY <1>0, <2>5, <2>6, <3>1, <3>2, Zenon DEF RecordHeld
  <2>7. CASE changed /\ ~Accepted(o)
    <3>1. b' = rmq_mqtt_publish(o, s) BY <2>1, <2>7, Zenon DEF NoteDiscovery
    <3>2. o # "ok" BY <2>7 DEF Accepted
    <3>3. ha' = ha BY <2>1, <3>2, Zenon
    <3>4. "keys" \in DOMAIN b' /\ b'.keys = b.keys BY <2>2, <3>1, PublishKeeps, Zenon
    <3>5. QED BY <1>0, <2>5, <3>2, <3>3, <3>4, Zenon DEF RecordHeld
  <2>8. CASE changed /\ Accepted(o)
    <3> DEFINE t == NoteDiscovery(o, s, names)
    <3>1. t = [s EXCEPT !.keys = ToSet(Recorded(names)), !.last = world.up, !.disc = TRUE]
      BY <2>8, Zenon DEF NoteDiscovery
    <3>2. "keys" \in DOMAIN t /\ t.keys = ToSet(Recorded(names)) BY <2>2, <3>1
    <3>3. b' = rmq_mqtt_publish(o, t) BY <2>1, <2>8, Zenon
    <3> HIDE DEF t
    <3>4. "keys" \in DOMAIN b' /\ b'.keys = ToSet(Recorded(names)) BY <3>2, <3>3, PublishKeeps, Zenon
    <3>5. CASE o = "ok"
      <4>1. ha' = MqLearn(ha, doc) BY <2>1, <2>8, <3>5, Zenon
      <4>2. {"has", "refused"} \subseteq DOMAIN ha' BY <1>0, <4>1, LearnKeepsFields, Zenon
      <4>3. ToSet(Recorded(names)) \subseteq ToSet(names) BY <2>3, RecordedKeys
      <4>4. CASE doc.gone \subseteq ha.has
        <5>1. doc.comps \subseteq ha'.has /\ ~ha'.refused BY <2>4, <4>1, <4>4, LearnTakes, Zenon
        <5>2. b'.keys \subseteq ha'.has BY <2>4, <3>4, <4>3, <5>1, Zenon
        <5>3. QED BY <3>4, <4>2, <5>1, <5>2, Zenon DEF RecordHeld
      <4>5. CASE ~(doc.gone \subseteq ha.has)
        <5>1. stray BY <2>4, <4>5, Zenon DEF RecordHeld
        <5>2. ha'.refused BY <1>0, <2>4, <4>1, <4>5, LearnRefuses, Zenon
        <5>3. stray' BY <2>1, <2>8, <3>5, <5>1, <5>2, Zenon
        <5>4. QED BY <3>4, <4>2, <5>3, Zenon DEF RecordHeld
      <4>6. QED BY <4>4, <4>5
    <3>6. CASE o = "lost"
      <4>2. "lost" # "ok" OBVIOUS
      <4>1. stray' BY <2>1, <2>8, <3>6, <4>2, Zenon
      <4>3. ha' = ha BY <2>1, <3>6, <4>2, Zenon
      <4>4. QED BY <1>0, <3>4, <4>1, <4>3, Zenon DEF RecordHeld
    <3>7. QED BY <2>8, <3>5, <3>6 DEF Accepted
  <2>9. QED BY <2>6, <2>7, <2>8
<1>3. QED BY <1>1, <1>2

LEMMA SnapKeeps ==
    ASSUME NEW o, NEW s, "keys" \in DOMAIN s, rmq_snapshot_publish(o, s)
    PROVE  "keys" \in DOMAIN b' /\ b'.keys = s.keys
<1>1. CASE b' = [s EXCEPT !.snap = MqRetry] BY <1>1
<1>2. CASE b' = [rmq_mqtt_publish(o, s) EXCEPT !.snap = Scheduled(world.setup.every)]
  <2> DEFINE t == rmq_mqtt_publish(o, s)
  <2>1. "keys" \in DOMAIN t /\ t.keys = s.keys BY PublishKeeps, Zenon
  <2>2. b' = [t EXCEPT !.snap = Scheduled(world.setup.every)] BY <1>2, Zenon
  <2> HIDE DEF t
  <2>3. QED BY <2>1, <2>2
<1>3. QED BY <1>1, <1>2, Zenon DEF rmq_snapshot_publish

\* A command leaves the record alone, or forgets it with the bridge.
LEMMA CommandKeeps ==
    ASSUME NEW o, NEW s, "keys" \in DOMAIN s, ask \in MqCommands, rmq_cmd_handle(o, s)
    PROVE  "keys" \in DOMAIN b' /\ (b'.keys = s.keys \/ b'.keys = {})
<1>1. CASE ask = "bad" \/ (ask = "snapshot" /\ ~world.setup.snapshot)
  <2>1. b' = s BY <1>1 DEF rmq_cmd_handle
  <2>2. QED BY <2>1
<1>2. CASE ask = "reboot"
  <2>1. do_reboot(o, s) BY <1>2, Zenon DEF rmq_cmd_handle
  <2>3. CASE b' = [Boot EXCEPT !.cred = world.cred, !.addr = s.addr] BY <2>3 DEF Boot
  <2>4. CASE b' = rmq_mqtt_publish(o, s) BY <2>4, PublishKeeps, Zenon
  <2>5. QED BY <2>1, <2>3, <2>4, Zenon DEF do_reboot
<1>3. CASE ask = "snapshot" /\ world.setup.snapshot
  <2>1. rmq_snapshot_publish(o, s) BY <1>3 DEF rmq_cmd_handle
  <2>2. QED BY <2>1, SnapKeeps
<1>4. CASE ask = "set"
  <2>1. relay(s) BY <1>4, Zenon DEF rmq_cmd_handle
  <2>2. b' = s \/ \E c \in 1..2 : b' = [s EXCEPT !.cred = c] BY <2>1, Zenon DEF relay
  <2>3. QED BY <2>2
<1>5. QED BY <1>1, <1>2, <1>3, <1>4, Zenon DEF MqCommands

AskTyped == ask \in MqCommands \cup {"none"}
LEMMA AskStep == AskTyped /\ [MqNext]_mqvars => AskTyped'
<1> SUFFICES ASSUME AskTyped, [MqNext]_mqvars PROVE AskTyped' OBVIOUS
<1>1. ask' = ask \/ ask' = "none" \/ ask' \in MqCommands
  BY Zenon DEF MqNext, Serve, Connect, MqLoop, Poll, Snap, Rediscover, MqRestart, Camera, Send, LinkBreaks,
        WillSpoken, BrokerStops, BrokerReturns, HaRejoins, mqvars
<1>2. QED BY <1>1 DEF AskTyped

LEMMA RecordStep ==
    ASSUME RecordHeld, AskTyped, [MqNext]_mqvars
    PROVE  RecordHeld'
<1>0. "keys" \in DOMAIN b /\ {"has", "refused"} \subseteq DOMAIN ha BY Zenon DEF RecordHeld
<1>1. ASSUME "keys" \in DOMAIN b', b'.keys = b.keys \/ b'.keys = {}, ha' = ha, stray => stray'
      PROVE  RecordHeld'
  <2>1. b'.keys \subseteq b.keys BY <1>1
  <2>2. QED BY <1>0, <1>1, <2>1, Zenon DEF RecordHeld
<1>2. CASE Connect
  <2>1. ha' = ha /\ stray' = stray BY <1>2, Zenon DEF Connect
  <2>2. \/ b' = [b EXCEPT !.pc = "loop"] \/ b' = [b EXCEPT !.pc = "top"]
        \/ \E a \in 1..2, sub \in BOOLEAN, o \in Outcomes("live") \cup Outcomes("dead") :
             b' = [Connected(a, sub, o) EXCEPT !.disc = FALSE]
    BY <1>2, Zenon DEF Connect, rmq_connect, connect_fails
  <2>3. "keys" \in DOMAIN b' /\ b'.keys = b.keys BY <1>0, <2>2 DEF Connected
  <2>4. QED BY <1>1, <2>1, <2>3, Zenon
<1>3. CASE MqLoop
  <2> DEFINE s == [b EXCEPT !.pc = "poll", !.poll = Closer(@), !.snap = Closer(@)]
  <2>1. "keys" \in DOMAIN s /\ s.keys = b.keys BY <1>0
  <2>2. ha' = ha /\ stray' = stray BY <1>3, Zenon DEF MqLoop
  <2>3. \/ b' = s
        \/ ask # "none" /\ \E o \in Outcomes("live") : rmq_cmd_handle(o, s)
        \/ b' = [s EXCEPT !.quiet = @ + 1]
        \/ b' = [b EXCEPT !.conn = "none", !.pc = "top"]
    BY <1>3, Zenon DEF MqLoop
  <2> HIDE DEF s
  <2>4. CASE b' = s BY <1>1, <2>1, <2>2, <2>4, Zenon
  <2>5. CASE ask # "none" /\ \E o \in Outcomes("live") : rmq_cmd_handle(o, s)
    <3>1. ask \in MqCommands BY <2>5 DEF AskTyped
    <3>2. PICK o \in Outcomes("live") : rmq_cmd_handle(o, s) BY <2>5
    <3>3. QED BY <1>1, <2>1, <2>2, <3>1, <3>2, CommandKeeps, Zenon
  <2>6. CASE b' = [s EXCEPT !.quiet = @ + 1]
    <3>1. "keys" \in DOMAIN b' /\ b'.keys = b.keys BY <2>1, <2>6
    <3>2. QED BY <1>1, <2>2, <2>6, <3>1, Zenon
  <2>7. CASE b' = [b EXCEPT !.conn = "none", !.pc = "top"]
    <3>1. "keys" \in DOMAIN b' /\ b'.keys = b.keys BY <1>0, <2>7
    <3>2. QED BY <1>1, <2>2, <2>7, <3>1, Zenon
  <2>8. QED BY <2>3, <2>4, <2>5, <2>6, <2>7
<1>4. CASE Poll
  <2>1. CASE b.poll = 0
    <3>1. \E o \in Outcomes(b.conn) : rmq_poll_cycle(o) BY <1>4, <2>1, Zenon DEF Poll
    <3>2. QED BY <3>1, PollStep
  <2>2. CASE b.poll # 0
    <3>1. b' = [b EXCEPT !.pc = "snap"] /\ ha' = ha /\ stray' = stray BY <1>4, <2>2, Zenon DEF Poll
    <3>2. "keys" \in DOMAIN b' /\ b'.keys = b.keys BY <1>0, <3>1
    <3>3. QED BY <1>1, <3>1, <3>2, Zenon
  <2>3. QED BY <2>1, <2>2
<1>5. CASE Snap
  <2> DEFINE s == [b EXCEPT !.pc = "top"]
  <2>1. "keys" \in DOMAIN s /\ s.keys = b.keys BY <1>0
  <2>2. ha' = ha /\ stray' = stray BY <1>5, Zenon DEF Snap
  <2>3. (\E o \in Outcomes(b.conn) : rmq_snapshot_publish(o, s)) \/ b' = s BY <1>5, Zenon DEF Snap
  <2> HIDE DEF s
  <2>4. "keys" \in DOMAIN b' /\ b'.keys = s.keys
    <3>1. CASE \E o \in Outcomes(b.conn) : rmq_snapshot_publish(o, s) BY <2>1, <3>1, SnapKeeps
    <3>2. CASE b' = s BY <2>1, <3>2, Zenon
    <3>3. QED BY <2>3, <3>1, <3>2
  <2>5. QED BY <1>1, <2>1, <2>2, <2>4, Zenon
<1>6. CASE Rediscover
  <2>1. PICK o \in Outcomes(b.conn) :
          /\ b' = [rmq_mqtt_publish(o, b) EXCEPT !.keys = {}, !.disc = FALSE] /\ stray' = (stray /\ o # "ok")
          /\ ha' = IF o = "ok" THEN MqLearn(ha, NoDoc) ELSE ha
    BY <1>6, Zenon DEF Rediscover, rmq_ha_clear_discovery
  <2> DEFINE t == rmq_mqtt_publish(o, b)
  <2>2. "keys" \in DOMAIN t BY <1>0, PublishKeeps, Zenon
  <2>3. b' = [t EXCEPT !.keys = {}, !.disc = FALSE] BY <2>1, Zenon
  <2> HIDE DEF t
  <2>4. "keys" \in DOMAIN b' /\ b'.keys = {} BY <2>2, <2>3
  <2>6. CASE o # "ok"
    <3>1. ha' = ha /\ (stray => stray') BY <2>1, <2>6, Zenon
    <3>2. QED BY <1>1, <2>4, <3>1, Zenon
  <2>7. CASE o = "ok"
    <3>1. ha' = [has |-> {}, refused |-> FALSE] BY <2>1, <2>7, Zenon DEF MqLearn
    <3>2. {"has", "refused"} \subseteq DOMAIN ha' BY <3>1
    <3>3. ~ha'.refused BY <3>1, Zenon
    <3>4. b'.keys \subseteq ha'.has BY <2>4
    <3>5. QED BY <2>4, <3>2, <3>3, <3>4, Zenon DEF RecordHeld
  <2>8. QED BY <2>6, <2>7
<1>7. CASE MqRestart
  <2>1. b' = [Boot EXCEPT !.cred = world.cred] /\ ha' = ha /\ stray' = stray BY <1>7, Zenon DEF MqRestart
  <2>2. "keys" \in DOMAIN b' /\ b'.keys = {} BY <2>1 DEF Boot
  <2>3. QED BY <1>1, <2>1, <2>2, Zenon
<1>8. CASE LinkBreaks \/ BrokerStops
  <2>1. ha' = ha /\ stray' = stray BY <1>8, Zenon DEF LinkBreaks, BrokerStops
  <2>2. \E c : b' = [b EXCEPT !.conn = c] BY <1>8, Zenon DEF LinkBreaks, BrokerStops
  <2>3. "keys" \in DOMAIN b' /\ b'.keys = b.keys BY <1>0, <2>2
  <2>4. QED BY <1>1, <2>1, <2>3, Zenon
<1>9. CASE Camera \/ Send \/ WillSpoken \/ BrokerReturns \/ UNCHANGED mqvars
  <2>1. b' = b /\ ha' = ha /\ stray' = stray
    BY <1>9, Zenon DEF Camera, Send, WillSpoken, BrokerReturns, mqvars
  <2>2. QED BY <1>0, <1>1, <2>1, Zenon
<1>10. CASE HaRejoins
  <2>1. b' = b BY <1>10, Zenon DEF HaRejoins
  <2>2. stray' = (stray \/ ha'.refused \/ ~(b.keys \subseteq ha'.has)) BY <1>10, Zenon DEF HaRejoins
  <2>3. {"has", "refused"} \subseteq DOMAIN ha'
    <3>1. PICK h \in {ha, [has |-> {}, refused |-> FALSE]} : ha' = IF br.doc = NoDoc THEN h ELSE MqLearn(h, br.doc)
      BY <1>10, Zenon DEF HaRejoins
    <3>2. {"has", "refused"} \subseteq DOMAIN h BY <1>0
    <3>3. QED BY <3>1, <3>2, LearnKeepsFields, Zenon
  <2>4. QED BY <1>0, <2>1, <2>2, <2>3, Zenon DEF RecordHeld
<1>11. QED BY <1>2, <1>3, <1>4, <1>5, <1>6, <1>7, <1>8, <1>9, <1>10, Zenon DEF MqNext, Serve

-----------------------------------------------------------------------------
(* rmq's browse. *)

MdEntries == [inst : DOMAIN MdServices, host : DOMAIN MdAddr \cup {""}, port : Nat,
              addr : {MdAddr[h] : h \in DOMAIN MdAddr} \cup {""}]

\* An entry says nothing, or what its instance announced; an address it has
\* is its host's, and was heard.
Told(e, heard) ==
    /\ e.port = 0 => e.host = "" /\ e.addr = ""
    /\ e.port # 0 => e.host = MdServices[e.inst].host /\ e.port = MdServices[e.inst].port
    /\ e.addr # "" => e.host \in heard /\ e.addr = MdAddr[e.host]

MdTyped == mtab \in Seq(MdEntries)
EntriesTrue == \A k \in DOMAIN mtab : Told(mtab[k], mheard)

\* An instance is asked about when it is in the table, a host when an entry
\* names it, and an asked host that was heard has given its address to one.
AskedNamed ==
    /\ \A i \in DOMAIN MdServices \cap masked : Known(i)
    /\ \A h \in DOMAIN MdAddr \cap masked : \E k \in DOMAIN mtab : mtab[k].host = h
    /\ \A k \in DOMAIN mtab : mtab[k].port # 0 => mtab[k].host \in masked
HeardGiven ==
    \A h \in DOMAIN MdAddr \cap masked \cap mheard : \E k \in DOMAIN mtab : mtab[k].host = h /\ mtab[k].addr # ""

\* The browse's table after an answer, entry by entry.
LEMMA EntryFor ==
    ASSUME MdTyped, NEW i \in DOMAIN MdServices
    PROVE  /\ entry_for(i) \in Seq(MdEntries)
           /\ DOMAIN mtab \subseteq DOMAIN entry_for(i)
           /\ \A k \in DOMAIN mtab : entry_for(i)[k] = mtab[k]
           /\ \A k \in DOMAIN entry_for(i) \ DOMAIN mtab :
                 entry_for(i)[k] = [inst |-> i, host |-> "", port |-> 0, addr |-> ""]
<1> DEFINE e == [inst |-> i, host |-> "", port |-> 0, addr |-> ""]
<1>1. e \in MdEntries BY DEF MdEntries
<1> HIDE DEF e
<1>2. mtab \in Seq(MdEntries) BY DEF MdTyped
<1>3. CASE entry_for(i) = mtab BY <1>2, <1>3
<1>4. CASE entry_for(i) = Append(mtab, e)
  <2>1. Append(mtab, e) \in Seq(MdEntries) /\ Len(Append(mtab, e)) = Len(mtab) + 1 BY <1>1, <1>2
  <2>2. DOMAIN Append(mtab, e) = 1..(Len(mtab) + 1) /\ DOMAIN mtab = 1..Len(mtab) /\ Len(mtab) \in Nat
    BY <1>2, <2>1, LenProperties
  <2>3. /\ \A k \in 1..Len(mtab) : Append(mtab, e)[k] = mtab[k]
        /\ Append(mtab, e)[Len(mtab) + 1] = e
    BY <1>1, <1>2, AppendProperties
  <2>4. \A k \in 1..(Len(mtab) + 1) : k \notin 1..Len(mtab) => k = Len(mtab) + 1 BY <2>2
  <2>5. /\ \A k \in DOMAIN mtab : Append(mtab, e)[k] = mtab[k]
        /\ \A k \in DOMAIN Append(mtab, e) \ DOMAIN mtab : Append(mtab, e)[k] = e
        /\ DOMAIN mtab \subseteq DOMAIN Append(mtab, e)
    BY <2>2, <2>3, <2>4
  <2>6. QED BY <1>4, <2>1, <2>5, Zenon DEF e
<1>5. QED BY <1>3, <1>4, Zenon DEF entry_for, e

LEMMA OnSrv ==
    ASSUME NEW t \in Seq(MdEntries), NEW i \in DOMAIN MdServices
    PROVE  /\ on_srv(t, i) \in Seq(MdEntries) /\ DOMAIN on_srv(t, i) = DOMAIN t
           /\ \A k \in DOMAIN t :
                 LET e == on_srv(t, i)[k] IN
                 /\ e.inst = t[k].inst /\ e.addr = t[k].addr
                 /\ t[k].inst = i => e.host = MdServices[i].host /\ e.port = MdServices[i].port
                 /\ t[k].inst # i => e = t[k]
<1>1. MdServices[i].host \in DOMAIN MdAddr /\ MdServices[i].port \in Nat BY MdConstants
<1>2. \A k \in DOMAIN t : t[k] \in MdEntries OBVIOUS
<1> DEFINE F(e) == IF e.inst = i THEN [e EXCEPT !.port = MdServices[i].port, !.host = MdServices[i].host] ELSE e
<1>3. ASSUME NEW e \in MdEntries
      PROVE  /\ F(e) \in MdEntries /\ F(e).inst = e.inst /\ F(e).addr = e.addr
             /\ e.inst = i => F(e).host = MdServices[i].host /\ F(e).port = MdServices[i].port
             /\ e.inst # i => F(e) = e
  <2>1. CASE e.inst = i
    <3> DEFINE p == MdServices[i].port
               h == MdServices[i].host
    <3>1. F(e) = [e EXCEPT !.port = p, !.host = h] BY <2>1, Zenon
    <3> HIDE DEF p, h, F
    <3>2. p \in Nat /\ h \in DOMAIN MdAddr \cup {""} BY <1>1 DEF p, h
    <3>3. F(e) \in MdEntries BY <3>1, <3>2, Zenon DEF MdEntries
    <3>4. F(e).inst = e.inst /\ F(e).addr = e.addr /\ F(e).host = h /\ F(e).port = p BY <3>1, Zenon DEF MdEntries
    <3>5. QED BY <2>1, <3>3, <3>4 DEF p, h
  <2>2. CASE e.inst # i
    <3>1. F(e) = e BY <2>2, Zenon
    <3> HIDE DEF F
    <3>2. QED BY <2>2, <3>1
  <2>3. QED BY <2>1, <2>2
<1>4. on_srv(t, i) = [k \in DOMAIN t |-> F(t[k])] BY Zenon DEF on_srv
<1> HIDE DEF F
<1>5. DOMAIN on_srv(t, i) = DOMAIN t /\ \A k \in DOMAIN t : on_srv(t, i)[k] = F(t[k]) BY <1>4
<1>6. on_srv(t, i) \in Seq(MdEntries)
  <2>1. DOMAIN t = 1..Len(t) /\ Len(t) \in Nat BY LenProperties
  <2>2. \A k \in 1..Len(t) : F(t[k]) \in MdEntries BY <1>2, <1>3, <2>1
  <2>3. QED BY <1>4, <2>1, <2>2, IsASeq
<1>7. QED BY <1>2, <1>3, <1>5, <1>6

LEMMA OnA ==
    ASSUME NEW t \in Seq(MdEntries), NEW h \in DOMAIN MdAddr
    PROVE  /\ on_a(t, h) \in Seq(MdEntries) /\ DOMAIN on_a(t, h) = DOMAIN t
           /\ \A k \in DOMAIN t :
                 LET e == on_a(t, h)[k] IN
                 /\ e.inst = t[k].inst /\ e.host = t[k].host /\ e.port = t[k].port
                 /\ t[k].host = h => e.addr = MdAddr[h]
                 /\ t[k].host # h => e = t[k]
<1>2. \A k \in DOMAIN t : t[k] \in MdEntries OBVIOUS
<1> DEFINE F(e) == IF e.host = h THEN [e EXCEPT !.addr = MdAddr[h]] ELSE e
<1>3. ASSUME NEW e \in MdEntries
      PROVE  /\ F(e) \in MdEntries /\ F(e).inst = e.inst /\ F(e).host = e.host /\ F(e).port = e.port
             /\ e.host = h => F(e).addr = MdAddr[h]
             /\ e.host # h => F(e) = e
  <2>1. CASE e.host = h
    <3> DEFINE a == MdAddr[h]
    <3>1. F(e) = [e EXCEPT !.addr = a] BY <2>1, Zenon
    <3>2. a \in {MdAddr[j] : j \in DOMAIN MdAddr} \cup {""} OBVIOUS
    <3> HIDE DEF a, F
    <3>3. F(e) \in MdEntries BY <3>1, <3>2, Zenon DEF MdEntries
    <3>4. F(e).inst = e.inst /\ F(e).host = e.host /\ F(e).port = e.port /\ F(e).addr = a
      BY <3>1, Zenon DEF MdEntries
    <3>5. QED BY <2>1, <3>3, <3>4 DEF a
  <2>2. CASE e.host # h
    <3>1. F(e) = e BY <2>2, Zenon
    <3> HIDE DEF F
    <3>2. QED BY <2>2, <3>1
  <2>3. QED BY <2>1, <2>2
<1>4. on_a(t, h) = [k \in DOMAIN t |-> F(t[k])] BY Zenon DEF on_a
<1> HIDE DEF F
<1>5. DOMAIN on_a(t, h) = DOMAIN t /\ \A k \in DOMAIN t : on_a(t, h)[k] = F(t[k]) BY <1>4
<1>6. on_a(t, h) \in Seq(MdEntries)
  <2>1. DOMAIN t = 1..Len(t) /\ Len(t) \in Nat BY LenProperties
  <2>2. \A k \in 1..Len(t) : F(t[k]) \in MdEntries BY <1>2, <1>3, <2>1
  <2>3. QED BY <1>4, <2>1, <2>2, IsASeq
<1>7. QED BY <1>2, <1>3, <1>5, <1>6

\* The least index of a set of indices exists.
LEMMA LeastIndex ==
    ASSUME NEW I, I \subseteq Nat, I # {}
    PROVE  Min(I) \in I
<1>1. I \in SUBSET Nat OBVIOUS
<1>2. QED BY <1>1, SmallestNumber

LEMMA FindBroker ==
    ASSUME MdTyped
    PROVE  LET n == rmq_mdns_find_broker(mtab) IN
           IF \E k \in DOMAIN mtab : resolved(mtab[k]) THEN n > 0 /\ n \in DOMAIN mtab /\ resolved(mtab[n])
           ELSE n = 0
<1> DEFINE I == {i \in 1..Len(mtab) : resolved(mtab[i])}
<1>1. DOMAIN mtab = 1..Len(mtab) /\ Len(mtab) \in Nat BY LenProperties DEF MdTyped
<1>2. rmq_mdns_find_broker(mtab) = IF I # {} THEN Min(I) ELSE 0
  BY Zenon DEF rmq_mdns_find_broker, SelectInSeq
<1>3. CASE I # {}
  <2>1. I \subseteq Nat BY <1>1
  <2>2. Min(I) \in I BY <1>3, <2>1, LeastIndex
  <2>3. QED BY <1>1, <1>2, <1>3, <2>2
<1>4. CASE I = {}
  <2>1. ~(\E k \in DOMAIN mtab : resolved(mtab[k])) BY <1>1, <1>4
  <2>2. QED BY <1>2, <1>4, <2>1
<1>5. QED BY <1>3, <1>4

BrowseInv == MdTyped /\ EntriesTrue /\ AskedNamed /\ HeardGiven /\ BrokerFound

LEMMA BrowseStart == MdInit => BrowseInv
<1> SUFFICES ASSUME MdInit PROVE BrowseInv OBVIOUS
<1>1. mtab = <<>> /\ masked = {} /\ mgot = [host |-> "?", port |-> 0] BY Zenon DEF MdInit
<1>2. MdTyped /\ DOMAIN mtab = {} BY <1>1 DEF MdTyped
<1>3. EntriesTrue /\ AskedNamed /\ HeardGiven BY <1>1, <1>2, Zenon DEF EntriesTrue, AskedNamed, HeardGiven
<1>4. BrokerFound BY <1>1 DEF BrokerFound
<1>5. QED BY <1>2, <1>3, <1>4 DEF BrowseInv

LEMMA PtrStep == ASSUME BrowseInv, NEW i \in DOMAIN MdServices, Ptr(i) PROVE BrowseInv'
<1> DEFINE t == entry_for(i)
           fresh == [inst |-> i, host |-> "", port |-> 0, addr |-> ""]
<1>1. /\ mtab' = t /\ mheard' = mheard /\ mgot' = mgot /\ mgot.host = "?"
      /\ masked' = IF \E k \in DOMAIN mtab' : mtab'[k].inst = i THEN masked \cup {i} ELSE masked
  BY Zenon DEF Ptr
<1>2. /\ t \in Seq(MdEntries) /\ DOMAIN mtab \subseteq DOMAIN t
      /\ \A k \in DOMAIN mtab : t[k] = mtab[k]
      /\ \A k \in DOMAIN t \ DOMAIN mtab : t[k] = fresh
  BY EntryFor, Zenon DEF BrowseInv
<1> HIDE DEF t
<1>3. MdTyped' BY <1>1, <1>2 DEF MdTyped
<1>4. \A k \in DOMAIN t : Told(t[k], mheard)
  <2>1. Told(fresh, mheard) BY DEF Told
  <2> HIDE DEF fresh
  <2>2. \A k \in DOMAIN mtab : Told(mtab[k], mheard) BY Zenon DEF BrowseInv, EntriesTrue
  <2>3. QED BY <1>2, <2>1, <2>2, Zenon
<1>5. EntriesTrue' BY <1>1, <1>4, Zenon DEF EntriesTrue
<1>6. fresh.port = 0 /\ fresh.inst = i OBVIOUS
<1> HIDE DEF fresh
<1>7. i \notin DOMAIN MdAddr BY MdConstants
<1>8. AskedNamed'
  <2>1. AskedNamed BY DEF BrowseInv
  <2>2. ASSUME NEW j \in DOMAIN MdServices \cap masked' PROVE Known(j)'
    <3>1. CASE j \in masked
      <4>1. PICK k \in DOMAIN mtab : mtab[k].inst = j BY <2>1, <2>2, <3>1, Zenon DEF AskedNamed, Known
      <4>2. k \in DOMAIN t /\ t[k].inst = j BY <1>2, <4>1
      <4>3. QED BY <1>1, <4>2, Zenon DEF Known
    <3>2. CASE j \notin masked
      <4>1. \E k \in DOMAIN mtab' : mtab'[k].inst = j BY <1>1, <2>2, <3>2
      <4>2. QED BY <4>1, Zenon DEF Known
    <3>3. QED BY <3>1, <3>2
  <2>3. ASSUME NEW h \in DOMAIN MdAddr \cap masked' PROVE \E k \in DOMAIN t : t[k].host = h
    <3>1. h \in masked BY <1>1, <1>7, <2>3
    <3>2. PICK k \in DOMAIN mtab : mtab[k].host = h BY <2>1, <2>3, <3>1, Zenon DEF AskedNamed
    <3>3. QED BY <1>2, <3>2
  <2>4. ASSUME NEW k \in DOMAIN t, t[k].port # 0 PROVE t[k].host \in masked'
    <3>1. k \in DOMAIN mtab /\ t[k] = mtab[k] BY <1>2, <1>6, <2>4
    <3>2. mtab[k].host \in masked BY <2>1, <2>4, <3>1, Zenon DEF AskedNamed
    <3>3. QED BY <1>1, <3>1, <3>2
  <2>5. QED BY <1>1, <2>2, <2>3, <2>4, Zenon DEF AskedNamed
<1>9. HeardGiven'
  <2>1. SUFFICES ASSUME NEW h \in DOMAIN MdAddr \cap masked' \cap mheard'
                 PROVE  \E k \in DOMAIN t : t[k].host = h /\ t[k].addr # ""
    BY <1>1, Zenon DEF HeardGiven
  <2>2. h \in masked /\ h \in mheard BY <1>1, <1>7, <2>1
  <2>3. PICK k \in DOMAIN mtab : mtab[k].host = h /\ mtab[k].addr # ""
    BY <2>1, <2>2 DEF BrowseInv, HeardGiven
  <2>4. QED BY <1>2, <2>3
<1>10. BrokerFound' BY <1>1, Zenon DEF BrokerFound
<1>11. QED BY <1>3, <1>5, <1>8, <1>9, <1>10 DEF BrowseInv

LEMMA AddrStep == ASSUME BrowseInv, NEW h \in DOMAIN MdAddr, Addr(h) PROVE BrowseInv'
<1>1. /\ mheard' = mheard \cup {h} /\ masked' = masked /\ mgot' = mgot /\ mgot.host = "?"
      /\ mtab' = IF h \in masked THEN on_a(mtab, h) ELSE mtab
  BY Zenon DEF Addr
<1>2. mtab \in Seq(MdEntries) BY DEF BrowseInv, MdTyped
<1>3. BrokerFound' BY <1>1, Zenon DEF BrokerFound
<1>4. AskedNamed /\ HeardGiven /\ \A k \in DOMAIN mtab : Told(mtab[k], mheard)
  BY Zenon DEF BrowseInv, EntriesTrue
<1>5. MdAddr[h] # "" BY MdConstants
<1>6. CASE h \in masked
  <2> DEFINE t == on_a(mtab, h)
  <2>1. mtab' = t BY <1>1, <1>6
  <2>2. /\ t \in Seq(MdEntries) /\ DOMAIN t = DOMAIN mtab
        /\ \A k \in DOMAIN mtab :
             /\ t[k].inst = mtab[k].inst /\ t[k].host = mtab[k].host /\ t[k].port = mtab[k].port
             /\ mtab[k].host = h => t[k].addr = MdAddr[h]
             /\ mtab[k].host # h => t[k] = mtab[k]
    BY <1>2, OnA, Zenon
  <2> HIDE DEF t
  <2>3. MdTyped' BY <2>1, <2>2 DEF MdTyped
  <2>4. ASSUME NEW k \in DOMAIN t PROVE Told(t[k], mheard')
    <3>1. Told(mtab[k], mheard) BY <1>4, <2>2
    <3>2. CASE mtab[k].host = h
      <4>1. mtab[k].host # "" BY <3>2, MdConstants
      <4>2. QED BY <1>1, <2>2, <3>1, <3>2, <4>1 DEF Told
    <3>3. CASE mtab[k].host # h
      <4>1. t[k] = mtab[k] BY <2>2, <3>3
      <4>2. QED BY <1>1, <3>1, <4>1 DEF Told
    <3>4. QED BY <3>2, <3>3
  <2>5. EntriesTrue' BY <2>1, <2>4, Zenon DEF EntriesTrue
  <2>6. AskedNamed'
    <3>1. ASSUME NEW i \in DOMAIN MdServices \cap masked PROVE \E k \in DOMAIN t : t[k].inst = i
      BY <1>4, <2>2, <3>1 DEF AskedNamed, Known
    <3>2. ASSUME NEW g \in DOMAIN MdAddr \cap masked PROVE \E k \in DOMAIN t : t[k].host = g
      BY <1>4, <2>2, <3>2 DEF AskedNamed
    <3>3. ASSUME NEW k \in DOMAIN t, t[k].port # 0 PROVE t[k].host \in masked
      BY <1>4, <2>2, <3>3 DEF AskedNamed
    <3>4. QED BY <1>1, <2>1, <3>1, <3>2, <3>3, Zenon DEF AskedNamed, Known
  <2>7. ASSUME NEW g \in DOMAIN MdAddr \cap masked' \cap mheard'
        PROVE  \E k \in DOMAIN t : t[k].host = g /\ t[k].addr # ""
    <3>1. CASE g = h
      <4>1. PICK k \in DOMAIN mtab : mtab[k].host = h BY <1>4, <1>6, Zenon DEF AskedNamed
      <4>2. QED BY <1>5, <2>2, <3>1, <4>1
    <3>2. CASE g # h
      <4>1. g \in masked /\ g \in mheard BY <1>1, <2>7, <3>2
      <4>2. PICK k \in DOMAIN mtab : mtab[k].host = g /\ mtab[k].addr # "" BY <1>4, <2>7, <4>1 DEF HeardGiven
      <4>3. QED BY <2>2, <3>2, <4>2
    <3>3. QED BY <3>1, <3>2
  <2>8. HeardGiven' BY <2>1, <2>7, Zenon DEF HeardGiven
  <2>9. QED BY <1>3, <2>3, <2>5, <2>6, <2>8 DEF BrowseInv
<1>7. CASE h \notin masked
  <2>1. mtab' = mtab BY <1>1, <1>7
  <2>2. MdTyped' BY <1>2, <2>1 DEF MdTyped
  <2>3. ASSUME NEW k \in DOMAIN mtab PROVE Told(mtab[k], mheard')
    BY <1>1, <1>4 DEF Told
  <2>4. EntriesTrue' BY <2>1, <2>3, Zenon DEF EntriesTrue
  <2>5. AskedNamed' BY <1>1, <1>4, <2>1, Zenon DEF AskedNamed, Known
  <2>6. HeardGiven'
    <3>1. DOMAIN MdAddr \cap masked' \cap mheard' \subseteq DOMAIN MdAddr \cap masked \cap mheard BY <1>1, <1>7
    <3>2. QED BY <1>4, <2>1, <3>1, Zenon DEF HeardGiven
  <2>7. QED BY <1>3, <2>2, <2>4, <2>5, <2>6 DEF BrowseInv
<1>8. QED BY <1>6, <1>7

LEMMA SrvStep == ASSUME BrowseInv, NEW i \in DOMAIN MdServices, Srv(i) PROVE BrowseInv'
<1> DEFINE h == MdServices[i].host
           p == MdServices[i].port
           s == on_srv(mtab, i)
           t == AskHost(s, h)
<1>1. AskedNamed /\ HeardGiven /\ \A k \in DOMAIN mtab : Told(mtab[k], mheard)
  BY Zenon DEF BrowseInv, EntriesTrue
<1>2. i \in masked /\ mgot.host = "?" /\ mgot' = mgot /\ mheard' = mheard BY Zenon DEF Srv
<1>3. PICK own \in DOMAIN mtab : mtab[own].inst = i BY <1>1, <1>2, Zenon DEF AskedNamed, Known
<1>4. entry_for(i) = mtab BY <1>3, Zenon DEF entry_for, Known
<1>5. mtab' = t /\ masked' = masked \cup {h} BY <1>4, Zenon DEF Srv
<1>6. mtab \in Seq(MdEntries) BY DEF BrowseInv, MdTyped
<1>7. h \in DOMAIN MdAddr /\ h # "" /\ p # 0 /\ MdAddr[h] # "" /\ h \notin DOMAIN MdServices BY MdConstants
<1>8. /\ s \in Seq(MdEntries) /\ DOMAIN s = DOMAIN mtab
      /\ \A k \in DOMAIN mtab :
           /\ s[k].inst = mtab[k].inst /\ s[k].addr = mtab[k].addr
           /\ mtab[k].inst = i => s[k].host = h /\ s[k].port = p
           /\ mtab[k].inst # i => s[k] = mtab[k]
  BY <1>6, OnSrv, Zenon
<1> HIDE DEF s
<1>9. t = s \/ (h \notin masked /\ h \in mheard /\ t = on_a(s, h)) BY Zenon DEF AskHost
<1>10. h \notin masked /\ h \in mheard => t = on_a(s, h) BY Zenon DEF AskHost
<1>11. /\ on_a(s, h) \in Seq(MdEntries) /\ DOMAIN on_a(s, h) = DOMAIN s
       /\ \A k \in DOMAIN s :
             /\ on_a(s, h)[k].inst = s[k].inst /\ on_a(s, h)[k].host = s[k].host /\ on_a(s, h)[k].port = s[k].port
             /\ s[k].host = h => on_a(s, h)[k].addr = MdAddr[h]
             /\ s[k].host # h => on_a(s, h)[k] = s[k]
  BY <1>7, <1>8, OnA, Zenon
<1> HIDE DEF t
\* What the answer leaves of every entry.
<1>12. t \in Seq(MdEntries) /\ DOMAIN t = DOMAIN mtab BY <1>8, <1>9, <1>11
<1>13. ASSUME NEW k \in DOMAIN mtab
       PROVE  /\ t[k].inst = mtab[k].inst
              /\ mtab[k].inst = i => t[k].host = h /\ t[k].port = p
              /\ mtab[k].inst # i => t[k].host = mtab[k].host /\ t[k].port = mtab[k].port
              /\ t[k].addr = mtab[k].addr \/ (t[k].host = h /\ h \in mheard /\ t[k].addr = MdAddr[h])
  <2>1. CASE t = s BY <1>8, <2>1
  <2>2. CASE h \in mheard /\ t = on_a(s, h) BY <1>8, <1>11, <2>2
  <2>3. QED BY <1>9, <2>1, <2>2
<1>14. h \notin masked /\ h \in mheard => t[own].addr = MdAddr[h]
  BY <1>3, <1>8, <1>10, <1>11
\* An entry that named a host keeps it.
<1>15. ASSUME NEW k \in DOMAIN mtab, mtab[k].host # "" PROVE t[k].host = mtab[k].host
  <2>1. mtab[k].port # 0 BY <1>1, <1>15 DEF Told
  <2>2. mtab[k].host = MdServices[mtab[k].inst].host BY <1>1, <2>1 DEF Told
  <2>3. QED BY <1>13, <2>2 DEF h
<1>16. MdTyped' BY <1>5, <1>12 DEF MdTyped
<1>17. ASSUME NEW k \in DOMAIN mtab PROVE Told(t[k], mheard)
  <2>1. Told(mtab[k], mheard) BY <1>1
  <2>2. CASE mtab[k].inst = i
    <3>1. t[k].host = MdServices[t[k].inst].host /\ t[k].port = MdServices[t[k].inst].port /\ t[k].port # 0
      BY <1>7, <1>13, <2>2 DEF h, p
    <3>2. ASSUME t[k].addr # "" PROVE t[k].host \in mheard /\ t[k].addr = MdAddr[t[k].host]
      <4>1. CASE t[k].addr = mtab[k].addr
        <5>1. mtab[k].host \in mheard /\ mtab[k].addr = MdAddr[mtab[k].host] /\ mtab[k].port # 0
          BY <2>1, <3>2, <4>1 DEF Told
        <5>2. mtab[k].host = MdServices[i].host BY <2>1, <2>2, <5>1 DEF Told
        <5>3. QED BY <1>13, <2>2, <4>1, <5>1, <5>2 DEF h
      <4>2. CASE t[k].host = h /\ h \in mheard /\ t[k].addr = MdAddr[h] BY <4>2
      <4>3. QED BY <1>13, <4>1, <4>2
    <3>3. QED BY <3>1, <3>2 DEF Told
  <2>3. CASE mtab[k].inst # i
    <3>1. t[k].inst = mtab[k].inst /\ t[k].host = mtab[k].host /\ t[k].port = mtab[k].port BY <1>13, <2>3
    <3>2. CASE t[k].addr = mtab[k].addr BY <2>1, <3>1, <3>2 DEF Told
    <3>3. CASE t[k].host = h /\ h \in mheard /\ t[k].addr = MdAddr[h] BY <1>7, <2>1, <3>1, <3>3 DEF Told
    <3>4. QED BY <1>13, <3>2, <3>3
  <2>4. QED BY <2>2, <2>3
<1>18. EntriesTrue' BY <1>2, <1>5, <1>12, <1>17, Zenon DEF EntriesTrue
<1>19. AskedNamed'
  <2>1. ASSUME NEW j \in DOMAIN MdServices \cap masked' PROVE Known(j)'
    <3>1. j \in masked BY <1>5, <1>7, <2>1
    <3>2. PICK k \in DOMAIN mtab : mtab[k].inst = j BY <1>1, <2>1, <3>1, Zenon DEF AskedNamed, Known
    <3>3. k \in DOMAIN t /\ t[k].inst = j BY <1>12, <1>13, <3>2
    <3>4. QED BY <1>5, <3>3, Zenon DEF Known
  <2>2. ASSUME NEW g \in DOMAIN MdAddr \cap masked' PROVE \E k \in DOMAIN t : t[k].host = g
    <3>1. CASE g = h BY <1>3, <1>12, <1>13, <3>1
    <3>2. CASE g # h
      <4>1. g \in masked /\ g # "" BY <1>5, <2>2, <3>2, MdConstants
      <4>2. PICK k \in DOMAIN mtab : mtab[k].host = g BY <1>1, <2>2, <4>1, Zenon DEF AskedNamed
      <4>3. QED BY <1>12, <1>15, <4>1, <4>2
    <3>3. QED BY <3>1, <3>2
  <2>3. ASSUME NEW k \in DOMAIN t, t[k].port # 0 PROVE t[k].host \in masked'
    <3>1. CASE mtab[k].inst = i BY <1>5, <1>12, <1>13, <3>1
    <3>2. CASE mtab[k].inst # i
      <4>1. t[k].host = mtab[k].host /\ mtab[k].port # 0 BY <1>12, <1>13, <2>3, <3>2
      <4>2. mtab[k].host \in masked BY <1>1, <1>12, <2>3, <4>1, Zenon DEF AskedNamed
      <4>3. QED BY <1>5, <4>1, <4>2
    <3>3. QED BY <3>1, <3>2
  <2>4. QED BY <1>5, <2>1, <2>2, <2>3, Zenon DEF AskedNamed
<1>20. HeardGiven'
  <2>1. SUFFICES ASSUME NEW g \in DOMAIN MdAddr \cap masked' \cap mheard'
                 PROVE  \E k \in DOMAIN t : t[k].host = g /\ t[k].addr # ""
    BY <1>5, Zenon DEF HeardGiven
  <2>2. g \in mheard /\ g # "" BY <1>2, <2>1, MdConstants
  <2>3. CASE g \in masked
    <3>1. PICK k \in DOMAIN mtab : mtab[k].host = g /\ mtab[k].addr # "" BY <1>1, <2>1, <2>2, <2>3 DEF HeardGiven
    <3>2. t[k].host = g BY <1>15, <2>2, <3>1
    <3>3. t[k].addr # "" BY <1>7, <1>13, <3>1
    <3>4. QED BY <1>12, <3>1, <3>2, <3>3
  <2>4. CASE g \notin masked
    <3>1. g = h BY <1>5, <2>1, <2>4
    <3>2. t[own].host = h /\ t[own].addr # "" BY <1>3, <1>7, <1>13, <1>14, <2>2, <2>4, <3>1
    <3>3. QED BY <1>3, <1>12, <3>1, <3>2
  <2>5. QED BY <2>3, <2>4
<1>21. BrokerFound' BY <1>2, Zenon DEF BrokerFound
<1>22. QED BY <1>16, <1>18, <1>19, <1>20, <1>21 DEF BrowseInv

\* The deadline: the entry chosen is resolved, so it is an announced broker;
\* none is when no described instance's host was heard.
LEMMA ResolveStep == ASSUME BrowseInv, resolve_broker PROVE BrowseInv'
<1> DEFINE n == rmq_mdns_find_broker(mtab)
           Port(v) == IF mcfg.port = 0 THEN v ELSE mcfg.port
<1>1. mtab' = mtab /\ masked' = masked /\ mheard' = mheard /\ mcfg' = mcfg BY Zenon DEF resolve_broker
<1>2. AskedNamed /\ HeardGiven /\ \A k \in DOMAIN mtab : Told(mtab[k], mheard)
  BY Zenon DEF BrowseInv, EntriesTrue
<1>3. \A k \in DOMAIN mtab : mtab[k] \in MdEntries
  <2>1. mtab \in Seq(MdEntries) BY DEF BrowseInv, MdTyped
  <2>2. QED BY <2>1
<1>4. MdTyped' /\ EntriesTrue' /\ AskedNamed' /\ HeardGiven'
  BY <1>1, ZenonT(60) DEF BrowseInv, MdTyped, EntriesTrue, AskedNamed, HeardGiven, Known
<1> DEFINE Described(i) == \E k \in DOMAIN mtab : mtab[k].inst = i /\ mtab[k].port # 0 /\ MdServices[i].host \in mheard
           Is(i) == mgot'.host = MdAddr[MdServices[i].host]
                     /\ mgot'.port = (IF mcfg.port = 0 THEN MdServices[i].port ELSE mcfg.port)
<1>5. SUFFICES ASSUME ~mcfg.host
               PROVE  IF \E i \in DOMAIN MdServices : Described(i)
                      THEN \E i \in DOMAIN MdServices : Described(i) /\ Is(i)
                      ELSE mgot'.host = RMQ_BROKER_FALLBACK
  BY <1>1, <1>4, Zenon DEF BrowseInv, BrokerFound
<1>6. IF \E k \in DOMAIN mtab : resolved(mtab[k]) THEN n > 0 /\ n \in DOMAIN mtab /\ resolved(mtab[n]) ELSE n = 0
  BY FindBroker, Zenon DEF BrowseInv
<1>7. mgot' = IF n > 0 THEN [host |-> mtab[n].addr, port |-> Port(mtab[n].port)]
              ELSE [host |-> RMQ_BROKER_FALLBACK, port |-> Port(RMQ_BROKER_PORT)]
  BY <1>5, Zenon DEF resolve_broker
<1> HIDE DEF n
<1>8. CASE \E k \in DOMAIN mtab : resolved(mtab[k])
  <2>1. n \in DOMAIN mtab /\ mtab[n].addr # "" /\ mtab[n].port # 0 /\ n > 0 BY <1>6, <1>8 DEF resolved
  <2> DEFINE i == mtab[n].inst
  <2>2. i \in DOMAIN MdServices
    <3>1. mtab[n] \in MdEntries BY <1>3, <2>1, Zenon
    <3>2. QED BY <3>1 DEF MdEntries
  <2>3. /\ mtab[n].host = MdServices[i].host /\ mtab[n].port = MdServices[i].port
        /\ mtab[n].host \in mheard /\ mtab[n].addr = MdAddr[mtab[n].host]
    BY <1>2, <2>1 DEF Told
  <2>4. mgot' = [host |-> mtab[n].addr, port |-> Port(mtab[n].port)] BY <1>7, <2>1
  <2>5. mgot'.host = mtab[n].addr /\ mgot'.port = Port(mtab[n].port) BY <2>4, Zenon
  <2>6. Is(i) BY <2>3, <2>5, Zenon
  <2>7. Described(i) BY <2>1, <2>3
  <2> HIDE DEF Described, Is, i
  <2>8. QED BY <2>2, <2>6, <2>7, Zenon
<1>9. CASE ~(\E k \in DOMAIN mtab : resolved(mtab[k]))
  <2>1. mgot' = [host |-> RMQ_BROKER_FALLBACK, port |-> Port(RMQ_BROKER_PORT)] BY <1>6, <1>7, <1>9
  <2>2. mgot'.host = RMQ_BROKER_FALLBACK BY <2>1, Zenon
  <2>3. ASSUME NEW i \in DOMAIN MdServices, Described(i) PROVE FALSE
    <3>1. PICK k \in DOMAIN mtab : mtab[k].inst = i /\ mtab[k].port # 0 /\ MdServices[i].host \in mheard BY <2>3, Zenon
    <3>2. mtab[k].host \in masked /\ mtab[k].host = MdServices[i].host BY <1>2, <3>1 DEF Told, AskedNamed
    <3>3. MdServices[i].host \in DOMAIN MdAddr BY MdConstants
    <3>4. PICK j \in DOMAIN mtab : mtab[j].host = MdServices[i].host /\ mtab[j].addr # ""
      BY <1>2, <3>1, <3>2, <3>3 DEF HeardGiven
    <3>5. mtab[j].port # 0 BY <1>2, <3>4 DEF Told
    <3>6. QED BY <1>9, <3>4, <3>5 DEF resolved
  <2> HIDE DEF Described, Is
  <2>4. QED BY <2>2, <2>3, Zenon
<1>10. QED BY <1>8, <1>9

LEMMA BrowseStep == BrowseInv /\ [MdNext]_mdvars => BrowseInv'
<1> SUFFICES ASSUME BrowseInv, [MdNext]_mdvars PROVE BrowseInv' OBVIOUS
<1>1. CASE UNCHANGED mdvars
  BY <1>1, ZenonT(60) DEF mdvars, BrowseInv, MdTyped, EntriesTrue, AskedNamed, HeardGiven, Known, BrokerFound
<1>2. QED BY <1>1, PtrStep, SrvStep, AddrStep, ResolveStep, Zenon DEF MdNext

-----------------------------------------------------------------------------
(* An interface file, read line by line.                                   *)
Spelling == STRING \cup Owned \cup {"iface", "own", "dhcp", "static"}
Lines == [w : Spelling, v : Spelling]
Places == {"before", "in", "after"}
Reads == [at : Places, own : [Owned -> Seq(Spelling)], rest : Seq(Lines)]

LEMMA DirectiveLine == ASSUME NEW d \in Spelling, NEW v \in Spelling PROVE Directive(d, v) \in Lines /\ Directive(d, v).w = d /\ Directive(d, v).v = v
BY DEF Directive, Lines

LEMMA OwnLine == Directive("iface", "own") \in Lines
<1>1. "iface" \in Spelling /\ "own" \in Spelling BY Zenon DEF Spelling
<1>2. QED BY <1>1, Zenon DEF Directive, Lines

LEMMA OwnedLine ==
    ASSUME NEW r, NEW l, l.w # "", l.w # "iface", r.at = "in", l.w \in Owned
    PROVE  ReadLine(r, l) = [r EXCEPT !.own = [r.own EXCEPT ![l.w] = Append(r.own[l.w], l.v)]]
BY Zenon DEF ReadLine

LEMMA UnreadTyped == Unread \in Reads
<1>1. [d \in Owned |-> <<>>] \in [Owned -> Seq(Spelling)] OBVIOUS
<1>2. QED BY <1>1 DEF Unread, Reads, Places

\* The fields of a reading, one line on.
ReadOn(r, l, n) ==
    /\ n \in Reads
    /\ l.w = "" => n = r
    /\ l.w = "iface" => n.own = r.own /\ n.at = (IF r.at = "before" THEN "in" ELSE "after")
                         /\ n.rest = Append(r.rest, IF r.at = "before" THEN Directive("iface", "own") ELSE l)
    /\ l.w \in Owned /\ r.at = "in" => n.at = r.at /\ n.rest = r.rest /\ n.own = [r.own EXCEPT ![l.w] = Append(r.own[l.w], l.v)]
    /\ l.w \notin {"", "iface"} /\ ~(l.w \in Owned /\ r.at = "in") => n.at = r.at /\ n.own = r.own /\ n.rest = Append(r.rest, l)

LEMMA ReadLineIs == ASSUME NEW r \in Reads, NEW l \in Lines PROVE ReadOn(r, l, ReadLine(r, l))
<1>1. PICK a \in Places, o \in [Owned -> Seq(Spelling)], u \in Seq(Lines) : r = [at |-> a, own |-> o, rest |-> u]
  BY Zenon DEF Reads
<1>2. r.at = a /\ r.own = o /\ r.rest = u BY <1>1
<1>3. l.w \in Spelling /\ l.v \in Spelling BY DEF Lines
<1>4. PICK n : n = ReadLine(r, l) OBVIOUS
<1>5. CASE l.w = ""
  <2>1. n = r BY <1>4, <1>5, Zenon DEF ReadLine
  <2>2. "" \notin Owned /\ "" # "iface" BY DEF Owned
  <2>3. QED BY <1>4, <1>5, <2>1, <2>2, Zenon DEF ReadOn
<1>6. CASE l.w = "iface"
  <2>1. PICK x : x = IF a = "before" THEN Directive("iface", "own") ELSE l OBVIOUS
  <2>2. x \in Lines
    <3>1. Directive("iface", "own") \in Lines BY OwnLine
    <3>2. QED BY <2>1, <3>1, Zenon
  <2>3. PICK z \in Places : z = IF a = "before" THEN "in" ELSE "after" BY DEF Places
  <2>4. "iface" # "" /\ "iface" \notin Owned BY DEF Owned
  <2>5. PICK t : t = Append(u, x) OBVIOUS
  <2>6. n = [at |-> z, own |-> o, rest |-> t] BY <1>2, <1>4, <1>6, <2>1, <2>3, <2>4, <2>5, Zenon DEF ReadLine
  <2>7. t \in Seq(Lines) BY <2>2, <2>5
  <2>8. n \in Reads BY <2>6, <2>7, Zenon DEF Reads
  <2>9. n.at = z /\ n.own = o /\ n.rest = t BY <2>6
  <2>10. QED BY <1>2, <1>4, <1>6, <2>1, <2>3, <2>4, <2>5, <2>8, <2>9, Zenon DEF ReadOn
<1>7. CASE l.w \in Owned /\ a = "in"
  <2>1. PICK p : p = [o EXCEPT ![l.w] = Append(o[l.w], l.v)] OBVIOUS
  <2>2. l.w # "" /\ l.w # "iface" BY <1>7 DEF Owned
  <2>9. r.at = "in" BY <1>2, <1>7, Zenon
  <2>10. ReadLine(r, l) = [r EXCEPT !.own = [r.own EXCEPT ![l.w] = Append(r.own[l.w], l.v)]]
    BY <1>7, <2>2, <2>9, OwnedLine, Zenon
  <2>3. n = [r EXCEPT !.own = p] BY <1>2, <1>4, <2>1, <2>10, Zenon
  <2>4. n = [at |-> a, own |-> p, rest |-> u] BY <1>1, <2>3, Zenon
  <2>5. p \in [Owned -> Seq(Spelling)]
    <3>1. Append(o[l.w], l.v) \in Seq(Spelling) BY <1>3, <1>7
    <3>2. QED BY <2>1, <3>1, Zenon
  <2>6. n \in Reads BY <2>4, <2>5, Zenon DEF Reads
  <2>7. n.at = a /\ n.own = p /\ n.rest = u BY <2>4
  <2>8. QED BY <1>2, <1>4, <1>7, <2>1, <2>2, <2>6, <2>7, Zenon DEF ReadOn
<1>8. CASE l.w \notin {"", "iface"} /\ ~(l.w \in Owned /\ a = "in")
  <2>1. PICK t : t = Append(u, l) OBVIOUS
  <2>2. n = [r EXCEPT !.rest = t] BY <1>2, <1>4, <1>8, <2>1, Zenon DEF ReadLine
  <2>3. n = [at |-> a, own |-> o, rest |-> t] BY <1>1, <2>2, Zenon
  <2>4. t \in Seq(Lines) BY <2>1
  <2>5. n \in Reads BY <2>3, <2>4, Zenon DEF Reads
  <2>6. n.at = a /\ n.own = o /\ n.rest = t BY <2>3
  <2>7. QED BY <1>2, <1>4, <1>8, <2>1, <2>5, <2>6, Zenon DEF ReadOn
<1>9. QED BY <1>5, <1>6, <1>7, <1>8, Zenon

\* The reading of a file, after each of its lines.
ReadsAs(g, f) ==
    /\ g \in [0 .. Len(f) -> Reads] /\ g[0] = Unread /\ Reading(f) = g[Len(f)]
    /\ \A k \in 1 .. Len(f) : g[k] = ReadLine(g[k - 1], f[k])

LEMMA ReadingRuns == ASSUME NEW f \in Seq(Lines) PROVE \E g : ReadsAs(g, f)
<1>1. PICK n \in Nat : n = Len(f) BY LenProperties
<1>2. \A k \in 1 .. n : f[k] \in Lines BY <1>1
<1>3. PICK A : A = Reads OBVIOUS
<1>4. \A k \in 1 .. n : \A r \in A : ReadLine(r, f[k]) \in A BY <1>2, <1>3, ReadLineIs, Zenon DEF ReadOn
<1>5. PICK F : F = [k \in 1 .. n |-> [r \in A |-> ReadLine(r, f[k])]] OBVIOUS
<1>6. F \in Rounds(n, A) BY <1>4, <1>5, Zenon DEF Rounds
<1>7. PICK a \in A : a = Unread BY <1>3, UnreadTyped, Zenon
<1>8. PICK h : Iterates(h, n, A, a, F) BY <1>6, IterationExists, Zenon
<1>9. h \in [0 .. n -> A] /\ h[0] = a /\ \A k \in 1 .. n : h[k] = F[k][h[k - 1]] BY <1>8, Zenon DEF Iterates
<1>10. \A k \in 1 .. n : k - 1 \in 0 .. n /\ k \in 0 .. n /\ k # 0 OBVIOUS
<1>11. \A k \in 1 .. n : h[k] = ReadLine(h[k - 1], f[k]) BY <1>5, <1>9, <1>10, Zenon
<1>12. \A k \in 0 .. n : k = 0 \/ k \in 1 .. n OBVIOUS
<1>13. h = [k \in 0 .. n |-> IF k = 0 THEN a ELSE ReadLine(h[k - 1], f[k])] BY <1>9, <1>11, <1>12, Zenon
<1>14. PICK g : g = (CHOOSE c : c = [k \in 0 .. n |-> IF k = 0 THEN a ELSE ReadLine(c[k - 1], f[k])]) OBVIOUS
<1>15. g = [k \in 0 .. n |-> IF k = 0 THEN a ELSE ReadLine(g[k - 1], f[k])] BY <1>13, <1>14, Zenon
<1>16. Reading(f) = g[n] BY <1>1, <1>7, <1>14, Zenon DEF Reading
<1>17. PICK D : D = {k \in 0 .. n : g[k] \in A} OBVIOUS
<1>18. 0 \in 0 .. n /\ n \in 0 .. n OBVIOUS
<1>19. 0 \in D BY <1>15, <1>17, <1>18, Zenon
<1>20. \A k \in 1 .. n : g[k] = ReadLine(g[k - 1], f[k]) BY <1>10, <1>15, Zenon
<1>21. \A k \in 1 .. n : k - 1 \in D => k \in D BY <1>4, <1>10, <1>17, <1>20, Zenon
<1>22. \A k \in 0 .. n : k \in D BY <1>19, <1>21, Upto, Zenon
<1>23. g \in [0 .. n -> A] BY <1>15, <1>17, <1>22, Zenon
<1>24. g[0] = Unread BY <1>7, <1>15, <1>18, Zenon
<1>25. QED BY <1>1, <1>3, <1>16, <1>20, <1>23, <1>24, Zenon DEF ReadsAs

LEMMA ReadingTyped == ASSUME NEW f \in Seq(Lines) PROVE Reading(f) \in Reads
<1>1. PICK g : ReadsAs(g, f) BY ReadingRuns
<1>2. Len(f) \in 0 .. Len(f) BY LenProperties
<1>3. QED BY <1>1, <1>2, Zenon DEF ReadsAs

LEMMA ReadEmpty == Reading(<<>>) = Unread
<1>0. <<>> \in Seq(Lines) OBVIOUS
<1>1. PICK f \in Seq(Lines) : f = <<>> BY <1>0, Zenon
<1>2. PICK g : ReadsAs(g, f) BY ReadingRuns
<1>3. Len(f) = 0 BY <1>1
<1>4. QED BY <1>1, <1>2, <1>3, Zenon DEF ReadsAs

\* Two files that begin alike are read alike so far.
LEMMA SamePrefix ==
    ASSUME NEW f, NEW e, NEW g, NEW h, ReadsAs(g, f), ReadsAs(h, e), NEW n \in Nat, n <= Len(f), n <= Len(e),
           Len(f) \in Nat, Len(e) \in Nat, \A k \in 1 .. n : f[k] = e[k]
    PROVE  \A k \in 0 .. n : g[k] = h[k]
<1>1. PICK D : D = {k \in 0 .. n : g[k] = h[k]} OBVIOUS
<1>2. 0 \in D
  <2>1. 0 \in 0 .. n OBVIOUS
  <2>2. QED BY <1>1, <2>1, Zenon DEF ReadsAs
<1>3. ASSUME NEW k \in 1 .. n, k - 1 \in D PROVE k \in D
  <2>1. k \in 1 .. Len(f) /\ k \in 1 .. Len(e) /\ k \in 0 .. n OBVIOUS
  <2>2. g[k] = ReadLine(g[k - 1], f[k]) /\ h[k] = ReadLine(h[k - 1], e[k]) BY <2>1, Zenon DEF ReadsAs
  <2>3. g[k - 1] = h[k - 1] /\ f[k] = e[k] BY <1>1, <1>3, Zenon
  <2>4. QED BY <1>1, <2>1, <2>2, <2>3, Zenon
<1>4. \A k \in 0 .. n : k \in D BY <1>2, <1>3, Upto
<1>5. QED BY <1>1, <1>4, Zenon

LEMMA ReadAppend ==
    ASSUME NEW f \in Seq(Lines), NEW l \in Lines
    PROVE  Append(f, l) \in Seq(Lines) /\ Reading(Append(f, l)) = ReadLine(Reading(f), l)
<1>0. Append(f, l) \in Seq(Lines) OBVIOUS
<1>1. PICK e \in Seq(Lines) : e = Append(f, l) BY <1>0, Zenon
<1>2. PICK n \in Nat : n = Len(f) BY LenProperties
<1>3. Len(e) = n + 1 /\ e[n + 1] = l /\ \A k \in 1 .. n : f[k] = e[k] BY <1>1, <1>2
<1>4. PICK g : ReadsAs(g, f) BY ReadingRuns
<1>5. PICK h : ReadsAs(h, e) BY ReadingRuns
<1>6. n <= Len(f) /\ n <= Len(e) /\ Len(f) \in Nat /\ Len(e) \in Nat BY <1>2, <1>3
<1>7. \A k \in 0 .. n : g[k] = h[k] BY <1>3, <1>4, <1>5, <1>6, SamePrefix
<1>8. n + 1 \in 1 .. n + 1 /\ (n + 1) - 1 = n /\ n \in 0 .. n OBVIOUS
<1>9. h[n + 1] = ReadLine(h[n], e[n + 1])
  <2>1. h[n + 1] = ReadLine(h[(n + 1) - 1], e[n + 1]) BY <1>3, <1>5, <1>8, Zenon DEF ReadsAs
  <2>2. QED BY <1>8, <2>1, Zenon
<1>10. Reading(f) = g[n] /\ Reading(e) = h[n + 1] BY <1>2, <1>3, <1>4, <1>5, Zenon DEF ReadsAs
<1>11. QED BY <1>1, <1>3, <1>7, <1>8, <1>9, <1>10, Zenon

-----------------------------------------------------------------------------
\* What strtok_r leaves out changes nothing.
Token(u, l) == IF l.w = "" THEN u ELSE Append(u, l)

LEMMA TokensRead ==
    ASSUME NEW f \in Seq(Lines)
    PROVE  Tokens(f) \in Seq(Lines) /\ Reading(Tokens(f)) = Reading(f)
<1>1. PICK n \in Nat : n = Len(f) BY LenProperties
<1>2. \A k \in 1 .. n : f[k] \in Lines BY <1>1
<1>3. PICK A : A = Seq(Lines) OBVIOUS
<1>4. ASSUME NEW k \in 1 .. n, NEW u \in A
      PROVE  Token(u, f[k]) \in A /\ Reading(Token(u, f[k])) = ReadLine(Reading(u), f[k])
  <2>1. f[k] \in Lines /\ u \in Seq(Lines) BY <1>2, <1>3, Zenon
  <2>2. CASE f[k].w = ""
    <3>1. Token(u, f[k]) = u BY <2>2, Zenon DEF Token
    <3>2. ReadLine(Reading(u), f[k]) = Reading(u) BY <2>2, Zenon DEF ReadLine
    <3>3. QED BY <1>4, <3>1, <3>2, Zenon
  <2>3. CASE f[k].w # ""
    <3>1. Token(u, f[k]) = Append(u, f[k]) BY <2>3, Zenon DEF Token
    <3>2. QED BY <1>3, <2>1, <3>1, ReadAppend, Zenon
  <2>4. QED BY <2>2, <2>3
<1>5. PICK F : F = [k \in 1 .. n |-> [u \in A |-> Token(u, f[k])]] OBVIOUS
<1>6. F \in Rounds(n, A) BY <1>4, <1>5, Zenon DEF Rounds
<1>7. PICK a \in A : a = <<>>
  <2>1. <<>> \in Seq(Lines) OBVIOUS
  <2>2. QED BY <1>3, <2>1, Zenon
<1>8. PICK h : Iterates(h, n, A, a, F) BY <1>6, IterationExists, Zenon
<1>9. h \in [0 .. n -> A] /\ h[0] = a /\ \A k \in 1 .. n : h[k] = F[k][h[k - 1]] BY <1>8, Zenon DEF Iterates
<1>10. \A k \in 1 .. n : k - 1 \in 0 .. n /\ k \in 0 .. n /\ k # 0 OBVIOUS
<1>11. \A k \in 1 .. n : h[k] = Token(h[k - 1], f[k]) BY <1>5, <1>9, <1>10, Zenon
<1>12. \A k \in 0 .. n : k = 0 \/ k \in 1 .. n OBVIOUS
<1>13. h = [k \in 0 .. n |-> IF k = 0 THEN a ELSE Token(h[k - 1], f[k])] BY <1>9, <1>11, <1>12, Zenon
<1>14. PICK g : g = (CHOOSE c : c = [k \in 0 .. n |-> IF k = 0 THEN a ELSE Token(c[k - 1], f[k])]) OBVIOUS
<1>15. g = [k \in 0 .. n |-> IF k = 0 THEN a ELSE Token(g[k - 1], f[k])] BY <1>13, <1>14, Zenon
<1>16. Tokens(f) = g[n] BY <1>1, <1>7, <1>14, Zenon DEF Tokens, Token
<1>17. PICK e : ReadsAs(e, f) BY ReadingRuns
<1>18. e[0] = Unread /\ Reading(f) = e[n] /\ \A k \in 1 .. n : e[k] = ReadLine(e[k - 1], f[k])
  BY <1>1, <1>17, Zenon DEF ReadsAs
<1>19. PICK D : D = {k \in 0 .. n : g[k] \in A /\ Reading(g[k]) = e[k]} OBVIOUS
<1>20. 0 \in 0 .. n /\ n \in 0 .. n OBVIOUS
<1>21. g[0] = a BY <1>15, <1>20, Zenon
<1>22. 0 \in D BY <1>7, <1>18, <1>19, <1>20, <1>21, ReadEmpty, Zenon
<1>23. \A k \in 1 .. n : g[k] = Token(g[k - 1], f[k]) BY <1>10, <1>15, Zenon
<1>24. ASSUME NEW k \in 1 .. n, k - 1 \in D PROVE k \in D
  <2>1. PICK u \in A : u = g[k - 1] /\ Reading(u) = e[k - 1] BY <1>19, <1>24, Zenon
  <2>2. g[k] = Token(u, f[k]) /\ e[k] = ReadLine(Reading(u), f[k]) BY <1>18, <1>23, <2>1, Zenon
  <2>3. QED BY <1>4, <1>10, <1>19, <2>2, Zenon
<1>25. \A k \in 0 .. n : k \in D BY <1>22, <1>24, Upto, Zenon
<1>26. g[n] \in A /\ Reading(g[n]) = e[n] BY <1>19, <1>20, <1>25, Zenon
<1>27. QED BY <1>3, <1>16, <1>18, <1>26, Zenon

\* The camera's own stanza begins at the first iface line.
LEMMA StanzaBegins ==
    ASSUME NEW f \in Seq(Lines), NEW g, ReadsAs(g, f)
    PROVE  /\ IfaceAt(f) = 0 => Reading(f).at = "before"
           /\ IfaceAt(f) # 0 => /\ IfaceAt(f) \in 1 .. Len(f) /\ f[IfaceAt(f)].w = "iface"
                                /\ g[IfaceAt(f) - 1].at = "before"
<1> DEFINE I == {i \in 1 .. Len(f) : f[i].w = "iface"}
<1>1. PICK n \in Nat : n = Len(f) BY LenProperties
<1>2. IfaceAt(f) = IF I # {} THEN Min(I) ELSE 0 BY Zenon DEF IfaceAt, SelectInSeq
<1>3. g \in [0 .. n -> Reads] /\ g[0] = Unread /\ Reading(f) = g[n] /\ \A k \in 1 .. n : g[k] = ReadLine(g[k - 1], f[k])
  BY <1>1, Zenon DEF ReadsAs
<1>4. ASSUME NEW m \in 0 .. n, \A i \in 1 .. m : f[i].w # "iface" PROVE g[m].at = "before"
  <2>1. PICK D : D = {k \in 0 .. m : g[k].at = "before"} OBVIOUS
  <2>2. 0 \in D
    <3>1. 0 \in 0 .. m OBVIOUS
    <3>2. Unread.at = "before" BY DEF Unread
    <3>3. QED BY <1>3, <2>1, <3>1, <3>2, Zenon
  <2>3. ASSUME NEW k \in 1 .. m, k - 1 \in D PROVE k \in D
    <3>1. k \in 1 .. n /\ k \in 0 .. m /\ k - 1 \in 0 .. n OBVIOUS
    <3>2. PICK r \in Reads : r = g[k - 1] /\ r.at = "before" BY <1>3, <2>1, <2>3, <3>1, Zenon
    <3>3. PICK l \in Lines : l = f[k] /\ l.w # "iface" BY <1>1, <1>4, <2>3, <3>1
    <3>4. ReadOn(r, l, ReadLine(r, l)) BY ReadLineIs
    <3>5. ReadLine(r, l).at = "before"
      <4>1. CASE l.w = "" BY <3>2, <3>4, <4>1, Zenon DEF ReadOn
      <4>2. CASE l.w # ""
        <5>1. l.w \notin {"", "iface"} /\ ~(l.w \in Owned /\ r.at = "in") BY <3>2, <3>3, <4>2
        <5>2. QED BY <3>2, <3>4, <5>1, Zenon DEF ReadOn
      <4>3. QED BY <4>1, <4>2
    <3>6. QED BY <1>3, <2>1, <3>1, <3>2, <3>3, <3>5, Zenon
  <2>4. m \in Nat /\ m \in 0 .. m OBVIOUS
  <2>5. \A k \in 0 .. m : k \in D BY <2>2, <2>3, <2>4, Upto, Zenon
  <2>6. QED BY <2>1, <2>4, <2>5, Zenon
<1>5. CASE I = {}
  <2>1. IfaceAt(f) = 0 BY <1>2, <1>5, Zenon
  <2>2. n \in 0 .. n /\ \A i \in 1 .. n : f[i].w # "iface" BY <1>1, <1>5
  <2>3. QED BY <1>3, <1>4, <2>1, <2>2, Zenon
<1>6. CASE I # {}
  <2>1. I \in SUBSET Nat BY <1>1
  <2>2. Min(I) \in I /\ \A y \in I : Min(I) <= y BY <1>6, <2>1, SmallestNumber
  <2>3. PICK m : m = IfaceAt(f) OBVIOUS
  <2>4. m \in I /\ \A y \in I : m <= y BY <1>2, <1>6, <2>2, <2>3, Zenon
  <2>5. m \in 1 .. n /\ f[m].w = "iface" BY <1>1, <2>4
  <2>6. m - 1 \in 0 .. n /\ m # 0 BY <2>5
  <2>7. \A i \in 1 .. m - 1 : f[i].w # "iface"
    <3>1. SUFFICES ASSUME NEW i \in 1 .. m - 1, f[i].w = "iface" PROVE FALSE OBVIOUS
    <3>2. i \in 1 .. n /\ ~(m <= i) BY <2>5
    <3>3. i \in I BY <1>1, <3>1, <3>2
    <3>4. QED BY <2>4, <3>2, <3>3, Zenon
  <2>8. g[m - 1].at = "before" BY <1>4, <2>6, <2>7, Zenon
  <2>9. QED BY <1>1, <2>3, <2>5, <2>6, <2>8, Zenon
<1>7. QED BY <1>5, <1>6

-----------------------------------------------------------------------------
\* Two readings that differ at most in one directive.
Agrees(p, r, d) == p.at = r.at /\ p.rest = r.rest /\ \A e \in Owned : e # d => p.own[e] = r.own[e]
Wanted(v) == IF v = "" THEN <<>> ELSE <<v>>

LEMMA OwnedWords == ASSUME NEW d \in Owned PROVE d \in Spelling /\ d # "" /\ d # "iface"
<1>1. d # "" /\ d # "iface" BY DEF Owned
<1>2. QED BY <1>1, Zenon DEF Spelling

\* The same line read by both.
LEMMA BothRead ==
    ASSUME NEW p \in Reads, NEW r \in Reads, NEW d \in Owned, Agrees(p, r, d), NEW l \in Lines
    PROVE  /\ Agrees(ReadLine(p, l), ReadLine(r, l), d)
           /\ ReadLine(p, l) \in Reads /\ ReadLine(r, l) \in Reads
           /\ (l.w # d \/ r.at # "in") => ReadLine(p, l).own[d] = p.own[d]
<1>1. PICK x \in Reads : x = ReadLine(p, l) BY ReadLineIs, Zenon DEF ReadOn
<1>2. PICK y \in Reads : y = ReadLine(r, l) BY ReadLineIs, Zenon DEF ReadOn
<1>3. ReadOn(p, l, x) /\ ReadOn(r, l, y) BY <1>1, <1>2, ReadLineIs, Zenon
<1>4. p.at = r.at /\ p.rest = r.rest /\ \A e \in Owned : e # d => p.own[e] = r.own[e] BY Zenon DEF Agrees
<1>5. SUFFICES Agrees(x, y, d) /\ ((l.w # d \/ r.at # "in") => x.own[d] = p.own[d]) BY <1>1, <1>2, Zenon
<1>6. CASE l.w = ""
  <2>1. x = p /\ y = r BY <1>3, <1>6, Zenon DEF ReadOn
  <2>2. QED BY <2>1, Zenon
<1>7. CASE l.w = "iface"
  <2>1. x.own = p.own /\ y.own = r.own /\ x.at = y.at /\ x.rest = y.rest BY <1>3, <1>4, <1>7, Zenon DEF ReadOn
  <2>2. QED BY <1>4, <2>1, Zenon DEF Agrees
<1>8. CASE l.w \in Owned /\ r.at = "in"
  <2>1. x.at = p.at /\ x.rest = p.rest /\ x.own = [p.own EXCEPT ![l.w] = Append(p.own[l.w], l.v)]
    BY <1>3, <1>4, <1>8, Zenon DEF ReadOn
  <2>2. y.at = r.at /\ y.rest = r.rest /\ y.own = [r.own EXCEPT ![l.w] = Append(r.own[l.w], l.v)]
    BY <1>3, <1>8, Zenon DEF ReadOn
  <2>3. p.own \in [Owned -> Seq(Spelling)] /\ r.own \in [Owned -> Seq(Spelling)] BY DEF Reads
  <2>4. \A e \in Owned : x.own[e] = (IF e = l.w THEN Append(p.own[e], l.v) ELSE p.own[e])
                         /\ y.own[e] = (IF e = l.w THEN Append(r.own[e], l.v) ELSE r.own[e])
    BY <2>1, <2>2, <2>3, Zenon
  <2>5. \A e \in Owned : e # d => x.own[e] = y.own[e]
    <3>1. SUFFICES ASSUME NEW e \in Owned, e # d PROVE x.own[e] = y.own[e] OBVIOUS
    <3>2. p.own[e] = r.own[e] BY <1>4, <3>1, Zenon
    <3>3. CASE e = l.w BY <2>4, <3>2, <3>3, Zenon
    <3>4. CASE e # l.w BY <2>4, <3>2, <3>4, Zenon
    <3>5. QED BY <3>3, <3>4
  <2>6. l.w # d => x.own[d] = p.own[d] BY <2>4, Zenon
  <2>7. QED BY <1>4, <1>8, <2>1, <2>2, <2>5, <2>6, Zenon DEF Agrees
<1>9. CASE l.w \notin {"", "iface"} /\ ~(l.w \in Owned /\ r.at = "in")
  <2>1. x.at = p.at /\ x.own = p.own /\ x.rest = Append(p.rest, l) BY <1>3, <1>4, <1>9, Zenon DEF ReadOn
  <2>2. y.at = r.at /\ y.own = r.own /\ y.rest = Append(r.rest, l) BY <1>3, <1>9, Zenon DEF ReadOn
  <2>3. QED BY <1>4, <2>1, <2>2, Zenon DEF Agrees
<1>10. QED BY <1>6, <1>7, <1>8, <1>9, Zenon

\* A copy of the directive read by one of them.
LEMMA CopyRead ==
    ASSUME NEW r \in Reads, NEW d \in Owned, r.at = "in", NEW l \in Lines, l.w = d
    PROVE  /\ Agrees(r, ReadLine(r, l), d) /\ ReadLine(r, l) \in Reads /\ ReadLine(r, l).at = "in"
           /\ ReadLine(r, l).own[d] = Append(r.own[d], l.v)
<1>1. PICK y \in Reads : y = ReadLine(r, l) BY ReadLineIs, Zenon DEF ReadOn
<1>2. ReadOn(r, l, y) BY <1>1, ReadLineIs, Zenon
<1>3. y.at = r.at /\ y.rest = r.rest /\ y.own = [r.own EXCEPT ![d] = Append(r.own[d], l.v)] BY <1>2, Zenon DEF ReadOn
<1>4. r.own \in [Owned -> Seq(Spelling)] BY DEF Reads
<1>5. y.own[d] = Append(r.own[d], l.v) /\ \A e \in Owned : e # d => y.own[e] = r.own[e] BY <1>3, <1>4, Zenon
<1>6. QED BY <1>1, <1>3, <1>5, Zenon DEF Agrees

LEMMA AgreesTrans == ASSUME NEW p, NEW u, NEW r, NEW d, Agrees(p, u, d), Agrees(u, r, d) PROVE Agrees(p, r, d)
BY Zenon DEF Agrees
LEMMA AgreesSym == ASSUME NEW p, NEW u, NEW d, Agrees(p, u, d) PROVE Agrees(u, p, d)
BY Zenon DEF Agrees

\* The directive put at the end of what was written so far, or nothing.
LEMMA NewRead ==
    ASSUME NEW o \in Seq(Lines), NEW d \in Owned, NEW v \in Spelling, Reading(o).at = "in", Reading(o).own[d] = <<>>,
           NEW u, u = o \o New(d, v)
    PROVE  u \in Seq(Lines) /\ Agrees(Reading(u), Reading(o), d) /\ Reading(u).own[d] = Wanted(v)
<1>1. PICK r \in Reads : r = Reading(o) BY ReadingTyped, Zenon
<1>2. CASE v = ""
  <2>1. u = o \o <<>> BY <1>2, Zenon DEF New
  <2>2. u = o BY <2>1
  <2>3. QED BY <1>2, <2>2, Zenon DEF Agrees, Wanted
<1>3. CASE v # ""
  <2>0. d \in Spelling BY OwnedWords
  <2>1. PICK l \in Lines : l = Directive(d, v) /\ l.w = d /\ l.v = v BY <2>0, DirectiveLine
  <2>2. u = o \o <<l>> BY <1>3, <2>1, Zenon DEF New
  <2>3. u = Append(o, l) BY <2>2
  <2>4. u \in Seq(Lines) /\ Reading(u) = ReadLine(r, l) BY <1>1, <2>3, ReadAppend, Zenon
  <2>5. Agrees(r, ReadLine(r, l), d) /\ ReadLine(r, l).own[d] = Append(r.own[d], l.v) BY <1>1, <2>1, CopyRead
  <2>6. Append(r.own[d], l.v) = <<v>>
    <3>1. r.own[d] = <<>> /\ l.v = v BY <1>1, <2>1, Zenon
    <3>2. QED BY <3>1
  <2>7. Agrees(ReadLine(r, l), r, d) BY <2>5, AgreesSym
  <2>8. QED BY <1>1, <1>3, <2>4, <2>5, <2>6, <2>7, Zenon DEF Wanted
<1>4. QED BY <1>2, <1>3

-----------------------------------------------------------------------------
\* stanza_set's pass: what it has written reads like what it has gone through,
\* but for the directive, which is there as wanted once the stanza is over.
Passes == [out : Seq(Lines), written : BOOLEAN, in : BOOLEAN, past : BOOLEAN]
PassOK(s, r, d, v) ==
    /\ s \in Passes /\ Agrees(Reading(s.out), r, d)
    /\ (s.in <=> r.at = "in") /\ (s.past <=> r.at = "after")
    /\ r.at = "before" => ~s.written /\ Reading(s.out).own[d] = <<>>
    /\ r.at = "in" => Reading(s.out).own[d] = (IF s.written THEN Wanted(v) ELSE <<>>)
    /\ r.at = "after" => Reading(s.out).own[d] = Wanted(v)

LEMMA PassMade ==
    ASSUME NEW o \in Seq(Lines), NEW a \in BOOLEAN, NEW z \in BOOLEAN, NEW c \in BOOLEAN, NEW s,
           s = [out |-> o, written |-> a, in |-> z, past |-> c]
    PROVE  s \in Passes /\ s.out = o /\ s.written = a /\ s.in = z /\ s.past = c
<1>1. s \in Passes BY Zenon DEF Passes
<1>2. s.out = o BY Zenon
<1>3. s.written = a BY Zenon
<1>4. s.in = z BY Zenon
<1>5. s.past = c BY Zenon
<1>6. QED BY <1>1, <1>2, <1>3, <1>4, <1>5, Zenon

\* The line goes through.
MayPass(o, r, d, l) ==
    /\ o \in Seq(Lines) /\ r \in Reads /\ d \in Owned /\ l \in Lines
    /\ Agrees(Reading(o), r, d) /\ (l.w # d \/ r.at # "in")
HasPassed(o, y, d, u) ==
    u \in Seq(Lines) /\ Agrees(Reading(u), y, d) /\ Reading(u).own[d] = Reading(o).own[d]

LEMMA LineThrough ==
    ASSUME NEW o, NEW r, NEW d, NEW l, MayPass(o, r, d, l)
    PROVE  HasPassed(o, ReadLine(r, l), d, Append(o, l))
<1>0. /\ o \in Seq(Lines) /\ r \in Reads /\ d \in Owned /\ l \in Lines
      /\ Agrees(Reading(o), r, d) /\ (l.w # d \/ r.at # "in")
  BY Zenon DEF MayPass
<1>1. PICK p \in Reads : p = Reading(o) BY <1>0, ReadingTyped, Zenon
<1>2. Append(o, l) \in Seq(Lines) /\ Reading(Append(o, l)) = ReadLine(p, l) BY <1>0, <1>1, ReadAppend, Zenon
<1>3. Agrees(p, r, d) BY <1>0, <1>1, Zenon
<1>4. Agrees(ReadLine(p, l), ReadLine(r, l), d) /\ ReadLine(p, l).own[d] = p.own[d] BY <1>0, <1>3, BothRead
<1>5. QED BY <1>1, <1>2, <1>4, Zenon DEF HasPassed

LEMMA PlaceAfter ==
    ASSUME NEW r \in Reads, NEW l \in Lines
    PROVE  /\ ReadLine(r, l) \in Reads
           /\ ReadLine(r, l).at = (IF l.w = "iface" THEN IF r.at = "before" THEN "in" ELSE "after" ELSE r.at)
<1>1. PICK y : y = ReadLine(r, l) OBVIOUS
<1>2. ReadOn(r, l, y) BY <1>1, ReadLineIs, Zenon
<1>3. CASE l.w = "iface" BY <1>1, <1>2, <1>3, Zenon DEF ReadOn
<1>4. CASE l.w = "" BY <1>1, <1>2, <1>4 DEF ReadOn
<1>5. CASE l.w \in Owned /\ r.at = "in"
  <2>1. l.w # "iface" BY <1>5, OwnedWords, Zenon
  <2>2. y.at = r.at /\ y \in Reads BY <1>2, <1>5, Zenon DEF ReadOn
  <2>3. QED BY <1>1, <2>1, <2>2, Zenon
<1>6. CASE l.w \notin {"", "iface"} /\ ~(l.w \in Owned /\ r.at = "in")
  <2>1. y.at = r.at /\ y \in Reads BY <1>2, <1>6, Zenon DEF ReadOn
  <2>2. QED BY <1>1, <1>6, <2>1, Zenon
<1>7. QED BY <1>3, <1>4, <1>5, <1>6, Zenon

LEMMA PassKeeps ==
    ASSUME NEW s, NEW r \in Reads, NEW d \in Owned, NEW v \in Spelling, PassOK(s, r, d, v), NEW l \in Lines
    PROVE  PassOK(PassLine(s, l, d, v), ReadLine(r, l), d, v)
<1>1. PICK o \in Seq(Lines), a \in BOOLEAN, z \in BOOLEAN, c \in BOOLEAN : s = [out |-> o, written |-> a, in |-> z, past |-> c]
  <2>1. s \in Passes BY Zenon DEF PassOK
  <2>2. QED BY <2>1, Zenon DEF Passes
<1>2. s.out = o /\ s.written = a /\ s.in = z /\ s.past = c BY <1>1, PassMade
<1>3. /\ Agrees(Reading(o), r, d) /\ (z <=> r.at = "in") /\ (c <=> r.at = "after")
      /\ r.at = "before" => ~a /\ Reading(o).own[d] = <<>>
      /\ r.at = "in" => Reading(o).own[d] = (IF a THEN Wanted(v) ELSE <<>>)
      /\ r.at = "after" => Reading(o).own[d] = Wanted(v)
  BY <1>2, Zenon DEF PassOK
<1>4. PICK y \in Reads : y = ReadLine(r, l) BY PlaceAfter, Zenon
<1>5. y.at = (IF l.w = "iface" THEN IF r.at = "before" THEN "in" ELSE "after" ELSE r.at) BY <1>4, PlaceAfter, Zenon
<1>6. PICK n : n = PassLine(s, l, d, v) OBVIOUS
<1>7. d # "iface" /\ d # "" BY OwnedWords
<1>8. r.at = "before" \/ r.at = "in" \/ r.at = "after"
  <2>1. r.at \in Places BY DEF Reads
  <2>2. QED BY <2>1, Zenon DEF Places
<1>9. "before" # "in" /\ "in" # "after" /\ "before" # "after" OBVIOUS
<1>10. CASE l.w = "iface" /\ z
  <2>1. r.at = "in" /\ y.at = "after" BY <1>3, <1>5, <1>9, <1>10, Zenon
  <2>2. PICK t : t = IF a THEN <<>> ELSE New(d, v) OBVIOUS
  <2>3. PICK o1 : o1 = o \o t OBVIOUS
  <2>4. o1 \in Seq(Lines) /\ Agrees(Reading(o1), r, d) /\ Reading(o1).own[d] = Wanted(v)
    <3>1. CASE a
      <4>1. o1 = o \o <<>> BY <2>2, <2>3, <3>1, Zenon
      <4>2. o \o <<>> = o BY ConcatEmptySeq, Zenon
      <4>3. QED BY <1>3, <2>1, <3>1, <4>1, <4>2, Zenon
    <3>2. CASE ~a
      <4>1. o1 = o \o New(d, v) BY <2>2, <2>3, <3>2, Zenon
      <4>2. Reading(o).own[d] = <<>> BY <1>3, <2>1, <3>2, Zenon
      <4>3. Reading(o).at = "in" BY <1>3, <2>1, Zenon DEF Agrees
      <4>4. o1 \in Seq(Lines) /\ Agrees(Reading(o1), Reading(o), d) /\ Reading(o1).own[d] = Wanted(v)
        BY <4>1, <4>2, <4>3, NewRead
      <4>5. Agrees(Reading(o1), r, d) BY <1>3, <4>4, AgreesTrans
      <4>6. QED BY <4>4, <4>5
    <3>3. QED BY <3>1, <3>2
  <2>5. PICK u : u = o1 \o <<l>> OBVIOUS
  <2>6. u = Append(o1, l) BY <2>4, <2>5, AppendIsConcat, Zenon
  <2>7. l.w # d BY <1>7, <1>10, Zenon
  <2>8. u \in Seq(Lines) /\ Agrees(Reading(u), y, d) /\ Reading(u).own[d] = Reading(o1).own[d]
    <3>1. MayPass(o1, r, d, l) BY <2>4, <2>7, Zenon DEF MayPass
    <3>2. HasPassed(o1, ReadLine(r, l), d, Append(o1, l)) BY <3>1, LineThrough
    <3>3. QED BY <1>4, <2>6, <3>2, Zenon DEF HasPassed
  <2>9. PICK T \in BOOLEAN : T = TRUE OBVIOUS
  <2>10. PICK U \in BOOLEAN : U = FALSE OBVIOUS
  <2>11. n = [out |-> u, written |-> T, in |-> U, past |-> T]
    BY <1>2, <1>6, <1>10, <2>2, <2>3, <2>5, <2>9, <2>10, Zenon DEF PassLine
  <2>12. n \in Passes /\ n.out = u /\ n.written = T /\ n.in = U /\ n.past = T BY <2>8, <2>11, PassMade
  <2>13. PassOK(n, y, d, v) BY <1>9, <2>1, <2>4, <2>8, <2>9, <2>10, <2>12, Zenon DEF PassOK
  <2>14. QED BY <1>4, <1>6, <2>13, Zenon
<1>11. CASE l.w = "iface" /\ ~z
  <2>1. r.at = "before" \/ r.at = "after" BY <1>3, <1>8, <1>11, Zenon
  <2>2. PICK u : u = Append(o, l) OBVIOUS
  <2>3. l.w # d BY <1>7, <1>11, Zenon
  <2>4. u \in Seq(Lines) /\ Agrees(Reading(u), y, d) /\ Reading(u).own[d] = Reading(o).own[d]
    <3>1. MayPass(o, r, d, l) BY <1>3, <2>3, Zenon DEF MayPass
    <3>2. HasPassed(o, ReadLine(r, l), d, Append(o, l)) BY <3>1, LineThrough
    <3>3. QED BY <1>4, <2>2, <3>2, Zenon DEF HasPassed
  <2>5. PICK x \in BOOLEAN : x = ~c OBVIOUS
  <2>6. n = [s EXCEPT !.out = u, !.in = x] BY <1>2, <1>6, <1>11, <2>2, <2>5, Zenon DEF PassLine
  <2>7. n = [out |-> u, written |-> a, in |-> x, past |-> c] BY <1>1, <2>6, Zenon
  <2>8. n \in Passes /\ n.out = u /\ n.written = a /\ n.in = x /\ n.past = c BY <2>4, <2>7, PassMade
  <2>9. CASE r.at = "before"
    <3>1. y.at = "in" /\ ~c /\ x /\ ~a /\ Reading(u).own[d] = <<>> BY <1>3, <1>5, <1>9, <1>11, <2>4, <2>5, <2>9, Zenon
    <3>2. PassOK(n, y, d, v) BY <1>9, <2>4, <2>8, <3>1, Zenon DEF PassOK
    <3>3. QED BY <1>4, <1>6, <3>2, Zenon
  <2>10. CASE r.at = "after"
    <3>1. y.at = "after" /\ c /\ ~x /\ Reading(u).own[d] = Wanted(v) BY <1>3, <1>5, <1>9, <1>11, <2>4, <2>5, <2>10, Zenon
    <3>2. PassOK(n, y, d, v) BY <1>9, <2>4, <2>8, <3>1, Zenon DEF PassOK
    <3>3. QED BY <1>4, <1>6, <3>2, Zenon
  <2>11. QED BY <2>1, <2>9, <2>10
<1>12. CASE z /\ l.w = d
  <2>1. r.at = "in" /\ y.at = "in" /\ l.w # "iface" BY <1>3, <1>5, <1>7, <1>12, Zenon
  <2>2. Agrees(r, y, d) BY <1>4, <1>12, <2>1, CopyRead
  <2>3. CASE a
    <3>1. n = s BY <1>2, <1>6, <1>12, <2>1, <2>3, Zenon DEF PassLine
    <3>2. Agrees(Reading(o), y, d) BY <1>3, <2>2, AgreesTrans
    <3>3. s \in Passes BY Zenon DEF PassOK
    <3>4. PassOK(s, y, d, v) BY <1>2, <1>3, <1>9, <2>1, <3>2, <3>3, Zenon DEF PassOK
    <3>5. QED BY <1>4, <1>6, <3>1, <3>4, Zenon
  <2>4. CASE ~a
    <3>1. PICK u : u = o \o New(d, v) OBVIOUS
    <3>2. PICK x \in BOOLEAN : x = (v # "") OBVIOUS
    <3>3. Reading(o).own[d] = <<>> BY <1>3, <2>1, <2>4, Zenon
    <3>4. Reading(o).at = "in" BY <1>3, <2>1, Zenon DEF Agrees
    <3>5. u \in Seq(Lines) /\ Agrees(Reading(u), Reading(o), d) /\ Reading(u).own[d] = Wanted(v)
      BY <3>1, <3>3, <3>4, NewRead
    <3>6. Agrees(Reading(u), r, d) BY <1>3, <3>5, AgreesTrans
    <3>7. Agrees(Reading(u), y, d) BY <2>2, <3>6, AgreesTrans
    <3>8. n = [s EXCEPT !.out = u, !.written = x] BY <1>2, <1>6, <1>12, <2>1, <2>4, <3>1, <3>2, Zenon DEF PassLine
    <3>9. n = [out |-> u, written |-> x, in |-> z, past |-> c] BY <1>1, <3>8, Zenon
    <3>10. n \in Passes /\ n.out = u /\ n.written = x /\ n.in = z /\ n.past = c BY <3>5, <3>9, PassMade
    <3>11. Reading(u).own[d] = (IF x THEN Wanted(v) ELSE <<>>) BY <3>2, <3>5, Zenon DEF Wanted
    <3>12. PassOK(n, y, d, v) BY <1>3, <1>9, <2>1, <3>7, <3>10, <3>11, Zenon DEF PassOK
    <3>13. QED BY <1>4, <1>6, <3>12, Zenon
  <2>5. QED BY <2>3, <2>4
<1>13. CASE l.w # "iface" /\ ~(z /\ l.w = d)
  <2>1. PICK u : u = Append(o, l) OBVIOUS
  <2>2. l.w # d \/ r.at # "in" BY <1>3, <1>13, Zenon
  <2>3. u \in Seq(Lines) /\ Agrees(Reading(u), y, d) /\ Reading(u).own[d] = Reading(o).own[d]
    <3>1. MayPass(o, r, d, l) BY <1>3, <2>2, Zenon DEF MayPass
    <3>2. HasPassed(o, ReadLine(r, l), d, Append(o, l)) BY <3>1, LineThrough
    <3>3. QED BY <1>4, <2>1, <3>2, Zenon DEF HasPassed
  <2>4. y.at = r.at BY <1>5, <1>13, Zenon
  <2>5. n = [s EXCEPT !.out = u] BY <1>2, <1>6, <1>13, <2>1, Zenon DEF PassLine
  <2>6. n = [out |-> u, written |-> a, in |-> z, past |-> c] BY <1>1, <2>5, Zenon
  <2>7. n \in Passes /\ n.out = u /\ n.written = a /\ n.in = z /\ n.past = c BY <2>3, <2>6, PassMade
  <2>8. PassOK(n, y, d, v) BY <1>3, <2>3, <2>4, <2>7, Zenon DEF PassOK
  <2>9. QED BY <1>4, <1>6, <2>8, Zenon
<1>14. QED BY <1>10, <1>11, <1>12, <1>13, Zenon


LEMMA OneLine == <<>> \in Seq(Lines) /\ \A x \in Lines : <<x>> \in Seq(Lines)
OBVIOUS

LEMMA UnreadIs == ASSUME NEW d \in Owned PROVE Unread.at = "before" /\ Unread.own[d] = <<>>
BY DEF Unread

LEMMA PassStarts ==
    ASSUME NEW d \in Owned, NEW v, NEW s, s = [out |-> <<>>, written |-> FALSE, in |-> FALSE, past |-> FALSE]
    PROVE  PassOK(s, Unread, d, v)
<1>1. PICK o \in Seq(Lines) : o = <<>> BY OneLine, Zenon
<1>2. s \in Passes BY <1>1, Zenon DEF Passes
<1>3. s.out = o BY <1>1, Zenon
<1>4. ~s.written BY Zenon
<1>5. ~s.in BY Zenon
<1>6. ~s.past BY Zenon
<1>7. Unread.at = "before" /\ Unread.own[d] = <<>> BY UnreadIs
<1>8. Reading(o) = Unread BY <1>1, ReadEmpty, Zenon
<1>9. "before" # "in" /\ "before" # "after" BY Zenon
<1>10. QED BY <1>2, <1>3, <1>4, <1>5, <1>6, <1>7, <1>8, <1>9, Zenon DEF PassOK, Agrees

Written(s, d, v) == IF s.in /\ ~s.written THEN s.out \o New(d, v) ELSE s.out
Rewritten(u, r, d, v) ==
    u \in Seq(Lines) /\ Agrees(Reading(u), r, d) /\ (r.at # "before" => Reading(u).own[d] = Wanted(v))

LEMMA PassEnds ==
    ASSUME NEW s, NEW r \in Reads, NEW d \in Owned, NEW v \in Spelling, PassOK(s, r, d, v)
    PROVE  Rewritten(Written(s, d, v), r, d, v)
<1>0. s \in Passes BY Zenon DEF PassOK
<1> DEFINE u == Written(s, d, v)
<1>a. SUFFICES u \in Seq(Lines) /\ Agrees(Reading(u), r, d) /\ (r.at # "before" => Reading(u).own[d] = Wanted(v))
  BY Zenon DEF Rewritten
<1>z. u = IF s.in /\ ~s.written THEN s.out \o New(d, v) ELSE s.out BY Zenon DEF Written
<1> HIDE DEF u
<1>1. PICK o \in Seq(Lines) : o = s.out BY <1>0, Zenon DEF Passes
<1>2. Agrees(Reading(o), r, d) BY <1>1, Zenon DEF PassOK
<1>3. r.at = "before" \/ r.at = "in" \/ r.at = "after"
  <2>1. r.at \in Places BY DEF Reads
  <2>2. QED BY <2>1, Zenon DEF Places
<1>4. CASE s.in /\ ~s.written
  <2>1. r.at = "in" /\ Reading(o).own[d] = <<>> BY <1>1, <1>4, Zenon DEF PassOK
  <2>2. Reading(o).at = "in" BY <1>2, <2>1, Zenon DEF Agrees
  <2>3. u = o \o New(d, v) BY <1>1, <1>4, <1>z, Zenon
  <2>4. u \in Seq(Lines) /\ Agrees(Reading(u), Reading(o), d) /\ Reading(u).own[d] = Wanted(v) BY <2>1, <2>2, <2>3, NewRead
  <2>5. Agrees(Reading(u), r, d) BY <1>2, <2>4, AgreesTrans
  <2>6. QED BY <2>4, <2>5
<1>5. CASE ~(s.in /\ ~s.written)
  <2>1. u = o BY <1>1, <1>5, <1>z, Zenon
  <2>2. r.at = "in" => Reading(o).own[d] = Wanted(v) BY <1>1, <1>5, Zenon DEF PassOK
  <2>3. r.at = "after" => Reading(o).own[d] = Wanted(v) BY <1>1, Zenon DEF PassOK
  <2>4. QED BY <1>2, <1>3, <2>1, <2>2, <2>3, Zenon
<1>6. QED BY <1>4, <1>5

LEMMA PassTyped ==
    ASSUME NEW s \in Passes, NEW d \in Owned, NEW v \in Spelling, NEW l \in Lines
    PROVE  PassLine(s, l, d, v) \in Passes
<1>1. PICK o \in Seq(Lines), a \in BOOLEAN, z \in BOOLEAN, c \in BOOLEAN : s = [out |-> o, written |-> a, in |-> z, past |-> c]
  BY Zenon DEF Passes
<1>2. s.out = o /\ s.written = a /\ s.in = z /\ s.past = c BY <1>1, PassMade
<1>3. New(d, v) \in Seq(Lines) /\ <<>> \in Seq(Lines) /\ <<l>> \in Seq(Lines)
  <2>1. <<>> \in Seq(Lines) /\ \A x \in Lines : <<x>> \in Seq(Lines) BY OneLine
  <2>2. Directive(d, v) \in Lines BY OwnedWords, DirectiveLine, Zenon
  <2>3. QED BY <2>1, <2>2, Zenon DEF New
<1>4. PICK n : n = PassLine(s, l, d, v) OBVIOUS
<1>5. Append(o, l) \in Seq(Lines) BY ReadAppend
<1>6. \A x \in Seq(Lines) : o \o x \in Seq(Lines) BY ConcatProperties, Zenon
<1>7. CASE l.w = "iface" /\ z
  <2>1. PICK t \in Seq(Lines) : t = IF a THEN <<>> ELSE New(d, v) BY <1>3, Zenon
  <2>2. PICK o1 \in Seq(Lines) : o1 = o \o t BY <1>6, <2>1, Zenon
  <2>3. PICK u \in Seq(Lines) : u = o1 \o <<l>> BY <1>3, <2>2, ConcatProperties, Zenon
  <2>4. n = [out |-> u, written |-> TRUE, in |-> FALSE, past |-> TRUE]
    BY <1>2, <1>4, <1>7, <2>1, <2>2, <2>3, Zenon DEF PassLine
  <2>5. n \in Passes BY <2>4, Zenon DEF Passes
  <2>6. QED BY <1>4, <2>5, Zenon
<1>8. CASE l.w = "iface" /\ ~z
  <2>1. PICK u \in Seq(Lines) : u = Append(o, l) BY <1>5, Zenon
  <2>2. PICK x \in BOOLEAN : x = ~c OBVIOUS
  <2>3. n = [s EXCEPT !.out = u, !.in = x] BY <1>2, <1>4, <1>8, <2>1, <2>2, Zenon DEF PassLine
  <2>4. n = [out |-> u, written |-> a, in |-> x, past |-> c] BY <1>1, <2>3, Zenon
  <2>5. n \in Passes BY <2>4, Zenon DEF Passes
  <2>6. QED BY <1>4, <2>5, Zenon
<1>9. CASE z /\ l.w = d /\ a
  <2>1. l.w # "iface" BY <1>9, OwnedWords, Zenon
  <2>2. n = s BY <1>2, <1>4, <1>9, <2>1, Zenon DEF PassLine
  <2>3. QED BY <1>4, <2>2, Zenon
<1>10. CASE z /\ l.w = d /\ ~a
  <2>1. PICK u \in Seq(Lines) : u = o \o New(d, v) BY <1>3, <1>6, Zenon
  <2>2. PICK x \in BOOLEAN : x = (v # "") OBVIOUS
  <2>3. l.w # "iface" BY <1>10, OwnedWords, Zenon
  <2>4. n = [s EXCEPT !.out = u, !.written = x] BY <1>2, <1>4, <1>10, <2>1, <2>2, <2>3, Zenon DEF PassLine
  <2>5. n = [out |-> u, written |-> x, in |-> z, past |-> c] BY <1>1, <2>4, Zenon
  <2>6. n \in Passes BY <2>5, Zenon DEF Passes
  <2>7. QED BY <1>4, <2>6, Zenon
<1>11. CASE l.w # "iface" /\ ~(z /\ l.w = d)
  <2>1. PICK u \in Seq(Lines) : u = Append(o, l) BY <1>5, Zenon
  <2>2. n = [s EXCEPT !.out = u] BY <1>2, <1>4, <1>11, <2>1, Zenon DEF PassLine
  <2>3. n = [out |-> u, written |-> a, in |-> z, past |-> c] BY <1>1, <2>2, Zenon
  <2>4. n \in Passes BY <2>3, Zenon DEF Passes
  <2>5. QED BY <1>4, <2>4, Zenon
<1>12. QED BY <1>7, <1>8, <1>9, <1>10, <1>11, Zenon

\* What a rewrite leaves of a file: everything but the directive as it was,
\* and the directive as wanted.
LEMMA RewriteReads ==
    ASSUME NEW f \in Seq(Lines), NEW d \in Owned, NEW v \in Spelling
    PROVE  /\ Rewrite(f, d, v) \in Seq(Lines) /\ Agrees(Reading(Rewrite(f, d, v)), Reading(f), d)
           /\ Reading(f).at # "before" => Reading(Rewrite(f, d, v)).own[d] = Wanted(v)
<1>0. PICK t \in Seq(Lines) : t = Tokens(f) /\ Reading(t) = Reading(f) BY TokensRead, Zenon
<1>1. PICK n \in Nat : n = Len(t) BY LenProperties
<1>2. \A k \in 1 .. n : t[k] \in Lines BY <1>1
<1>3. PICK A : A = Passes OBVIOUS
<1>4. \A k \in 1 .. n : \A s \in A : PassLine(s, t[k], d, v) \in A BY <1>2, <1>3, PassTyped, Zenon
<1>5. PICK F : F = [k \in 1 .. n |-> [s \in A |-> PassLine(s, t[k], d, v)]] OBVIOUS
<1>6. F \in Rounds(n, A) BY <1>4, <1>5, Zenon DEF Rounds
<1>7. PICK a \in A : a = [out |-> <<>>, written |-> FALSE, in |-> FALSE, past |-> FALSE]
  <2>1. <<>> \in Seq(Lines) BY OneLine
  <2>2. [out |-> <<>>, written |-> FALSE, in |-> FALSE, past |-> FALSE] \in Passes BY <2>1, Zenon DEF Passes
  <2>3. QED BY <1>3, <2>2, Zenon
<1>8. PICK h : Iterates(h, n, A, a, F) BY <1>6, IterationExists, Zenon
<1>9. h \in [0 .. n -> A] /\ h[0] = a /\ \A k \in 1 .. n : h[k] = F[k][h[k - 1]] BY <1>8, Zenon DEF Iterates
<1>10. \A k \in 1 .. n : k - 1 \in 0 .. n /\ k \in 0 .. n /\ k # 0 OBVIOUS
<1>11. \A k \in 1 .. n : h[k] = PassLine(h[k - 1], t[k], d, v) BY <1>5, <1>9, <1>10, Zenon
<1>12. \A k \in 0 .. n : k = 0 \/ k \in 1 .. n OBVIOUS
<1>13. h = [k \in 0 .. n |-> IF k = 0 THEN a ELSE PassLine(h[k - 1], t[k], d, v)] BY <1>9, <1>11, <1>12, Zenon
<1>14. PICK g : g = (CHOOSE c : c = [k \in 0 .. n |-> IF k = 0 THEN a ELSE PassLine(c[k - 1], t[k], d, v)]) OBVIOUS
<1>15. g = [k \in 0 .. n |-> IF k = 0 THEN a ELSE PassLine(g[k - 1], t[k], d, v)] BY <1>13, <1>14, Zenon
<1>16. Rewrite(f, d, v) = Written(g[n], d, v)
  <2> DEFINE G == CHOOSE c : c = [k \in 0 .. Len(Tokens(f)) |->
                      IF k = 0 THEN [out |-> <<>>, written |-> FALSE, in |-> FALSE, past |-> FALSE]
                      ELSE PassLine(c[k - 1], Tokens(f)[k], d, v)]
  <2>1. Rewrite(f, d, v) = Written(G[Len(Tokens(f))], d, v) BY Zenon DEF Rewrite, Written
  <2>2. G = g BY <1>0, <1>1, <1>7, <1>14, Zenon
  <2> HIDE DEF G
  <2>3. QED BY <1>0, <1>1, <2>1, <2>2, Zenon
<1>17. PICK e : ReadsAs(e, t) BY ReadingRuns
<1>18. e \in [0 .. n -> Reads] /\ e[0] = Unread /\ Reading(t) = e[n] /\ \A k \in 1 .. n : e[k] = ReadLine(e[k - 1], t[k])
  BY <1>1, <1>17, Zenon DEF ReadsAs
<1>19. PICK D : D = {k \in 0 .. n : PassOK(g[k], e[k], d, v)} OBVIOUS
<1>20. 0 \in 0 .. n /\ n \in 0 .. n OBVIOUS
<1>21. g[0] = a BY <1>15, <1>20, Zenon
<1>22. PassOK(a, Unread, d, v) BY <1>3, <1>7, PassStarts, Zenon
<1>23. 0 \in D BY <1>18, <1>19, <1>20, <1>21, <1>22, Zenon
<1>24. \A k \in 1 .. n : g[k] = PassLine(g[k - 1], t[k], d, v) BY <1>10, <1>15, Zenon
<1>25. ASSUME NEW k \in 1 .. n, k - 1 \in D PROVE k \in D
  <2>1. PICK r \in Reads : r = e[k - 1] BY <1>10, <1>18, Zenon
  <2>2. PICK s : s = g[k - 1] OBVIOUS
  <2>3. PICK l \in Lines : l = t[k] BY <1>2, Zenon
  <2>4. PassOK(s, r, d, v) BY <1>19, <1>25, <2>1, <2>2, Zenon
  <2>5. PassOK(PassLine(s, l, d, v), ReadLine(r, l), d, v) BY <2>4, PassKeeps
  <2>6. QED BY <1>10, <1>18, <1>19, <1>24, <2>1, <2>2, <2>3, <2>5, Zenon
<1>26. \A k \in 0 .. n : k \in D BY <1>23, <1>25, Upto, Zenon
<1>27. PICK s : s = g[n] OBVIOUS
<1>28. PICK r \in Reads : r = e[n] BY <1>18, <1>20, Zenon
<1>29. PassOK(s, r, d, v) BY <1>19, <1>20, <1>26, <1>27, <1>28, Zenon
<1>30. Rewritten(Written(s, d, v), r, d, v) BY <1>29, PassEnds
<1>31. QED BY <1>0, <1>16, <1>18, <1>27, <1>28, <1>30, Zenon DEF Rewritten

-----------------------------------------------------------------------------
\* method_set's file: one line put anew, the one the stanza begins with.
PutAt(u, t, i, x) ==
    u \in Seq(Lines) /\ Len(u) = Len(t) /\ \A j \in 1 .. Len(t) : u[j] = IF j = i THEN x ELSE t[j]
LEMMA PutLine ==
    ASSUME NEW t \in Seq(Lines), NEW i \in 1 .. Len(t), NEW x \in Lines
    PROVE  PutAt([t EXCEPT ![i] = x], t, i, x)
BY ExceptSeq DEF PutAt

LEMMA MethodReads ==
    ASSUME NEW f \in Seq(Lines), NEW m \in Spelling, IfaceAt(Tokens(f)) > 0, NEW u,
           u = [Tokens(f) EXCEPT ![IfaceAt(Tokens(f))].v = m]
    PROVE  u \in Seq(Lines) /\ Reading(u) = Reading(f)
<1>1. PICK t \in Seq(Lines) : t = Tokens(f) /\ Reading(t) = Reading(f) BY TokensRead, Zenon
<1>2. PICK i : i = IfaceAt(t) OBVIOUS
<1>3. PICK g : ReadsAs(g, t) BY ReadingRuns
<1>4. PICK n \in Nat : n = Len(t) BY LenProperties
<1>5. i # 0 BY <1>1, <1>2
<1>6. i \in 1 .. n /\ t[i].w = "iface" /\ g[i - 1].at = "before" BY <1>2, <1>3, <1>4, <1>5, StanzaBegins, Zenon
<1>7. PICK l \in Lines : l = t[i] BY <1>4, <1>6
<1>8. PICK x : x = [l EXCEPT !.v = m] OBVIOUS
<1>9. x \in Lines /\ x.w = "iface" /\ l.w = "iface"
  <2>1. PICK a \in Spelling, z \in Spelling : l = [w |-> a, v |-> z] BY Zenon DEF Lines
  <2>2. x = [w |-> a, v |-> m] BY <1>8, <2>1
  <2>3. x \in Lines BY <2>2, Zenon DEF Lines
  <2>4. x.w = a /\ l.w = a BY <2>1, <2>2
  <2>5. QED BY <1>6, <1>7, <2>3, <2>4, Zenon
<1>10. u = [t EXCEPT ![i] = x] BY <1>1, <1>2, <1>7, <1>8, Zenon
<1>11. u \in Seq(Lines) /\ Len(u) = n /\ u[i] = x /\ \A k \in 1 .. n : k # i => u[k] = t[k]
  <2>1. i \in 1 .. Len(t) /\ x \in Lines BY <1>4, <1>6, <1>9, Zenon
  <2>2. PutAt([t EXCEPT ![i] = x], t, i, x) BY <2>1, PutLine
  <2>3. PutAt(u, t, i, x) BY <1>10, <2>2, Zenon
  <2>4. QED BY <1>4, <2>1, <2>3, Zenon DEF PutAt
<1>12. PICK h : ReadsAs(h, u) BY <1>11, ReadingRuns
<1>13. g \in [0 .. n -> Reads] /\ g[0] = Unread /\ Reading(t) = g[n] /\ \A k \in 1 .. n : g[k] = ReadLine(g[k - 1], t[k])
  BY <1>3, <1>4, Zenon DEF ReadsAs
<1>14. h[0] = Unread /\ Reading(u) = h[n] /\ \A k \in 1 .. n : h[k] = ReadLine(h[k - 1], u[k])
  BY <1>11, <1>12, Zenon DEF ReadsAs
<1>15. PICK D : D = {k \in 0 .. n : h[k] = g[k]} OBVIOUS
<1>16. 0 \in 0 .. n /\ n \in 0 .. n /\ \A k \in 1 .. n : k \in 0 .. n OBVIOUS
<1>17. 0 \in D BY <1>13, <1>14, <1>15, <1>16, Zenon
<1>18. ASSUME NEW k \in 1 .. n, k - 1 \in D PROVE k \in D
  <2>1. h[k - 1] = g[k - 1] BY <1>15, <1>18, Zenon
  <2>2. ReadLine(g[k - 1], u[k]) = ReadLine(g[k - 1], t[k])
    <3>1. CASE k # i BY <1>11, <3>1, Zenon
    <3>2. CASE k = i
      <4>1. g[k - 1].at = "before" /\ u[k] = x /\ t[k] = l BY <1>6, <1>7, <1>11, <3>2, Zenon
      <4>2. "iface" # "" BY Zenon
      <4>3. ReadLine(g[k - 1], x) = ReadLine(g[k - 1], l) BY <1>9, <4>1, <4>2, Zenon DEF ReadLine
      <4>4. QED BY <4>1, <4>3, Zenon
    <3>3. QED BY <3>1, <3>2
  <2>3. h[k] = g[k] BY <1>13, <1>14, <2>1, <2>2, Zenon
  <2>4. QED BY <1>15, <1>16, <2>3, Zenon
<1>19. \A k \in 0 .. n : k \in D BY <1>17, <1>18, Upto, Zenon
<1>20. h[n] = g[n] BY <1>15, <1>16, <1>19, Zenon
<1>21. QED BY <1>1, <1>11, <1>13, <1>14, <1>20, Zenon

-----------------------------------------------------------------------------
(* rcd's stores, for any zones, hosts and passwords: what a write in two   *)
(* steps leaves when it is cut short.                                      *)
EtcFields == {"rule", "zone", "ntp", "host", "hosts", "stanza", "shadow", "resolv"}
AskedFields == {"dirs", "old", "new", "named", "file", "cleared"}
EnvFields == {"ssid", "psk"}
ForceFields == {"ntp", "name", "mdns", "method", "radio"}

\* A record with these fields, whatever is in them.
Fields(r, F) == r = [f \in F |-> r[f]]

HostNames == Hosts \cup {"cam", ""}
HostLine == [w : {"127.0.0.1", "127.0.1.1"}, v : HostNames \cup {"localhost"}]
Account == [w : {"root", "svc"}, v : Hashes \cup {"", "old", "x"}, whole : BOOLEAN]

TzInv ==
    /\ asked.named /\ {"rule", "zone"} \cap lost = {} =>
         tz_get \in {asked.old, asked.new, zone_name_for_posix(Posix[asked.old])}
    /\ busy # <<>> /\ busy[1] = "tz" => busy[2] = asked.new /\ (asked.named => etc.zone = asked.new)
    /\ etc.zone \in Range(ZoneList) \cup {""} /\ etc.rule \in Range(Posix) \cup {""} /\ asked.new \in Range(ZoneList)
EnvInv == env.psk = "" => asked.cleared
Service == [w |-> "svc", v |-> "x", whole |-> TRUE]
ShadowOK(f) == f \in [1 .. 2 -> Account] /\ f[1].w = "root" /\ f[1].v # "bad" /\ f[2] = Service
HostsOK(f) == f \in [1 .. 2 -> HostLine] /\ f[1].w = "127.0.0.1" /\ f[1].v = "localhost"
FilesInv ==
    ("hosts" \in lost \/ HostsOK(etc.hosts)) /\ etc.host \in HostNames /\ ShadowOK(etc.shadow)

\* The file's first stanza holds what was asked of it, and the rest of the
\* file is as it was.
StanzaAsked(f, g, e) ==
    /\ f \in Seq(Lines) /\ Reading(f).rest = Reading(g).rest
    /\ \A a \in Owned : e[a] # "never" /\ Reading(f).at # "before" =>
         Reading(f).own[a] = IF e[a] = "" THEN <<>> ELSE <<e[a]>>
StanzaInv ==
    Fields(asked.dirs, Owned) /\ ("stanza" \in lost \/ StanzaAsked(etc.stanza, asked.file, asked.dirs))
ForceInv == Fields(inForce, ForceFields) /\ inForce.radio \in {"ap", "client", "off"} /\ left \in 0 .. StoreOps
StInv ==
    /\ Fields(etc, EtcFields) /\ Fields(asked, AskedFields) /\ Fields(env, EnvFields)
    /\ TzInv /\ EnvInv /\ FilesInv /\ StanzaInv /\ ForceInv

\* The files written without a sync.
Loosable == {"rule", "zone", "ntp", "host", "hosts", "stanza"}
LooseInv == loose \subseteq Loosable /\ lost \subseteq Loosable

Except(r, n, x, s, F) == Fields(s, F) /\ s[n] = x /\ \A f \in F : f # n => s[f] = r[f]

LEMMA OneField ==
    ASSUME NEW r, NEW F, Fields(r, F), NEW n \in F, NEW x, NEW s, s = [r EXCEPT ![n] = x]
    PROVE  Except(r, n, x, s, F)
<1>1. r = [f \in F |-> r[f]] BY Zenon DEF Fields
<1>2. s = [f \in F |-> IF f = n THEN x ELSE r[f]] BY <1>1, Zenon
<1>3. s = [f \in F |-> s[f]] BY <1>2, Zenon
<1>4. s[n] = x /\ \A f \in F : f # n => s[f] = r[f] BY <1>2, Zenon
<1>5. QED BY <1>3, <1>4, Zenon DEF Except, Fields

-----------------------------------------------------------------------------
\* What an action of another setting leaves of the timezone, of the wireless
\* network's variables and of the files.
TzSame ==
    /\ etc'.zone = etc.zone /\ etc'.rule = etc.rule
    /\ asked'.named = asked.named /\ asked'.old = asked.old /\ asked'.new = asked.new
    /\ lost' = lost
EnvSame == env'.psk = env.psk /\ asked'.cleared = asked.cleared
FilesSame == lost' = lost /\ etc'.hosts = etc.hosts /\ etc'.host = etc.host /\ etc'.shadow = etc.shadow
StanzaSame == lost' = lost /\ etc'.stanza = etc.stanza /\ asked'.dirs = asked.dirs /\ asked'.file = asked.file

LEMMA TzKept ==
    ASSUME TzInv, TzSame, busy' \in {busy, <<>>, <<"reset", "psk">>}
    PROVE  TzInv'
<1>1. tz_get' = tz_get BY Zenon DEF TzSame, tz_get
<1>2. zone_name_for_posix(Posix[asked'.old]) = zone_name_for_posix(Posix[asked.old]) BY Zenon DEF TzSame
<1>3. asked'.named /\ {"rule", "zone"} \cap lost' = {} =>
        tz_get' \in {asked'.old, asked'.new, zone_name_for_posix(Posix[asked'.old])}
  BY <1>1, <1>2, Zenon DEF TzSame, TzInv
<1>4. busy' # <<>> /\ busy'[1] = "tz" => busy'[2] = asked'.new /\ (asked'.named => etc'.zone = asked'.new)
  <2>1. CASE busy' = busy BY <2>1, Zenon DEF TzSame, TzInv
  <2>2. CASE busy' = <<>> BY <2>2
  <2>3. CASE busy' = <<"reset", "psk">> BY <2>3
  <2>4. QED BY <2>1, <2>2, <2>3
<1>5. etc'.zone \in Range(ZoneList) \cup {""} /\ etc'.rule \in Range(Posix) \cup {""} /\ asked'.new \in Range(ZoneList)
  BY Zenon DEF TzSame, TzInv
<1>6. QED BY <1>3, <1>4, <1>5, Zenon DEF TzInv

LEMMA EnvKept == ASSUME EnvInv, EnvSame PROVE EnvInv'
BY Zenon DEF EnvInv, EnvSame
LEMMA FilesKept == ASSUME FilesInv, FilesSame PROVE FilesInv'
BY Zenon DEF FilesInv, FilesSame, HostsOK, ShadowOK, Service, HostLine, Account

LEMMA StanzaStays == ASSUME StanzaInv, StanzaSame PROVE StanzaInv'
<1>1. PICK f, g : f = etc.stanza /\ g = asked.file OBVIOUS
<1>2. PICK e : e = asked.dirs OBVIOUS
<1>3. f = etc'.stanza /\ g = asked'.file /\ e = asked'.dirs BY <1>1, <1>2, Zenon DEF StanzaSame
<1>4. Fields(e, Owned) /\ ("stanza" \in lost' \/ StanzaAsked(f, g, e))
  BY <1>1, <1>2, Zenon DEF StanzaInv, StanzaSame
<1>5. QED BY <1>3, <1>4, Zenon DEF StanzaInv, StanzaAsked

LEMMA EtcField ==
    ASSUME Fields(etc, EtcFields), NEW n \in EtcFields, NEW x, etc' = [etc EXCEPT ![n] = x]
    PROVE  Except(etc, n, x, etc', EtcFields)
<1>1. PICK r : r = etc OBVIOUS
<1>2. PICK s : s = etc' OBVIOUS
<1>3. Fields(r, EtcFields) /\ s = [r EXCEPT ![n] = x] BY <1>1, <1>2, Zenon
<1>4. Except(r, n, x, s, EtcFields) BY <1>3, OneField
<1>5. QED BY <1>1, <1>2, <1>4, Zenon

LEMMA AskedField ==
    ASSUME Fields(asked, AskedFields), NEW n \in AskedFields, NEW x, asked' = [asked EXCEPT ![n] = x]
    PROVE  Except(asked, n, x, asked', AskedFields)
<1>1. PICK r : r = asked OBVIOUS
<1>2. PICK s : s = asked' OBVIOUS
<1>3. Fields(r, AskedFields) /\ s = [r EXCEPT ![n] = x] BY <1>1, <1>2, Zenon
<1>4. Except(r, n, x, s, AskedFields) BY <1>3, OneField
<1>5. QED BY <1>1, <1>2, <1>4, Zenon

LEMMA EnvField ==
    ASSUME Fields(env, EnvFields), NEW n \in EnvFields, NEW x, env' = [env EXCEPT ![n] = x]
    PROVE  Except(env, n, x, env', EnvFields)
<1>1. PICK r : r = env OBVIOUS
<1>2. PICK s : s = env' OBVIOUS
<1>3. Fields(r, EnvFields) /\ s = [r EXCEPT ![n] = x] BY <1>1, <1>2, Zenon
<1>4. Except(r, n, x, s, EnvFields) BY <1>3, OneField
<1>5. QED BY <1>1, <1>2, <1>4, Zenon

LEMMA ForceField ==
    ASSUME Fields(inForce, ForceFields), NEW n \in ForceFields, NEW x, inForce' = [inForce EXCEPT ![n] = x]
    PROVE  Except(inForce, n, x, inForce', ForceFields)
<1>1. PICK r : r = inForce OBVIOUS
<1>2. PICK s : s = inForce' OBVIOUS
<1>3. Fields(r, ForceFields) /\ s = [r EXCEPT ![n] = x] BY <1>1, <1>2, Zenon
<1>4. Except(r, n, x, s, ForceFields) BY <1>3, OneField
<1>5. QED BY <1>1, <1>2, <1>4, Zenon

\* A write of a file that is neither the zone's nor an account's.
LEMMA EtcElsewhere ==
    ASSUME Fields(etc, EtcFields), NEW n \in {"ntp", "stanza", "resolv"}, NEW x, etc' = [etc EXCEPT ![n] = x],
           lost' = lost
    PROVE  /\ Fields(etc', EtcFields) /\ FilesSame /\ etc'.zone = etc.zone /\ etc'.rule = etc.rule
           /\ n # "stanza" => etc'.stanza = etc.stanza
<1>1. n \in EtcFields BY DEF EtcFields
<1>2. Fields(etc', EtcFields) /\ \A f \in EtcFields : f # n => etc'[f] = etc[f] BY <1>1, EtcField DEF Except
<1>3. {"hosts", "host", "shadow", "zone", "rule"} \subseteq EtcFields
        /\ \A f \in {"hosts", "host", "shadow", "zone", "rule"} : f # n BY DEF EtcFields
<1>4. "stanza" \in EtcFields BY DEF EtcFields
<1>5. QED BY <1>2, <1>3, <1>4, Zenon DEF FilesSame

LEMMA Spent == ASSUME Spend, left \in 0 .. StoreOps PROVE left' \in 0 .. StoreOps
<1>1. StoreOps \in Nat BY RcdStoresConstants, Zenon
<1>2. left \in Nat /\ left > 0 /\ left' = left - 1 /\ left <= StoreOps BY <1>1 DEF Spend
<1>3. QED BY <1>1, <1>2

-----------------------------------------------------------------------------
\* The interface's file and the interface.
LEMMA RewriteKeeps ==
    ASSUME NEW f, NEW g, NEW e, Fields(e, Owned), StanzaAsked(f, g, e), NEW d \in Owned, NEW v \in Spelling,
           NEW x, x = Rewrite(f, d, v), NEW y, y = [e EXCEPT ![d] = v]
    PROVE  StanzaAsked(x, g, y)
<1>1. /\ f \in Seq(Lines) /\ Reading(f).rest = Reading(g).rest
      /\ \A a \in Owned : e[a] # "never" /\ Reading(f).at # "before" =>
           Reading(f).own[a] = IF e[a] = "" THEN <<>> ELSE <<e[a]>>
  BY Zenon DEF StanzaAsked
<1>2. /\ x \in Seq(Lines) /\ Agrees(Reading(x), Reading(f), d)
      /\ Reading(f).at # "before" => Reading(x).own[d] = Wanted(v)
  BY <1>1, RewriteReads, Zenon
<1>3. Reading(x).at = Reading(f).at BY <1>2, Zenon DEF Agrees
<1>5. Except(e, d, v, y, Owned) BY OneField
<1>6. y[d] = v /\ \A a \in Owned : a # d => y[a] = e[a] BY <1>5, Zenon DEF Except
<1>7. Reading(x).at # "before" => Reading(x).own[d] = IF y[d] = "" THEN <<>> ELSE <<y[d]>>
  BY <1>2, <1>3, <1>6, Zenon DEF Wanted
<1>8. ASSUME NEW a \in Owned, y[a] # "never", Reading(x).at # "before"
      PROVE  Reading(x).own[a] = IF y[a] = "" THEN <<>> ELSE <<y[a]>>
  <2>1. CASE a = d BY <1>7, <1>8, <2>1, Zenon
  <2>2. CASE a # d
    <3>1. Reading(x).own[a] = Reading(f).own[a] BY <1>2, <2>2, Zenon DEF Agrees
    <3>2. e[a] = y[a] BY <1>6, <2>2, Zenon
    <3>3. QED BY <1>1, <1>3, <1>8, <3>1, <3>2, Zenon
  <2>3. QED BY <2>1, <2>2
<1>9. Reading(x).rest = Reading(g).rest BY <1>1, <1>2, Zenon DEF Agrees
<1>10. QED BY <1>2, <1>8, <1>9, Zenon DEF StanzaAsked

LEMMA StanzaSetKeeps == ASSUME StInv, NEW d \in Owned, NEW v \in Addrs, stanza_set(d, v) PROVE StInv'
<1>1. /\ Spend /\ etc' = [etc EXCEPT !.stanza = Rewrite(etc.stanza, d, v)]
      /\ asked' = [asked EXCEPT !.dirs = [@ EXCEPT ![d] = v]]
      /\ inForce' = inForce /\ env' = env /\ busy' = busy /\ lost' = lost
  BY Zenon DEF stanza_set, Unsynced
<1>2. Fields(etc, EtcFields) /\ Fields(asked, AskedFields) /\ Fields(env, EnvFields) /\ TzInv /\ EnvInv /\ FilesInv /\ StanzaInv /\ ForceInv
  BY Zenon DEF StInv
<1>3. PICK x : x = Rewrite(etc.stanza, d, v) OBVIOUS
<1>4. PICK y : y = [asked.dirs EXCEPT ![d] = v] OBVIOUS
<1>5. Fields(etc', EtcFields) /\ FilesSame /\ etc'.zone = etc.zone /\ etc'.rule = etc.rule
  <2>1. etc' = [etc EXCEPT !["stanza"] = x] BY <1>1, <1>3, Zenon
  <2>2. QED BY <1>1, <1>2, <2>1, EtcElsewhere
<1>6. Except(asked, "dirs", y, asked', AskedFields)
  <2>1. "dirs" \in AskedFields BY DEF AskedFields
  <2>2. asked' = [asked EXCEPT !["dirs"] = y] BY <1>1, <1>4, Zenon
  <2>3. QED BY <1>2, <2>1, <2>2, AskedField
<1>7. Fields(asked', AskedFields) /\ asked'.named = asked.named /\ asked'.old = asked.old /\ asked'.new = asked.new
      /\ asked'.cleared = asked.cleared /\ asked'.file = asked.file /\ asked'.dirs = y
  BY <1>6 DEF Except, AskedFields
<1>14. etc'.stanza = x
  <2>1. "stanza" \in EtcFields BY DEF EtcFields
  <2>2. etc' = [etc EXCEPT !["stanza"] = x] BY <1>1, <1>3, Zenon
  <2>3. QED BY <1>2, <2>1, <2>2, EtcField DEF Except
<1>15. StanzaInv'
  <2>1. PICK f, g : f = etc.stanza /\ g = asked.file OBVIOUS
  <2>2. PICK e : e = asked.dirs OBVIOUS
  <2>3. v \in Spelling
    <3>1. v \in STRING BY RcdStoresConstants, Zenon
    <3>2. QED BY <3>1, Zenon DEF Spelling
  <2>4. Fields(e, Owned) /\ ("stanza" \in lost \/ StanzaAsked(f, g, e)) BY <1>2, <2>1, <2>2, Zenon DEF StanzaInv
  <2>5. x = Rewrite(f, d, v) /\ y = [e EXCEPT ![d] = v] BY <1>3, <1>4, <2>1, <2>2, Zenon
  <2>6. StanzaAsked(f, g, e) => StanzaAsked(x, g, y) BY <2>3, <2>4, <2>5, RewriteKeeps
  <2>7. Fields(y, Owned)
    <3>1. Except(e, d, v, y, Owned) BY <2>4, <2>5, OneField
    <3>2. QED BY <3>1, Zenon DEF Except
  <2>8. "stanza" \in lost' \/ StanzaAsked(x, g, y) BY <1>1, <2>4, <2>6, Zenon
  <2>9. QED BY <1>7, <1>14, <2>1, <2>7, <2>8, Zenon DEF StanzaInv, StanzaAsked
<1>8. TzInv' BY <1>1, <1>2, <1>5, <1>7, TzKept DEF TzSame
<1>9. EnvInv' BY <1>1, <1>2, <1>7, EnvKept DEF EnvSame
<1>10. FilesInv' BY <1>2, <1>5, FilesKept
<1>11. ForceInv' BY <1>1, <1>2, Spent, Zenon DEF ForceInv
<1>12. Fields(env', EnvFields) BY <1>1, <1>2
<1>13. QED BY <1>5, <1>7, <1>8, <1>9, <1>10, <1>11, <1>12, <1>15, Zenon DEF StInv

\* A write of one file of the three that stand for themselves, nothing else of
\* the stores with it.
LEMMA FileAloneKeeps ==
    ASSUME StInv, NEW n \in {"ntp", "stanza", "resolv"}, NEW x, etc' = [etc EXCEPT ![n] = x],
           n = "stanza" => StanzaInv', asked' = asked, env' = env, busy' = busy, lost' = lost, ForceInv'
    PROVE  StInv'
<1>2. Fields(etc, EtcFields) /\ Fields(asked, AskedFields) /\ Fields(env, EnvFields) /\ TzInv /\ EnvInv /\ FilesInv /\ StanzaInv
  BY Zenon DEF StInv
<1>5. /\ Fields(etc', EtcFields) /\ FilesSame /\ etc'.zone = etc.zone /\ etc'.rule = etc.rule
      /\ n # "stanza" => etc'.stanza = etc.stanza
  BY <1>2, EtcElsewhere
<1>6. StanzaInv'
  <2>1. CASE n = "stanza" BY <2>1
  <2>2. CASE n # "stanza"
    <3>1. StanzaSame BY <1>5, <2>2, Zenon DEF StanzaSame
    <3>2. QED BY <1>2, <3>1, StanzaStays
  <2>3. QED BY <2>1, <2>2
<1>8. TzInv' BY <1>2, <1>5, TzKept DEF TzSame
<1>9. EnvInv' BY <1>2, EnvKept DEF EnvSame
<1>10. FilesInv' BY <1>2, <1>5, FilesKept
<1>12. Fields(env', EnvFields) /\ Fields(asked', AskedFields) BY <1>2
<1>13. QED BY <1>5, <1>6, <1>8, <1>9, <1>10, <1>12, Zenon DEF StInv

LEMMA MethodSetKeeps == ASSUME StInv, NEW m \in {"dhcp", "static"}, method_set(m) PROVE StInv'
<1>1. PICK f : f = etc.stanza OBVIOUS
<1>2. PICK x : x = [Tokens(f) EXCEPT ![IfaceAt(Tokens(f))].v = m] OBVIOUS
<1>3. etc' = [etc EXCEPT !["stanza"] = x] /\ IfaceAt(Tokens(f)) > 0 BY <1>1, <1>2, Zenon DEF method_set
<1>4. Spend /\ inForce' = inForce /\ env' = env /\ busy' = busy /\ asked' = asked /\ lost' = lost
  BY Zenon DEF method_set, Unsynced
<1>5. StanzaInv /\ Fields(etc, EtcFields) BY Zenon DEF StInv
<1>6. ForceInv' BY <1>4, Spent, Zenon DEF StInv, ForceInv
<1>7. PICK n \in {"ntp", "stanza", "resolv"} : n = "stanza" OBVIOUS
<1>8. etc' = [etc EXCEPT ![n] = x] BY <1>3, <1>7, Zenon
<1>9. etc'.stanza = x
  <2>1. "stanza" \in EtcFields BY DEF EtcFields
  <2>2. Except(etc, "stanza", x, etc', EtcFields) BY <1>3, <1>5, <2>1, EtcField
  <2>3. QED BY <2>2, Zenon DEF Except
<1>10. StanzaInv'
  <2>1. PICK g, e : g = asked.file /\ e = asked.dirs OBVIOUS
  <2>2. Fields(e, Owned) /\ ("stanza" \in lost \/ StanzaAsked(f, g, e)) BY <1>1, <1>5, <2>1, Zenon DEF StanzaInv
  <2>3. ASSUME StanzaAsked(f, g, e) PROVE StanzaAsked(x, g, e)
    <3>1. f \in Seq(Lines) BY <2>3, Zenon DEF StanzaAsked
    <3>2. m \in Spelling BY Zenon DEF Spelling
    <3>3. x \in Seq(Lines) /\ Reading(x) = Reading(f) BY <1>2, <1>3, <3>1, <3>2, MethodReads, Zenon
    <3>4. QED BY <2>3, <3>3, Zenon DEF StanzaAsked
  <2>4. QED BY <1>4, <1>9, <2>1, <2>2, <2>3, Zenon DEF StanzaInv, StanzaAsked
<1>11. QED BY <1>4, <1>6, <1>8, <1>10, FileAloneKeeps

LEMMA NetEnactKeeps == ASSUME StInv, net_enact PROVE StInv'
<1>1. PICK x : etc' = [etc EXCEPT !.resolv = x] BY Zenon DEF net_enact
<1>2. PICK m : inForce' = [inForce EXCEPT !.method = m] BY Zenon DEF net_enact
<1>3. left' = left /\ env' = env /\ busy' = busy /\ asked' = asked /\ lost' = lost BY Zenon DEF net_enact
<1>4. Fields(inForce, ForceFields) /\ inForce.radio \in {"ap", "client", "off"} /\ left \in 0 .. StoreOps
  BY Zenon DEF StInv, ForceInv
<1>5. Except(inForce, "method", m, inForce', ForceFields)
  <2>1. "method" \in ForceFields BY DEF ForceFields
  <2>2. inForce' = [inForce EXCEPT !["method"] = m] BY <1>2, Zenon
  <2>3. QED BY <1>4, <2>1, <2>2, ForceField
<1>6. Fields(inForce', ForceFields) /\ inForce'.radio = inForce.radio BY <1>5 DEF Except, ForceFields
<1>7. ForceInv' BY <1>3, <1>4, <1>6, Zenon DEF ForceInv
<1>8. PICK n \in {"ntp", "stanza", "resolv"} : n = "resolv" /\ n # "stanza" OBVIOUS
<1>9. etc' = [etc EXCEPT ![n] = x] BY <1>1, <1>8, Zenon
<1>10. QED BY <1>3, <1>7, <1>8, <1>9, FileAloneKeeps

LEMMA NtpSetKeeps == ASSUME StInv, NEW h \in Hosts, NEW ok \in BOOLEAN, ntp_set(h, ok) PROVE StInv'
<1>1. etc' = [etc EXCEPT !.ntp = h] /\ Spend /\ env' = env /\ busy' = busy /\ asked' = asked /\ lost' = lost
  BY Zenon DEF ntp_set, Unsynced
<1>2. inForce' = inForce \/ inForce' = [inForce EXCEPT !.ntp = h] BY Zenon DEF ntp_set
<1>4. Fields(inForce, ForceFields) /\ inForce.radio \in {"ap", "client", "off"} /\ left \in 0 .. StoreOps
  BY Zenon DEF StInv, ForceInv
<1>5. Fields(inForce', ForceFields) /\ inForce'.radio = inForce.radio
  <2>1. CASE inForce' = inForce BY <1>4, <2>1, Zenon
  <2>2. CASE inForce' = [inForce EXCEPT !.ntp = h]
    <3>1. "ntp" \in ForceFields BY DEF ForceFields
    <3>2. inForce' = [inForce EXCEPT !["ntp"] = h] BY <2>2, Zenon
    <3>3. Except(inForce, "ntp", h, inForce', ForceFields) BY <1>4, <3>1, <3>2, ForceField
    <3>4. QED BY <3>3 DEF Except, ForceFields
  <2>3. QED BY <1>2, <2>1, <2>2
<1>6. ForceInv' BY <1>1, <1>4, <1>5, Spent, Zenon DEF ForceInv
<1>8. PICK n \in {"ntp", "stanza", "resolv"} : n = "ntp" /\ n # "stanza" OBVIOUS
<1>9. etc' = [etc EXCEPT ![n] = h] BY <1>1, <1>8, Zenon
<1>10. QED BY <1>1, <1>6, <1>8, <1>9, FileAloneKeeps

-----------------------------------------------------------------------------
\* The timezone: its name, then its rule.
LEMMA TzNameKeeps == ASSUME StInv, NEW z \in Range(ZoneList), NEW ok \in BOOLEAN, TzName(z, ok) PROVE StInv'
<1>1. PICK y : y = IF ok THEN z ELSE etc.zone OBVIOUS
<1>2. PICK o : o = tz_get OBVIOUS
<1>3. Spend /\ busy' = <<"tz", z>> /\ inForce' = inForce /\ env' = env /\ lost' = lost BY Zenon DEF TzName, Unsynced
<1>4. etc' = [etc EXCEPT !["zone"] = y] BY <1>1, Zenon DEF TzName
<1>5. asked' = [asked EXCEPT !.old = o, !.new = z, !.named = ok] BY <1>2, Zenon DEF TzName
<1>6. Fields(etc, EtcFields) /\ Fields(asked, AskedFields) /\ Fields(env, EnvFields) /\ TzInv /\ EnvInv /\ FilesInv /\ StanzaInv /\ ForceInv
  BY Zenon DEF StInv
<1>7. Fields(etc', EtcFields) /\ FilesSame /\ etc'.zone = y /\ etc'.rule = etc.rule /\ etc'.stanza = etc.stanza
  <2>1. "zone" \in EtcFields BY DEF EtcFields
  <2>2. Except(etc, "zone", y, etc', EtcFields) BY <1>4, <1>6, <2>1, EtcField
  <2>3. QED BY <1>3, <2>2 DEF Except, EtcFields, FilesSame
<1>8. Fields(asked', AskedFields) /\ asked'.old = o /\ asked'.new = z /\ asked'.named = ok /\ asked'.cleared = asked.cleared
      /\ asked'.dirs = asked.dirs /\ asked'.file = asked.file
  <2>1. asked = [f \in AskedFields |-> asked[f]] BY <1>6, Zenon DEF Fields
  <2>2. asked' = [f \in AskedFields |-> IF f = "named" THEN ok ELSE IF f = "new" THEN z ELSE IF f = "old" THEN o ELSE asked[f]]
    BY <1>5, <2>1 DEF AskedFields
  <2>3. QED BY <2>2 DEF Fields, AskedFields
<1>9. TzInv'
  <2>1. tz_get' = IF y \in DOMAIN Posix /\ Posix[y] = etc.rule THEN y ELSE zone_name_for_posix(etc.rule)
    BY <1>7, Zenon DEF tz_get
  <2>2. ASSUME ok PROVE tz_get' \in {o, z, zone_name_for_posix(Posix[o])}
    <3>1. y = z BY <1>1, <2>2, Zenon
    <3>2. zone_name_for_posix(etc.rule) \in {o, zone_name_for_posix(Posix[o])}
      <4>1. CASE etc.zone \in DOMAIN Posix /\ Posix[etc.zone] = etc.rule
        <5>1. o = etc.zone BY <1>2, <4>1, Zenon DEF tz_get
        <5>2. Posix[o] = etc.rule BY <4>1, <5>1, Zenon
        <5>3. QED BY <5>2, Zenon
      <4>2. CASE ~(etc.zone \in DOMAIN Posix /\ Posix[etc.zone] = etc.rule)
        <5>1. o = zone_name_for_posix(etc.rule) BY <1>2, <4>2, Zenon DEF tz_get
        <5>2. QED BY <5>1, Zenon
      <4>3. QED BY <4>1, <4>2
    <3>3. QED BY <2>1, <3>1, <3>2, Zenon
  <2>3. busy'[2] = z BY <1>3
  <2>4. asked'.named => etc'.zone = asked'.new BY <1>1, <1>7, <1>8, Zenon
  <2>5. etc'.zone \in Range(ZoneList) \cup {""} /\ etc'.rule \in Range(Posix) \cup {""} /\ asked'.new \in Range(ZoneList)
    BY <1>1, <1>6, <1>7, <1>8, Zenon DEF TzInv
  <2>6. asked'.named => tz_get' \in {asked'.old, asked'.new, zone_name_for_posix(Posix[asked'.old])}
    BY <1>8, <2>2, Zenon
  <2>7. QED BY <1>8, <2>3, <2>4, <2>5, <2>6, Zenon DEF TzInv
<1>10. EnvInv' BY <1>3, <1>6, <1>8, EnvKept DEF EnvSame
<1>11. FilesInv' BY <1>6, <1>7, FilesKept
<1>12. ForceInv' BY <1>3, <1>6, Spent, Zenon DEF ForceInv
<1>13. Fields(env', EnvFields) BY <1>3, <1>6
<1>14. StanzaInv' BY <1>3, <1>6, <1>7, <1>8, StanzaStays DEF StanzaSame
<1>15. QED BY <1>7, <1>8, <1>9, <1>10, <1>11, <1>12, <1>13, <1>14, Zenon DEF StInv

LEMMA TzRuleKeeps == ASSUME StInv, NEW ok \in BOOLEAN, TzRule(ok) PROVE StInv'
<1>1. busy # <<>> /\ busy[1] = "tz" /\ busy' = <<>> /\ inForce' = inForce /\ env' = env /\ asked' = asked /\ left' = left
      /\ lost' = lost
  BY Zenon DEF TzRule, Unsynced
<1>2. Fields(etc, EtcFields) /\ Fields(asked, AskedFields) /\ Fields(env, EnvFields) /\ TzInv /\ EnvInv /\ FilesInv /\ StanzaInv /\ ForceInv
  BY Zenon DEF StInv
<1>3. Fields(asked', AskedFields) /\ Fields(env', EnvFields) /\ EnvInv' /\ ForceInv'
  BY <1>1, <1>2, Zenon DEF EnvInv, ForceInv
<1>4. busy[2] = asked.new /\ (asked.named => etc.zone = asked.new) BY <1>1, <1>2, Zenon DEF TzInv
<1>5. CASE ok
  <2>1. PICK r : r = Posix[asked.new] OBVIOUS
  <2>2. etc' = [etc EXCEPT !["rule"] = r] BY <1>4, <1>5, <2>1, Zenon DEF TzRule
  <2>3. Fields(etc', EtcFields) /\ FilesSame /\ etc'.zone = etc.zone /\ etc'.rule = r /\ etc'.stanza = etc.stanza
    <3>1. "rule" \in EtcFields BY DEF EtcFields
    <3>2. Except(etc, "rule", r, etc', EtcFields) BY <1>2, <2>2, <3>1, EtcField
    <3>3. QED BY <1>1, <3>2 DEF Except, EtcFields, FilesSame
  <2>4. FilesInv' BY <1>2, <2>3, FilesKept
  <2>5. r \in Range(Posix)
    <3>1. asked.new \in DOMAIN Posix BY <1>2, RcdStoresConstants, Zenon DEF TzInv
    <3>2. QED BY <2>1, <3>1, Zenon DEF Range
  <2>10. asked.new \in DOMAIN Posix BY <1>2, RcdStoresConstants, Zenon DEF TzInv
  <2>6. asked.named => tz_get' = asked.new BY <1>4, <2>1, <2>3, <2>10, Zenon DEF tz_get
  <2>11. etc'.zone \in Range(ZoneList) \cup {""} /\ etc'.rule \in Range(Posix) \cup {""} /\ asked'.new \in Range(ZoneList)
    BY <1>1, <1>2, <2>3, <2>5, Zenon DEF TzInv
  <2>7. TzInv' BY <1>1, <2>6, <2>11, Zenon DEF TzInv
  <2>8. StanzaInv' BY <1>1, <1>2, <2>3, StanzaStays DEF StanzaSame
  <2>9. QED BY <1>3, <2>3, <2>4, <2>7, <2>8, Zenon DEF StInv
<1>6. CASE ~ok
  <2>1. etc' = etc BY <1>6, Zenon DEF TzRule
  <2>2. TzInv' BY <1>1, <1>2, <2>1, TzKept DEF TzSame
  <2>3. FilesInv' BY <1>1, <1>2, <2>1, FilesKept DEF FilesSame
  <2>4. StanzaInv' BY <1>1, <1>2, <2>1, StanzaStays DEF StanzaSame
  <2>5. QED BY <1>2, <1>3, <2>1, <2>2, <2>3, <2>4, Zenon DEF StInv
<1>7. QED BY <1>5, <1>6

-----------------------------------------------------------------------------
\* The boot environment.
LEMMA EnvSetKeeps == ASSUME StInv, NEW var \in EnvFields, NEW v, env_set(var, v) PROVE StInv'
<1>1. Spend /\ env' = [env EXCEPT ![var] = v] /\ etc' = etc /\ inForce' = inForce /\ busy' = busy /\ lost' = lost
  BY Zenon DEF env_set
<1>2. PICK c : c = IF var = "psk" THEN v = "" ELSE asked.cleared OBVIOUS
<1>3. asked' = [asked EXCEPT !["cleared"] = c] BY <1>2, Zenon DEF env_set
<1>4. Fields(etc, EtcFields) /\ Fields(asked, AskedFields) /\ Fields(env, EnvFields) /\ TzInv /\ EnvInv /\ FilesInv /\ StanzaInv /\ ForceInv
  BY Zenon DEF StInv
<1>5. Except(env, var, v, env', EnvFields) BY <1>1, <1>4, EnvField
<1>6. Fields(asked', AskedFields) /\ asked'.cleared = c
      /\ asked'.old = asked.old /\ asked'.new = asked.new /\ asked'.named = asked.named
      /\ asked'.dirs = asked.dirs /\ asked'.file = asked.file
  <2>1. "cleared" \in AskedFields BY DEF AskedFields
  <2>2. Except(asked, "cleared", c, asked', AskedFields) BY <1>3, <1>4, <2>1, AskedField
  <2>3. QED BY <2>2, Zenon DEF Except, AskedFields
<1>7. EnvInv'
  <2>1. CASE var = "psk"
    <3>1. env'.psk = v BY <1>5, <2>1, Zenon DEF Except
    <3>2. QED BY <1>2, <1>6, <2>1, <3>1, Zenon DEF EnvInv
  <2>2. CASE var # "psk"
    <3>1. env'.psk = env.psk BY <1>5, <2>2, Zenon DEF Except, EnvFields
    <3>2. asked'.cleared = asked.cleared BY <1>2, <1>6, <2>2, Zenon
    <3>3. QED BY <1>4, <3>1, <3>2, Zenon DEF EnvInv
  <2>3. QED BY <2>1, <2>2
<1>8. TzInv' BY <1>1, <1>4, <1>6, TzKept DEF TzSame
<1>9. FilesInv' BY <1>1, <1>4, FilesKept DEF FilesSame
<1>10. ForceInv' BY <1>1, <1>4, Spent, Zenon DEF ForceInv
<1>11. Fields(etc', EtcFields) /\ Fields(env', EnvFields) BY <1>1, <1>4, <1>5, Zenon DEF Except
<1>12. StanzaInv' BY <1>1, <1>4, <1>6, StanzaStays DEF StanzaSame
<1>13. QED BY <1>6, <1>7, <1>8, <1>9, <1>10, <1>11, <1>12, Zenon DEF StInv

LEMMA ResetSsidKeeps == ASSUME StInv, ResetSsid PROVE StInv'
<1>1. Spend /\ env' = [env EXCEPT !["ssid"] = ""] /\ etc' = etc /\ inForce' = inForce /\ busy' = <<"reset", "psk">> /\ asked' = asked
      /\ lost' = lost
  BY Zenon DEF ResetSsid
<1>4. Fields(etc, EtcFields) /\ Fields(asked, AskedFields) /\ Fields(env, EnvFields) /\ TzInv /\ EnvInv /\ FilesInv /\ StanzaInv /\ ForceInv
  BY Zenon DEF StInv
<1>5. Fields(env', EnvFields) /\ env'.psk = env.psk
  <2>1. PICK v : v = "" OBVIOUS
  <2>2. "ssid" \in EnvFields BY DEF EnvFields
  <2>3. env' = [env EXCEPT !["ssid"] = v] BY <1>1, <2>1, Zenon
  <2>4. Except(env, "ssid", v, env', EnvFields) BY <1>4, <2>2, <2>3, EnvField
  <2>5. QED BY <2>4 DEF Except, EnvFields
<1>7. EnvInv' BY <1>1, <1>4, <1>5, EnvKept DEF EnvSame
<1>8. TzInv' BY <1>1, <1>4, TzKept DEF TzSame
<1>9. FilesInv' BY <1>1, <1>4, FilesKept DEF FilesSame
<1>10. ForceInv' BY <1>1, <1>4, Spent, Zenon DEF ForceInv
<1>11. Fields(etc', EtcFields) /\ Fields(asked', AskedFields) BY <1>1, <1>4
<1>12. StanzaInv' BY <1>1, <1>4, StanzaStays DEF StanzaSame
<1>13. QED BY <1>5, <1>7, <1>8, <1>9, <1>10, <1>11, <1>12, Zenon DEF StInv

LEMMA ResetPskKeeps == ASSUME StInv, NEW ok \in BOOLEAN, ResetPsk(ok) PROVE StInv'
<1>1. PICK p : p = IF ok THEN "" ELSE env.psk OBVIOUS
<1>2. PICK c : c = (ok \/ asked.cleared) OBVIOUS
<1>3. env' = [ssid |-> "", psk |-> p] /\ etc' = etc /\ inForce' = inForce /\ busy' = <<>> /\ left' = left /\ lost' = lost
  BY <1>1, Zenon DEF ResetPsk
<1>4. Fields(etc, EtcFields) /\ Fields(asked, AskedFields) /\ Fields(env, EnvFields) /\ TzInv /\ EnvInv /\ FilesInv /\ StanzaInv /\ ForceInv
  BY Zenon DEF StInv
<1>5. asked' = [asked EXCEPT !["cleared"] = c] BY <1>2, Zenon DEF ResetPsk
<1>6. Fields(asked', AskedFields) /\ asked'.cleared = c
      /\ asked'.old = asked.old /\ asked'.new = asked.new /\ asked'.named = asked.named
      /\ asked'.dirs = asked.dirs /\ asked'.file = asked.file
  <2>1. "cleared" \in AskedFields BY DEF AskedFields
  <2>2. Except(asked, "cleared", c, asked', AskedFields) BY <1>4, <1>5, <2>1, AskedField
  <2>3. QED BY <2>2, Zenon DEF Except, AskedFields
<1>7. Fields(env', EnvFields) /\ env'.psk = p BY <1>3 DEF Fields, EnvFields
<1>8. EnvInv'
  <2>1. CASE ok BY <1>2, <1>6, <2>1, Zenon DEF EnvInv
  <2>2. CASE ~ok
    <3>1. env'.psk = env.psk BY <1>1, <1>7, <2>2, Zenon
    <3>2. asked.cleared => asked'.cleared BY <1>2, <1>6, Zenon
    <3>3. QED BY <1>4, <3>1, <3>2, Zenon DEF EnvInv
  <2>3. QED BY <2>1, <2>2
<1>9. TzInv' BY <1>3, <1>4, <1>6, TzKept DEF TzSame
<1>10. FilesInv' BY <1>3, <1>4, FilesKept DEF FilesSame
<1>11. ForceInv' BY <1>3, <1>4, Zenon DEF ForceInv
<1>12. Fields(etc', EtcFields) BY <1>3, <1>4
<1>13. StanzaInv' BY <1>3, <1>4, <1>6, StanzaStays DEF StanzaSame
<1>14. QED BY <1>6, <1>7, <1>8, <1>9, <1>10, <1>11, <1>12, <1>13, Zenon DEF StInv

-----------------------------------------------------------------------------
\* The accounts and the names.
LEMMA FilesParts ==
    ASSUME "hosts" \in lost' \/ HostsOK(etc'.hosts), etc'.host \in HostNames, ShadowOK(etc'.shadow)
    PROVE  FilesInv'
BY Zenon DEF FilesInv, HostsOK, ShadowOK, Service, HostLine, Account

\* A file of two lines has two lines.
LEMMA TwoLines == ASSUME NEW S, NEW f \in [1 .. 2 -> S] PROVE f \in Seq(S) /\ Len(f) = 2
<1>1. f = [i \in 1 .. 2 |-> f[i]] /\ \A i \in 1 .. 2 : f[i] \in S OBVIOUS
<1>2. QED BY <1>1, IsASeq

\* One of the lines is put anew.
LEMMA LinePut ==
    ASSUME NEW S, NEW f \in [1 .. 2 -> S], NEW k \in 1 .. 2, NEW n \in S, NEW g, g = [f EXCEPT ![k] = n]
    PROVE  g \in [1 .. 2 -> S] /\ g[k] = n /\ \A j \in 1 .. 2 : j # k => g[j] = f[j]
OBVIOUS

LEMMA AccountFields ==
    ASSUME NEW a, NEW z, NEW c, NEW x, NEW e, NEW n, e = [w |-> a, v |-> z, whole |-> c], n = [e EXCEPT !.v = x]
    PROVE  n = [w |-> a, v |-> x, whole |-> c] /\ n.w = e.w /\ n.v = x
OBVIOUS

LEMMA AccountPut ==
    ASSUME NEW e \in Account, NEW x \in Hashes, NEW n, n = [e EXCEPT !.v = x]
    PROVE  n \in Account /\ n.w = e.w /\ n.v = x
<1>1. PICK a \in {"root", "svc"}, z \in Hashes \cup {"", "old", "x"}, c \in BOOLEAN : e = [w |-> a, v |-> z, whole |-> c]
  <2>1. e \in [w : {"root", "svc"}, v : Hashes \cup {"", "old", "x"}, whole : BOOLEAN] BY Zenon DEF Account
  <2>2. QED BY <2>1, Zenon
<1>2. n = [w |-> a, v |-> x, whole |-> c] /\ n.w = e.w /\ n.v = x BY <1>1, AccountFields
<1>3. x \in Hashes \cup {"", "old", "x"} BY Zenon
<1>4. n \in Account BY <1>2, <1>3, Zenon DEF Account
<1>5. QED BY <1>2, <1>4, Zenon

\* The first line that names the root account is the file's first.
LEMMA ShadowRow ==
    ASSUME NEW f, ShadowOK(f), NEW at, at = SelectInSeq(f, LAMBDA l : l.w = "root"), at > 0
    PROVE  at = 1
<1> DEFINE I == {i \in 1 .. Len(f) : f[i].w = "root"}
<1>1. Len(f) = 2 BY TwoLines DEF ShadowOK
<1>2. at = IF I # {} THEN Min(I) ELSE 0 BY Zenon DEF SelectInSeq
<1>3. f[2].w = "svc" BY DEF ShadowOK, Service
<1>4. I \subseteq {1} BY <1>1, <1>3
<1>5. I # {} BY <1>2
<1>6. Min(I) \in I
  <2>1. I \in SUBSET Nat BY <1>4
  <2>2. QED BY <1>5, <2>1, SmallestNumber
<1>7. at \in I BY <1>2, <1>5, <1>6, Zenon
<1>8. QED BY <1>4, <1>7, Zenon

LEMMA ShadowPut ==
    ASSUME NEW f, ShadowOK(f), NEW hash \in Hashes, hash # "bad", NEW g, g = [f EXCEPT ![1] = [f[1] EXCEPT !.v = hash]]
    PROVE  ShadowOK(g)
<1>1. f \in [1 .. 2 -> Account] /\ f[1].w = "root" /\ f[2] = Service /\ f[1] \in Account BY DEF ShadowOK
<1>2. PICK n : n = [f[1] EXCEPT !.v = hash] OBVIOUS
<1>3. PICK e \in Account : e = f[1] BY <1>1, Zenon
<1>4. n \in Account /\ n.w = e.w /\ n.v = hash
  <2>1. n = [e EXCEPT !.v = hash] BY <1>2, <1>3, Zenon
  <2>2. QED BY <2>1, AccountPut
<1>5. g = [f EXCEPT ![1] = n] BY <1>2, Zenon
<1>6. g \in [1 .. 2 -> Account] /\ g[1] = n /\ g[2] = f[2]
  <2>1. f \in [1 .. 2 -> Account] /\ n \in Account BY <1>1, <1>4, Zenon
  <2>2. QED BY <1>5, <2>1, LinePut
<1>7. QED BY <1>1, <1>3, <1>4, <1>6, Zenon DEF ShadowOK

LEMMA HostsPut ==
    ASSUME NEW f, HostsOK(f), NEW n \in HostNames
    PROVE  HostsOK(hosts_rename(f, n))
<1> DEFINE I == {i \in 1 .. Len(f) : f[i].w = "127.0.1.1"}
<1>1. Len(f) = 2 BY TwoLines DEF HostsOK
<1>2. PICK at : at = IF I # {} THEN Min(I) ELSE 0 OBVIOUS
<1>3. hosts_rename(f, n) = IF at = 0 THEN f ELSE [f EXCEPT ![at].v = n] BY <1>2, Zenon DEF hosts_rename, SelectInSeq
<1>4. I \subseteq {2} BY <1>1 DEF HostsOK
<1>5. at \in {0, 2}
  <2>1. CASE I = {} BY <1>2, <2>1
  <2>2. CASE I # {}
    <3>1. I \in SUBSET Nat BY <1>4
    <3>2. Min(I) \in I BY <2>2, <3>1, SmallestNumber
    <3>3. at \in I BY <1>2, <2>2, <3>2, Zenon
    <3>4. QED BY <1>4, <3>3, Zenon
  <2>3. QED BY <2>1, <2>2
<1>6. CASE at = 0
  <2>1. hosts_rename(f, n) = f BY <1>3, <1>6, Zenon
  <2>2. QED BY <2>1
<1>7. CASE at = 2
  <2>1. f \in [1 .. 2 -> HostLine] /\ f[2] \in HostLine /\ f[1].w = "127.0.0.1" /\ f[1].v = "localhost" BY DEF HostsOK
  <2>2. PICK a \in {"127.0.0.1", "127.0.1.1"}, z \in HostNames \cup {"localhost"} : f[2] = [w |-> a, v |-> z]
    <3>1. f[2] \in [w : {"127.0.0.1", "127.0.1.1"}, v : HostNames \cup {"localhost"}] BY <2>1, Zenon DEF HostLine
    <3>2. QED BY <3>1, Zenon
  <2>3. PICK l : l = [w |-> a, v |-> n] OBVIOUS
  <2>4. [f[2] EXCEPT !.v = n] = l BY <2>2, <2>3, SMT
  <2>5. l \in HostLine
    <3>1. n \in HostNames \cup {"localhost"} BY Zenon
    <3>2. QED BY <2>3, <3>1, Zenon DEF HostLine
  <2>6. at # 0 BY <1>7
  <2>7. hosts_rename(f, n) = [f EXCEPT ![2] = l] BY <1>3, <1>7, <2>4, <2>6, Zenon
  <2>8. PICK g : g = hosts_rename(f, n) OBVIOUS
  <2>9. g \in [1 .. 2 -> HostLine] /\ g[1] = f[1]
    <3>1. g = [f EXCEPT ![2] = l] BY <2>7, <2>8, Zenon
    <3> HIDE DEF I
    <3>2. QED BY <2>1, <2>5, <3>1
  <2>10. QED BY <2>1, <2>8, <2>9, Zenon DEF HostsOK
<1>8. QED BY <1>5, <1>6, <1>7

LEMMA ShadowWriteKeeps == ASSUME StInv, NEW hash \in Hashes, shadow_write(hash) PROVE StInv'
<1>1. PICK f : f = etc.shadow OBVIOUS
<1>2. PICK at : at = SelectInSeq(f, LAMBDA l : l.w = "root") OBVIOUS
<1>3. Spend /\ hash # "bad" /\ inForce' = inForce /\ env' = env /\ busy' = busy /\ asked' = asked /\ lost' = lost
  BY Zenon DEF shadow_write
<1>4. at > 0 BY <1>1, <1>2, Zenon DEF shadow_write
<1>5. etc' = [etc EXCEPT !.shadow[at].v = hash] BY <1>1, <1>2, Zenon DEF shadow_write
<1>6. Fields(etc, EtcFields) /\ Fields(asked, AskedFields) /\ Fields(env, EnvFields) /\ TzInv /\ EnvInv /\ FilesInv /\ StanzaInv /\ ForceInv
  BY Zenon DEF StInv
<1>7. ShadowOK(f) BY <1>1, <1>6, Zenon DEF FilesInv
<1>8. at = 1 BY <1>2, <1>4, <1>7, ShadowRow
<1>9. PICK g : g = [f EXCEPT ![1] = [f[1] EXCEPT !.v = hash]] OBVIOUS
<1>10. ShadowOK(g) BY <1>3, <1>7, <1>9, ShadowPut
<1>11. etc' = [etc EXCEPT !["shadow"] = g] BY <1>1, <1>5, <1>8, <1>9, Zenon
<1>12. Fields(etc', EtcFields) /\ etc'.shadow = g /\ etc'.hosts = etc.hosts /\ etc'.host = etc.host
       /\ etc'.zone = etc.zone /\ etc'.rule = etc.rule /\ etc'.stanza = etc.stanza
  <2>1. "shadow" \in EtcFields BY DEF EtcFields
  <2>2. Except(etc, "shadow", g, etc', EtcFields) BY <1>6, <1>11, <2>1, EtcField
  <2>3. QED BY <2>2 DEF Except, EtcFields
<1>13. ("hosts" \in lost' \/ HostsOK(etc'.hosts)) /\ etc'.host \in HostNames /\ ShadowOK(etc'.shadow)
  BY <1>3, <1>6, <1>10, <1>12, Zenon DEF FilesInv
<1>14. FilesInv' BY <1>13, FilesParts
<1>15. TzInv' BY <1>3, <1>6, <1>12, TzKept DEF TzSame
<1>16. EnvInv' BY <1>3, <1>6, EnvKept DEF EnvSame
<1>17. ForceInv' BY <1>3, <1>6, Spent, Zenon DEF ForceInv
<1>18. Fields(env', EnvFields) /\ Fields(asked', AskedFields) BY <1>3, <1>6
<1>19. StanzaInv' BY <1>3, <1>6, <1>12, StanzaStays DEF StanzaSame
<1>20. QED BY <1>12, <1>14, <1>15, <1>16, <1>17, <1>18, <1>19, Zenon DEF StInv

LEMMA HostnameSetKeeps == ASSUME StInv, NEW n \in Hosts, hostname_set(n) PROVE StInv'
<1>1. Spend /\ etc' = [etc EXCEPT !["host"] = n] /\ inForce' = inForce /\ env' = env /\ busy' = busy /\ asked' = asked
      /\ lost' = lost
  BY Zenon DEF hostname_set, Unsynced
<1>2. Fields(etc, EtcFields) /\ Fields(asked, AskedFields) /\ Fields(env, EnvFields) /\ TzInv /\ EnvInv /\ FilesInv /\ StanzaInv /\ ForceInv
  BY Zenon DEF StInv
<1>12. n \in HostNames BY Zenon DEF HostNames
<1>3. Fields(etc', EtcFields) /\ etc'.shadow = etc.shadow /\ etc'.hosts = etc.hosts /\ etc'.host = n
      /\ etc'.zone = etc.zone /\ etc'.rule = etc.rule /\ etc'.stanza = etc.stanza
  <2>1. "host" \in EtcFields BY DEF EtcFields
  <2>2. Except(etc, "host", n, etc', EtcFields) BY <1>1, <1>2, <2>1, EtcField
  <2>3. QED BY <2>2 DEF Except, EtcFields
<1>4. ("hosts" \in lost' \/ HostsOK(etc'.hosts)) /\ etc'.host \in HostNames /\ ShadowOK(etc'.shadow)
  BY <1>1, <1>2, <1>3, <1>12, Zenon DEF FilesInv
<1>5. FilesInv' BY <1>4, FilesParts
<1>6. TzInv' BY <1>1, <1>2, <1>3, TzKept DEF TzSame
<1>7. EnvInv' BY <1>1, <1>2, EnvKept DEF EnvSame
<1>8. ForceInv' BY <1>1, <1>2, Spent, Zenon DEF ForceInv
<1>9. Fields(env', EnvFields) /\ Fields(asked', AskedFields) BY <1>1, <1>2
<1>10. StanzaInv' BY <1>1, <1>2, <1>3, StanzaStays DEF StanzaSame
<1>11. QED BY <1>3, <1>5, <1>6, <1>7, <1>8, <1>9, <1>10, Zenon DEF StInv

LEMMA HostnameEnactKeeps == ASSUME StInv, NEW a \in BOOLEAN, NEW z \in BOOLEAN, hostname_enact(a, z) PROVE StInv'
<1>1. left' = left /\ env' = env /\ busy' = busy /\ asked' = asked /\ lost' = lost BY Zenon DEF hostname_enact, Unsynced
<1>2. Fields(etc, EtcFields) /\ Fields(asked, AskedFields) /\ Fields(env, EnvFields) /\ TzInv /\ EnvInv /\ FilesInv /\ StanzaInv /\ ForceInv
  BY Zenon DEF StInv
<1>3. PICK f : f = etc.hosts OBVIOUS
<1>4. PICK n : n = etc.host OBVIOUS
<1>5. PICK g : g = hosts_rename(f, n) OBVIOUS
<1>6. etc' = [etc EXCEPT !["hosts"] = g] BY <1>3, <1>4, <1>5, Zenon DEF hostname_enact
<1>7. "hosts" \in lost \/ HostsOK(g)
  <2>1. ("hosts" \in lost \/ HostsOK(f)) /\ n \in HostNames BY <1>2, <1>3, <1>4, Zenon DEF FilesInv
  <2>2. QED BY <1>5, <2>1, HostsPut
<1>8. Fields(etc', EtcFields) /\ etc'.shadow = etc.shadow /\ etc'.hosts = g /\ etc'.host = etc.host
      /\ etc'.zone = etc.zone /\ etc'.rule = etc.rule /\ etc'.stanza = etc.stanza
  <2>1. "hosts" \in EtcFields BY DEF EtcFields
  <2>2. Except(etc, "hosts", g, etc', EtcFields) BY <1>2, <1>6, <2>1, EtcField
  <2>3. QED BY <2>2 DEF Except, EtcFields
<1>9. ("hosts" \in lost' \/ HostsOK(etc'.hosts)) /\ etc'.host \in HostNames /\ ShadowOK(etc'.shadow)
  BY <1>1, <1>2, <1>7, <1>8, Zenon DEF FilesInv
<1>10. FilesInv' BY <1>9, FilesParts
<1>11. TzInv' BY <1>1, <1>2, <1>8, TzKept DEF TzSame
<1>12. EnvInv' BY <1>1, <1>2, EnvKept DEF EnvSame
<1>13. ForceInv'
  <2>1. PICK x, y : inForce' = [inForce EXCEPT !.name = x, !.mdns = y] BY Zenon DEF hostname_enact
  <2>2. inForce = [k \in ForceFields |-> inForce[k]] BY <1>2, Zenon DEF ForceInv, Fields
  <2>3. inForce' = [k \in ForceFields |-> IF k = "mdns" THEN y ELSE IF k = "name" THEN x ELSE inForce[k]]
    BY <2>1, <2>2 DEF ForceFields
  <2>4. Fields(inForce', ForceFields) /\ inForce'.radio = inForce.radio BY <2>3 DEF Fields, ForceFields
  <2>5. QED BY <1>1, <1>2, <2>4, Zenon DEF ForceInv
<1>14. Fields(env', EnvFields) /\ Fields(asked', AskedFields) BY <1>1, <1>2
<1>15. StanzaInv' BY <1>1, <1>2, <1>8, StanzaStays DEF StanzaSame
<1>16. QED BY <1>8, <1>10, <1>11, <1>12, <1>13, <1>14, <1>15, Zenon DEF StInv

-----------------------------------------------------------------------------
\* The radio, a power cut, and the whole.
LEMMA NothingKeeps ==
    ASSUME StInv, etc' = etc, env' = env, asked' = asked, busy' \in {busy, <<>>}, left' = left, lost' = lost,
           Fields(inForce', ForceFields), inForce'.radio \in {"ap", "client", "off"}
    PROVE  StInv'
<1>1. Fields(etc, EtcFields) /\ Fields(asked, AskedFields) /\ Fields(env, EnvFields) /\ TzInv /\ EnvInv /\ FilesInv /\ StanzaInv /\ ForceInv
  BY Zenon DEF StInv
<1>2. TzInv' BY <1>1, TzKept DEF TzSame
<1>3. EnvInv' BY <1>1, EnvKept DEF EnvSame
<1>4. FilesInv' BY <1>1, FilesKept DEF FilesSame
<1>5. ForceInv' BY <1>1, Zenon DEF ForceInv
<1>6. StanzaInv' BY <1>1, StanzaStays DEF StanzaSame
<1>7. QED BY <1>1, <1>2, <1>3, <1>4, <1>5, <1>6, Zenon DEF StInv

LEMMA WifiEnactKeeps == ASSUME StInv, NEW a \in BOOLEAN, NEW z \in BOOLEAN, wifi_enact(a, z) PROVE StInv'
<1>1. etc' = etc /\ env' = env /\ asked' = asked /\ busy' = busy /\ left' = left /\ lost' = lost BY Zenon DEF wifi_enact
<1>2. PICK r \in {"ap", "client", "off"} : inForce' = [inForce EXCEPT !["radio"] = r]
  <2>1. PICK r : r = IF env.ssid = "" THEN "ap" ELSE IF a \/ z THEN "client" ELSE "off" OBVIOUS
  <2>2. r \in {"ap", "client", "off"} BY <2>1, Zenon
  <2>3. inForce' = [inForce EXCEPT !["radio"] = r] BY <2>1, Zenon DEF wifi_enact
  <2>4. QED BY <2>2, <2>3, Zenon
<1>3. Fields(inForce, ForceFields) BY Zenon DEF StInv, ForceInv
<1>4. "radio" \in ForceFields BY DEF ForceFields
<1>5. Except(inForce, "radio", r, inForce', ForceFields) BY <1>2, <1>3, <1>4, ForceField
<1>6. Fields(inForce', ForceFields) /\ inForce'.radio \in {"ap", "client", "off"} BY <1>5, Zenon DEF Except
<1>7. QED BY <1>1, <1>6, NothingKeeps

\* A file is empty and lost, or as it was.
LEMMA CutFile ==
    ASSUME Fields(etc, EtcFields), NEW cut, etc' = [f \in DOMAIN etc |-> IF f \in cut THEN Emptied(f) ELSE etc[f]]
    PROVE  Fields(etc', EtcFields) /\ \A f \in EtcFields : etc'[f] = IF f \in cut THEN Emptied(f) ELSE etc[f]
<1>1. PICK r, s : r = etc /\ s = etc' OBVIOUS
<1>2. r = [f \in EtcFields |-> r[f]] BY <1>1, Zenon DEF Fields
<1>3. DOMAIN r = EtcFields BY <1>2, Zenon
<1>4. s = [f \in EtcFields |-> IF f \in cut THEN Emptied(f) ELSE r[f]] BY <1>1, <1>3, Zenon
<1>5. Fields(s, EtcFields) /\ \A f \in EtcFields : s[f] = IF f \in cut THEN Emptied(f) ELSE r[f] BY <1>4, Zenon DEF Fields
<1>6. QED BY <1>1, <1>5, Zenon

LEMMA PowerCutKeeps == ASSUME StInv, LooseInv, PowerCut PROVE StInv'
<1>1. env' = env /\ asked' = asked /\ busy' = <<>> /\ left' = left BY Zenon DEF PowerCut
<1>2. PICK cut \in SUBSET loose :
        /\ etc' = [f \in DOMAIN etc |-> IF f \in cut THEN Emptied(f) ELSE etc[f]]
        /\ lost' = lost \cup cut
  BY Zenon DEF PowerCut
<1>3. Fields(etc, EtcFields) /\ Fields(asked, AskedFields) /\ Fields(env, EnvFields) /\ TzInv /\ EnvInv /\ FilesInv /\ StanzaInv /\ ForceInv
  BY Zenon DEF StInv
<1>4. Fields(etc', EtcFields) /\ \A f \in EtcFields : etc'[f] = IF f \in cut THEN Emptied(f) ELSE etc[f]
  BY <1>2, <1>3, CutFile
<1>5. "shadow" \notin cut
  <2>1. "shadow" \notin Loosable BY DEF Loosable
  <2>2. QED BY <1>2, <2>1, Zenon DEF LooseInv
<1>6. /\ etc'.zone = IF "zone" \in cut THEN "" ELSE etc.zone
      /\ etc'.rule = IF "rule" \in cut THEN "" ELSE etc.rule
      /\ etc'.host = IF "host" \in cut THEN "" ELSE etc.host
  <2>1. {"zone", "rule", "host"} \subseteq EtcFields BY DEF EtcFields
  <2>2. Emptied("zone") = "" /\ Emptied("rule") = "" /\ Emptied("host") = "" BY DEF Emptied
  <2>3. QED BY <1>4, <2>1, <2>2, Zenon
<1>7. /\ "hosts" \notin cut => etc'.hosts = etc.hosts
      /\ "stanza" \notin cut => etc'.stanza = etc.stanza
      /\ etc'.shadow = etc.shadow
  <2>1. {"hosts", "stanza", "shadow"} \subseteq EtcFields BY DEF EtcFields
  <2>2. QED BY <1>4, <1>5, <2>1, Zenon
<1>8. TzInv'
  <2>1. ASSUME asked'.named, {"rule", "zone"} \cap lost' = {}
        PROVE  tz_get' \in {asked'.old, asked'.new, zone_name_for_posix(Posix[asked'.old])}
    <3>1. "rule" \notin cut /\ "zone" \notin cut /\ {"rule", "zone"} \cap lost = {} BY <1>2, <2>1, Zenon
    <3>2. etc'.zone = etc.zone /\ etc'.rule = etc.rule BY <1>6, <3>1, Zenon
    <3>3. tz_get' = tz_get BY <3>2, Zenon DEF tz_get
    <3>4. QED BY <1>1, <1>3, <2>1, <3>1, <3>3, Zenon DEF TzInv
  <2>2. etc'.zone \in Range(ZoneList) \cup {""} /\ etc'.rule \in Range(Posix) \cup {""} /\ asked'.new \in Range(ZoneList)
    BY <1>1, <1>3, <1>6, Zenon DEF TzInv
  <2>3. QED BY <1>1, <2>1, <2>2, Zenon DEF TzInv
<1>9. EnvInv' BY <1>1, <1>3, EnvKept DEF EnvSame
<1>10. FilesInv'
  <2>1. "hosts" \in lost' \/ HostsOK(etc'.hosts)
    <3>1. CASE "hosts" \in cut BY <1>2, <3>1, Zenon
    <3>2. CASE "hosts" \notin cut
      <4>1. PICK h : h = etc.hosts OBVIOUS
      <4>2. etc'.hosts = h BY <1>7, <3>2, <4>1, Zenon
      <4>3. "hosts" \in lost \/ HostsOK(h) BY <1>3, <4>1, Zenon DEF FilesInv
      <4>4. QED BY <1>2, <4>2, <4>3, Zenon
    <3>3. QED BY <3>1, <3>2
  <2>2. etc'.host \in HostNames BY <1>3, <1>6, Zenon DEF FilesInv, HostNames
  <2>3. ShadowOK(etc'.shadow)
    <3>1. PICK h : h = etc.shadow OBVIOUS
    <3>2. QED BY <1>3, <1>7, <3>1, Zenon DEF FilesInv
  <2>4. QED BY <2>1, <2>2, <2>3, FilesParts
<1>11. StanzaInv'
  <2>1. CASE "stanza" \in cut BY <1>1, <1>2, <1>3, <2>1, Zenon DEF StanzaInv
  <2>2. CASE "stanza" \notin cut
    <3>1. PICK f, g : f = etc.stanza /\ g = asked.file OBVIOUS
    <3>2. PICK e : e = asked.dirs OBVIOUS
    <3>3. f = etc'.stanza /\ g = asked'.file /\ e = asked'.dirs BY <1>1, <1>7, <2>2, <3>1, <3>2, Zenon
    <3>4. Fields(e, Owned) /\ ("stanza" \in lost' \/ StanzaAsked(f, g, e)) BY <1>2, <1>3, <3>1, <3>2, Zenon DEF StanzaInv
    <3>5. QED BY <3>3, <3>4, Zenon DEF StanzaInv, StanzaAsked
  <2>3. QED BY <2>1, <2>2
<1>12. ForceInv'
  <2>1. PICK p, n, m : inForce' = [ntp |-> p, name |-> n, mdns |-> n, method |-> m, radio |-> IF env.ssid = "" THEN "ap" ELSE "client"]
    BY Zenon DEF PowerCut
  <2>2. Fields(inForce', ForceFields) BY <2>1 DEF Fields, ForceFields
  <2>3. inForce'.radio \in {"ap", "client", "off"} BY <2>1
  <2>4. QED BY <1>1, <1>3, <2>2, <2>3, Zenon DEF ForceInv
<1>13. Fields(asked', AskedFields) /\ Fields(env', EnvFields) BY <1>1, <1>3
<1>14. QED BY <1>4, <1>8, <1>9, <1>10, <1>11, <1>12, <1>13, Zenon DEF StInv

\* Only files that are written without a sync are ever lost.
LEMMA LooseStart == StInit => LooseInv
BY Zenon DEF StInit, LooseInv
LEMMA LooseStep == LooseInv /\ [StNext]_stvars => LooseInv'
<1> SUFFICES ASSUME LooseInv, [StNext]_stvars PROVE LooseInv' OBVIOUS
<1>1. ASSUME NEW n \in Loosable, Unsynced(n) PROVE LooseInv' BY <1>1, Zenon DEF LooseInv, Unsynced
<1>2. {"rule", "zone", "ntp", "host", "hosts", "stanza"} \subseteq Loosable BY Zenon DEF Loosable
<1>3. CASE PowerCut BY <1>3, Zenon DEF PowerCut, LooseInv
<1>4. CASE \/ (\E d \in Owned, v \in Addrs : stanza_set(d, v)) \/ (\E m \in {"dhcp", "static"} : method_set(m))
           \/ (\E z \in Range(ZoneList), ok \in BOOLEAN : TzName(z, ok)) \/ (\E ok \in BOOLEAN : TzRule(ok))
           \/ (\E h \in Hosts, ok \in BOOLEAN : ntp_set(h, ok)) \/ (\E h \in Hosts : hostname_set(h))
           \/ (\E a, z \in BOOLEAN : hostname_enact(a, z))
  BY <1>1, <1>2, <1>4, Zenon DEF stanza_set, method_set, TzName, TzRule, ntp_set, hostname_set, hostname_enact
<1>5. CASE loose' = loose /\ lost' = lost BY <1>5, Zenon DEF LooseInv
<1>6. QED BY <1>3, <1>4, <1>5, Zenon DEF StNext, stvars, ResetPsk, wifi_enact, rcd_cmd_claim, root_password_set,
        shadow_write, env_set, net_enact, ResetSsid

LEMMA HostsFirst ==
    ASSUME NEW h, h = <<[w |-> "127.0.0.1", v |-> "localhost"], [w |-> "127.0.1.1", v |-> "cam"]>>
    PROVE  HostsOK(h)
<1>1. PICK a : a = [w |-> "127.0.0.1", v |-> "localhost"] OBVIOUS
<1>2. PICK z : z = [w |-> "127.0.1.1", v |-> "cam"] OBVIOUS
<1>3. a \in HostLine /\ z \in HostLine
  <2>1. "cam" \in HostNames BY Zenon DEF HostNames
  <2>2. "localhost" \in HostNames \cup {"localhost"} /\ "cam" \in HostNames \cup {"localhost"} BY <2>1, Zenon
  <2>3. QED BY <1>1, <1>2, <2>2, Zenon DEF HostLine
<1>7. a.w = "127.0.0.1" /\ a.v = "localhost" BY <1>1
<1>4. h = <<a, z>> BY <1>1, <1>2, Zenon
<1>5. h \in [1 .. 2 -> HostLine] /\ h[1] = a BY <1>3, <1>4
<1>6. QED BY <1>3, <1>5, <1>7, Zenon DEF HostsOK

LEMMA ShadowFirst ==
    ASSUME NEW l \in Account, l.w = "root", l.v # "bad", NEW s, s = <<l, Service>>
    PROVE  ShadowOK(s)
<1>1. Service \in Account
  <2>1. "svc" \in {"root", "svc"} /\ "x" \in Hashes \cup {"", "old", "x"} /\ TRUE \in BOOLEAN BY Zenon
  <2>2. QED BY <2>1, Zenon DEF Account, Service
<1>2. PICK t \in Account : t = Service BY <1>1, Zenon
<1>3. s = <<l, t>> BY <1>2, Zenon
<1>4. s \in [1 .. 2 -> Account] /\ s[1] = l /\ s[2] = t BY <1>3
<1>5. QED BY <1>2, <1>4, Zenon DEF ShadowOK

LEMMA LineSeq == ASSUME NEW f \in Seq([w : STRING, v : STRING]) PROVE f \in Seq(Lines)
<1>1. [w : STRING, v : STRING] \subseteq Lines
  <2>1. STRING \subseteq Spelling BY Zenon DEF Spelling
  <2>2. QED BY <2>1 DEF Lines
<1>2. QED BY <1>1, SeqMonotonic

LEMMA StStart == StInit => StInv
<1> SUFFICES ASSUME StInit PROVE StInv OBVIOUS
<1>0. left \in 0 .. StoreOps
  <2>1. StoreOps \in Nat BY RcdStoresConstants, Zenon
  <2>2. left = StoreOps BY Zenon DEF StInit
  <2>3. QED BY <2>1, <2>2
<1>1. PICK f \in Stanzas, z \in Range(ZoneList), root \in {"", "old"}, whole \in BOOLEAN :
         /\ etc = [rule |-> Posix[z], zone |-> z, ntp |-> "pool", host |-> "cam", resolv |-> "",
                   hosts |-> <<[w |-> "127.0.0.1", v |-> "localhost"], [w |-> "127.0.1.1", v |-> "cam"]>>,
                   stanza |-> f,
                   shadow |-> <<[w |-> "root", v |-> root, whole |-> whole],
                                [w |-> "svc", v |-> "x", whole |-> TRUE]>>]
         /\ inForce = [ntp |-> "pool", name |-> "cam", mdns |-> "cam",
                    method |-> stanza_get(f, "method"), radio |-> "client"]
         /\ asked = [dirs |-> [d \in Owned |-> "never"], old |-> z, new |-> z, named |-> TRUE,
                     file |-> f, cleared |-> FALSE]
  BY Zenon DEF StInit
<1>2. env = [ssid |-> "net", psk |-> "key"] /\ busy = <<>> /\ left = StoreOps BY Zenon DEF StInit
<1>3. PICK r : r = Posix[z] OBVIOUS
<1>4. PICK h : h = <<[w |-> "127.0.0.1", v |-> "localhost"], [w |-> "127.0.1.1", v |-> "cam"]>> OBVIOUS
<1>5. PICK l : l = [w |-> "root", v |-> root, whole |-> whole] OBVIOUS
<1>6. PICK s : s = <<l, Service>> OBVIOUS
<1>7. etc = [rule |-> r, zone |-> z, ntp |-> "pool", host |-> "cam", resolv |-> "", hosts |-> h, stanza |-> f, shadow |-> s]
  BY <1>1, <1>3, <1>4, <1>5, <1>6, Zenon DEF Service
<1>8. Fields(etc, EtcFields) BY <1>7 DEF Fields, EtcFields
<1>9. etc.zone = z /\ etc.rule = r /\ etc.hosts = h /\ etc.shadow = s /\ etc.host = "cam" BY <1>7
<1>24. etc.host \in HostNames BY <1>9, Zenon DEF HostNames
<1>10. PICK x : x = [d \in Owned |-> "never"] OBVIOUS
<1>11. asked = [dirs |-> x, old |-> z, new |-> z, named |-> TRUE, file |-> f, cleared |-> FALSE] BY <1>1, <1>10, Zenon
<1>12. Fields(asked, AskedFields) BY <1>11 DEF Fields, AskedFields
<1>13. asked.old = z /\ asked.new = z /\ asked.dirs = x /\ asked.file = f BY <1>11
<1>22. etc.stanza = f BY <1>7
<1>23. StanzaInv
  <2>1. f \in Seq([w : STRING, v : STRING]) BY RcdStoresConstants, Zenon
  <2>2. f \in Seq(Lines) BY <2>1, LineSeq
  <2>3. Fields(x, Owned) /\ \A d \in Owned : x[d] = "never" BY <1>10, Zenon DEF Fields
  <2>4. StanzaAsked(f, f, x) BY <2>2, <2>3, Zenon DEF StanzaAsked
  <2>5. QED BY <1>13, <1>22, <2>3, <2>4, Zenon DEF StanzaInv
<1>14. TzInv
  <2>2. z \in DOMAIN Posix BY RcdStoresConstants, Zenon
  <2>1. tz_get = z BY <1>3, <1>9, <2>2, Zenon DEF tz_get
  <2>3. r \in Range(Posix) BY <1>3, <2>2, Zenon DEF Range
  <2>4. QED BY <1>2, <1>9, <1>13, <2>1, <2>3, Zenon DEF TzInv
<1>15. Fields(env, EnvFields) BY <1>2 DEF Fields, EnvFields
<1>16. EnvInv
  <2>1. env.psk # "" BY <1>2
  <2>2. QED BY <2>1, Zenon DEF EnvInv
<1>17. HostsOK(h) BY <1>4, HostsFirst
<1>18. ShadowOK(s)
  <2>1. l \in Account
    <3>1. "root" \in {"root", "svc"} /\ root \in Hashes \cup {"", "old", "x"} BY Zenon
    <3>2. QED BY <1>5, <3>1, Zenon DEF Account
  <2>2. l.w = "root" BY <1>5, Zenon
  <2>3. l.v = root BY <1>5, Zenon
  <2>4. root # "bad" BY Zenon
  <2>5. l.v # "bad" BY <2>3, <2>4, Zenon
  <2>6. QED BY <1>6, <2>1, <2>2, <2>5, ShadowFirst
<1>19. FilesInv BY <1>9, <1>17, <1>18, <1>24, Zenon DEF FilesInv
<1>20. ForceInv
  <2>1. PICK m : inForce = [ntp |-> "pool", name |-> "cam", mdns |-> "cam", method |-> m, radio |-> "client"] BY <1>1, Zenon
  <2>2. Fields(inForce, ForceFields) BY <2>1 DEF Fields, ForceFields
  <2>3. inForce.radio = "client" BY <2>1
  <2>4. QED BY <1>0, <2>2, <2>3, Zenon DEF ForceInv
<1>21. QED BY <1>8, <1>12, <1>14, <1>15, <1>16, <1>19, <1>20, <1>23, Zenon DEF StInv

LEMMA StStep == StInv /\ LooseInv /\ [StNext]_stvars => StInv'
<1> SUFFICES ASSUME StInv, LooseInv, [StNext]_stvars PROVE StInv' OBVIOUS
<1>1. CASE UNCHANGED stvars
  <2>1. etc' = etc /\ env' = env /\ asked' = asked /\ busy' = busy /\ left' = left /\ inForce' = inForce
        /\ lost' = lost
    BY <1>1, Zenon DEF stvars
  <2>2. Fields(inForce', ForceFields) /\ inForce'.radio \in {"ap", "client", "off"} BY <2>1, Zenon DEF StInv, ForceInv
  <2>3. QED BY <2>1, <2>2, NothingKeeps
<1>2. CASE \E hash \in Hashes : rcd_cmd_claim(hash) \/ root_password_set(hash)
  <2>1. PICK hash \in Hashes : rcd_cmd_claim(hash) \/ root_password_set(hash) BY <1>2, Zenon
  <2>2. shadow_write(hash) BY <2>1, Zenon DEF rcd_cmd_claim, root_password_set
  <2>3. QED BY <2>2, ShadowWriteKeeps
<1>3. CASE (\E v \in {"", "net2"} : env_set("ssid", v)) \/ (\E v \in {"", "key2"} : env_set("psk", v))
  <2>1. "ssid" \in EnvFields /\ "psk" \in EnvFields BY DEF EnvFields
  <2>2. PICK var \in EnvFields : \E v : env_set(var, v) BY <1>3, <2>1, Zenon
  <2>3. PICK v : env_set(var, v) BY <2>2, Zenon
  <2>4. QED BY <2>3, EnvSetKeeps
<1>4. CASE \E ok \in BOOLEAN : TzRule(ok) \/ ResetPsk(ok) BY <1>4, TzRuleKeeps, ResetPskKeeps, Zenon
<1>5. CASE \E a, z \in BOOLEAN : hostname_enact(a, z) \/ wifi_enact(a, z)
  BY <1>5, HostnameEnactKeeps, WifiEnactKeeps, Zenon
<1>6. CASE \E z \in Range(ZoneList), ok \in BOOLEAN : TzName(z, ok) BY <1>6, TzNameKeeps, Zenon
<1>7. CASE \E h \in Hosts, ok \in BOOLEAN : ntp_set(h, ok) BY <1>7, NtpSetKeeps, Zenon
<1>8. CASE \E h \in Hosts : hostname_set(h) BY <1>8, HostnameSetKeeps, Zenon
<1>9. CASE \E d \in Owned, v \in Addrs : stanza_set(d, v) BY <1>9, StanzaSetKeeps, Zenon
<1>10. CASE \E m \in {"dhcp", "static"} : method_set(m) BY <1>10, MethodSetKeeps, Zenon
<1>11. CASE net_enact \/ ResetSsid \/ PowerCut BY <1>11, NetEnactKeeps, ResetSsidKeeps, PowerCutKeeps, Zenon
<1>12. QED BY <1>1, <1>2, <1>3, <1>4, <1>5, <1>6, <1>7, <1>8, <1>9, <1>10, <1>11, Zenon DEF StNext

LEMMA StHolds == StInv /\ LooseInv => StTypeOK /\ StoresKept /\ HalfDoneHarmless
<1> SUFFICES ASSUME StInv, LooseInv PROVE StTypeOK /\ StoresKept /\ HalfDoneHarmless OBVIOUS
<1>1. Fields(etc, EtcFields) /\ TzInv /\ EnvInv /\ FilesInv /\ ForceInv /\ StanzaInv BY Zenon DEF StInv
<1>2. ("hosts" \in lost \/ HostsOK(etc.hosts)) /\ ShadowOK(etc.shadow) BY <1>1, Zenon DEF FilesInv
<1>3. HostsOK(etc.hosts) => Len(etc.hosts) = 2
  <2>1. PICK f : f = etc.hosts OBVIOUS
  <2>2. HostsOK(f) => f \in [1 .. 2 -> HostLine] BY Zenon DEF HostsOK
  <2>3. QED BY <2>1, <2>2, TwoLines
<1>4. Len(etc.shadow) = 2
  <2>1. PICK f : f = etc.shadow OBVIOUS
  <2>2. f \in [1 .. 2 -> Account] BY <1>2, <2>1, Zenon DEF ShadowOK
  <2>3. QED BY <2>1, <2>2, TwoLines
<1>5. loose \cup lost \subseteq DOMAIN etc \ {"shadow", "resolv"}
  <2>1. DOMAIN etc = EtcFields BY <1>1, Zenon DEF Fields
  <2>2. Loosable \subseteq EtcFields \ {"shadow", "resolv"} BY DEF Loosable, EtcFields
  <2>3. QED BY <2>1, <2>2, Zenon DEF LooseInv
<1>6. StTypeOK BY <1>1, <1>4, <1>5, Zenon DEF StTypeOK, TzInv, ForceInv
<1>7. AccountsKept
  <2>1. "hosts" \in lost \/ (Len(etc.hosts) = 2 /\ etc.hosts[1].v = "localhost") BY <1>2, <1>3, Zenon DEF HostsOK
  <2>2. etc.shadow[2] = [w |-> "svc", v |-> "x", whole |-> TRUE] /\ etc.shadow[1].v # "bad"
    BY <1>2, Zenon DEF ShadowOK, Service
  <2>3. QED BY <2>1, <2>2, Zenon DEF AccountsKept
<1>8. StanzaKept BY <1>1, Zenon DEF StanzaInv, StanzaAsked, StanzaKept
<1>9. HalfDoneHarmless BY <1>1, Zenon DEF HalfDoneHarmless, TzInv, EnvInv
<1>10. QED BY <1>6, <1>7, <1>8, <1>9, Zenon DEF StoresKept

-----------------------------------------------------------------------------
(* The composition. *)

ApplyInv == DmnTypes /\ ConfTypes /\ ApFlagTypes /\ RadTypes /\ SaveInv /\ CurInStep /\ ReadyInv
BridgeInv == AskTyped /\ RecordHeld
ControlInv == GuardInv /\ ApplyInv /\ BridgeInv /\ BrowseInv
RecordInv == DriftInv /\ DriftReported

LEMMA ControlStart == ControlInit => ControlInv
<1> SUFFICES ASSUME ControlInit PROVE ControlInv OBVIOUS
<1>1. Init /\ ApInit /\ MqInit /\ MdInit BY Zenon DEF ControlInit
<1>2. ApplyInv BY <1>1, ApTypesStart, SaveStart, CurStart, ReadyStart, Zenon DEF ApplyInv
<1>3. AskTyped BY <1>1, Zenon DEF MqInit, AskTyped
<1>4. QED BY <1>1, <1>2, <1>3, GuardInit, RecordStart, BrowseStart, Zenon DEF ControlInv, BridgeInv

\* A step of the composition is a step of one part and a stutter of the others.
LEMMA ControlParts ==
    ASSUME [ControlNext]_control
    PROVE  [Next]_vars /\ [ApNext]_apvars /\ [MqNext]_mqvars /\ [MdNext]_mdvars
<1> HIDE DEF vars, apvars, stvars, vvars, mqvars, mdvars, Next, ApNext, StNext, VNext, MqNext, MdNext
<1>1. CASE Only("guard") /\ Next BY <1>1 DEF Only
<1>2. CASE Only("apply") /\ ApNext BY <1>2 DEF Only
<1>3. CASE Only("stores") \/ Only("values") BY <1>3 DEF Only
<1>4. CASE Only("bridge") /\ MqNext BY <1>4 DEF Only
<1>5. CASE Only("mdns") /\ MdNext BY <1>5 DEF Only
<1>6. CASE UNCHANGED control BY <1>6, Zenon DEF control
<1>7. QED BY <1>1, <1>2, <1>3, <1>4, <1>5, <1>6, Zenon DEF ControlNext

LEMMA ControlStep == ControlInv /\ [ControlNext]_control => ControlInv'
<1> SUFFICES ASSUME ControlInv, [ControlNext]_control PROVE ControlInv' OBVIOUS
<1>1. [Next]_vars /\ [ApNext]_apvars /\ [MqNext]_mqvars /\ [MdNext]_mdvars BY ControlParts
<1>2. ApplyInv'
  BY <1>1, DmnTypesStep, ConfTypesStep, ApFlagTypesStep, RadTypesStep, SaveStep, CurStep, ReadyStep, Zenon DEF ControlInv, ApplyInv
<1>3. BridgeInv' BY <1>1, AskStep, RecordStep, Zenon DEF ControlInv, BridgeInv
<1>4. QED BY <1>1, <1>2, <1>3, GuardStep, BrowseStep, Zenon DEF ControlInv

LEMMA ControlInvariant == ControlSpec => []ControlInv
BY ControlStart, ControlStep, PTL DEF ControlSpec

LEMMA RecordStarts == ControlInit => RecordInv
<1>1. ControlInit => ApInit BY Zenon DEF ControlInit
<1>2. QED BY <1>1, DriftStart, ReportedStart, Zenon DEF RecordInv

LEMMA RecordSteps == ControlInv /\ RecordInv /\ [ControlNext]_control => RecordInv'
<1> SUFFICES ASSUME ControlInv, RecordInv, [ControlNext]_control PROVE RecordInv' OBVIOUS
<1>1. [ApNext]_apvars BY ControlParts
<1>2. DriftInv' BY <1>1, DriftStep, Zenon DEF ControlInv, ApplyInv, RecordInv
<1>3. DriftReported' BY <1>1, ReportedStep, Zenon DEF ControlInv, ApplyInv, RecordInv
<1>4. QED BY <1>2, <1>3 DEF RecordInv

\* Whatever is stored and not in force is on a drift list (rcd_guard.c,
\* rcd_apply.c): across refused restarts, daemons that come and go, failed
\* writes and restarts of rcd, for any number of keys and any room on the
\* list - but for the keys a full list, a save that failed or a failed batch
\* made rcd forget.
THEOREM ControlDriftTrue == ControlSpec => []DriftTrue
<1>1. ControlInv /\ RecordInv => DriftTrue
  <2>1. GuardInv => DriftKnown BY DEF GuardInv, Undoable, DriftKnown
  <2>2. QED BY <2>1, Zenon DEF ControlInv, RecordInv, DriftTrue
<1>2. QED BY <1>1, RecordStarts, RecordSteps, ControlInvariant, PTL DEF ControlSpec

\* rcd's apply keeps its types (rcd_apply.c, rcd_config.c): the drift list
\* never outgrows its table, however many keys differ, and an owed save never
\* waits longer than its ceiling.
THEOREM ControlApplyTypes == ControlSpec => []ApTypeOK
<1>1. ControlInv /\ RecordInv => ApTypeOK
  <2> SUFFICES ASSUME ControlInv, RecordInv PROVE ApTypeOK OBVIOUS
  <2>1. DmnTypes /\ ConfTypes /\ ApFlagTypes /\ RadTypes /\ SaveInv /\ DriftInv
    BY Zenon DEF ControlInv, ApplyInv, RecordInv
  <2>2. dmn \in [Daemons -> {"down", "gone", "starting", "up", "leaving"}]
    BY <2>1, Zenon DEF DmnTypes, DmnStates
  <2>3. {fileVal, runVal} \subseteq [DKeys -> DVals] /\ dirty \subseteq DKeys BY <2>1, Zenon DEF ConfTypes
  <2>4. driftKeys \subseteq DKeys /\ driftFile \subseteq DKeys /\ unseen \subseteq DKeys BY <2>1, Zenon DEF DriftInv
  <2>5. Cardinality(driftKeys) <= DriftMax BY <2>1, Zenon DEF DriftInv
  <2>6. driftDmn \subseteq Daemons BY <2>1, Zenon DEF DriftInv
  <2>7. saveOwed \subseteq Daemons /\ {saveLeft, saveAge} \subseteq 0..SaveMax
    BY <2>1, RcdApplyConstants DEF SaveInv
  <2>8. apTodo \subseteq Daemons /\ cur \in Daemons BY <2>1, Zenon DEF DmnTypes
  <2>9. driftKeys \cup driftFile \cup unseen \subseteq DKeys /\ driftDmn \cup saveOwed \cup apTodo \subseteq Daemons
    BY <2>4, <2>6, <2>7, <2>8, Zenon
  <2>10. QED BY <2>1, <2>2, <2>3, <2>5, <2>7, <2>8, <2>9, Zenon DEF ApTypeOK, ApFlagTypes, RadTypes
<1>2. QED BY <1>1, RecordStarts, RecordSteps, ControlInvariant, PTL DEF ControlSpec

\* An apply gives rad back what rad said it gave up, or reports an error, and
\* its speaker no more than it had - with every disable and enable that is
\* refused, lost or answered late; and it does so only against an rvd that is
\* ready, refused, died or outlasted the wait (rcd_apply.c).
THEOREM ControlAudioBack == ControlSpec => AudioBack
<1> DEFINE Restored == apc = "resume" /\ apc' # "resume" =>
                          /\ audioErr' \/ ((q.ai => rad.ai') /\ (q.ao => rad.ao'))
                          /\ rad.ao' => speaker
           Again == apc = "resume" => late \/ ~curOk \/ dmn["rvd"] \notin {"gone", "starting"}
                                      \/ ~(apc' = "finish")
<1>1. ControlInv /\ [ControlNext]_control => [Restored]_apvars /\ [Again]_apvars
  <2> SUFFICES ASSUME ControlInv, [ControlNext]_control PROVE Restored /\ Again OBVIOUS
  <2>1. [ApNext]_apvars BY ControlParts
  <2>2. ASSUME apc = "resume", apc' # "resume"
        PROVE  (audioErr' \/ ((q.ai => rad.ai') /\ (q.ao => rad.ao'))) /\ (rad.ao' => speaker)
    <3>1. ApResume BY <2>1, <2>2, ResumeOnly
    <3>2. QED BY <3>1, ResumeGives, Zenon DEF ControlInv, ApplyInv
  <2>3. ASSUME apc = "resume", ~late, curOk PROVE dmn["rvd"] \notin {"gone", "starting"}
    <3>1. cur = "rvd" /\ dmn[cur] = "up" BY <2>3, Zenon DEF ControlInv, ApplyInv, ReadyInv
    <3>2. QED BY <3>1
  <2>4. QED BY <2>2, <2>3, Zenon
<1>2. ControlSpec => [][Restored]_apvars /\ [][Again]_apvars BY <1>1, ControlInvariant, PTL DEF ControlSpec
<1>3. QED BY <1>2 DEF AudioBack, AudioRestored, ResumeAfterReady

\* Home Assistant refuses no discovery document as long as it holds what the
\* bridge recorded: until a publication the library took is lost, or Home
\* Assistant, come back, read a retained document anew (rmq_ha.c).  And the browse names an announced broker exactly when it
\* could (rmq_mdns.c), for every order of the answers and every size of table.
THEOREM ControlBrokerTrue == ControlSpec => []BrokerTrue
<1>1. RecordHeld => DocumentsTaken BY Zenon DEF RecordHeld, DocumentsTaken
<1>2. ControlInv => BrokerTrue BY <1>1, Zenon DEF ControlInv, BridgeInv, BrowseInv, BrokerTrue
<1>3. QED BY <1>2, ControlInvariant, PTL

\* The stores are what runs, or they are left alone.
LEMMA StoresPart ==
    ASSUME [ControlNext]_control
    PROVE  which' = which /\ (which = "stores" => [StNext]_stvars)
<1> HIDE DEF vars, apvars, stvars, vvars, mqvars, mdvars, Next, ApNext, StNext, VNext, MqNext, MdNext
<1>1. CASE Only("stores") /\ StNext BY <1>1, Zenon DEF Only
<1>2. CASE Only("guard") \/ Only("apply") \/ Only("values") \/ Only("bridge") \/ Only("mdns") BY <1>2 DEF Only
<1>3. CASE UNCHANGED control BY <1>3, Zenon DEF control
<1>4. QED BY <1>1, <1>2, <1>3, Zenon DEF ControlNext

LEMMA StoresInvariant == ControlSpec => [](which = "stores" => StInv /\ LooseInv)
<1> DEFINE Stand == which = "stores" => StInv /\ LooseInv
<1>1. ControlInit => Stand BY StStart, LooseStart, Zenon DEF ControlInit
<1>2. Stand /\ [ControlNext]_control => Stand' BY StoresPart, StStep, LooseStep, Zenon
<1>3. QED BY <1>1, <1>2, PTL DEF ControlSpec

\* After any settings in any order, a write refused or the power cut between
\* two of them (rcd_system.c, rcd_network.c), of the files the cut did not
\* empty: every line of the interface file that is not the camera's own is
\* where it was, and every directive asked for stands once in the camera's
\* stanza, when it has one; the local name is kept; the zone reported is the
\* old one, the new one or the one the old one's rule stands for, when the
\* name was written.  The accounts are kept whatever is cut, and only its
\* owner leaves a network without its key.  For any zones, hosts, addresses
\* and passwords, and any interface files, however long and of however many
\* stanzas.
THEOREM ControlStoresSound == ControlSpec => []StoresSound
<1>1. (which = "stores" => StInv /\ LooseInv) => StoresSound BY StHolds, Zenon DEF StoresSound
<1>2. QED BY <1>1, StoresInvariant, PTL

\* The system's files keep the shape their readers expect, the zone, its rule
\* and the radio's mode are among those there are or empty, and only files
\* that are not synced are ever at risk (rcd_system.c, rcd_passwd.c,
\* rcd_wifi.c).
THEOREM ControlStoreTypes == ControlSpec => [](which = "stores" => StTypeOK)
<1>1. (which = "stores" => StInv /\ LooseInv) => (which = "stores" => StTypeOK) BY StHolds, Zenon
<1>2. QED BY <1>1, StoresInvariant, PTL
=============================================================================
