----------------------------- MODULE RmrPrebuf -----------------------------
(***************************************************************************)
(* rmr's pre-buffer: a ring of slots over a bump-allocated data region,    *)
(* from which a motion clip takes its pre-roll.  Time is counted in frame  *)
(* intervals; a slot's age is its distance from the newest frame.  The     *)
(* field "intact" is a ghost: the slot's bytes are still the frame pushed. *)
(***************************************************************************)
EXTENDS Integers, Sequences, FiniteSetsExt

CONSTANTS Capacity,   \* slots
          DataSize,   \* bytes of the data region
          MaxLen,     \* the largest frame, max_frame_size of the ring
          Lens,       \* frame sizes
          MaxAge,     \* (prebuffer_sec + 1) in frame intervals
          PbGop,      \* the most frames pushed from one keyframe to the next
          Stall       \* how long the source may be silent

ASSUME PrebufAssumption ==
    /\ Capacity \in Nat \ {0} /\ DataSize \in Nat \ {0} /\ MaxLen \in Nat \ {0}
    /\ Lens \subseteq 1..MaxLen /\ MaxAge \in Nat /\ PbGop \in Nat \ {0} /\ Stall \in Nat

VARIABLES slots,      \* the valid slots, oldest first
          head,       \* data_head
          pbSinceKey    \* frames since the encoder's last keyframe

pbvars == <<slots, head, pbSinceKey>>

\* No age above MaxAge is told from another.
Capped(n) == IF n > MaxAge THEN MaxAge ELSE n

PbInit == slots = <<>> /\ head = 0 /\ pbSinceKey = PbGop - 1

-----------------------------------------------------------------------------
OffsetStuck(len) == 0 \* mutant: the allocator never moves on
OffsetPastEnd(len) == IF head >= DataSize THEN 0 ELSE head \* mutant: forgets len
OffsetFor(len) == IF head + len > DataSize THEN 0 ELSE head

Overlap(s, off, len) == s.off < off + len /\ off < s.off + s.len

(* rmr_prebuf_push evicts the oldest slot when all are in use, and lets the *)
(* data region wrap over whatever lies there.                               *)
Push(len, key, dt) ==
    LET off == OffsetFor(len)
        kept == IF Len(slots) = Capacity THEN Tail(slots) ELSE slots
        aged == [i \in 1..Len(kept) |->
                   [kept[i] EXCEPT !.age = Capped(@ + dt),
                                   !.intact = @ /\ ~Overlap(kept[i], off, len)]]
    IN /\ len <= DataSize
       /\ key \/ pbSinceKey + 1 < PbGop
       /\ slots' = Append(aged, [off |-> off, len |-> len, age |-> 0, key |-> key,
                                 intact |-> TRUE])
       /\ head' = off + len
       /\ pbSinceKey' = IF key THEN 0 ELSE pbSinceKey + 1

PbNext == \E len \in Lens, key \in BOOLEAN, dt \in {1, 1 + Stall} : Push(len, key, dt)
PbSpec == PbInit /\ [][PbNext]_pbvars

(* rmr_prebuf_find_keyframe, as an index into slots, 0 for none: walking   *)
(* back from the newest, the first keyframe that is old enough, else the   *)
(* oldest keyframe there is.                                               *)
KeyAt == {i \in 1..Len(slots) : slots[i].key}
FindOldest(age) == IF KeyAt = {} THEN 0 ELSE Min(KeyAt) \* mutant: ignores the age
FindNewest(age) == IF KeyAt = {} THEN 0 ELSE Max(KeyAt) \* mutant
FindKeyframe(age) ==
    LET old == {i \in KeyAt : slots[i].age >= age}
    IN CASE KeyAt = {} -> 0
         [] old # {} -> Max(old)
         [] OTHER -> Min(KeyAt)

(* The slots rmr_prebuf_iterate hands to the clip. *)
Replayed == LET start == FindKeyframe(MaxAge)
            IN IF start = 0 THEN {} ELSE start..Len(slots)

-----------------------------------------------------------------------------
(* The slots fit the ring and lie inside the data region.                  *)
PbTypeOK ==
    /\ Len(slots) <= Capacity /\ head \in 0..DataSize /\ pbSinceKey \in 0..(PbGop - 1)
    /\ \A i \in 1..Len(slots) : /\ slots[i].off >= 0
                                /\ slots[i].off + slots[i].len <= DataSize
                                /\ slots[i].age \in 0..MaxAge

(* "the 4 newest frames' data must survive the wrap intact"                *)
(* (test_prebuf.c:185-186): of a clip's pre-roll the newest frames are the *)
(* bytes that were pushed, as many as the data region holds of the largest *)
(* frame, less one for what a wrap leaves unused.  The allocator never     *)
(* checks what it wraps over (rmr_prebuf.c:57-64) and the region is sized  *)
(* by bitrate and not by slots (rmr_main.c:1342-1348): a slot older than   *)
(* that may hold the bytes of later frames and is replayed all the same.   *)
ReplayIntact ==
    \A i \in Replayed : (Len(slots) - i + 2) * MaxLen <= DataSize + 1 => slots[i].intact

(* "Search one extra second back so the keyframe-aligned pre-buffer always *)
(* meets or exceeds the configured duration" (rmr_main.c, where the clip   *)
(* is opened): the pre-roll is shorter than that only if no keyframe old   *)
(* enough is left.                                                         *)
WindowMet ==
    (\E i \in KeyAt : slots[i].age >= MaxAge) => \E i \in Replayed : slots[i].age >= MaxAge

(* What bounds the pre-roll from above, the source having stalled or not:  *)
(* all of it but the first group of pictures lies inside the window.  The  *)
(* comment at rmr_main.c:761, "pre-roll staleness is age-bounded by the    *)
(* prebuffer window", is true of the rest only: after a silence that first *)
(* group may be of any age (rmr_prebuf.c:96).                              *)
PreRollBounded ==
    \A i \in Replayed : i >= FindKeyframe(MaxAge) + PbGop => slots[i].age < MaxAge
=============================================================================
