------------------------------ MODULE RcdGuard ------------------------------
(***************************************************************************)
(* rcd's confirm-or-revert guard over the settings that can cut off the    *)
(* client that changes them (address, name, wifi).  set writes a store and *)
(* holds a snapshot of all guarded stores; apply arms a timer over it and  *)
(* puts the stores into force; confirm ends it; the timer, cancel or a     *)
(* reboot put the snapshot back.  The snapshot is also on flash (record),  *)
(* the deadline and the drift list on a tmpfs; a write of any of the three *)
(* that fails is at most logged, and rcd goes on.                          *)
(***************************************************************************)
EXTENDS Naturals, FiniteSets

CONSTANTS Keys,      \* guarded keys
          Wifi,      \* those of the wifi section
          Group,     \* the enact call a key shares with its stanza
          Vals,      \* what a store may hold; "unset": it has no value
          Retries    \* RCD_GUARD_RETRIES

ASSUME GuardAssumption ==
    /\ Wifi \subseteq Keys /\ DOMAIN Group = Keys
    /\ "unset" \in Vals /\ Cardinality(Vals) > 1 /\ Retries \in Nat

VARIABLES
    up, doing,                     \* rcd runs; what an apply or a revert is in the middle of
    guard, snap, owed, retries, wifiMoved, stale,  \* its memory
    calls, refused,                \* a running revert: its enacts; something would not go back
    record, marker, staleFile,     \* flash; tmpfs: the deadline; tmpfs
    due,                           \* the deadline in memory has passed
    store, force, net,             \* what is stored, in force; the network is up
    proven,                        \* ghost: in force when somebody last confirmed
    unrecorded,                    \* ghost: armed, and the record on flash does not say so
    unlisted,                      \* ghost: the drift list lost a key
    hole                           \* ghost: something outside the guard's promise happened

memory == <<doing, guard, snap, owed, retries, wifiMoved, stale, calls, refused>>
files == <<record, marker, staleFile>>
ghosts == <<proven, unrecorded, unlisted, hole>>
vars == <<up, memory, files, due, store, force, net, ghosts>>

Settings == [Keys -> Vals]
Nothing == [k \in Keys |-> "unset"]
NoRecord == [state |-> "none", snap |-> Nothing]
GroupsOf(ks) == {Group[k] : k \in ks}
Idling == up /\ doing = "none"
Ready == Idling /\ net

Init ==
    /\ up = TRUE /\ doing = "none" /\ net = TRUE
    /\ store \in Settings /\ force = store /\ proven = store
    /\ guard = "steady" /\ snap = Nothing /\ owed = {} /\ retries = 0 /\ wifiMoved = FALSE
    /\ calls = {} /\ refused = FALSE
    /\ stale = {} /\ staleFile = {} /\ marker = "none" /\ due = FALSE
    /\ record = NoRecord
    /\ unrecorded = FALSE /\ unlisted = FALSE /\ hole = FALSE

-----------------------------------------------------------------------------
(* record_write renames a whole file into place or leaves the old one;     *)
(* armed_write and rcd_stale_save write over the file they find.           *)
RecordWrite(r) == record' \in {r, record}
ArmedWrite == marker' \in {"live", "none", marker}
ListSave == staleFile' \in {stale', staleFile, {}}

(* rcd_guard_hold, wifi_moved, rcd_stale_add (which has room for the key   *)
(* or not), rcd_enact_done.                                                *)
Hold == IF guard # "steady" THEN UNCHANGED <<guard, snap, record>>
        ELSE /\ guard' = "held" /\ snap' = store
             /\ RecordWrite([state |-> "held", snap |-> store])
WifiMoved(s) == \E k \in Wifi : store[k] # s[k]
StaleAdd(k) == stale' \in {stale \cup {k}, stale} /\ unlisted' = (unlisted \/ k \notin stale')
EnactDone(done) == {k \in stale : Group[k] \notin done}

(* rcd_cmd_set on a guarded key; rcd_guard_hold keeps a snapshot it has.   *)
(* A store that refuses leaves what setting its present value does, and    *)
(* ends the request before the list is saved.  Two holes: the snapshot is  *)
(* of settings nobody confirmed; or a value in force is set back by hand,  *)
(* which the revert takes for settled.                                     *)
Set(k, v) ==
    /\ Ready
    /\ Hold
    /\ store' = [store EXCEPT ![k] = v]
    /\ IF v = store[k] THEN UNCHANGED <<stale, staleFile, unlisted>> ELSE StaleAdd(k) /\ ListSave
    /\ hole' = (hole \/ (guard = "steady" /\ store # proven)
                     \/ (v = snap'[k] /\ force[k] # v /\ k \notin owed))
    /\ UNCHANGED <<up, doing, owed, retries, wifiMoved, calls, refused, marker, due, force, net,
                   proven, unrecorded>>

(* enact_system: rcd_guard_arm, and only then the enacts. *)
Armed ==
    /\ Ready /\ stale # {}
    /\ guard' = "armed" /\ due' = FALSE /\ retries' = 0 /\ ArmedWrite
    /\ snap' = IF guard = "steady" THEN store ELSE snap
    /\ wifiMoved' = ((guard = "armed" /\ wifiMoved) \/ WifiMoved(snap'))
    /\ doing' = "enact" /\ hole' = (hole \/ (guard = "steady" /\ store # proven))
    /\ UNCHANGED <<up, owed, stale, calls, refused, staleFile, store, force, net, proven, unlisted>>

ArmLate ==              \* mutant: the record still says held when the enacts run
    Armed /\ UNCHANGED <<record, unrecorded>>

Arm ==
    /\ Armed
    /\ RecordWrite([state |-> "armed", snap |-> snap'])
    /\ unrecorded' = (record' # [state |-> "armed", snap |-> snap'])

EnactClearsAll(failed) ==    \* mutant: an enact that failed is forgotten too
    LET done == GroupsOf(stale) \ failed
    IN /\ up /\ doing = "enact" /\ failed \subseteq GroupsOf(stale)
       /\ force' = [k \in Keys |-> IF Group[k] \in done THEN store[k] ELSE force[k]]
       /\ stale' = {} /\ ListSave
       /\ doing' = "none"
       /\ UNCHANGED <<up, guard, snap, owed, retries, wifiMoved, calls, refused, record, marker,
                      due, store, net, ghosts>>

Enact(failed) ==
    LET done == GroupsOf(stale) \ failed
    IN /\ up /\ doing = "enact" /\ failed \subseteq GroupsOf(stale)
       /\ force' = [k \in Keys |-> IF Group[k] \in done THEN store[k] ELSE force[k]]
       /\ stale' = EnactDone(done) /\ ListSave
       /\ doing' = "none"
       /\ UNCHANGED <<up, guard, snap, owed, retries, wifiMoved, calls, refused, record, marker,
                      due, store, net, ghosts>>

(* record_clear, and what rcd_guard_confirm and a revert that is through   *)
(* forget with it.  A record that stays is a hole: a reboot would undo     *)
(* what was confirmed.                                                     *)
DisarmKeepsRecord(h) ==    \* mutant: only the memory of the guard is cleared
    guard' = "steady" /\ retries' = 0 /\ unrecorded' = FALSE /\ hole' = (hole \/ h)
    /\ snap' = Nothing /\ due' = FALSE /\ UNCHANGED <<record, marker>>
Disarm(h) ==
    /\ guard' = "steady" /\ snap' = Nothing /\ due' = FALSE /\ retries' = 0 /\ unrecorded' = FALSE
    /\ record' \in {NoRecord, record} /\ marker' \in {"none", marker}
    /\ hole' = (hole \/ h \/ record'.state # "none")

(* rcd_guard_confirm.  Whoever confirms has reached what is in force; an   *)
(* edit that is still staged loses its snapshot, and the next apply takes  *)
(* one of it.  So does a store that a failed revert put back and left out  *)
(* of force: a hole.                                                       *)
Confirm ==
    /\ Ready /\ guard = "armed"
    /\ Disarm(owed # {}) /\ wifiMoved' = FALSE
    /\ proven' = force /\ owed' = {}
    /\ UNCHANGED <<up, doing, stale, calls, refused, staleFile, store, force, net, unlisted>>

-----------------------------------------------------------------------------
(* rcd_guard_revert, from a snapshot s of state g ("armed" or "held") with *)
(* the list t: the stores, of which some refuse.  rcd dying between two of *)
(* them leaves what it leaves when the others refuse.                      *)
Back(s, g, t) ==
    /\ \E kept \in SUBSET {k \in Keys : store[k] # s[k]} :
        /\ store' = [k \in Keys |-> IF k \in kept THEN store[k] ELSE s[k]]
        /\ stale' = t \cap kept
        /\ owed' = owed \cup {k \in Keys \ kept : store[k] # s[k]}
        /\ calls' = IF g = "armed" THEN GroupsOf(owed' \ kept) ELSE {}
        /\ refused' = (kept # {})
    /\ guard' = g /\ snap' = s /\ doing' = "undo"
    /\ UNCHANGED <<retries, wifiMoved, files, due, force, net, ghosts>>

(* Then the enacts, when anything is in force; a retry of a cancelled      *)
(* staged edit runs the enact a refusing key shares with one that went     *)
(* back, while the record still says held.                                 *)
UndoEnact(dead) ==
    LET done == calls \ dead IN
    /\ up /\ doing = "undo" /\ doing' = "end" /\ dead \subseteq calls
    /\ force' = [k \in Keys |-> IF Group[k] \in done THEN store[k] ELSE force[k]]
    /\ owed' = {k \in owed : Group[k] \notin done}
    /\ refused' = (refused \/ dead # {})
    /\ unrecorded' = (unrecorded \/ (guard = "armed" /\ record.state # "armed" /\ force' # snap))
    /\ UNCHANGED <<up, guard, snap, retries, wifiMoved, stale, calls, files, due, store, net, proven,
                   unlisted, hole>>

(* And the end: guard_retry, or done.  Out of attempts, the guard leaves   *)
(* the old settings to a power cycle: a hole.                              *)
UndoEnd ==
    /\ up /\ doing = "end" /\ doing' = "none" /\ calls' = {} /\ refused' = FALSE
    /\ UNCHANGED stale /\ ListSave
    /\ \/ ~refused /\ Disarm(FALSE) /\ owed' = {}
       \/ /\ refused /\ retries < Retries
          /\ guard' = "armed" /\ due' = FALSE /\ retries' = retries + 1 /\ ArmedWrite
          /\ UNCHANGED <<snap, owed, record, unrecorded, hole>>
       \/ /\ refused /\ retries = Retries
          /\ guard' = "steady" /\ retries' = 0 /\ marker' = "none" /\ owed' = {} /\ hole' = TRUE
          /\ snap' = Nothing /\ due' = FALSE /\ unrecorded' = FALSE /\ UNCHANGED record
    /\ UNCHANGED <<up, wifiMoved, store, force, net, proven, unlisted>>

Cancel == Ready /\ guard # "steady" /\ Back(snap, guard, stale) /\ UNCHANGED up

(* rcd_guard_tick: a wifi change that is associated and addressed confirms *)
(* itself, even at the deadline, and everything else in force with it.     *)
WifiSettled == wifiMoved /\ \A k \in Wifi : store[k] # "unset" /\ force[k] = store[k]
TickConfirm == WifiSettled /\ Confirm
ExpiresOnce == due /\ retries = 0    \* mutant: the timer of a retry is not looked at
Expired == due
TickRevert ==
    Idling /\ guard = "armed" /\ Expired /\ Back(snap, guard, stale) /\ UNCHANGED up

-----------------------------------------------------------------------------
(* rcd starts: rcd_stale_load and rcd_guard_load.  An armed record without *)
(* its deadline outlived a reboot, or the deadline could not be written.   *)
Resume(s) == /\ guard' = s /\ snap' = record.snap /\ stale' = staleFile /\ due' = FALSE
             /\ UNCHANGED <<owed, retries, wifiMoved, doing, calls, refused, files, store, force, net,
                            ghosts>>
Load ==
    /\ ~up /\ up' = TRUE
    /\ \/ record.state = "none" /\ Resume("steady")
       \/ record.state = "held" /\ Resume("held")
       \/ record.state = "armed" /\ marker = "live" /\ Resume("armed")
       \/ record.state = "armed" /\ marker = "past" /\ Back(record.snap, "armed", staleFile)
       \/ record.state = "armed" /\ marker = "none" /\ Back(record.snap, "held", staleFile)

Forget == /\ up' = FALSE /\ doing' = "none" /\ guard' = "steady" /\ snap' = Nothing /\ due' = FALSE
          /\ owed' = {} /\ retries' = 0 /\ wifiMoved' = FALSE /\ stale' = {}
          /\ calls' = {} /\ refused' = FALSE /\ unrecorded' = FALSE
(* rcd dies while the camera runs on.  Three holes: what a revert owes an  *)
(* enact dies with it; an experiment that is on flash as held, or not at   *)
(* all, is not undone; one without its deadline is undone in the stores    *)
(* and stays in force.                                                     *)
Die ==
    /\ up /\ Forget
    /\ hole' = (hole \/ (\E k \in owed : force[k] # store[k])
                     \/ (net /\ force # proven /\ (unrecorded \/ marker = "none")))
    /\ unlisted' = (unlisted \/ ~(stale \subseteq staleFile))
    /\ UNCHANGED <<files, store, force, net, proven>>
(* The power goes, at any instant, and a record that was not synced may go *)
(* with it; or the camera is rebooted.                                     *)
Reboot ==
    /\ Forget
    /\ net' = FALSE /\ marker' = "none" /\ staleFile' = {}
    /\ record' \in {record, NoRecord}
    /\ UNCHANGED <<store, force, proven, unlisted, hole>>

(* S40network, after S31raptor has started rcd, reads the stores.  What is *)
(* staged comes into force with nothing armed: a hole.                     *)
NetUp ==
    /\ ~net /\ up
    /\ net' = TRUE /\ force' = store
    /\ hole' = (hole \/ (store # proven /\ record.state # "armed"))
    /\ unlisted' = FALSE
    /\ UNCHANGED <<up, memory, files, due, store, proven, unrecorded>>

(* A deadline on the tmpfs that could not be written over is another than  *)
(* the one in memory.                                                      *)
ClockPasses ==
    /\ \/ up /\ guard = "armed" /\ ~due /\ due' = TRUE /\ UNCHANGED marker
       \/ marker = "live" /\ marker' = "past" /\ UNCHANGED due
    /\ UNCHANGED <<up, memory, record, staleFile, store, force, net, ghosts>>

Next ==
    \/ \E k \in Keys, v \in Vals : Set(k, v)
    \/ Arm \/ (\E failed \in SUBSET GroupsOf(Keys) : Enact(failed) \/ UndoEnact(failed))
    \/ Confirm \/ Cancel \/ TickConfirm \/ TickRevert \/ UndoEnd
    \/ Load \/ Die \/ Reboot \/ NetUp \/ ClockPasses

(* The serve loop ticks, an apply and a revert are gone through with, a    *)
(* boot starts rcd and the network, and time passes.  Nothing restarts an  *)
(* rcd that died, short of a reboot.                                       *)
GoesOn == UndoEnd \/ \E failed \in SUBSET GroupsOf(Keys) : Enact(failed) \/ UndoEnact(failed)
Fairness ==
    /\ WF_vars(ClockPasses) /\ WF_vars(TickRevert) /\ WF_vars(~net /\ Load) /\ WF_vars(NetUp)
    /\ WF_vars(GoesOn)
Spec == Init /\ [][Next]_vars /\ Fairness

-----------------------------------------------------------------------------
(* The types, and a guard that is over has no record.                      *)
TypeOK ==
    /\ {store, force, snap, proven} \subseteq Settings
    /\ guard \in {"steady", "held", "armed"} /\ doing \in {"none", "enact", "undo", "end"}
    /\ record \in [state : {"none", "held", "armed"}, snap : Settings]
    /\ marker \in {"none", "live", "past"}
    /\ {owed, stale, staleFile} \subseteq SUBSET Keys /\ calls \subseteq GroupsOf(Keys)
    /\ retries \in 0..Retries
    /\ {up, net, due, wifiMoved, refused, unrecorded, unlisted, hole} \subseteq BOOLEAN
    /\ up /\ guard = "steady" /\ ~hole => record.state = "none"

(* Whatever is in force without having been confirmed can be undone from   *)
(* flash, at every instant rcd or the camera may go down, those inside a   *)
(* revert included: "reverting has to survive the power going out"         *)
(* (rcd_guard.h:107).  When record_write failed, which rcd logs and goes   *)
(* on from (rcd_guard.c:80-86), only the rcd that runs can still undo it.  *)
Guarded == net /\ ~hole /\ force # proven =>
    \/ record.state = "armed" /\ record.snap = proven
    \/ unrecorded /\ up /\ guard = "armed" /\ snap = proven

(* The drift list does not lie: a setting that is stored and not in force  *)
(* is on it, or is one a revert has put back and still owes its enact      *)
(* (rcd_guard.c:474-483) - unless the list was full, or rcd died before    *)
(* the list was saved, as after a batch that failed (rcd_config.c:1540).   *)
DriftKnown == up /\ net /\ ~hole /\ ~unlisted =>
    \A k \in Keys : store[k] # force[k] => k \in stale \/ k \in owed

(* An experiment ends: what is in force and unconfirmed is confirmed or    *)
(* put back (rcd_guard_tick, rcd_guard_load), whatever restarts, power     *)
(* cuts and failing stores there were, unless the applies, deaths and      *)
(* power cuts themselves never end or rcd stays dead - or a hole: rcd gave *)
(* up, died where its files did not say what it was about, or was asked to *)
(* set a value back by hand.                                               *)
Settles ==
    \/ []<><<Arm \/ Die \/ Reboot>>_vars \/ <>[](~up)
    \/ []<>(net => force = proven \/ hole)
=============================================================================
