------------------------------ MODULE RcdApply ------------------------------
(***************************************************************************)
(* rcd and the daemons whose settings it edits.  A set reaches a daemon    *)
(* live, and is saved by that daemon a little later, or goes to the file   *)
(* and leaves the daemon behind it until an apply restarts it.  An rvd     *)
(* restart is bracketed by taking rad off the hardware and putting it      *)
(* back.  rcd is one thread: while apply waits it serves nothing.          *)
(***************************************************************************)
EXTENDS Naturals, FiniteSets

CONSTANTS DKeys, Owner, LiveKeys,  \* keys of raptor.conf, the daemon of each, the live ones
          DVals,                   \* values; "unset": no line in the file
          DriftMax,                \* RCD_STALE_MAX
          Debounce, SaveMax        \* RCD_SAVE_DEBOUNCE_MS, RCD_SAVE_MAX_MS in loop ticks

Daemons == {Owner[k] : k \in DKeys}
KeysOf(d) == {k \in DKeys : Owner[k] = d}

ASSUME RcdApplyConstants ==
    /\ IsFiniteSet(DKeys) /\ DOMAIN Owner = DKeys /\ "rvd" \in Daemons /\ LiveKeys \subseteq DKeys
    /\ "unset" \in DVals /\ DriftMax \in Nat \ {0}
    /\ Debounce \in Nat \ {0} /\ SaveMax \in Nat /\ SaveMax >= Debounce

VARIABLES
    dmn,                        \* a daemon: down, gone (re-exec), starting, up, leaving
    fileVal, runVal, dirty,     \* the file; what the daemons run with; live edits not saved
    driftKeys, driftDmn, driftFile,  \* stale[], stale_daemon[], RCD_STALE_PATH
    unseen,                     \* ghost: keys whose drift rcd lost or never knew of
    saveOwed, saveLeft, saveAge,     \* owed saves, ticks left, ticks since the first
    apc, apTodo, cur, forget, curOk,   \* the apply that runs
    late,                       \* ghost: the wait ran out, or rvd died since its answer
    q, audioErr,                \* quiesce_t, what rad is to be given back; apply_error
    rad,                        \* rad while rvd restarts: [up, ai, ao]
    speaker                     \* ghost: rad's output was on when rcd asked for it

drift == <<driftKeys, driftDmn, driftFile, unseen>>
saves == <<saveOwed, saveLeft, saveAge>>
conf == <<fileVal, runVal, dirty>>
apply == <<apc, apTodo, cur, forget, curOk, late>>
audio == <<q, audioErr, rad, speaker>>
apvars == <<dmn, conf, drift, saves, apply, audio>>

AudioQuiet == [ai |-> FALSE, ao |-> FALSE]
RadStates == [up : {TRUE}, ai : BOOLEAN, ao : BOOLEAN] \cup {[up |-> FALSE, ai |-> FALSE, ao |-> FALSE]}
RadDown == [up |-> FALSE, ai |-> FALSE, ao |-> FALSE]
ApInit ==
    /\ dmn = [d \in Daemons |-> "up"]
    /\ fileVal = [k \in DKeys |-> "unset"] /\ runVal = fileVal /\ dirty = {}
    /\ driftKeys = {} /\ driftDmn = {} /\ driftFile = {} /\ unseen = {}
    /\ saveOwed = {} /\ saveLeft = 0 /\ saveAge = 0
    /\ apc = "idle" /\ apTodo = {} /\ cur = "rvd" /\ forget = FALSE /\ curOk = FALSE /\ late = FALSE
    /\ q = AudioQuiet /\ audioErr = FALSE
    /\ rad = RadDown /\ speaker = FALSE

Answers(d) == dmn[d] \in {"starting", "up", "leaving"}
(* rss_daemon_check: a process behind the pidfile. *)
Running(d) == dmn[d] # "down"

-----------------------------------------------------------------------------
(* The drift record.  A full list loses the key and keeps the daemon - as  *)
(* long as this rcd runs: the file has the keys only.                      *)
ApStaleAdd(ks) ==
    /\ driftDmn' = driftDmn \cup {Owner[k] : k \in ks}
    /\ driftKeys' \in {s \in SUBSET (driftKeys \cup ks) :
            /\ driftKeys \subseteq s
            /\ Cardinality(s) <= DriftMax
            /\ s # driftKeys \cup ks => Cardinality(s) = DriftMax}
StaleClear(ds) ==
    /\ driftDmn' = driftDmn \ ds
    /\ driftKeys' = {k \in driftKeys : Owner[k] \notin ds}
StaleSave == driftFile' \in {driftKeys', driftFile, {}}     \* a failed write is not noticed
StaleLoad == driftKeys' = driftFile /\ driftDmn' = {Owner[k] : k \in driftFile}

Least(a, b) == IF a < b THEN a ELSE b
OweSaveUnbounded(ds) ==  \* mutant: every edit of a burst puts the save off again
    IF ds = {} THEN UNCHANGED saves
    ELSE saveOwed' = saveOwed \cup ds /\ saveLeft' = Debounce /\ saveAge' = 0

(* owe_save: the deadline moves with every edit, up to a ceiling. *)
OweSave(ds) ==
    IF ds = {} THEN UNCHANGED saves
    ELSE /\ saveOwed' = saveOwed \cup ds
         /\ saveAge' = IF saveOwed = {} THEN 0 ELSE saveAge
         /\ saveLeft' = Least(Debounce, SaveMax - saveAge')

(* rcd_save_flush: config-save to each owed daemon; one that does not      *)
(* answer keeps its edits in memory and is not asked again.                *)
SaveFlush ==
    LET saved == {k \in dirty : Owner[k] \in saveOwed /\ Answers(Owner[k])} IN
    /\ fileVal' = [k \in DKeys |-> IF k \in saved THEN runVal[k] ELSE fileVal[k]]
    /\ dirty' = dirty \ saved
    /\ saveOwed' = {} /\ saveLeft' = 0 /\ saveAge' = 0

-----------------------------------------------------------------------------
(* rcd_cmd_set on a batch of edits: taken holds those a daemon accepts     *)
(* live, the others go to the file in one write, which may fail.  A reset  *)
(* the owner carries out itself leaves the file too and owes nothing; when *)
(* that write fails the line stays, and nobody records the drift.          *)
SetBatch(ks, val, stage, taken, wrote) ==
    LET live == {k \in taken : val[k] # "unset"}
        restored == taken \ live
        filed == ks \ live
        changed == {k \in filed \ restored : ~(val[k] = "unset" /\ fileVal[k] = "unset")} IN
    /\ apc = "idle" /\ ks # {}
    /\ \A k \in taken : ~stage /\ Answers(Owner[k])
    /\ runVal' = [k \in DKeys |-> IF k \in taken THEN val[k] ELSE runVal[k]]
    /\ dirty' = (dirty \cup live) \ restored
    /\ OweSave({Owner[k] : k \in live})
    /\ IF wrote
       THEN /\ fileVal' = [k \in DKeys |-> IF k \in filed THEN val[k] ELSE fileVal[k]]
            /\ ApStaleAdd(changed)
            /\ IF changed = {} THEN UNCHANGED driftFile ELSE StaleSave
            /\ unseen' = unseen \ (taken \cup changed)
       ELSE /\ filed # {} /\ UNCHANGED <<fileVal, driftKeys, driftDmn, driftFile>>
            /\ unseen' = (unseen \ live) \cup restored
    /\ UNCHANGED <<dmn, apply, audio>>

SetEdits == \E ks \in SUBSET DKeys, stage, wrote \in BOOLEAN :
               \E val \in [ks -> DVals], taken \in SUBSET (ks \cap LiveKeys) :
                  SetBatch(ks, val, stage, taken, wrote)

(* rcd_cmd_state forgets the drift of a daemon that does not run. *)
StateQuery ==
    LET dead == {d \in driftDmn : ~Running(d)} IN
    /\ apc = "idle" /\ dead # {}
    /\ StaleClear(dead) /\ StaleSave
    /\ UNCHANGED <<unseen, dmn, conf, saves, apply, audio>>

(* The serve loop, between requests. *)
ApTick ==
    /\ apc = "idle" /\ saveOwed # {}
    /\ IF saveLeft = 0 THEN SaveFlush /\ UNCHANGED runVal
       ELSE saveLeft' = saveLeft - 1 /\ saveAge' = saveAge + 1 /\ UNCHANGED <<conf, saveOwed>>
    /\ UNCHANGED <<dmn, drift, apply, audio>>

(* rcd stops in order (a last flush) or is killed, and starts again.  A    *)
(* daemon none of whose keys had room in the list, or of whose save failed *)
(* is no longer known to be behind.                                        *)
RcdRestart ==
    /\ apc = "idle" /\ StaleLoad
    /\ unseen' = unseen \cup {k \in DKeys : Owner[k] \in driftDmn \ driftDmn'}
    /\ \/ SaveFlush
       \/ saveOwed' = {} /\ saveLeft' = 0 /\ saveAge' = 0 /\ UNCHANGED <<fileVal, dirty>>
    /\ audioErr' = FALSE
    /\ UNCHANGED <<dmn, runVal, driftFile, apply, q, rad, speaker>>

-----------------------------------------------------------------------------
(* apply (of the stale daemons, or of some of them) and restart (of any):  *)
(* owed saves first.                                                       *)
ApplyStart ==
    /\ apc = "idle"
    /\ \E ds \in SUBSET Daemons, isApply \in BOOLEAN :
        /\ ds # {} /\ (isApply => ds \subseteq driftDmn)
        /\ apTodo' = ds /\ forget' = isApply
    /\ SaveFlush /\ audioErr' = FALSE /\ apc' = "next"
    /\ UNCHANGED <<dmn, runVal, drift, cur, curOk, late, q, rad, speaker>>

(* run: rvd first; a daemon that is not running has nothing stale in it. *)
NextDaemon ==
    /\ apc = "next" /\ apTodo # {}
    /\ \E d \in apTodo :
        /\ "rvd" \in apTodo => d = "rvd"
        /\ cur' = d /\ apTodo' = apTodo \ {d}
        /\ IF Running(d) THEN apc' = (IF d = "rvd" THEN "quiesce" ELSE "restart") /\ UNCHANGED drift
           ELSE /\ apc' = "next" /\ UNCHANGED <<driftFile, unseen>>
                /\ IF forget THEN StaleClear({d}) ELSE UNCHANGED <<driftKeys, driftDmn>>
    /\ late' = FALSE
    /\ UNCHANGED <<dmn, conf, saves, forget, curOk, audio>>

(* quiesce_rad finds rad in any state its own commands and starts bring it *)
(* to.  Each disable may be refused, or carried out and answered too late; *)
(* rad answers ok to one of an input that is off already, and is asked for *)
(* the output only when that is on.                                        *)
Obeyed == {"yes", "late", "no"}
QuiesceBoth ==  \* mutant: the output is asked for like the input
    /\ apc = "quiesce" /\ apc' = "restart"
    /\ \E r \in RadStates, in, out \in Obeyed :
        /\ q' = [ai |-> r.up /\ in = "yes", ao |-> r.up /\ out = "yes"]
        /\ rad' = [r EXCEPT !.ai = @ /\ in = "no", !.ao = @ /\ out = "no"]
        /\ speaker' = r.ao
    /\ UNCHANGED <<dmn, conf, drift, saves, apTodo, cur, forget, curOk, late, audioErr>>
Quiesce ==
    /\ apc = "quiesce" /\ apc' = "restart"
    /\ \E r \in RadStates, in, out \in Obeyed :
        /\ q' = [ai |-> r.up /\ in = "yes", ao |-> r.ao /\ out = "yes"]
        /\ rad' = [r EXCEPT !.ai = @ /\ in = "no", !.ao = @ /\ out = "no"]
        /\ speaker' = r.ao
    /\ UNCHANGED <<dmn, conf, drift, saves, apTodo, cur, forget, curOk, late, audioErr>>

After == IF cur = "rvd" THEN "resume" ELSE "finish"
AskRestart ==
    /\ apc = "restart"
    /\ \/ dmn[cur] = "up" /\ dmn' = [dmn EXCEPT ![cur] = "leaving"]
          /\ apc' = "down" /\ UNCHANGED curOk
       \/ apc' = After /\ curOk' = FALSE /\ UNCHANGED dmn
    /\ UNCHANGED <<conf, drift, saves, apTodo, cur, forget, late, audio>>

(* wait_down, wait_up: until the probe says yes or the budget is spent. *)
WaitDown ==
    /\ apc = "down" /\ apc' = "up"
    /\ \/ ~Answers(cur) /\ UNCHANGED late
       \/ Answers(cur) /\ late' = TRUE
    /\ UNCHANGED <<dmn, conf, drift, saves, apTodo, cur, forget, curOk, audio>>

DaemonReadyEarly(d) == Answers(d)  \* mutant: an answer is taken for a built pipeline

(* daemon_ready: rvd answers long before its pipeline is built. *)
DaemonReady(d) == IF d = "rvd" THEN dmn[d] \in {"up", "leaving"} ELSE Answers(d)

WaitUpForever ==  \* mutant: no deadline
    /\ apc = "up" /\ DaemonReady(cur) /\ curOk' = TRUE /\ apc' = After
    /\ UNCHANGED <<dmn, conf, drift, saves, apTodo, cur, forget, late, audio>>

WaitUp ==
    /\ apc = "up"
    /\ \/ DaemonReady(cur) /\ curOk' = TRUE /\ UNCHANGED late
       \/ ~DaemonReady(cur) /\ curOk' = FALSE /\ late' = TRUE
    /\ apc' = After
    /\ UNCHANGED <<dmn, conf, drift, saves, apTodo, cur, forget, audio>>

ResumeIfUp ==  \* mutant: no resume after a restart that failed
    /\ apc = "resume" /\ apc' = "finish"
    /\ rad' = IF rad.up /\ curOk THEN [rad EXCEPT !.ai = @ \/ q.ai, !.ao = @ \/ q.ao] ELSE rad
    /\ audioErr' = (q # AudioQuiet /\ ~rad.up)
    /\ UNCHANGED <<dmn, conf, drift, saves, apTodo, cur, forget, curOk, late, q, speaker>>

(* resume_rad, whatever became of rvd.  An ai-enable that fails ends it    *)
(* before the ao-enable.                                                   *)
ApResume ==
    /\ apc = "resume" /\ apc' = "finish"
    /\ \E aiOk, aoOk \in BOOLEAN :
        /\ rad.up \/ ~(aiOk \/ aoOk)
        /\ rad' = [rad EXCEPT !.ai = @ \/ (q.ai /\ aiOk),
                              !.ao = @ \/ (q.ao /\ aoOk /\ (q.ai => aiOk))]
        /\ audioErr' = ((q.ai /\ ~aiOk) \/ (q.ao /\ ~aoOk))
    /\ UNCHANGED <<dmn, conf, drift, saves, apTodo, cur, forget, curOk, late, q, speaker>>

(* What restart_rvd keeps on its stack goes with it. *)
FreshLocals == /\ cur' = "rvd" /\ curOk' = FALSE /\ late' = FALSE
               /\ q' = AudioQuiet /\ rad' = RadDown /\ speaker' = FALSE

FinishForgets ==  \* mutant: a daemon that refused is taken for settled
    /\ apc = "finish" /\ apc' = "next"
    /\ IF forget THEN StaleClear({cur}) ELSE UNCHANGED <<driftKeys, driftDmn>>
    /\ FreshLocals
    /\ UNCHANGED <<dmn, conf, driftFile, unseen, saves, apTodo, forget, audioErr>>

(* Cleared only when the daemon came back, and rad with it. *)
Finish ==
    /\ apc = "finish" /\ apc' = "next"
    /\ IF curOk /\ forget /\ ~(cur = "rvd" /\ audioErr) THEN StaleClear({cur})
       ELSE UNCHANGED <<driftKeys, driftDmn>>
    /\ FreshLocals
    /\ UNCHANGED <<dmn, conf, driftFile, unseen, saves, apTodo, forget, audioErr>>

ApplyDone ==
    /\ apc = "next" /\ apTodo = {} /\ apc' = "idle"
    /\ UNCHANGED <<driftKeys, driftDmn, unseen>> /\ StaleSave /\ forget' = FALSE
    /\ UNCHANGED <<dmn, conf, saves, apTodo, cur, curOk, late, audio>>

-----------------------------------------------------------------------------
(* The daemons.  One re-execs to restart, and reads the file on its way    *)
(* up; only rvd answers before it is ready.                                *)
Move(d, from, to) == dmn[d] \in from /\ dmn' = [dmn EXCEPT ![d] = to]
ApLeave(d) == Move(d, {"leaving"}, "gone") /\ UNCHANGED <<conf, drift, saves, apply, audio>>
ApBoot(d) ==
    /\ Move(d, {"down", "gone"}, IF d = "rvd" THEN "starting" ELSE "up")
    /\ runVal' = [k \in DKeys |-> IF Owner[k] = d THEN fileVal[k] ELSE runVal[k]]
    /\ dirty' = dirty \ KeysOf(d) /\ unseen' = unseen \ KeysOf(d)
    /\ UNCHANGED <<fileVal, driftKeys, driftDmn, driftFile, saves, apply, audio>>
ApReady(d) == Move(d, {"starting"}, "up") /\ UNCHANGED <<conf, drift, saves, apply, audio>>
Crash(d) == /\ Move(d, {"gone", "starting", "up"}, "down")
            /\ late' = (late \/ (cur = d /\ apc \in {"up", "resume"}))
            /\ UNCHANGED <<conf, drift, saves, apc, apTodo, cur, forget, curOk, audio>>
RadCrash == /\ apc \in {"down", "up", "resume"} /\ cur = "rvd" /\ rad.up /\ rad' = RadDown
            /\ UNCHANGED <<dmn, conf, drift, saves, apply, q, audioErr, speaker>>

ApplyStep == \/ NextDaemon \/ Quiesce \/ AskRestart \/ WaitDown \/ WaitUp \/ ApResume
             \/ Finish \/ ApplyDone
Environment == RadCrash \/ \E d \in Daemons : ApLeave(d) \/ ApBoot(d) \/ ApReady(d) \/ Crash(d)
ApNext == SetEdits \/ StateQuery \/ ApTick \/ RcdRestart \/ ApplyStart \/ ApplyStep \/ Environment

(* The loop turns and the waits are bounded; no daemon has to come back.   *)
ApSpec == ApInit /\ [][ApNext]_apvars /\ WF_apvars(ApplyStep) /\ WF_apvars(ApTick)

-----------------------------------------------------------------------------
ApTypeOK ==
    /\ dmn \in [Daemons -> {"down", "gone", "starting", "up", "leaving"}]
    /\ {fileVal, runVal} \subseteq [DKeys -> DVals] /\ dirty \subseteq DKeys
    /\ driftKeys \cup driftFile \cup unseen \subseteq DKeys /\ Cardinality(driftKeys) <= DriftMax
    /\ driftDmn \cup saveOwed \cup apTodo \subseteq Daemons /\ cur \in Daemons
    /\ {saveLeft, saveAge} \subseteq 0..SaveMax /\ {forget, curOk, late, audioErr} \subseteq BOOLEAN
    /\ q \in [ai : BOOLEAN, ao : BOOLEAN]

(* A daemon that runs with anything but the file either holds the edit     *)
(* itself or is reported as behind, so that an apply settles it: across    *)
(* full lists, refused restarts, daemons that come and go, and restarts of *)
(* rcd - except that a restart of rcd loses a daemon none of whose keys is *)
(* in the list's file, though a full list "costs a line of the report and  *)
(* nothing else" (rcd_config.c:42), and that nobody records a live reset   *)
(* whose file write failed.                                                *)
DriftReported ==
    \A k \in DKeys : dmn[Owner[k]] \in {"starting", "up"} /\ runVal[k] # fileVal[k] =>
        k \in dirty \/ Owner[k] \in driftDmn \/ k \in unseen

(* "Resuming audio against a half-built pipeline is the failure this       *)
(* protocol exists to avoid" (rcd_apply.c:37): rad is put back on the      *)
(* hardware only with rvd ready, down or refusing, or the wait spent.      *)
ResumeAfterReady ==
    [][apc = "resume" => late \/ ~curOk \/ dmn["rvd"] \notin {"gone", "starting"}
                         \/ ~(apc' = "finish")]_apvars

(* "A resume skipped because the restart failed leaves audio dead          *)
(* indefinitely" (rcd_apply.c:236): what rad said it gave up for the       *)
(* restart of rvd it has again after it, or the apply reports an error.    *)
(* And the speaker is given no more than it had (rcd_apply.c:137).  The    *)
(* input may be: rad says ok to an ai-disable of an input that is off      *)
(* (rad_main.c:384), which is then switched on.  A disable that was        *)
(* carried out and answered too late (rcd_apply.c:159) is not undone, and  *)
(* no error says so.                                                       *)
AudioRestored ==
    [][apc = "resume" /\ apc' # "resume" =>
          /\ audioErr' \/ ((q.ai => rad.ai') /\ (q.ao => rad.ao'))
          /\ rad.ao' => speaker]_apvars

(* "a change has to reach flash even if the burst never ends"              *)
(* (rcd_config.c:271): live edits that keep coming do not put the save off *)
(* for ever.                                                               *)
SaveComes == []<>(saveOwed = {})

(* "Bounding the wait to what it claims is what keeps the guard's promise  *)
(* true" (rcd_apply.c:76): an apply ends, and rcd serves again, whichever  *)
(* daemons refuse, hang or never come back.                                *)
ApplyEnds == []<>(apc = "idle")
=============================================================================
