----------------------------- MODULE RadOutput -----------------------------
(***************************************************************************)
(* rad, speaker side: the AO thread that plays the "speaker" ring, and the *)
(* control commands that talk to it through atomics.  The control handler  *)
(* runs on the capture loop: while it waits, rad serves nothing else.  The *)
(* ring is made by a player (rac, or a backchannel) that comes and goes.   *)
(***************************************************************************)
EXTENDS Integers

CONSTANTS AoRates, MaxSeq, IdleMax   \* MaxSeq: frames of one player; IdleMax: idle_count limit

ASSUME RadOutputConstants == AoRates # {} /\ 0 \notin AoRates /\ MaxSeq \in Nat /\ IdleMax \in Nat \ {0}

VARIABLES
    aoPc,       \* where the AO thread is
    att, attWr, rd,       \* its ring: "no", "cur" or "old" (a dead player's), write_seq, read_seq
    idle,
    aoStop, aoFlush, ratePend, aoRate,   \* the atomics
    drReq, drTarget, drDone,
    ctl,        \* the control handler: idle, or inside a command
    aoEnabled,
    spk         \* write_seq of the ring named "speaker", -1 without one

thread == <<aoPc, att, attWr, rd, idle>>
drain == <<drReq, drTarget, drDone>>
aovars == <<thread, aoStop, aoFlush, ratePend, aoRate, drain, ctl, aoEnabled, spk>>

AoInit ==
    /\ aoPc = "top" /\ att = "no" /\ attWr = 0 /\ rd = 0 /\ idle = 0
    /\ aoStop = FALSE /\ aoFlush = FALSE /\ ratePend = 0 /\ aoRate \in AoRates
    /\ drReq = FALSE /\ drTarget = 0 /\ drDone = FALSE
    /\ ctl = "idle" /\ aoEnabled = TRUE /\ spk = -1

-----------------------------------------------------------------------------
(* ao_apply_rate_change: a device that refuses the new rate goes back to   *)
(* the one it had.                                                         *)
ApplyRate == /\ ratePend' = 0
             /\ aoRate' \in {aoRate} \cup ({ratePend} \ {0})

Top ==
    /\ aoPc = "top"
    /\ IF aoStop THEN aoPc' = "exited" /\ UNCHANGED <<ratePend, aoRate>>
       ELSE aoPc' = "wait" /\ ApplyRate
    /\ UNCHANGED <<att, attWr, rd, idle, aoStop, aoFlush, drain, ctl, aoEnabled, spk>>

WaitRateDeaf ==  \* mutant: phase 1 does not look at the stop flag
    /\ aoPc = "wait" /\ aoPc' = "waitFlush" /\ ApplyRate
    /\ UNCHANGED <<att, attWr, rd, idle, aoStop, aoFlush, drain, ctl, aoEnabled, spk>>

(* Phase 1, every 50 ms: rate, flush, drain, then the ring. *)
WaitRate ==
    /\ aoPc = "wait"
    /\ IF aoStop THEN aoPc' = "exited" /\ UNCHANGED <<ratePend, aoRate>>
       ELSE aoPc' = "waitFlush" /\ ApplyRate
    /\ UNCHANGED <<att, attWr, rd, idle, aoStop, aoFlush, drain, ctl, aoEnabled, spk>>
WaitFlush ==
    /\ aoPc = "waitFlush" /\ aoFlush' = FALSE
    /\ aoPc' = IF drReq THEN "waitDrain" ELSE "open"
    /\ UNCHANGED <<att, attWr, rd, idle, aoStop, ratePend, aoRate, drain, ctl, aoEnabled, spk>>
(* A ring there is no memory to read into ends the thread. *)
Open ==
    /\ aoPc = "open"
    /\ \/ spk >= 0 /\ att' = "cur" /\ attWr' = spk /\ rd' = 0 /\ idle' = 0 /\ aoPc' = "play"
       \/ spk >= 0 /\ aoPc' = "failed" /\ UNCHANGED <<att, attWr, rd, idle>>
       \/ spk < 0 /\ aoPc' = "wait" /\ UNCHANGED <<att, attWr, rd, idle>>
    /\ UNCHANGED <<aoStop, aoFlush, ratePend, aoRate, drain, ctl, aoEnabled, spk>>

(* ao_check_drain, second half: ao_flush_buf has returned. *)
Drained ==
    /\ aoPc \in {"waitDrain", "playDrain"}
    /\ drReq' = FALSE /\ drDone' = (drReq \/ drDone)
    /\ aoPc' = IF aoPc = "waitDrain" THEN "open" ELSE "read"
    /\ UNCHANGED <<att, attWr, rd, idle, aoStop, aoFlush, ratePend, aoRate, drTarget, ctl, aoEnabled, spk>>

AoLeave == att' = "no" /\ UNCHANGED <<attWr, rd, idle>>

(* Phase 2, top of the loop: stop, flush, drain. *)
Play ==
    /\ aoPc = "play"
    /\ IF aoStop \/ aoFlush
       THEN /\ aoPc' = "top" /\ AoLeave
            /\ aoFlush' = (aoFlush /\ aoStop)
       ELSE /\ aoPc' = IF drReq /\ rd >= drTarget THEN "playDrain" ELSE "read"
            /\ UNCHANGED <<att, attWr, rd, idle, aoFlush>>
    /\ UNCHANGED <<aoStop, ratePend, aoRate, drain, ctl, aoEnabled, spk>>

(* Phase 2, the read: a frame is played, a ring that stays silent closed. *)
Read ==
    /\ aoPc = "read"
    /\ \/ rd < attWr /\ rd' = rd + 1 /\ idle' = 0 /\ aoPc' = "play" /\ UNCHANGED <<att, attWr>>
       \/ /\ rd = attWr
          /\ IF idle + 1 >= IdleMax THEN aoPc' = "top" /\ AoLeave
             ELSE idle' = idle + 1 /\ aoPc' = "play" /\ UNCHANGED <<att, attWr, rd>>
    /\ UNCHANGED <<aoStop, aoFlush, ratePend, aoRate, drain, ctl, aoEnabled, spk>>

Thread == Top \/ WaitRate \/ WaitFlush \/ Open \/ Drained \/ Play \/ Read

-----------------------------------------------------------------------------
(* The player: ao-flush, a new ring, frames, then the ring is destroyed.   *)
(* A mapping of a destroyed ring stays readable.                           *)
PlayerOpens == /\ spk = -1 /\ spk' = 0
               /\ UNCHANGED <<thread, aoStop, aoFlush, ratePend, aoRate, drain, ctl, aoEnabled>>
PlayerWrites == /\ spk \in 0..MaxSeq - 1 /\ spk' = spk + 1
                /\ attWr' = IF att = "cur" THEN spk + 1 ELSE attWr
                /\ UNCHANGED <<aoPc, att, rd, idle, aoStop, aoFlush, ratePend, aoRate, drain, ctl, aoEnabled>>
PlayerCloses == /\ spk >= 0 /\ spk' = -1
                /\ att' = IF att = "cur" THEN "old" ELSE att
                /\ UNCHANGED <<aoPc, attWr, rd, idle, aoStop, aoFlush, ratePend, aoRate, drain, ctl, aoEnabled>>

-----------------------------------------------------------------------------
(* ao-flush *)
CmdFlush ==
    /\ ctl = "idle" /\ aoEnabled /\ aoFlush' = TRUE
    /\ UNCHANGED <<thread, aoStop, ratePend, aoRate, drain, ctl, aoEnabled, spk>>

(* ao-set-sample-rate: the rate first, then the flush that breaks phase 2. *)
CmdRate ==
    /\ ctl = "idle" /\ aoEnabled
    /\ \E r \in AoRates : ratePend' = r
    /\ ctl' = "rate"
    /\ UNCHANGED <<thread, aoStop, aoFlush, aoRate, drain, aoEnabled, spk>>
CmdRateFlush ==
    /\ ctl = "rate" /\ ctl' = "idle" /\ aoFlush' = TRUE
    /\ UNCHANGED <<thread, aoStop, ratePend, aoRate, drain, aoEnabled, spk>>

(* ao-drain: the target is the write_seq of the ring the name stands for;  *)
(* then wait, at most 3 s.                                                 *)
CmdDrain ==
    /\ ctl = "idle" /\ aoEnabled
    /\ ctl' = "drain" /\ drDone' = FALSE /\ drReq' = TRUE
    /\ drTarget' = IF spk >= 0 THEN spk ELSE 0
    /\ UNCHANGED <<thread, aoStop, aoFlush, ratePend, aoRate, aoEnabled, spk>>
CmdDrained ==
    /\ ctl = "drain" /\ drDone /\ ctl' = "idle"
    /\ UNCHANGED <<thread, aoStop, aoFlush, ratePend, aoRate, drain, aoEnabled, spk>>
CmdDrainTimeout ==
    /\ ctl = "drain" /\ ~drDone /\ ctl' = "idle" /\ drReq' = FALSE
    /\ UNCHANGED <<thread, aoStop, aoFlush, ratePend, aoRate, drTarget, drDone, aoEnabled, spk>>

(* ao-disable: stop the thread, join it, close the device. *)
CmdDisable ==
    /\ ctl = "idle" /\ aoEnabled
    /\ ctl' = "join" /\ aoStop' = TRUE
    /\ UNCHANGED <<thread, aoFlush, ratePend, aoRate, drain, aoEnabled, spk>>
CmdJoined ==
    /\ ctl = "join" /\ aoPc \in {"exited", "failed"}
    /\ ctl' = "idle" /\ aoEnabled' = FALSE
    /\ UNCHANGED <<thread, aoStop, aoFlush, ratePend, aoRate, drain, spk>>

CmdEnableKeepsStop ==  \* mutant: the atomics are not reset before the thread starts
    /\ ctl = "idle" /\ ~aoEnabled
    /\ aoEnabled' = TRUE /\ aoPc' = "top" /\ att' = "no"
    /\ UNCHANGED <<attWr, rd, idle, aoStop, aoFlush, ratePend, aoRate, drain, ctl, spk>>

(* ao-enable *)
CmdEnable ==
    /\ ctl = "idle" /\ ~aoEnabled
    /\ aoEnabled' = TRUE /\ aoPc' = "top" /\ att' = "no"
    /\ aoStop' = FALSE /\ aoFlush' = FALSE /\ ratePend' = 0 /\ drReq' = FALSE
    /\ \E r \in AoRates : aoRate' = r
    /\ UNCHANGED <<attWr, rd, idle, drTarget, drDone, ctl, spk>>

Returns == CmdRateFlush \/ CmdDrained \/ CmdDrainTimeout \/ CmdJoined
AoCommand == CmdFlush \/ CmdRate \/ CmdDrain \/ CmdDisable \/ CmdEnable
Player == PlayerOpens \/ PlayerWrites \/ PlayerCloses
AoNext == Thread \/ Returns \/ AoCommand \/ Player

(* Threads run, waits end and the 3 s pass. *)
AoSpec == AoInit /\ [][AoNext]_aovars /\ WF_aovars(Thread) /\ WF_aovars(Returns)

-----------------------------------------------------------------------------
AoTypeOK ==
    /\ aoPc \in {"top", "wait", "waitFlush", "waitDrain", "open", "play", "playDrain", "read", "exited", "failed"}
    /\ att \in {"no", "cur", "old"} /\ {attWr, rd} \subseteq 0..MaxSeq /\ idle \in 0..IdleMax
    /\ {aoStop, aoFlush, drReq, drDone, aoEnabled} \subseteq BOOLEAN
    /\ {ratePend, aoRate} \subseteq AoRates \cup {0} /\ drTarget \in 0..MaxSeq
    /\ ctl \in {"idle", "rate", "drain", "join"} /\ spk \in -1..MaxSeq

(* An enabled speaker has a thread that was not told to stop, whatever was *)
(* on the way when it was disabled: an ao-enable is not undone by the stop *)
(* of the ao-disable before it.  A thread that found no memory for a ring  *)
(* ("failed", rad_main.c:963) is the exception: ao_enabled stays true and  *)
(* nothing is played until an ao-disable and an ao-enable.                 *)
SpeakerServed == aoEnabled /\ ctl = "idle" => aoPc # "exited" /\ ~aoStop

(* "this same loop polls" the control socket (rad_main.c:56): no command   *)
(* to the AO thread keeps the capture loop for ever, whether the player    *)
(* writes, is gone with its ring still mapped, or opens another, and       *)
(* whether the thread is still there to answer or has failed.              *)
ControlReturns == []<>(ctl = "idle")
=============================================================================
