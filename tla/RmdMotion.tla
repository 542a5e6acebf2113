----------------------------- MODULE RmdMotion -----------------------------
(***************************************************************************)
(* rmd, the motion daemon, with the recorder it triggers.  Each poll asks  *)
(* rvd for the IVS result, advances idle/active/cooldown and sends start   *)
(* or stop to rmr (mode = motion).  Time is counted in polls.              *)
(***************************************************************************)
EXTENDS Naturals

CONSTANT Post          \* max(record_post_sec, cooldown_sec), in polls

ASSUME RmdAssumption == Post \in Nat \ {0}

VARIABLES up, state, recordingActive, elapsed, gpio,  \* rmd
          rmdRvdUp, motion,                              \* rvd and what its IVS sees
          rmrUp, rmdRecording,                           \* rmr and its flag
          quiet,                                      \* ghost: polls since motion was seen
          orphan,                                     \* ghost: a killed rmd left rmr recording
          missed                                      \* ghost: rmr was away since rmd last was idle

rmd == <<up, state, recordingActive, elapsed, gpio>>
rmdvars == <<rmd, rmdRvdUp, motion, rmrUp, rmdRecording, quiet, orphan, missed>>

RmdInit ==
    /\ up = TRUE /\ state = "idle" /\ recordingActive = FALSE /\ elapsed = 0 /\ gpio = FALSE
    /\ rmdRvdUp = TRUE /\ motion = FALSE /\ rmrUp = TRUE /\ rmdRecording = FALSE
    /\ quiet = Post /\ orphan = FALSE /\ missed = FALSE

(* rmd_trigger_recording: a start or stop that finds no rmr is lost, and   *)
(* the caller does not look at the result.                                 *)
TriggerRecording(start) == rmdRecording' = IF rmrUp THEN start ELSE rmdRecording

(* rmd_poll_motion: an rvd that does not answer reads as no motion. *)
Seen == rmdRvdUp /\ motion

PollIdleSilent ==  \* mutant: motion does not start the recorder
    /\ up /\ state = "idle"
    /\ IF Seen THEN state' = "active" /\ gpio' = TRUE /\ recordingActive' = TRUE
       ELSE UNCHANGED <<state, gpio, recordingActive>>
    /\ UNCHANGED <<elapsed, up, rmdRecording>>

PollIdle ==
    /\ up /\ state = "idle"
    /\ IF Seen
       THEN /\ state' = "active" /\ gpio' = TRUE
            /\ recordingActive' = TRUE
            /\ IF recordingActive THEN UNCHANGED rmdRecording ELSE TriggerRecording(TRUE)
       ELSE UNCHANGED <<state, gpio, recordingActive, rmdRecording>>
    /\ UNCHANGED <<elapsed, up>>

PollActive ==
    /\ up /\ state = "active"
    /\ IF Seen THEN UNCHANGED <<state, elapsed>> ELSE state' = "cooldown" /\ elapsed' = 0
    /\ UNCHANGED <<up, gpio, recordingActive, rmdRecording>>

PollCooldownEager ==  \* mutant: the clock of an earlier cooldown is not restarted
    /\ up /\ state = "cooldown"
    /\ state' = IF Seen THEN "active" ELSE "idle"
    /\ IF Seen THEN UNCHANGED <<gpio, recordingActive, rmdRecording>>
       ELSE /\ gpio' = FALSE /\ recordingActive' = FALSE
            /\ IF recordingActive THEN TriggerRecording(FALSE) ELSE UNCHANGED rmdRecording
    /\ UNCHANGED <<up, elapsed>>

PollCooldownKeeps ==  \* mutant: the end of the cooldown forgets the recorder
    /\ up /\ state = "cooldown"
    /\ IF Seen
       THEN state' = "active" /\ UNCHANGED <<elapsed, gpio, recordingActive>>
       ELSE IF elapsed + 1 >= Post
       THEN state' = "idle" /\ gpio' = FALSE /\ UNCHANGED <<elapsed, recordingActive>>
       ELSE elapsed' = elapsed + 1 /\ UNCHANGED <<state, gpio, recordingActive>>
    /\ UNCHANGED <<up, rmdRecording>>

PollCooldown ==
    /\ up /\ state = "cooldown"
    /\ IF Seen
       THEN state' = "active" /\ UNCHANGED <<elapsed, gpio, recordingActive, rmdRecording>>
       ELSE IF elapsed + 1 >= Post
       THEN /\ state' = "idle" /\ gpio' = FALSE
            /\ recordingActive' = FALSE
            /\ IF recordingActive THEN TriggerRecording(FALSE) ELSE UNCHANGED rmdRecording
            /\ UNCHANGED elapsed
       ELSE elapsed' = elapsed + 1 /\ UNCHANGED <<state, gpio, recordingActive, rmdRecording>>
    /\ UNCHANGED up

Poll == /\ PollIdle \/ PollActive \/ PollCooldown
        /\ quiet' = IF Seen THEN 0 ELSE IF quiet < Post THEN quiet + 1 ELSE quiet
        /\ orphan' = (orphan /\ rmdRecording /\ rmdRecording')
        /\ missed' = (missed /\ ~(state = "idle" /\ rmrUp))
        /\ UNCHANGED <<rmdRvdUp, motion, rmrUp>>

ShutdownSilent ==  \* mutant: no cleanup on SIGTERM
    /\ up
    /\ up' = FALSE /\ gpio' = FALSE
    /\ UNCHANGED <<state, recordingActive, elapsed, rmdRvdUp, motion, rmrUp, rmdRecording, quiet, orphan, missed>>

(* SIGTERM: a recording in progress is stopped and the pin released. *)
Shutdown ==
    /\ up
    /\ up' = FALSE /\ gpio' = FALSE
    /\ IF recordingActive THEN TriggerRecording(FALSE) ELSE UNCHANGED rmdRecording
    /\ UNCHANGED <<state, recordingActive, elapsed, rmdRvdUp, motion, rmrUp, quiet, orphan, missed>>
Kill ==  \* no cleanup
    /\ up
    /\ up' = FALSE
    /\ orphan' = (orphan \/ rmdRecording)
    /\ UNCHANGED <<state, recordingActive, elapsed, gpio, rmdRvdUp, motion, rmrUp, rmdRecording, quiet, missed>>
RmdStart ==  \* rmd_gpio_init drives the pin low: direction "out"
    /\ ~up
    /\ up' = TRUE /\ state' = "idle" /\ recordingActive' = FALSE /\ elapsed' = 0 /\ gpio' = FALSE
    /\ UNCHANGED <<rmdRvdUp, motion, rmrUp, rmdRecording, quiet, orphan, missed>>

Scene == /\ motion' = ~motion
         /\ UNCHANGED <<rmd, rmdRvdUp, rmrUp, rmdRecording, quiet, orphan, missed>>
Rvd == /\ rmdRvdUp' = ~rmdRvdUp
       /\ UNCHANGED <<rmd, motion, rmrUp, rmdRecording, quiet, orphan, missed>>
(* A new rmr in motion mode waits for a trigger. *)
Rmr == /\ rmrUp' = ~rmrUp /\ rmdRecording' = FALSE /\ orphan' = FALSE /\ missed' = TRUE
       /\ UNCHANGED <<rmd, rmdRvdUp, motion, quiet>>

RmdNext == Poll \/ Shutdown \/ Kill \/ RmdStart \/ Scene \/ Rvd \/ Rmr

(* The poll loop runs for ever. *)
RmdSpec == RmdInit /\ [][RmdNext]_rmdvars /\ WF_rmdvars(Poll)

-----------------------------------------------------------------------------
RmdTypeOK ==
    /\ state \in {"idle", "active", "cooldown"} /\ elapsed \in 0..Post
    /\ {up, recordingActive, gpio, rmdRvdUp, motion, rmrUp, rmdRecording} \subseteq BOOLEAN
    /\ up => (gpio <=> state # "idle") /\ (recordingActive <=> state # "idle")

(* "continue recording after motion stops" (raptor.conf:584): a poll ends  *)
(* a recording only after record_post_sec of polls without motion, counted *)
(* from the last one that saw any, however often motion came back before.  *)
PostRoll == [][Poll /\ rmdRecording /\ ~rmdRecording' => quiet >= Post]_rmdvars

(* "start recording on motion" (raptor.conf:583): motion that stays in     *)
(* view of a running rmd and rvd is recorded.  Start is sent on the edge   *)
(* from idle only and its result is ignored (rmd_main.c:103), so this      *)
(* needs an rmr that has not been away since rmd was idle.                 *)
MotionRecorded == <>[](up /\ rmdRvdUp /\ motion /\ rmrUp /\ ~missed) => <>[]rmdRecording

(* A scene that stays quiet ends up not being recorded: no start is left   *)
(* without its stop, across shutdowns of rmd and outages of rvd and rmr.   *)
(* Only a killed rmd leaves a recording behind, since the next one starts  *)
(* out idle (rmd_main.c:301).                                          *)
RecordingEnds == <>[](up /\ ~motion /\ rmrUp /\ ~orphan) => <>[]~rmdRecording
=============================================================================
