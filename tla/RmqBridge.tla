----------------------------- MODULE RmqBridge -----------------------------
(***************************************************************************)
(* rmq: the bridge between rcd and an MQTT broker.  One loop connects,     *)
(* announces the camera, polls rcd, keeps a retained discovery document in *)
(* step with the daemons that run and what the camera can do, publishes a  *)
(* picture URL and hands commands to rcd.  The broker, Home Assistant and  *)
(* rcd are modelled from what the code relies on of them.                  *)
(***************************************************************************)
EXTENDS Integers, Sequences, FiniteSets, SequencesExt

CONSTANTS
    MqKeys,       \* HA_KEYS_MAX
    MqPoll,       \* loop turns from one poll to the next (poll_interval)
    MqRetry,      \* loop turns to the next attempt at a URL (RETRY_MS)
    MqKeep,       \* loop turns until a dead connection is noticed (keepalive)
    MqSetups,     \* raptor.conf's [mqtt]: [snapshot, commands : BOOLEAN, every : turns from one picture URL to
                  \* the next (snapshot_interval), 0 for one per connection]
    MqOdd,        \* rare failures admitted: "alloc" (a publish fails, connected), "reboot" (it does not run),
                  \* "config" (raptor.conf is not read again)
    MqChanges,    \* bound: changes of the camera and commands
    MqFaults      \* bound: lost connections and subscriptions, restarts of broker, bridge and Home Assistant

ASSUME RmqConstants ==
    /\ {MqKeys, MqPoll, MqRetry, MqKeep} \subseteq Nat \ {0} /\ {MqChanges, MqFaults} \subseteq Nat
    /\ MqSetups \subseteq [snapshot : BOOLEAN, commands : BOOLEAN, every : Nat]
    /\ MqOdd \subseteq {"alloc", "reboot", "config"}

VARIABLES
    world,   \* the camera: [up, rcd, jpeg, isp, cred, setup] (cred: rhd's password, as commands left it)
    br,      \* the broker: [up, sess, status, doc, url] (sess: it holds the bridge's will)
    ha,      \* Home Assistant: [has, refused] (refused: the last document it read)
    b,       \* rmq_state_t and the loop's position
    ask,     \* the command on its way, or "none"
    stray,   \* what Home Assistant holds came apart from the record, with nothing to tell the bridge so
    mleft    \* [changes, faults] left

mqvars == <<world, br, ha, b, ask, stray, mleft>>

MqCommands == {"bad", "reboot", "snapshot", "set"}
Isp == {"silent", "wide", "narrow", "lacks"}   \* what rvd says of a knob: nothing, its range, or that it has none

(***************************************************************************)
(* What a discovery document offers.                                       *)
(***************************************************************************)
\* One entity of the camera itself, one of rvd's, the picture, an rvd control tied to an ISP block, and a
\* control of the camera's, in the order publish_device writes them.
entities == <<[key |-> "uptime", owner |-> "none"], [key |-> "fps", owner |-> "rvd"]>>
controls == <<[key |-> "image_x", owner |-> "rvd", cap |-> TRUE], [key |-> "apply", owner |-> "none", cap |-> FALSE]>>

owner_available(o, up) == o = "none" \/ o \in up

isp_settable(isp) == isp # "lacks"

\* The range an image control offers: the camera's, or the table's when the camera says none.
isp_caps_range(isp) == IF isp = "narrow" THEN 1 ELSE 2

offer_picture(up, jpeg) == world.setup.snapshot /\ jpeg /\ owner_available("rhd", up)

\* The keys of a document, in order: each row of the tables that is there.
Listed(e, there) == IF there THEN <<e.key>> ELSE <<>>
Present(up, f) ==
    LET Live(e) == owner_available(e.owner, up)
        Settable(c) == world.setup.commands /\ Live(c) /\ (c.cap => isp_settable(f.isp))
        Entity(i) == Listed(entities[i], Live(entities[i]))
        Control(i) == Listed(controls[i], Settable(controls[i]))
    IN  Entity(1) \o Entity(2) \o (IF offer_picture(up, f.jpeg) THEN <<"picture">> ELSE <<>>)
          \o Control(1) \o Control(2)

AllKeys == {"uptime", "fps", "picture", "image_x", "apply"}
NoDoc == [comps |-> {}, gone |-> {}, range |-> 0]

\* key_add past the table drops the key and says so; a withdrawal is then not attempted at all.
Recorded(keys) == SubSeq(keys, 1, IF Len(keys) > MqKeys THEN MqKeys ELSE Len(keys))

WithdrawnAll(keys, record) == AllKeys \ ToSet(keys)  \* mutant: not what the record holds
Withdrawn(keys, record) == IF Len(keys) > MqKeys THEN {} ELSE record \ ToSet(keys)

Document(up, f, record) ==
    LET keys == Present(up, f)
    IN  [comps |-> ToSet(keys), gone |-> Withdrawn(keys, record), range |-> isp_caps_range(f.isp)]

\* Home Assistant: an empty document removes the device; one that withdraws a component it does not have is
\* refused whole; any other removes what it withdraws and adds what it carries.
MqLearn(h, doc) ==
    IF doc = NoDoc THEN [has |-> {}, refused |-> FALSE]
    ELSE IF ~(doc.gone \subseteq h.has) THEN [h EXCEPT !.refused = TRUE]
    ELSE [has |-> (h.has \ doc.gone) \cup doc.comps, refused |-> FALSE]

(***************************************************************************)
(* rmq_mqtt.c.  A connection is live, or dead and not noticed: the library *)
(* then takes a publication that reaches nobody, until it reports NO_CONN. *)
(***************************************************************************)
Boot == [pc |-> "top", conn |-> "none", quiet |-> 0, disc |-> FALSE, last |-> {}, facts |-> [jpeg |-> FALSE, isp |-> "silent"],
         keys |-> {}, poll |-> 0, snap |-> 0, http |-> FALSE, subs |-> FALSE, cred |-> 1, addr |-> 1]
NEVER == -1

\* What rmq_mqtt_publish may answer.
Outcomes(conn) ==
    CASE conn = "live" -> {"ok"} \cup (IF "alloc" \in MqOdd THEN {"alloc"} ELSE {})
      [] conn = "dead" -> {"lost", "noconn"}
      [] OTHER -> {"noconn"}

Accepted(o) == o \in {"ok", "lost"}
rmq_mqtt_publish(o, s) == IF o = "noconn" THEN [s EXCEPT !.conn = "none"] ELSE s

\* rmq_mqtt_connect and rmq_connect: a fresh client and a clean session (which takes the old session over, its
\* will first), the subscription sub, then "online" with outcome o; discovery and the URL are owed again.  Neither
\* a subscription that fails nor what became of "online" changes what the code does next.
Connected(a, sub, o) ==
    [b EXCEPT !.conn = CASE o = "lost" -> "dead" [] o = "noconn" -> "none" [] OTHER -> "live",
              !.subs = sub, !.quiet = 0, !.snap = 0, !.addr = a, !.pc = "loop"]
SayOnline(o) == br' = [br EXCEPT !.sess = TRUE, !.status = IF o = "ok" THEN "online" ELSE IF br.sess THEN "offline" ELSE @]

ConnectKeepsDiscovery(a, sub, o) == b' = Connected(a, sub, o) /\ SayOnline(o)
rmq_connect(a, sub, o) == b' = [Connected(a, sub, o) EXCEPT !.disc = FALSE] /\ SayOnline(o)

\* The broker does not answer: try again after reconnect_delay_ms.
connect_fails == b' = [b EXCEPT !.pc = "top"] /\ UNCHANGED br

(***************************************************************************)
(* The loop.                                                               *)
(***************************************************************************)
\* Once a turn: the deadlines come a turn closer.
Closer(n) == IF n > 0 THEN n - 1 ELSE n

Connect ==
    /\ b.pc = "top"
    /\ \/ b.conn # "none" /\ b' = [b EXCEPT !.pc = "loop"] /\ UNCHANGED <<br, mleft>>
       \/ /\ b.conn = "none" /\ br.up
          /\ \E a \in 1..2, sub \in BOOLEAN, o \in Outcomes("live") \cup Outcomes("dead") :
                /\ rmq_connect(a, sub, o)
                /\ IF sub /\ o \in Outcomes("live") THEN UNCHANGED mleft
                   ELSE mleft.faults > 0 /\ mleft' = [mleft EXCEPT !.faults = @ - 1]
       \/ b.conn = "none" /\ ~br.up /\ connect_fails /\ UNCHANGED mleft
    /\ UNCHANGED <<world, ha, ask, stray>>

\* rmq_snapshot_publish: rescheduled before the attempt; a URL that cannot be built is retried on its own clock.
Scheduled(every) == IF every > 0 THEN every ELSE NEVER
UrlSent(o) == br' = IF o = "ok" THEN [br EXCEPT !.url = <<b.addr, b.cred>>] ELSE br

SnapOnce(o, s) ==
    /\ b' = [IF s.http THEN rmq_mqtt_publish(o, s) ELSE s EXCEPT !.snap = NEVER]
    /\ IF s.http THEN UrlSent(o) ELSE UNCHANGED br
rmq_snapshot_publish(o, s) ==
    IF ~s.http THEN b' = [s EXCEPT !.snap = MqRetry] /\ UNCHANGED br
    ELSE b' = [rmq_mqtt_publish(o, s) EXCEPT !.snap = Scheduled(world.setup.every)] /\ UrlSent(o)

\* relay: rcd's answer, or none.  An accepted write refreshes the copy of rhd's credential from the file rcd wrote.
\* (What auto_apply then has rcd do is RcdApply's.)
RelayKeepsCred(s) == b' = s /\ \E c \in 1..2 : world' = [world EXCEPT !.cred = IF world.rcd THEN c ELSE @]
relay(s) ==
    \/ b' = s /\ UNCHANGED world                  \* no answer, or refused
    \/ world.rcd /\ \E c \in 1..2 :
          /\ b' = [s EXCEPT !.cred = c] \/ ("config" \in MqOdd /\ b' = s)
          /\ world' = [world EXCEPT !.cred = c]

\* do_reboot: answered, offline said, then the camera goes down and comes back with everything forgotten.  Left
\* running when /sbin/reboot does not run.
do_reboot(o, s) ==
    /\ \/ b' = [Boot EXCEPT !.cred = world.cred, !.addr = s.addr]
       \/ "reboot" \in MqOdd /\ b' = rmq_mqtt_publish(o, s)
    /\ br' = IF o = "ok" THEN [br EXCEPT !.status = "offline"] ELSE br

\* rmq_cmd_handle, from the library's loop: an unreadable payload is refused, the rest is done and answered.
rmq_cmd_handle(o, s) ==
    CASE ask = "bad" \/ (ask = "snapshot" /\ ~world.setup.snapshot) -> b' = s /\ UNCHANGED <<world, br>>
      [] ask = "reboot" -> do_reboot(o, s) /\ UNCHANGED world
      [] ask = "snapshot" /\ world.setup.snapshot -> rmq_snapshot_publish(o, s) /\ UNCHANGED world
      [] ask = "set" -> relay(s) /\ UNCHANGED br

\* rmq_mqtt_loop: it delivers a command, finds nothing, or finds the connection gone, which a dead one is by
\* the end of its keepalive.
MqLoop ==
    /\ b.pc = "loop"
    /\ LET s == [b EXCEPT !.pc = "poll", !.poll = Closer(@), !.snap = Closer(@)]
       IN  \/ b.conn = "live" /\ ask = "none" /\ b' = s /\ UNCHANGED <<world, br, ask>>
           \/ b.conn = "live" /\ ask # "none" /\ ask' = "none" /\ \E o \in Outcomes("live") : rmq_cmd_handle(o, s)
           \/ /\ b.conn = "dead" /\ b.quiet < MqKeep
              /\ b' = [s EXCEPT !.quiet = @ + 1] /\ UNCHANGED <<world, br, ask>>
           \/ b.conn # "live" /\ b' = [b EXCEPT !.conn = "none", !.pc = "top"] /\ UNCHANGED <<world, br, ask>>
    /\ UNCHANGED <<ha, stray, mleft>>

\* rmq_ha_note_camera, before discovery: caches what the camera says and reports a change once.
rmq_ha_note_camera(w) == [jpeg |-> w.jpeg /\ "rvd" \in w.up, isp |-> IF "rvd" \in w.up THEN w.isp ELSE "silent"]

\* publish_device's record and rmq_poll_cycle's: what was published, only if the publication was taken.
NoteDiscovery(o, s, keys) ==
    IF Accepted(o) THEN [s EXCEPT !.keys = ToSet(Recorded(keys)), !.last = world.up, !.disc = TRUE] ELSE s

\* rmq_poll_cycle.  Without rcd nothing is published and rhd's port is forgotten.
rmq_poll_cycle(o) ==
    LET f == rmq_ha_note_camera(world)
        s == [b EXCEPT !.pc = "snap", !.poll = MqPoll, !.facts = f, !.http = "rhd" \in world.up]
        changed == ~b.disc \/ f # b.facts \/ world.up # b.last
        doc == Document(world.up, f, b.keys)
        sent == changed /\ o = "ok"
    IN  IF ~world.rcd THEN b' = [b EXCEPT !.pc = "snap", !.poll = MqPoll, !.http = FALSE] /\ UNCHANGED <<br, ha, stray>>
        ELSE /\ b' = rmq_mqtt_publish(o, IF changed THEN NoteDiscovery(o, s, Present(world.up, f)) ELSE s)
             /\ br' = IF sent THEN [br EXCEPT !.doc = doc] ELSE br
             /\ ha' = IF sent THEN MqLearn(ha, doc) ELSE ha
             /\ stray' = IF sent THEN stray /\ ha'.refused ELSE stray \/ (changed /\ o = "lost")

Poll ==
    /\ b.pc = "poll"
    /\ IF b.poll = 0 THEN \E o \in Outcomes(b.conn) : rmq_poll_cycle(o)
       ELSE b' = [b EXCEPT !.pc = "snap"] /\ UNCHANGED <<br, ha, stray>>
    /\ UNCHANGED <<world, ask, mleft>>

rmq_snapshot_due == world.setup.snapshot /\ b.snap = 0

Snap ==
    /\ b.pc = "snap"
    /\ LET s == [b EXCEPT !.pc = "top"]
       IN  IF rmq_snapshot_due THEN \E o \in Outcomes(b.conn) : rmq_snapshot_publish(o, s)
           ELSE b' = s /\ UNCHANGED br
    /\ UNCHANGED <<world, ha, ask, stray, mleft>>

Serve == Connect \/ MqLoop \/ Poll \/ Snap

\* rmq_ha_clear_discovery: the record goes with the device, whatever became of the publication.
rmq_ha_clear_discovery(o) == b' = [rmq_mqtt_publish(o, b) EXCEPT !.keys = {}, !.disc = FALSE]

\* The control socket's "rediscover", served at the top of a turn.
Rediscover ==
    /\ b.pc = "top" /\ b.conn # "none" /\ mleft.changes > 0
    /\ \E o \in Outcomes(b.conn) :
         /\ rmq_ha_clear_discovery(o) /\ stray' = (stray /\ o # "ok")
         /\ br' = IF o = "ok" THEN [br EXCEPT !.doc = NoDoc] ELSE br
         /\ ha' = IF o = "ok" THEN MqLearn(ha, NoDoc) ELSE ha
    /\ mleft' = [mleft EXCEPT !.changes = @ - 1] /\ UNCHANGED <<world, ask>>

\* main after the loop, and the bridge's next start: "offline" is published, since a clean close discards the will.
MqRestart ==
    /\ b.pc = "top" /\ mleft.faults > 0
    /\ b' = [Boot EXCEPT !.cred = world.cred]
    /\ br' = IF b.conn = "live" THEN [br EXCEPT !.status = "offline", !.sess = FALSE] ELSE br
    /\ mleft' = [mleft EXCEPT !.faults = @ - 1] /\ UNCHANGED <<world, ha, ask, stray>>

(***************************************************************************)
(* The camera, the network and Home Assistant.                             *)
(***************************************************************************)
Camera ==
    /\ mleft.changes > 0 /\ mleft' = [mleft EXCEPT !.changes = @ - 1]
    /\ \/ \E d \in {"rvd", "rhd"} : world' = [world EXCEPT !.up = (@ \ {d}) \cup ({d} \ @)]
       \/ world' = [world EXCEPT !.rcd = ~@]
       \/ world' = [world EXCEPT !.jpeg = ~@]
       \/ \E i \in Isp : world' = [world EXCEPT !.isp = i]
    /\ UNCHANGED <<br, ha, b, ask, stray>>

\* Home Assistant sends a command to a camera it sees online; one without a subscriber is dropped.
Send ==
    /\ mleft.changes > 0 /\ mleft' = [mleft EXCEPT !.changes = @ - 1]
    /\ br.up /\ br.status = "online" /\ b.conn = "live" /\ b.subs /\ ask = "none"
    /\ world.setup.commands
    /\ ask' \in MqCommands /\ UNCHANGED <<world, br, ha, b, stray>>

LinkBreaks ==
    /\ mleft.faults > 0 /\ mleft' = [mleft EXCEPT !.faults = @ - 1]
    /\ b.conn = "live" /\ b' = [b EXCEPT !.conn = "dead"] /\ ask' = "none"
    /\ UNCHANGED <<world, br, ha, stray>>

\* The broker gives up on a silent client, or its socket closes: the will is published.
WillSpoken ==
    /\ br.sess /\ b.conn # "live" /\ br' = [br EXCEPT !.sess = FALSE, !.status = "offline"]
    /\ UNCHANGED <<world, ha, b, ask, stray, mleft>>

\* A broker restart, with or without its retained messages.
BrokerStops ==
    /\ mleft.faults > 0 /\ mleft' = [mleft EXCEPT !.faults = @ - 1]
    /\ br.up /\ \E kept \in BOOLEAN :
         br' = IF kept THEN [br EXCEPT !.up = FALSE, !.sess = FALSE]
               ELSE [up |-> FALSE, sess |-> FALSE, status |-> "none", doc |-> NoDoc, url |-> <<0, 0>>]
    /\ b' = [b EXCEPT !.conn = IF @ = "live" THEN "dead" ELSE @] /\ ask' = "none"
    /\ UNCHANGED <<world, ha, stray>>

BrokerReturns == ~br.up /\ br' = [br EXCEPT !.up = TRUE] /\ UNCHANGED <<world, ha, b, ask, stray, mleft>>

\* Home Assistant comes back to the broker, with or without what it knew, and reads the retained document anew:
\* the last one, with the withdrawals it carries.
HaRejoins ==
    /\ mleft.faults > 0 /\ mleft' = [mleft EXCEPT !.faults = @ - 1]
    /\ br.up /\ \E h \in {ha, [has |-> {}, refused |-> FALSE]} : ha' = IF br.doc = NoDoc THEN h ELSE MqLearn(h, br.doc)
    /\ stray' = (stray \/ ha'.refused \/ ~(b.keys \subseteq ha'.has))
    /\ UNCHANGED <<world, br, b, ask>>

MqInit ==
    /\ world \in [up : {{"rvd", "rhd"}}, rcd : {TRUE}, jpeg : {TRUE}, isp : {"wide"}, cred : {1}, setup : MqSetups]
    /\ br = [up |-> TRUE, sess |-> FALSE, status |-> "none", doc |-> NoDoc, url |-> <<0, 0>>]
    /\ ha = [has |-> {}, refused |-> FALSE] /\ b = Boot /\ ask = "none" /\ stray = FALSE
    /\ mleft = [changes |-> MqChanges, faults |-> MqFaults]

MqNext ==
    \/ Serve \/ Rediscover \/ MqRestart \/ Camera \/ Send
    \/ LinkBreaks \/ WillSpoken \/ BrokerStops \/ BrokerReturns \/ HaRejoins

\* The loop never blocks for long, the broker times a silent client out, and a broker that stopped is restarted.
MqFair == WF_mqvars(Serve) /\ WF_mqvars(WillSpoken) /\ WF_mqvars(BrokerReturns)

MqSpec == MqInit /\ [][MqNext]_mqvars /\ MqFair

-----------------------------------------------------------------------------
Docs == [comps : SUBSET AllKeys, gone : SUBSET AllKeys, range : 0..2]

MqTypeOK ==
    /\ world \in [up : SUBSET {"rvd", "rhd"}, rcd : BOOLEAN, jpeg : BOOLEAN, isp : Isp, cred : 1..2, setup : MqSetups]
    /\ br \in [up : BOOLEAN, sess : BOOLEAN, status : {"none", "online", "offline"}, doc : Docs, url : (0..2) \X (0..2)]
    /\ ha \in [has : SUBSET AllKeys, refused : BOOLEAN]
    /\ b.pc \in {"top", "loop", "poll", "snap"} /\ b.conn \in {"none", "live", "dead"} /\ b.quiet \in 0..MqKeep
    /\ b.keys \subseteq AllKeys /\ b.poll \in 0..MqPoll /\ b.snap \in NEVER..MqRetry \cup 0..world.setup.every
    /\ ask \in MqCommands \cup {"none"} /\ stray \in BOOLEAN /\ b.subs \in BOOLEAN

\* A document the bridge publishes withdraws only components Home Assistant has, so none is refused: whatever
\* daemons and ISP blocks come and go, through rediscovery, restarts of the bridge and of the broker, and more
\* components than the record holds (publish_device).  Excepted are the refusals while what Home Assistant holds came
\* apart from the record unseen, up to the next document it takes: a document the library took and the connection
\* lost is on the record although it never reached the broker, and Home Assistant, come back, reads a retained
\* document whose withdrawals name what it no longer has.
DocumentsTaken == ha.refused => stray

\* While broker and rcd are there the bridge comes back to it: the camera is announced online, the retained
\* document offers what the running daemons and the ISP offer, with its range, and the picture's URL names the
\* connection's address and, where URLs are refreshed, the password a command last set (rmq_connect,
\* rmq_poll_cycle, rmq_snapshot_publish, relay).
BridgeShows ==
    br.up /\ world.rcd =>
      /\ br.status = "online"
      /\ br.doc.comps = ToSet(Present(world.up, rmq_ha_note_camera(world)))
      /\ br.doc.range = isp_caps_range(rmq_ha_note_camera(world).isp)
      /\ world.setup.snapshot /\ "rhd" \in world.up =>
           br.url[1] = b.addr /\ (world.setup.every > 0 => br.url[2] = world.cred)
BridgeFollows == []<>BridgeShows
=============================================================================
