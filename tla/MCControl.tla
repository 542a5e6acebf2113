----------------------------- MODULE MCControl -----------------------------
(* The daemons that hold the settings and offer them: rcd's guard, apply,  *)
(* stores and values, and rmq's bridge and browse.  As modelled they share *)
(* no variable, so each behaviour runs the part that "which" names while   *)
(* the others rest where they start: every interleaving inside a part is   *)
(* there, and the state space is the sum of theirs.                        *)
EXTENDS RcdGuard, RcdApply, RcdStores, RcdValues, RmqBridge, RmqMdns

CONSTANTS GuardMishaps, ApplyMishaps    \* bounds: what goes wrong in one behaviour
VARIABLES which, mishaps                \* the part that runs; what may still go wrong

\* Two guarded keys with an enact call each, one of them wifi's; two keys of
\* raptor.conf.
GuardGroup == [address |-> "eth0", ssid |-> "wlan0"]
KeyOwner == [v |-> "rvd", s |-> "rsd"]

\* Two zones of one rule; interface files with and without an own stanza,
\* with foreign lines and with a second stanza.
ZoneRule == [Berlin |-> "CET", Paris |-> "CET", UTC |-> "UTC"]
ZoneTable == <<"Berlin", "Paris", "UTC">>
Line(w, v) == [w |-> w, v |-> v]
InterfaceFiles ==
    {<<Line("auto", ""), Line("iface", "dhcp"), Line("pre-up", "x"), Line("iface", "static"), Line("address", "3")>>,
     <<Line("iface", "static"), Line("address", "1"), Line("", ""), Line("pre-up", "x"), Line("address", "2")>>,
     <<Line("auto", "")>>}

\* Three announcements, two of them of one host.
Announced == [a |-> [host |-> "h", port |-> 1], b |-> [host |-> "h", port |-> 2], c |-> [host |-> "g", port |-> 3]]
HostAddr == [h |-> "10", g |-> "20"]

\* A bridge that takes commands and refreshes its picture's URL, and one that
\* does neither.
BridgeSetups == {[snapshot |-> TRUE, commands |-> TRUE, every |-> 1], [snapshot |-> TRUE, commands |-> FALSE, every |-> 0]}

\* Only the chosen one starts in every state it may start in.
ControlInit ==
    /\ which \in {"guard", "apply", "stores", "values", "bridge", "mdns"}
    /\ mishaps = CASE which = "guard" -> GuardMishaps [] which = "apply" -> ApplyMishaps [] OTHER -> 0
    /\ ApInit /\ MqInit /\ (which = "bridge" \/ ~world.setup.commands)
    /\ Init /\ (which = "guard" \/ store = [k \in Keys |-> "unset"])
    /\ MdInit /\ (which = "mdns" \/ mcfg = [host |-> FALSE, port |-> 0])
    /\ IF which = "stores" THEN StInit
       ELSE etc = <<>> /\ inForce = <<>> /\ env = <<>> /\ busy = <<>> /\ asked = <<>>
            /\ loose = {} /\ lost = {} /\ left = 0
    /\ IF which = "values" THEN VInit
       ELSE /\ vkey = <<>> /\ vdae = "" /\ vheld = VUnset /\ vask = Null /\ vread = Missing
            /\ vwas = VUnset /\ vpc = "" /\ vwire = <<>>

Only(part) ==
    /\ which = part /\ UNCHANGED which
    /\ IF part = "guard" THEN TRUE ELSE UNCHANGED vars
    /\ IF part = "apply" THEN TRUE ELSE UNCHANGED apvars
    /\ IF part = "stores" THEN TRUE ELSE UNCHANGED stvars
    /\ IF part = "values" THEN TRUE ELSE UNCHANGED vvars
    /\ IF part = "bridge" THEN TRUE ELSE UNCHANGED mqvars
    /\ IF part = "mdns" THEN TRUE ELSE UNCHANGED mdvars

\* What goes wrong in a step of rcd's guard: rcd dies or the power goes; a
\* store or an enact refuses; the list, the deadline or the record is not
\* written, or not removed, or the list is full.
GuardMishap ==
    \/ up /\ ~up'
    \/ refused' /\ ~refused
    \/ up /\ stale' # stale /\ doing' # "undo" /\ staleFile' # stale'
    \/ doing = "end" /\ up' /\ staleFile' # stale
    \/ up' /\ (doing' = "enact" \/ doing = "end") /\ guard' = "armed" /\ marker' # "live"
    \/ up' /\ up /\ guard = "steady" /\ guard' = "held" /\ record' # [state |-> "held", snap |-> snap']
    \/ unrecorded' /\ ~unrecorded
    \/ up' /\ up /\ guard # "steady" /\ guard' = "steady" /\ (record'.state # "none" \/ marker' # "none")
    \/ unlisted' /\ ~unlisted

\* And in a step of an apply: a daemon or rad goes, the list is full or not
\* saved, rad refuses or is late, a restart is refused.
ApplyMishap ==
    \/ \E d \in Daemons : dmn[d] # "down" /\ dmn'[d] = "down"
    \/ apc \in {"down", "up", "resume"} /\ rad.up /\ ~rad'.up
    \/ ~(unseen' \subseteq unseen) /\ UNCHANGED driftDmn
    \/ /\ driftFile' # driftKeys'
       /\ driftFile' # driftFile \/ (apc' = "idle" /\ (apc = "next" \/ driftKeys' # driftKeys))
    \/ apc = "quiesce" /\ (rad'.ai \/ rad'.ao \/ q' # [ai |-> rad'.up, ao |-> speaker'])
    \/ apc = "resume" /\ rad.up /\ audioErr'
    \/ late' /\ ~late
    \/ apc = "restart" /\ apc' \notin {"restart", "down"}

Counted(mishap) == mishaps' = (IF mishap THEN mishaps - 1 ELSE mishaps) /\ mishaps' >= 0

\* The guard claims nothing once it has a hole, and stops there.
ControlNext ==
    \/ Only("guard") /\ ~hole /\ Next /\ Counted(GuardMishap)
    \/ Only("apply") /\ ApNext /\ Counted(ApplyMishap)
    \/ Only("stores") /\ StNext /\ UNCHANGED mishaps
    \/ Only("values") /\ VNext /\ UNCHANGED mishaps
    \/ Only("bridge") /\ MqNext /\ UNCHANGED mishaps
    \/ Only("mdns") /\ MdNext /\ UNCHANGED mishaps

control == <<which, mishaps, vars, apvars, stvars, vvars, mqvars, mdvars>>

\* The fairness of the modules, for the part that runs.
ControlFairness ==
    /\ WF_vars(which = "guard" /\ ~hole /\ ClockPasses) /\ WF_vars(which = "guard" /\ ~hole /\ TickRevert)
    /\ WF_vars(which = "guard" /\ ~hole /\ ~net /\ Load) /\ WF_vars(which = "guard" /\ ~hole /\ NetUp)
    /\ WF_vars(which = "guard" /\ ~hole /\ GoesOn)
    /\ WF_apvars(which = "apply" /\ ApplyStep) /\ WF_apvars(which = "apply" /\ ApTick)
    /\ WF_mqvars(which = "bridge" /\ Serve) /\ WF_mqvars(which = "bridge" /\ WillSpoken)
    /\ WF_mqvars(which = "bridge" /\ BrokerReturns)
ControlSpec == ControlInit /\ [][ControlNext]_control /\ ControlFairness

-----------------------------------------------------------------------------
\* Every part's state has its type.
TypesOK ==
    /\ TypeOK /\ ApTypeOK /\ MqTypeOK /\ MdTypeOK
    /\ which = "stores" => StTypeOK
    /\ which = "values" => VTypeOK

\* Whatever is stored and not in force, in the network's stores (rcd_guard.c)
\* or in a daemon (rcd_apply.c), is on the drift list, but for what a full
\* list, a save that failed or a failed batch made rcd forget.
DriftTrue == DriftKnown /\ DriftReported

\* After any settings in any order, and a write or the power failing between
\* two of them, the system's files are what their readers need, but for those
\* the power cut emptied because they were not synced (rcd_system.c).
StoresSound == which = "stores" => StoresKept /\ HalfDoneHarmless


\* Home Assistant refuses no discovery document as long as it holds what the
\* bridge recorded (rmq_ha.c), and the browse names an announced broker
\* (rmq_mdns.c).
BrokerTrue == DocumentsTaken /\ BrokerFound

\* An apply gives rad back what rad said it gave up, its speaker no more than
\* that, and only once rvd is ready (rcd_apply.c).
AudioBack == AudioRestored /\ ResumeAfterReady

\* An unconfirmed setting is confirmed or put back (rcd_guard.c), live edits
\* reach flash and an apply ends (rcd_config.c, rcd_apply.c), and the broker
\* comes to show what the camera offers (rmq_main.c, rmq_ha.c).
ControlSettles ==
    Settles /\ SaveComes /\ ApplyEnds /\ []<>(which = "bridge" => BridgeShows)
=============================================================================
