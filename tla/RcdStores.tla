----------------------------- MODULE RcdStores -----------------------------
(***************************************************************************)
(* The stores rcd writes itself: the timezone, the time server, the host   *)
(* name, the interface's stanza, the root account's line of the shadow     *)
(* file, and the wireless variables of the boot environment.  A file is    *)
(* replaced as a whole (temporary, rename); a setting kept in two places   *)
(* takes two writes, and the camera may lose power between them.  The      *)
(* shadow file alone is synced: "the rename can reach the medium ahead of  *)
(* the bytes it names" (rcd_passwd.c:224), and a power cut then leaves the *)
(* file empty.                                                             *)
(***************************************************************************)
EXTENDS Naturals, Sequences, SequencesExt

CONSTANTS
    Posix,     \* the rule of every zone; Zones lists them in the table's order
    ZoneList,
    Hosts,     \* host names
    Addrs,     \* values of a directive, "" for none
    Stanzas,   \* interface files the image may carry: sequences of [w, v]
    Hashes,    \* root password fields; a field with a colon in it is "bad"
    StoreOps   \* bound: settings written

ASSUME RcdStoresConstants ==
    /\ DOMAIN Posix = Range(ZoneList) /\ "" \in Addrs /\ Addrs \subseteq STRING
    /\ Stanzas \subseteq Seq([w : STRING, v : STRING]) /\ StoreOps \in Nat

VARIABLES
    etc,    \* [rule, zone, ntp, host, hosts, stanza, shadow, resolv]
    inForce,   \* in force: [ntp, name, mdns, method, radio]
    env,    \* [ssid, psk] of the boot environment, "" when not set
    busy,   \* the write in two steps that is under way
    asked,  \* history: the last successful set of each store
    loose,  \* files whose bytes need not be on the medium yet
    lost,   \* history: files a power cut has emptied
    left    \* settings still to come

stvars == <<etc, inForce, env, busy, asked, loose, lost, left>>

Owned == {"address", "dns-nameserver"}
Directive(d, v) == [w |-> d, v |-> v]
Spend == left > 0 /\ left' = left - 1
Idle == busy = <<>>
Unsynced(file) == loose' = loose \cup {file} /\ UNCHANGED lost

-----------------------------------------------------------------------------
\* The first stanza of the file.
IfaceAt(f) == SelectInSeq(f, LAMBDA l : l.w = "iface")
SecondAt(f) == SelectInSubSeq(f, IfaceAt(f) + 1, Len(f), LAMBDA l : l.w = "iface")
Body(f) ==
    IF IfaceAt(f) = 0 THEN <<>>
    ELSE SubSeq(f, IfaceAt(f) + 1, IF SecondAt(f) = 0 THEN Len(f) ELSE SecondAt(f) - 1)

\* stanza_get: the last such line of the first stanza; the method is a word
\* of the iface line.
stanza_get(f, d) ==
    IF d = "method" THEN IF IfaceAt(f) = 0 THEN "" ELSE f[IfaceAt(f)].v
    ELSE LET at == SelectLastInSeq(Body(f), LAMBDA l : l.w = d)
         IN IF at = 0 THEN "" ELSE Body(f)[at].v

\* The lines strtok_r yields: never a blank one.
Tokens(f) ==
    LET got[i \in 0..Len(f)] ==
            IF i = 0 THEN <<>> ELSE IF f[i].w = "" THEN got[i - 1] ELSE Append(got[i - 1], f[i])
    IN got[Len(f)]

RewriteLeavesStanza(f, d, v) ==
    LET here == SelectSeq(Tokens(f), LAMBDA l : l.w # d)
    IN IF v = "" THEN here ELSE Append(here, Directive(d, v))

\* stanza_set's one pass over the lines: the directive takes the place of its
\* first copy, further copies go, and one that was not there is added where
\* the stanza ends.
New(d, v) == IF v = "" THEN <<>> ELSE <<Directive(d, v)>>
PassLine(s, l, d, v) ==
    IF l.w = "iface" /\ s.in
    THEN [out |-> s.out \o (IF s.written THEN <<>> ELSE New(d, v)) \o <<l>>,
          written |-> TRUE, in |-> FALSE, past |-> TRUE]
    ELSE IF l.w = "iface" THEN [s EXCEPT !.out = Append(@, l), !.in = ~s.past]
    ELSE IF s.in /\ l.w = d
    THEN IF s.written THEN s ELSE [s EXCEPT !.out = @ \o New(d, v), !.written = v # ""]
    ELSE [s EXCEPT !.out = Append(@, l)]
Rewrite(f, d, v) ==
    LET lines == Tokens(f)
        pass[i \in 0..Len(lines)] ==
            IF i = 0 THEN [out |-> <<>>, written |-> FALSE, in |-> FALSE, past |-> FALSE]
            ELSE PassLine(pass[i - 1], lines[i], d, v)
        end == pass[Len(lines)]
    IN IF end.in /\ ~end.written THEN end.out \o New(d, v) ELSE end.out

stanza_set(d, v) ==
    /\ Idle /\ Spend /\ Unsynced("stanza")
    /\ etc' = [etc EXCEPT !.stanza = Rewrite(etc.stanza, d, v)]
    /\ asked' = [asked EXCEPT !.dirs = [@ EXCEPT ![d] = v]]
    /\ UNCHANGED <<inForce, env, busy>>

\* Fails, and writes nothing, when no line names a method.
method_set(m) ==
    LET lines == Tokens(etc.stanza)
    IN /\ Idle /\ Spend /\ IfaceAt(lines) > 0 /\ Unsynced("stanza")
       /\ etc' = [etc EXCEPT !.stanza = [lines EXCEPT ![IfaceAt(lines)].v = m]]
       /\ UNCHANGED <<inForce, env, busy, asked>>

\* The interface goes down and up.  With DHCP the lease names the server, with
\* a static address the stanza does.
net_enact ==
    LET m == stanza_get(etc.stanza, "method")
        dns == stanza_get(etc.stanza, "dns-nameserver")
    IN /\ Idle /\ inForce.method # m
       /\ inForce' = [inForce EXCEPT !.method = m]
       /\ etc' = [etc EXCEPT !.resolv = IF m = "dhcp" THEN "lease"
                                        ELSE IF m = "static" /\ dns # "" THEN dns ELSE @]
       /\ UNCHANGED <<env, busy, asked, loose, lost, left>>

-----------------------------------------------------------------------------
\* The first zone of a rule; "" when there is none, as for a file that is empty.
zone_name_for_posix(r) ==
    LET at == SelectInSeq(ZoneList, LAMBDA z : Posix[z] = r) IN IF at = 0 THEN "" ELSE ZoneList[at]
tz_get == IF etc.zone \in DOMAIN Posix /\ Posix[etc.zone] = etc.rule THEN etc.zone
          ELSE zone_name_for_posix(etc.rule)

TzRuleFirst(z, ok) ==
    /\ Idle /\ Spend /\ z # tz_get
    /\ etc' = [etc EXCEPT !.rule = Posix[z]] /\ Unsynced("rule")
    /\ busy' = <<"tz", z>> /\ asked' = [asked EXCEPT !.old = tz_get, !.new = z, !.named = ok]
    /\ UNCHANGED <<inForce, env>>

\* tz_set: the name, whose failure is not looked at; then the rule.
TzName(z, ok) ==
    /\ Idle /\ Spend /\ z # tz_get
    /\ etc' = [etc EXCEPT !.zone = IF ok THEN z ELSE @] /\ Unsynced("zone")
    /\ busy' = <<"tz", z>> /\ asked' = [asked EXCEPT !.old = tz_get, !.new = z, !.named = ok]
    /\ UNCHANGED <<inForce, env>>
TzRule(ok) ==
    /\ busy # <<>> /\ busy[1] = "tz" /\ busy' = <<>>
    /\ etc' = IF ok THEN [etc EXCEPT !.rule = Posix[busy[2]]] ELSE etc
    /\ Unsynced("rule")
    /\ UNCHANGED <<inForce, env, asked, left>>

\* Applies at once, unless ntpd's script fails: then from the next boot.
ntp_set(h, restarted) ==
    /\ Idle /\ Spend /\ h # etc.ntp
    /\ etc' = [etc EXCEPT !.ntp = h] /\ Unsynced("ntp")
    /\ inForce' = IF restarted THEN [inForce EXCEPT !.ntp = h] ELSE inForce
    /\ UNCHANGED <<env, busy, asked>>

hostname_set(n) ==
    /\ Idle /\ Spend /\ n # etc.host
    /\ etc' = [etc EXCEPT !.host = n] /\ Unsynced("host")
    /\ UNCHANGED <<inForce, env, busy, asked>>

\* Only the 127.0.1.1 line, the first of them, and none is invented.
hosts_rename(f, n) ==
    LET at == SelectInSeq(f, LAMBDA l : l.w = "127.0.1.1")
    IN IF at = 0 THEN f ELSE [f EXCEPT ![at].v = n]
hostname_enact(kernel, mdnsd) ==
    /\ Idle /\ inForce.name # etc.host
    /\ etc' = [etc EXCEPT !.hosts = hosts_rename(etc.hosts, etc.host)] /\ Unsynced("hosts")
    /\ inForce' = [inForce EXCEPT !.name = IF kernel THEN etc.host ELSE @, !.mdns = IF mdnsd THEN etc.host ELSE @]
    /\ UNCHANGED <<env, busy, asked, left>>

\* The account's first line gets the new field; a field the file cannot hold
\* and a line with too few fields are refused, and the bytes are on flash
\* before the rename.
shadow_write(hash) ==
    LET at == SelectInSeq(etc.shadow, LAMBDA l : l.w = "root")
    IN /\ Idle /\ Spend
       /\ hash # "bad" /\ at > 0 /\ etc.shadow[at].whole
       /\ etc' = [etc EXCEPT !.shadow[at].v = hash]
       /\ UNCHANGED <<inForce, env, busy, asked, loose, lost>>

\* claim: only while the account has no password, whatever rhd decided.
rcd_cmd_claim(hash) == etc.shadow # <<>> /\ etc.shadow[1].v = "" /\ shadow_write(hash)
root_password_set(hash) == etc.shadow # <<>> /\ etc.shadow[1].v # "" /\ shadow_write(hash)

-----------------------------------------------------------------------------
\* The boot environment: written by a tool that may fail, and read back.
env_set(var, v) ==
    /\ Idle /\ Spend
    /\ env' = [env EXCEPT ![var] = v]
    /\ asked' = [asked EXCEPT !.cleared = IF var = "psk" THEN v = "" ELSE @]
    /\ UNCHANGED <<etc, inForce, busy, loose, lost>>

ResetPskFirst ==
    /\ Idle /\ Spend /\ env.ssid # ""
    /\ env' = [env EXCEPT !.psk = ""] /\ busy' = <<"reset", "psk">>
    /\ UNCHANGED <<etc, inForce, asked, loose, lost>>

\* rcd_wifi_provision_reset: the name, then the passphrase.
ResetSsid ==
    /\ Idle /\ Spend /\ env.ssid # ""
    /\ env' = [env EXCEPT !.ssid = ""] /\ busy' = <<"reset", "psk">>
    /\ UNCHANGED <<etc, inForce, asked, loose, lost>>
ResetPsk(ok) ==
    /\ busy = <<"reset", "psk">> /\ busy' = <<>>
    /\ env' = [ssid |-> "", psk |-> IF ok THEN "" ELSE env.psk]
    /\ asked' = [asked EXCEPT !.cleared = ok \/ @]
    /\ UNCHANGED <<etc, inForce, loose, lost, left>>

\* Setup mode ends; without a name to join it begins again, with one the
\* supplicant re-reads its file, or is started when none answers.
wifi_enact(answers, up) ==
    /\ Idle
    /\ inForce' = [inForce EXCEPT !.radio = IF env.ssid = "" THEN "ap"
                                      ELSE IF answers \/ up THEN "client" ELSE "off"]
    /\ answers => inForce.radio = "client"
    /\ inForce' # inForce
    /\ UNCHANGED <<etc, env, busy, asked, loose, lost, left>>

\* Power is lost and comes back: what is in the stores is put in force.  A
\* file whose bytes had not reached the medium is empty.
Emptied(file) == IF file \in {"stanza", "hosts"} THEN <<>> ELSE ""
PowerCut ==
    /\ \E cut \in SUBSET loose :
         /\ etc' = [f \in DOMAIN etc |-> IF f \in cut THEN Emptied(f) ELSE etc[f]]
         /\ lost' = lost \cup cut
    /\ busy' = <<>> /\ loose' = {}
    /\ inForce' = [ntp |-> etc'.ntp, name |-> etc'.host, mdns |-> etc'.host,
                method |-> stanza_get(etc'.stanza, "method"),
                radio |-> IF env.ssid = "" THEN "ap" ELSE "client"]
    /\ UNCHANGED <<env, asked, left>>

StInit ==
    /\ \E f \in Stanzas, z \in Range(ZoneList), root \in {"", "old"}, whole \in BOOLEAN :
         /\ etc = [rule |-> Posix[z], zone |-> z, ntp |-> "pool", host |-> "cam", resolv |-> "",
                   hosts |-> <<[w |-> "127.0.0.1", v |-> "localhost"], [w |-> "127.0.1.1", v |-> "cam"]>>,
                   stanza |-> f,
                   shadow |-> <<[w |-> "root", v |-> root, whole |-> whole],
                                [w |-> "svc", v |-> "x", whole |-> TRUE]>>]
         /\ inForce = [ntp |-> "pool", name |-> "cam", mdns |-> "cam",
                    method |-> stanza_get(f, "method"), radio |-> "client"]
         /\ asked = [dirs |-> [d \in Owned |-> "never"], old |-> z, new |-> z, named |-> TRUE,
                     file |-> f, cleared |-> FALSE]
    /\ env = [ssid |-> "net", psk |-> "key"]
    /\ busy = <<>> /\ loose = {} /\ lost = {} /\ left = StoreOps

StNext ==
    \/ \E d \in Owned, v \in Addrs : stanza_set(d, v)
    \/ \E m \in {"dhcp", "static"} : method_set(m)
    \/ \E z \in Range(ZoneList), ok \in BOOLEAN : TzName(z, ok)
    \/ \E ok \in BOOLEAN : TzRule(ok) \/ ResetPsk(ok)
    \/ \E h \in Hosts, ok \in BOOLEAN : ntp_set(h, ok)
    \/ \E h \in Hosts : hostname_set(h)
    \/ \E a, b \in BOOLEAN : hostname_enact(a, b) \/ wifi_enact(a, b)
    \/ \E hash \in Hashes : rcd_cmd_claim(hash) \/ root_password_set(hash)
    \/ \E v \in {"", "net2"} : env_set("ssid", v)
    \/ \E v \in {"", "key2"} : env_set("psk", v)
    \/ net_enact \/ ResetSsid \/ PowerCut
StSpec == StInit /\ [][StNext]_stvars

-----------------------------------------------------------------------------
StTypeOK ==
    /\ left \in 0..StoreOps /\ loose \cup lost \subseteq DOMAIN etc \ {"shadow", "resolv"}
    /\ etc.zone \in Range(ZoneList) \cup {""} /\ etc.rule \in Range(Posix) \cup {""}
    /\ inForce.radio \in {"ap", "client", "off"} /\ Len(etc.shadow) = 2

\* An interface file as its reader goes through it: the owned directives of the
\* first stanza, and in its order all the rest, blank lines and the method apart.
ReadLine(r, l) ==
    IF l.w = "" THEN r
    ELSE IF l.w = "iface"
    THEN [at |-> IF r.at = "before" THEN "in" ELSE "after", own |-> r.own,
          rest |-> Append(r.rest, IF r.at = "before" THEN Directive("iface", "own") ELSE l)]
    ELSE IF r.at = "in" /\ l.w \in Owned
    THEN [r EXCEPT !.own[l.w] = Append(@, l.v)]
    ELSE [r EXCEPT !.rest = Append(@, l)]
Unread == [at |-> "before", own |-> [d \in Owned |-> <<>>], rest |-> <<>>]
Reading(f) ==
    LET read[i \in 0..Len(f)] == IF i = 0 THEN Unread ELSE ReadLine(read[i - 1], f[i])
    IN read[Len(f)]

\* After any settings in any order the interface file holds every line that is
\* not rcd's ("carrying everything else through", rcd_network.c:166), and each
\* directive set exactly as asked, once and in the camera's own stanza - when
\* it has one: without an iface line the set is answered with success and
\* stores nothing (rcd_network.c:213-262).  Nothing is claimed of a file that
\* a power cut has emptied.
StanzaKept ==
    \/ "stanza" \in lost
    \/ /\ Reading(etc.stanza).rest = Reading(asked.file).rest
       /\ \A d \in Owned : asked.dirs[d] # "never" /\ Reading(etc.stanza).at # "before" =>
            Reading(etc.stanza).own[d] = IF asked.dirs[d] = "" THEN <<>> ELSE <<asked.dirs[d]>>

\* The shadow file keeps its other accounts and a field a login can parse,
\* whenever the power goes ("Every other outcome this writer guards against is
\* recoverable and that one is not", rcd_passwd.c:227); the hosts file keeps
\* its other line, unless a power cut emptied it.
AccountsKept ==
    /\ "hosts" \in lost \/ (Len(etc.hosts) = 2 /\ etc.hosts[1].v = "localhost")
    /\ etc.shadow[2] = [w |-> "svc", v |-> "x", whole |-> TRUE] /\ etc.shadow[1].v # "bad"
StoresKept == StanzaKept /\ AccountsKept

\* Losing power, or a failing write, between two writes does little harm.  The
\* zone reported is the old one, the new one or the zone the old one's rule
\* stands for: never one of a third rule, nor a zone "nobody chose" of the new
\* rule (rcd_system.c:876).  That the old zone itself is reported until the
\* second write (rcd_system.c:872) is so only of a zone its rule stands for.
\* The name must have been written (its failure is not looked at), and neither
\* file emptied: write_file syncs nothing.  And a reset of the wireless network
\* never leaves "a camera that still knows which network to join and no longer
\* knows how".
HalfDoneHarmless ==
    /\ \/ {"rule", "zone"} \cap lost # {}
       \/ asked.named => tz_get \in {asked.old, asked.new, zone_name_for_posix(Posix[asked.old])}
    /\ env.ssid # "" /\ env.psk = "" => asked.cleared
=============================================================================
