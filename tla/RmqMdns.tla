------------------------------ MODULE RmqMdns ------------------------------
(***************************************************************************)
(* How rmq settles on a broker when it starts: the configured host, or the *)
(* first service an mDNS browse resolves before its deadline, or loopback. *)
(* PTR, SRV and A answers come in any order, twice, or not at all; the     *)
(* library keeps what it heard and answers a new query from it.            *)
(***************************************************************************)
EXTENDS Integers, Sequences, SequencesExt

CONSTANTS
    MdServices,   \* announced: instance -> [host, port]
    MdAddr,       \* host -> address
    MdMax,        \* entries of the caller's table (8)
    MdPorts       \* configured ports tried, 0 for none

\* An instance's name ends in the service type and a host's does not; neither a name nor an address is empty.
ASSUME MdConstants ==
    /\ \A i \in DOMAIN MdServices : MdServices[i].host \in DOMAIN MdAddr /\ MdServices[i].port \in Nat \ {0}
    /\ DOMAIN MdServices \cap DOMAIN MdAddr = {} /\ "" \notin DOMAIN MdAddr
    /\ \A h \in DOMAIN MdAddr : MdAddr[h] # ""
    /\ MdMax \in Nat \ {0} /\ MdPorts \subseteq Nat

VARIABLES
    mtab,     \* the browse's table, in order: [inst, host, port, addr]; "" or 0 while not known
    masked,   \* names the library has a query for
    mheard,   \* hosts whose address the library holds
    mcfg,     \* [mqtt] host set, and port
    mgot      \* the outcome: [host, port]; host "?" before the deadline

mdvars == <<mtab, masked, mheard, mcfg, mgot>>

RMQ_BROKER_PORT == 1883
RMQ_BROKER_FALLBACK == "loopback"

Known(i) == \E k \in DOMAIN mtab : mtab[k].inst = i

\* entry_for: the instance's entry, made if there is room; a full table keeps what it has.
entry_for(i) ==
    IF Known(i) \/ Len(mtab) >= MdMax THEN mtab
    ELSE Append(mtab, [inst |-> i, host |-> "", port |-> 0, addr |-> ""])

\* on_a: every entry on that host, several instances can share one.
on_a(t, h) == [k \in DOMAIN t |-> IF t[k].host = h THEN [t[k] EXCEPT !.addr = MdAddr[h]] ELSE t[k]]

\* on_srv's entry: the port and the host.
on_srv(t, i) ==
    [k \in DOMAIN t |->
       IF t[k].inst = i THEN [t[k] EXCEPT !.port = MdServices[i].port, !.host = MdServices[i].host] ELSE t[k]]

\* mdnsd_query for a host's address, only when there is none yet: answered at once from what was heard.
AskHost(t, h) == IF h \notin masked /\ h \in mheard THEN on_a(t, h) ELSE t

Ptr(i) ==
    /\ mgot.host = "?" /\ mtab' = entry_for(i)
    /\ masked' = IF \E k \in DOMAIN mtab' : mtab'[k].inst = i THEN masked \cup {i} ELSE masked
    /\ UNCHANGED <<mheard, mcfg, mgot>>

Srv(i) ==
    /\ mgot.host = "?" /\ i \in masked
    /\ LET h == MdServices[i].host
       IN  mtab' = AskHost(on_srv(entry_for(i), i), h) /\ masked' = masked \cup {h}
    /\ UNCHANGED <<mheard, mcfg, mgot>>

\* An address, asked for or carried along with another answer.
Addr(h) ==
    /\ mgot.host = "?" /\ mheard' = mheard \cup {h}
    /\ mtab' = IF h \in masked THEN on_a(mtab, h) ELSE mtab
    /\ UNCHANGED <<masked, mcfg, mgot>>

resolved(e) == e.addr # "" /\ e.port # 0

FirstNamed(t) == IF t = <<>> THEN 0 ELSE 1
\* rmq_mdns_find_broker: the first entry that was resolved, 0 for none.
rmq_mdns_find_broker(t) == SelectInSeq(t, resolved)

\* The deadline, or at once when the host is configured.  A configured port wins over a discovered one.
resolve_broker ==
    /\ mgot.host = "?"
    /\ LET n == rmq_mdns_find_broker(mtab)
           Port(p) == IF mcfg.port = 0 THEN p ELSE mcfg.port
       IN  mgot' = IF mcfg.host THEN [host |-> "set", port |-> Port(RMQ_BROKER_PORT)]
                   ELSE IF n > 0 THEN [host |-> mtab[n].addr, port |-> Port(mtab[n].port)]
                   ELSE [host |-> RMQ_BROKER_FALLBACK, port |-> Port(RMQ_BROKER_PORT)]
    /\ UNCHANGED <<mtab, masked, mheard, mcfg>>

MdInit ==
    /\ mtab = <<>> /\ masked = {} /\ mheard = {} /\ mcfg \in [host : BOOLEAN, port : MdPorts]
    /\ mgot = [host |-> "?", port |-> 0]

MdNext ==
    \/ ~mcfg.host /\ \E i \in DOMAIN MdServices : Ptr(i) \/ Srv(i)
    \/ ~mcfg.host /\ \E h \in DOMAIN MdAddr : Addr(h)
    \/ resolve_broker

MdSpec == MdInit /\ [][MdNext]_mdvars

-----------------------------------------------------------------------------
MdTypeOK ==
    /\ mtab \in Seq([inst : DOMAIN MdServices, host : DOMAIN MdAddr \cup {""}, port : Nat,
                     addr : {MdAddr[h] : h \in DOMAIN MdAddr} \cup {""}])
    /\ Len(mtab) <= MdMax /\ mheard \subseteq DOMAIN MdAddr

\* In whatever order the answers came, the browse names a broker exactly when an instance in its table was
\* described and its host's address heard, and then it names an announced broker's own address and port
\* (rmq_mdns.c, resolve_broker).
BrokerFound ==
    mgot.host # "?" /\ ~mcfg.host =>
      LET Described(i) == \E k \in DOMAIN mtab : mtab[k].inst = i /\ mtab[k].port # 0 /\ MdServices[i].host \in mheard
          Is(i) == mgot.host = MdAddr[MdServices[i].host]
                     /\ mgot.port = (IF mcfg.port = 0 THEN MdServices[i].port ELSE mcfg.port)
      IN  IF \E i \in DOMAIN MdServices : Described(i)
          THEN \E i \in DOMAIN MdServices : Described(i) /\ Is(i)
          ELSE mgot.host = RMQ_BROKER_FALLBACK
=============================================================================
