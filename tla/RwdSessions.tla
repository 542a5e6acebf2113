---------------------------- MODULE RwdSessions -----------------------------
(***************************************************************************)
(* rwd's session table: offers over HTTP, STUN checks, DTLS records and    *)
(* media from whatever address a peer uses, and the cleanup, all served by *)
(* the main thread.                                                        *)
(***************************************************************************)
EXTENDS Naturals, Sequences, FiniteSets

CONSTANTS SPeers,        \* sessions that may be asked for
          SAddrs,        \* transport addresses of the peers
          MaxSessions,   \* max_clients
          MaxVerified    \* RWD_MAX_VERIFIED_ADDRS

ASSUME RwdSessionsConstants == {MaxSessions, MaxVerified} \subseteq Nat \ {0}

VARIABLES
    sess,      \* session -> record
    order,     \* the sessions in the table, oldest first
    proved     \* ghost: addresses each session's peer proved since its offer

svars == <<sess, order, proved>>

Blank == [ice |-> FALSE, dtls |-> "new", sending |-> FALSE, addr |-> "none", known |-> <<>>,
          dest |-> "none", silent |-> FALSE]
Live == {order[i] : i \in DOMAIN order}

SeInit == sess = [p \in SPeers |-> Blank] /\ order = <<>> /\ proved = [p \in SPeers |-> {}]

(* rwd_media_teardown and rwd_dtls_client_free of the sessions gone. *)
Keep(o, gone) == SelectSeq(o, LAMBDA p : p \notin gone)
SeRemove(gone) ==
    /\ order' = Keep(order, gone)
    /\ sess' = [p \in SPeers |-> IF p \in gone THEN Blank ELSE sess[p]]

-----------------------------------------------------------------------------
(* rwd_client_from_offer: a full table loses its oldest session, whether   *)
(* or not the new one can then be made.                                    *)
Offer(p) ==
    LET gone == IF Len(order) >= MaxSessions THEN {Head(order)} ELSE {}
        kept == Keep(order, gone) IN
    /\ p \notin Live
    /\ \/ SeRemove(gone) /\ gone # {} /\ UNCHANGED proved
       \/ /\ order' = Append(kept, p)
          /\ sess' = [s \in SPeers |-> IF s \in gone \cup {p} THEN Blank ELSE sess[s]]
          /\ proved' = [proved EXCEPT ![p] = {}]

Delete(p) == p \in Live /\ SeRemove({p}) /\ UNCHANGED proved

(* rwd_ice_process: a check that carries the session's password pins the   *)
(* address and is remembered; the oldest memory goes first.                *)
Remembered(known, a) ==
    IF \E i \in DOMAIN known : known[i] = a THEN known
    ELSE Append(IF Len(known) = MaxVerified THEN Tail(known) ELSE known, a)
StunCheck(p, a) ==
    /\ p \in Live
    /\ sess' = [sess EXCEPT ![p].ice = TRUE, ![p].addr = a, ![p].silent = FALSE,
                            ![p].known = Remembered(@, a)]
    /\ proved' = [proved EXCEPT ![p] = @ \cup {a}]
    /\ UNCHANGED order

FindAny(a) == Live  \* mutant: the source address is not looked at

(* find_client_by_addr: a pinned address first, then a remembered one,     *)
(* which is pinned by it.  Slots are searched in order of their index.     *)
Matches(a) ==
    LET pinned == {p \in Live : sess[p].ice /\ sess[p].addr = a}
        seen == {p \in Live : sess[p].ice /\ \E i \in DOMAIN sess[p].known : sess[p].known[i] = a} IN
    IF pinned # {} THEN pinned ELSE seen

(* rwd_dtls_handshake_step: on, done, or failed (alert, fingerprint, no    *)
(* SRTP profile); nothing more happens to one that is established.         *)
HandshakeStep(p) ==
    IF sess[p].dtls = "established" THEN {"established"}
    ELSE {"handshaking", "established", "failed"}

(* The record that completes the handshake builds the SRTP stack, whose    *)
(* senders copy the address there is then; a stack that fails fails DTLS.  *)
Record(a) ==
    \E p \in Matches(a) : \E next \in HandshakeStep(p) :
        LET up == next = "established" /\ sess[p].dtls # "established" IN
        /\ sess[p].dtls # "failed"
        /\ sess' = [sess EXCEPT ![p].addr = a, ![p].dtls = next,
                                ![p].dest = IF up THEN a ELSE @, ![p].sending = @ \/ up]
        /\ UNCHANGED <<order, proved>>

(* Media and feedback only move the pin. *)
MediaPacket(a) ==
    \E p \in Matches(a) : /\ sess' = [sess EXCEPT ![p].addr = a]
                          /\ UNCHANGED <<order, proved>>

(* The video ring came back with another codec. *)
CodecChanged ==
    /\ \E p \in Live : sess[p].sending
    /\ sess' = [p \in SPeers |-> [sess[p] EXCEPT !.sending = FALSE]]
    /\ UNCHANGED <<order, proved>>

(* A peer goes away without a word; 30 s later it counts as silent, for    *)
(* the age of a session that never proved an address as for the others.    *)
FallSilent(p) ==
    /\ p \in Live /\ ~sess[p].silent /\ sess' = [sess EXCEPT ![p].silent = TRUE]
    /\ UNCHANGED <<order, proved>>

StaleLazy(p) ==  \* mutant: consent is never checked
    \/ ~sess[p].ice /\ sess[p].silent
    \/ sess[p].dtls = "failed"

(* cleanup_stale_clients *)
Stale(p) == \/ ~sess[p].ice /\ sess[p].silent
            \/ sess[p].dtls = "failed"
            \/ sess[p].sending /\ sess[p].silent
Cleanup ==
    LET gone == {p \in Live : Stale(p)} IN
    /\ gone # {} /\ SeRemove(gone) /\ UNCHANGED proved

Requests == \E p \in SPeers : Offer(p) \/ Delete(p)
SeNext ==
    \/ Requests \/ \E p \in SPeers : FallSilent(p)
    \/ \E p \in SPeers, a \in SAddrs : StunCheck(p, a)
    \/ \E a \in SAddrs : Record(a) \/ MediaPacket(a)
    \/ CodecChanged \/ Cleanup
SeSpec == SeInit /\ [][SeNext]_svars /\ WF_svars(Cleanup)

-----------------------------------------------------------------------------
SeTypeOK ==
    /\ Cardinality(Live) = Len(order) /\ Len(order) <= MaxSessions
    /\ \A p \in SPeers : /\ sess[p].dtls \in {"new", "handshaking", "established", "failed"}
                         /\ Len(sess[p].known) <= MaxVerified
                         /\ {sess[p].ice, sess[p].sending, sess[p].silent} \subseteq BOOLEAN

(* Media goes only where the session's own peer answered for: the address  *)
(* it is sent to carried a check with that session's password, whoever     *)
(* else uses the address and however often pins moved.                     *)
MediaToProven ==
    \A p \in SPeers : /\ sess[p].sending => sess[p].dest \in proved[p]
                      /\ sess[p].addr # "none" => sess[p].addr \in proved[p]

(* "we allow 30s of silence before evicting" (rwd_main.c:471), for the     *)
(* sessions that stream.                                                   *)
StreamerLeaves ==
    \A p \in SPeers : []<>(p \notin Live \/ ~sess[p].sending \/ ~sess[p].silent)
=============================================================================
