--------------------------- MODULE ViewersProofs ---------------------------
(***************************************************************************)
(* Proofs about the daemons that serve viewers: rwd sends media only where *)
(* the session's own peer answered from, a camera is claimed once, guesses *)
(* at its password keep to their ceiling, what rwd and rsp send can be     *)
(* decoded with what was sent before, and transports, frames, round trips  *)
(* and rings live as long as somebody uses them - for every number of      *)
(* sessions, clients, hosts, slots and parameter sets, and every length of *)
(* a queue.                                                                *)
(*                                                                         *)
(* Each part has an inductive invariant of its own; the parts share no     *)
(* variable, so a step of the composition is a step or a stutter of each.  *)
(***************************************************************************)
EXTENDS MCViewers, SequenceTheorems, FiniteSetTheorems, WellFoundedInduction, TLAPS

-----------------------------------------------------------------------------
(* A step of the composition, as a part sees it. *)
LEMMA PartSteps ==
    ASSUME [ViewersNext]_viewers
    PROVE  /\ SeNext \/ UNCHANGED svars
           /\ RqNext \/ UNCHANGED rqvars
           /\ RaNext \/ UNCHANGED ravars
           /\ WNext \/ UNCHANGED mvars
           /\ ANext \/ UNCHANGED avars
           /\ PuNext \/ UNCHANGED puvars
           /\ HNext \/ UNCHANGED hvars
           /\ RsrNext \/ UNCHANGED rvars
<1>1. CASE UNCHANGED viewers BY <1>1, Zenon DEF viewers
<1>2. CASE Only("media") /\ WNext BY <1>2, Zenon DEF Only
<1>3. CASE Only("sessions") /\ SeNext BY <1>3, Zenon DEF Only
<1>4. CASE Only("audio") /\ ANext BY <1>4, Zenon DEF Only
<1>5. CASE Only("rhd") /\ HNext BY <1>5, Zenon DEF Only
<1>6. CASE Only("requests") /\ RqNext BY <1>6, Zenon DEF Only
<1>7. CASE Only("guesses") /\ RaNext BY <1>7, Zenon DEF Only
<1>8. CASE Only("rsp") /\ PuNext BY <1>8, Zenon DEF Only
<1>9. CASE Only("rsr") /\ RsrNext BY <1>9, Zenon DEF Only
<1>10. QED BY <1>1, <1>2, <1>3, <1>4, <1>5, <1>6, <1>7, <1>8, <1>9, Zenon DEF ViewersNext

-----------------------------------------------------------------------------
(* rwd's sessions.  The address a peer is pinned to, those remembered and  *)
(* the one media goes to carried its password, in the table or out of it.  *)
Dtls == {"new", "handshaking", "established", "failed"}
SeRecord == [ice : BOOLEAN, dtls : Dtls, sending : BOOLEAN, addr : SAddrs \cup {"none"},
             known : Seq(SAddrs), dest : SAddrs \cup {"none"}, silent : BOOLEAN]
ProvenBy(s, seen) ==
    /\ s.sending => s.dest \in seen
    /\ IF s.ice THEN s.addr \in seen ELSE s.addr = "none"
    /\ \A i \in DOMAIN s.known : s.known[i] \in seen
SeInv ==
    /\ sess \in [SPeers -> SeRecord] /\ proved \in [SPeers -> SUBSET SAddrs]
    /\ \A p \in SPeers : ProvenBy(sess[p], proved[p])

LEMMA BlankProven ==
    Blank \in SeRecord /\ \A seen : ProvenBy(Blank, seen)
<1>1. <<>> \in Seq(SAddrs) BY SMT
<1>2. Blank \in SeRecord BY <1>1, Zenon DEF Blank, SeRecord, Dtls
<1>3. DOMAIN <<>> = {} BY SMT
<1>4. ASSUME NEW seen PROVE ProvenBy(Blank, seen) BY <1>3, Zenon DEF Blank, ProvenBy
<1>5. QED BY <1>2, <1>4

\* What is remembered is what was, and the address of the check.
LEMMA RememberedSeq ==
    ASSUME NEW k \in Seq(SAddrs), NEW a \in SAddrs
    PROVE  /\ Remembered(k, a) \in Seq(SAddrs)
           /\ \A seen : (\A i \in DOMAIN k : k[i] \in seen)
                 => \A i \in DOMAIN Remembered(k, a) : Remembered(k, a)[i] \in seen \cup {a}
<1>1. CASE \E i \in DOMAIN k : k[i] = a BY <1>1 DEF Remembered
<1>2. CASE ~ \E i \in DOMAIN k : k[i] = a
  <2> DEFINE r == IF Len(k) = MaxVerified THEN Tail(k) ELSE k
  <2>1. Remembered(k, a) = Append(r, a) BY <1>2 DEF Remembered
  <2>2. r \in Seq(SAddrs) /\ \A seen : (\A i \in DOMAIN k : k[i] \in seen) => \A i \in DOMAIN r : r[i] \in seen
    <3>1. CASE Len(k) = MaxVerified
      <4>1. k # <<>> BY <3>1, RwdSessionsConstants
      <4>2. QED BY <3>1, <4>1
    <3>2. CASE Len(k) # MaxVerified BY <3>2
    <3>3. QED BY <3>1, <3>2
  <2> HIDE DEF r
  <2>3. QED BY <2>1, <2>2
<1>3. QED BY <1>1, <1>2

LEMMA SeStep ==
    ASSUME SeInv, SeNext \/ UNCHANGED svars
    PROVE  SeInv'
<1>1. CASE UNCHANGED svars BY <1>1, Zenon DEF SeInv, svars
\* Sessions that go are blank, and blank ones prove nothing.
<1>2. ASSUME NEW gone, sess' = [p \in SPeers |-> IF p \in gone THEN Blank ELSE sess[p]],
             proved' \in [SPeers -> SUBSET SAddrs], \A p \in SPeers \ gone : proved'[p] = proved[p]
      PROVE  SeInv'
  <2>1. sess' \in [SPeers -> SeRecord] BY <1>2, BlankProven, Zenon DEF SeInv
  <2>2. ASSUME NEW p \in SPeers PROVE ProvenBy(sess'[p], proved'[p])
    <3>1. CASE p \in gone BY <1>2, <3>1, BlankProven, Zenon
    <3>2. CASE p \notin gone BY <1>2, <3>2, Zenon DEF SeInv
    <3>3. QED BY <3>1, <3>2
  <2>3. QED BY <1>2, <2>1, <2>2, Zenon DEF SeInv
<1>3. ASSUME NEW gone, SeRemove(gone), UNCHANGED proved PROVE SeInv'
  <2>1. sess' = [p \in SPeers |-> IF p \in gone THEN Blank ELSE sess[p]] BY <1>3, Zenon DEF SeRemove
  <2>2. proved' \in [SPeers -> SUBSET SAddrs] /\ \A p \in SPeers \ gone : proved'[p] = proved[p]
    BY <1>3, Zenon DEF SeInv
  <2>3. QED BY <2>1, <2>2, <1>2
\* One session's record changes.
<1>4. ASSUME NEW p \in SPeers, NEW s \in SeRecord, NEW seen \in SUBSET SAddrs,
             sess' = [sess EXCEPT ![p] = s], proved' = [proved EXCEPT ![p] = seen], ProvenBy(s, seen)
      PROVE  SeInv'
  <2>1. sess' \in [SPeers -> SeRecord] /\ proved' \in [SPeers -> SUBSET SAddrs]
    BY <1>4, Zenon DEF SeInv
  <2>2. ASSUME NEW o \in SPeers PROVE ProvenBy(sess'[o], proved'[o])
    <3>1. CASE o = p BY <1>4, <3>1, Zenon DEF SeInv
    <3>2. CASE o # p
      <4>1. sess'[o] = sess[o] /\ proved'[o] = proved[o] BY <1>4, <3>2, Zenon DEF SeInv
      <4>2. QED BY <4>1, Zenon DEF SeInv
    <3>3. QED BY <3>1, <3>2
  <2>3. QED BY <2>1, <2>2, Zenon DEF SeInv
<1>5. ASSUME NEW p \in SPeers, Offer(p) PROVE SeInv'
  <2> DEFINE gone == IF Len(order) >= MaxSessions THEN {Head(order)} ELSE {}
  <2>1. CASE SeRemove(gone) /\ UNCHANGED proved
    <3> HIDE DEF gone
    <3>1. QED BY <2>1, <1>3
  <2>2. CASE /\ sess' = [s \in SPeers |-> IF s \in gone \cup {p} THEN Blank ELSE sess[s]]
             /\ proved' = [proved EXCEPT ![p] = {}]
    <3> HIDE DEF gone
    <3>1. proved' \in [SPeers -> SUBSET SAddrs] /\ \A s \in SPeers \ (gone \cup {p}) : proved'[s] = proved[s]
      BY <2>2, Zenon DEF SeInv
    <3>2. QED BY <2>2, <3>1, <1>2
  <2>3. QED BY <1>5, <2>1, <2>2, Zenon DEF Offer
<1>6. ASSUME NEW p \in SPeers, Delete(p) PROVE SeInv' BY <1>6, <1>3, Zenon DEF Delete
<1>7. ASSUME NEW p \in SPeers, FallSilent(p) PROVE SeInv'
  <2> DEFINE s == [sess[p] EXCEPT !.silent = TRUE]
  <2>1. sess[p] \in SeRecord /\ ProvenBy(sess[p], proved[p]) /\ proved[p] \in SUBSET SAddrs BY <1>7, Zenon DEF SeInv
  <2>2. s \in SeRecord BY <2>1, Zenon DEF SeRecord
  <2>3. ProvenBy(s, proved[p])
    <3>1. /\ s.sending = sess[p].sending /\ s.dest = sess[p].dest /\ s.ice = sess[p].ice
          /\ s.addr = sess[p].addr /\ s.known = sess[p].known
      BY <2>1, SMT DEF SeRecord
    <3> HIDE DEF s
    <3>2. QED BY <3>1, <2>1, Zenon DEF ProvenBy
  <2>4. sess' = [sess EXCEPT ![p] = s] BY <1>7, Zenon DEF FallSilent
  <2>5. proved' = [proved EXCEPT ![p] = proved[p]] BY <1>7, Zenon DEF FallSilent, SeInv
  <2> HIDE DEF s
  <2>6. QED BY <2>1, <2>2, <2>3, <2>4, <2>5, <1>4
<1>8. ASSUME NEW p \in SPeers, NEW a \in SAddrs, StunCheck(p, a) PROVE SeInv'
  <2> DEFINE r == Remembered(sess[p].known, a)
             seen == proved[p] \cup {a}
             s == [sess[p] EXCEPT !.ice = TRUE, !.addr = a, !.silent = FALSE, !.known = r]
  <2>1. sess[p] \in SeRecord /\ ProvenBy(sess[p], proved[p]) /\ proved[p] \in SUBSET SAddrs BY <1>8, Zenon DEF SeInv
  <2>2. sess[p].known \in Seq(SAddrs) BY <2>1, Zenon DEF SeRecord
  <2>3. r \in Seq(SAddrs) /\ \A i \in DOMAIN r : r[i] \in seen
    BY <2>1, <2>2, RememberedSeq, Zenon DEF ProvenBy
  <2>4. sess' = [sess EXCEPT ![p] = s]
    <3>1. sess' = [sess EXCEPT ![p].ice = TRUE, ![p].addr = a, ![p].silent = FALSE,
                               ![p].known = Remembered(@, a)]
      BY <1>8, Zenon DEF StunCheck
    <3>2. QED BY <3>1, Zenon DEF SeInv
  <2>5. proved' = [proved EXCEPT ![p] = seen] BY <1>8, Zenon DEF StunCheck
  <2> HIDE DEF r
  <2>6. s \in SeRecord BY <2>1, <2>3, Zenon DEF SeRecord
  <2>7. ProvenBy(s, seen)
    <3>1. s.sending = sess[p].sending /\ s.dest = sess[p].dest BY <2>1, SMT DEF SeRecord
    <3>2. s.ice = TRUE /\ s.addr = a /\ s.known = r BY <2>1, SMT DEF SeRecord
    <3>3. a \in seen /\ (sess[p].dest \in proved[p] => sess[p].dest \in seen) BY Zenon
    <3> HIDE DEF s, seen
    <3>4. QED BY <3>1, <3>2, <3>3, <2>1, <2>3, Zenon DEF ProvenBy
  <2> HIDE DEF s
  <2>8. seen \in SUBSET SAddrs BY <2>1, Zenon
  <2> HIDE DEF seen
  <2>9. QED BY <2>4, <2>5, <2>6, <2>7, <2>8, <1>4
\* A packet is matched to a session whose peer proved the address.
<1>9. ASSUME NEW a \in SAddrs, NEW p \in SPeers, p \in Matches(a) PROVE sess[p].ice = TRUE /\ a \in proved[p]
  <2>1. sess[p] \in SeRecord /\ ProvenBy(sess[p], proved[p]) BY <1>9, Zenon DEF SeInv
  <2>2. sess[p].ice /\ (sess[p].addr = a \/ \E i \in DOMAIN sess[p].known : sess[p].known[i] = a)
    BY <1>9, Zenon DEF Matches
  <2>3. sess[p].ice \in BOOLEAN BY <2>1, Zenon DEF SeRecord
  <2>4. QED BY <2>1, <2>2, <2>3, Zenon DEF ProvenBy
<1>10. ASSUME NEW a \in SAddrs, Record(a) PROVE SeInv'
  <2>1. PICK p \in Matches(a) : \E next \in HandshakeStep(p) :
          LET up == next = "established" /\ sess[p].dtls # "established" IN
          /\ sess' = [sess EXCEPT ![p].addr = a, ![p].dtls = next,
                                  ![p].dest = IF up THEN a ELSE @, ![p].sending = @ \/ up]
          /\ UNCHANGED proved
    BY <1>10, Zenon DEF Record
  <2>2. PICK next \in HandshakeStep(p) :
          LET up == next = "established" /\ sess[p].dtls # "established" IN
          /\ sess' = [sess EXCEPT ![p].addr = a, ![p].dtls = next,
                                  ![p].dest = IF up THEN a ELSE @, ![p].sending = @ \/ up]
          /\ UNCHANGED proved
    BY <2>1, Zenon
  <2> DEFINE now == next = "established" /\ sess[p].dtls # "established"
             dst == IF now THEN a ELSE sess[p].dest
             snd == sess[p].sending \/ now
             s == [sess[p] EXCEPT !.addr = a, !.dtls = next, !.dest = dst, !.sending = snd]
  <2>3. CASE p \notin SPeers
    <3>1. sess' = sess BY <2>2, <2>3, SMT DEF SeInv
    <3>2. QED BY <2>2, <3>1, Zenon DEF SeInv
  <2>4. CASE p \in SPeers
    <3>1. sess[p] \in SeRecord /\ ProvenBy(sess[p], proved[p]) /\ proved[p] \in SUBSET SAddrs BY <2>4, Zenon DEF SeInv
    <3>2. sess[p].ice = TRUE /\ a \in proved[p] BY <2>4, <1>9
    <3>3. next \in Dtls BY <2>2, Zenon DEF HandshakeStep, Dtls
    <3>4. dst \in SAddrs \cup {"none"} /\ snd \in BOOLEAN BY <3>1, Zenon DEF SeRecord
    <3>5. snd => dst \in proved[p] BY <3>1, <3>2, Zenon DEF ProvenBy
    <3>6. sess' = [sess EXCEPT ![p] = s]
      <4>1. sess' = [sess EXCEPT ![p].addr = a, ![p].dtls = next,
                                 ![p].dest = IF now THEN a ELSE @, ![p].sending = @ \/ now]
        BY <2>2, Zenon
      <4> HIDE DEF now
      <4>2. QED BY <4>1, <2>4, Zenon DEF SeInv
    <3> HIDE DEF dst, snd
    <3>7. s \in SeRecord BY <3>1, <3>3, <3>4, Zenon DEF SeRecord
    <3>8. s.sending = snd /\ s.dest = dst /\ s.addr = a /\ s.ice = sess[p].ice /\ s.known = sess[p].known
      BY <3>1, SMT DEF SeRecord
    <3> HIDE DEF s
    <3>9. ProvenBy(s, proved[p]) BY <3>1, <3>2, <3>5, <3>8, Zenon DEF ProvenBy
    <3>10. proved' = [proved EXCEPT ![p] = proved[p]] BY <2>2, Zenon DEF SeInv
    <3>11. QED BY <2>4, <3>1, <3>6, <3>7, <3>9, <3>10, <1>4
  <2>5. QED BY <2>3, <2>4
<1>11. ASSUME NEW a \in SAddrs, MediaPacket(a) PROVE SeInv'
  <2>1. PICK p \in Matches(a) : sess' = [sess EXCEPT ![p].addr = a] /\ UNCHANGED proved
    BY <1>11, Zenon DEF MediaPacket
  <2> DEFINE s == [sess[p] EXCEPT !.addr = a]
  <2>2. CASE p \notin SPeers
    <3>1. sess' = sess BY <2>1, <2>2, SMT DEF SeInv
    <3>2. QED BY <2>1, <3>1, Zenon DEF SeInv
  <2>3. CASE p \in SPeers
    <3>1. sess[p] \in SeRecord /\ ProvenBy(sess[p], proved[p]) /\ proved[p] \in SUBSET SAddrs BY <2>3, Zenon DEF SeInv
    <3>2. sess[p].ice = TRUE /\ a \in proved[p] BY <2>3, <1>9
    <3>3. sess' = [sess EXCEPT ![p] = s] BY <2>1, Zenon
    <3>4. s \in SeRecord BY <3>1, Zenon DEF SeRecord
    <3>5. s.sending = sess[p].sending /\ s.dest = sess[p].dest /\ s.addr = a /\ s.ice = sess[p].ice
          /\ s.known = sess[p].known
      BY <3>1, SMT DEF SeRecord
    <3> HIDE DEF s
    <3>6. ProvenBy(s, proved[p]) BY <3>1, <3>2, <3>5, Zenon DEF ProvenBy
    <3>7. proved' = [proved EXCEPT ![p] = proved[p]] BY <2>1, Zenon DEF SeInv
    <3>8. QED BY <2>3, <3>1, <3>3, <3>4, <3>6, <3>7, <1>4
  <2>4. QED BY <2>2, <2>3
<1>12. CASE CodecChanged
  <2>1. sess' = [p \in SPeers |-> [sess[p] EXCEPT !.sending = FALSE]] /\ proved' = proved
    BY <1>12, Zenon DEF CodecChanged
  <2>2. ASSUME NEW p \in SPeers PROVE sess'[p] \in SeRecord /\ ProvenBy(sess'[p], proved[p])
    <3> DEFINE s == [sess[p] EXCEPT !.sending = FALSE]
    <3>1. sess[p] \in SeRecord /\ ProvenBy(sess[p], proved[p]) BY Zenon DEF SeInv
    <3>2. s \in SeRecord BY <3>1, Zenon DEF SeRecord
    <3>3. s.sending = FALSE /\ s.addr = sess[p].addr /\ s.ice = sess[p].ice /\ s.known = sess[p].known
      BY <3>1, SMT DEF SeRecord
    <3>4. sess'[p] = s BY <2>1, Zenon
    <3> HIDE DEF s
    <3>5. QED BY <3>1, <3>2, <3>3, <3>4, Zenon DEF ProvenBy
  <2>3. sess' \in [SPeers -> SeRecord] BY <2>1, <2>2, Zenon
  <2>4. QED BY <2>1, <2>2, <2>3, Zenon DEF SeInv
<1>13. CASE Cleanup BY <1>13, <1>3, Zenon DEF Cleanup
<1>14. QED BY <1>1, <1>5, <1>6, <1>7, <1>8, <1>10, <1>11, <1>12, <1>13, Zenon DEF SeNext, Requests

LEMMA SeStart == ASSUME SeInit PROVE SeInv
<1>1. sess = [p \in SPeers |-> Blank] /\ proved = [p \in SPeers |-> {}] BY Zenon DEF SeInit
<1>2. QED BY <1>1, BlankProven, Zenon DEF SeInv

LEMMA SeProven == ASSUME SeInv PROVE MediaToProven
BY Zenon DEF SeInv, ProvenBy, MediaToProven

-----------------------------------------------------------------------------
(* rhd's claims, and its round trips. *)
ClaimInv == claims \in 0..1 /\ (claims = 1 => acct = "set")

\* Only rcd's own look at the account lets a claim through.
LEMMA ClaimStep ==
    ASSUME ClaimInv, RqNext \/ UNCHANGED rqvars
    PROVE  ClaimInv'
<1>1. CASE UNCHANGED rqvars BY <1>1, Zenon DEF ClaimInv, rqvars
<1>2. CASE acct' = acct /\ claims' = claims BY <1>2, Zenon DEF ClaimInv
<1>3. ASSUME NEW j, NEW carried, WorkerDone(j, carried) PROVE ClaimInv'
  <2>1. CASE carried /\ rcd_claims(j)
    <3>1. acct = "unset" /\ acct' = "set" /\ claims' = claims + 1 BY <1>3, <2>1, Zenon DEF WorkerDone, rcd_claims
    <3>2. claims = 0 BY <3>1, SMT DEF ClaimInv
    <3>3. QED BY <3>1, <3>2, SMT DEF ClaimInv
  <2>2. CASE ~(carried /\ rcd_claims(j))
    <3>1. acct' = acct /\ claims' = claims BY <1>3, <2>2, Zenon DEF WorkerDone
    <3>2. QED BY <3>1, <1>2
  <2>3. QED BY <2>1, <2>2
<1>4. ASSUME NEW c, NEW w, api_start(c, w) PROVE acct' = acct /\ claims' = claims
  BY <1>4, Zenon DEF api_start
<1>5. ASSUME NEW c, RqAccept(c) \/ ApiClaim(c) \/ Refused(c) \/ Drained(c) \/ HangUp(c)
      PROVE  acct' = acct /\ claims' = claims
  BY <1>5, <1>4, Zenon DEF RqAccept, ApiClaim, Refused, Drained, HangUp
<1>6. ASSUME NEW c, NEW b, ApiHandle(c, b) \/ Page(c, b) \/ rhd_api_poll(c, b)
      PROVE  acct' = acct /\ claims' = claims
  BY <1>6, <1>4, Zenon DEF ApiHandle, Page, rhd_api_poll
<1>7. ASSUME NEW c, NEW v, NEW b, RqMedia(c, v, b) PROVE acct' = acct /\ claims' = claims
  BY <1>7, Zenon DEF RqMedia
<1>8. ASSUME NEW j, Works(j) PROVE ClaimInv'
  <2>1. CASE WorkerLeaves(j) BY <2>1, <1>2, Zenon DEF WorkerLeaves
  <2>2. QED BY <1>8, <2>1, <1>3, Zenon DEF Works
<1>9. CASE Reap BY <1>9, <1>2, Zenon DEF Reap
<1>10. QED BY <1>1, <1>2, <1>5, <1>6, <1>7, <1>8, <1>9, Zenon DEF RqNext

LEMMA ClaimStart == ASSUME RqInit PROVE ClaimInv
BY SMT DEF RqInit, ClaimInv

LEMMA ClaimHolds == ASSUME ClaimInv PROVE ClaimedOnce
BY SMT DEF ClaimInv, ClaimedOnce, Claimed

RqRecord == [st : {"none", "read", "job", "send", "owes"}, age : Nat, job : 0..RqJobs]
JobRecord == [refs : 0..2, worker : {"run", "done", "gone"}, what : {"none", "claim", "set"}]
HeldIn(cs, j) == \E c \in RqClients : cs[c].job = j
Counted(js, j, cs) ==
    js[j].refs = (IF HeldIn(cs, j) THEN 1 ELSE 0) + (IF js[j].worker = "gone" THEN 0 ELSE 1)
Pinned(cs) ==
    /\ cs \in [RqClients -> RqRecord]
    /\ \A c \in RqClients : cs[c].st = "job" <=> cs[c].job # 0
    /\ \A c, d \in RqClients : cs[c].job = cs[d].job /\ cs[c].job # 0 => c = d
JobInv ==
    /\ Pinned(conn) /\ jobs \in [1..RqJobs -> JobRecord]
    /\ \A j \in 1..RqJobs : Counted(jobs, j, conn)

LEMMA LeastNumber ==
    ASSUME NEW n \in Nat, NEW I \in SUBSET (1..n), I # {}
    PROVE  Min(I) \in I
<1>1. I \subseteq Nat OBVIOUS
<1>2. \E x \in I : \A y \in I : ~(<<y, x>> \in OpToRel(<, Nat))
  BY <1>1, NatLessThanWellFounded, WFMin, Zenon
<1>3. PICK x \in I : \A y \in I : ~(<<y, x>> \in OpToRel(<, Nat)) BY <1>2, Zenon
<1>4. ASSUME NEW y \in I PROVE x =< y
  <2>1. <<y, x>> \in Nat \X Nat BY <1>1
  <2>2. ~(y < x) BY <1>3, <2>1 DEF OpToRel
  <2>3. QED BY <1>1, <2>2
<1>5. \E z \in I : \A y \in I : z =< y BY <1>4
<1>6. QED BY <1>5, Zenon DEF Min

LEMMA LesserOfTwo ==
    ASSUME NEW x \in Int, NEW y \in Int
    PROVE  Min({x, y}) = IF x <= y THEN x ELSE y
<1>1. CASE x <= y
  <2>1. \A z \in {x, y} : (\A u \in {x, y} : z <= u) <=> z = x BY <1>1, SMT
  <2>2. QED BY <2>1, <1>1, SMT DEF Min
<1>2. CASE ~(x <= y)
  <2>1. \A z \in {x, y} : (\A u \in {x, y} : z <= u) <=> z = y BY <1>2, SMT
  <2>2. QED BY <2>1, <1>2, SMT DEF Min
<1>3. QED BY <1>1, <1>2

LEMMA NoOneHolds ==
    /\ NoConn \in RqRecord /\ NoConn.st = "none" /\ NoConn.job = 0
    /\ NoJob \in JobRecord /\ NoJob.refs = 0 /\ NoJob.worker = "gone"
<1>1. RqJobs \in Nat BY RhdRequestsConstants
<1>2. 0 \in Nat /\ 0 \in 0..RqJobs /\ 0 \in 0..2 BY <1>1, SMT
<1>3. QED BY <1>2, Zenon DEF NoConn, RqRecord, NoJob, JobRecord

\* job_release of one that counts right, when the holder or the worker is the one that lets go.
LEMMA Released ==
    ASSUME NEW js \in [1..RqJobs -> JobRecord], NEW j \in 1..RqJobs, js[j].refs > 0
    PROVE  /\ job_release(js, j) \in [1..RqJobs -> JobRecord]
           /\ job_release(js, j)[j].refs = js[j].refs - 1
           /\ js[j].refs > 1 => job_release(js, j)[j].worker = js[j].worker
           /\ js[j].refs = 1 => job_release(js, j)[j].worker = "gone"
           /\ \A i \in 1..RqJobs \ {j} : job_release(js, j)[i] = js[i]
<1> DEFINE less == js[j].refs - 1
           x == IF js[j].refs = 1 THEN NoJob ELSE [js[j] EXCEPT !.refs = less]
<1>1. j # 0 /\ js[j] \in JobRecord /\ js[j].refs \in 0..2 BY SMT DEF JobRecord
<1>2. job_release(js, j) = [js EXCEPT ![j] = x] BY <1>1, Zenon DEF job_release
<1>3. less \in 0..2 BY <1>1, SMT
<1>4. js[j].refs > 1 \/ js[j].refs = 1 BY <1>1, SMT
<1>5. CASE js[j].refs = 1
  <2>1. x \in JobRecord /\ x.refs = 0 /\ x.worker = "gone" BY <1>5, NoOneHolds, Zenon
  <2>2. less = 0 /\ ~(js[j].refs > 1) BY <1>5, SMT
  <2> HIDE DEF x, less
  <2>3. QED BY <1>2, <2>1, <2>2, Zenon DEF less
<1>6. CASE js[j].refs > 1
  <2>1. js[j].refs # 1 BY <1>6, <1>1, SMT
  <2> HIDE DEF less
  <2>2. x \in JobRecord /\ x.refs = less /\ x.worker = js[j].worker BY <2>1, <1>1, <1>3, Zenon DEF JobRecord
  <2> HIDE DEF x
  <2>3. QED BY <1>2, <2>1, <2>2, Zenon DEF less
<1>7. QED BY <1>4, <1>5, <1>6

\* One connection changes, to a record that holds nothing or a job nobody holds.
LEMMA OneConn ==
    ASSUME Pinned(conn), NEW c \in RqClients, NEW x \in RqRecord, conn' = [conn EXCEPT ![c] = x],
           x.st = "job" <=> x.job # 0, x.job # 0 => ~HeldIn(conn, x.job)
    PROVE  /\ Pinned(conn')
           /\ \A j \in 1..RqJobs : HeldIn(conn', j) <=> (j = x.job \/ (j # conn[c].job /\ HeldIn(conn, j)))
<1>1. conn \in [RqClients -> RqRecord] /\ conn' \in [RqClients -> RqRecord] BY Zenon DEF Pinned
<1>2. conn'[c] = x /\ \A d \in RqClients : d # c => conn'[d] = conn[d] BY <1>1, Zenon
<1>3. \A d \in RqClients : conn'[d].st = "job" <=> conn'[d].job # 0 BY <1>2, Zenon DEF Pinned
<1>4. ASSUME NEW d \in RqClients, NEW e \in RqClients, conn'[d].job = conn'[e].job, conn'[d].job # 0 PROVE d = e
  <2>1. CASE d = c /\ e # c
    <3>1. conn[e].job = x.job /\ x.job # 0 BY <1>2, <1>4, <2>1, Zenon
    <3>2. QED BY <3>1, Zenon DEF HeldIn
  <2>2. CASE e = c /\ d # c
    <3>1. conn[d].job = x.job /\ x.job # 0 BY <1>2, <1>4, <2>2, Zenon
    <3>2. QED BY <3>1, Zenon DEF HeldIn
  <2>3. CASE d # c /\ e # c BY <1>2, <1>4, <2>3, Zenon DEF Pinned
  <2>4. QED BY <2>1, <2>2, <2>3
<1>5. Pinned(conn') BY <1>1, <1>3, <1>4, Zenon DEF Pinned
<1>6. ASSUME NEW j \in 1..RqJobs PROVE HeldIn(conn', j) <=> (j = x.job \/ (j # conn[c].job /\ HeldIn(conn, j)))
  <2>1. ASSUME HeldIn(conn', j) PROVE j = x.job \/ (j # conn[c].job /\ HeldIn(conn, j))
    <3>1. PICK d \in RqClients : conn'[d].job = j BY <2>1, Zenon DEF HeldIn
    <3>2. CASE d = c BY <3>1, <3>2, <1>2, Zenon
    <3>3. CASE d # c
      <4>1. conn[d].job = j /\ HeldIn(conn, j) BY <3>1, <3>3, <1>2, Zenon DEF HeldIn
      <4>2. j # 0 BY SMT
      <4>3. conn[c].job # j BY <4>1, <4>2, <3>3, Zenon DEF Pinned
      <4>4. QED BY <4>1, <4>3, Zenon
    <3>4. QED BY <3>2, <3>3
  <2>2. ASSUME j = x.job PROVE HeldIn(conn', j) BY <2>2, <1>2, Zenon DEF HeldIn
  <2>3. ASSUME j # conn[c].job, HeldIn(conn, j) PROVE HeldIn(conn', j)
    <3>1. PICK d \in RqClients : conn[d].job = j BY <2>3, Zenon DEF HeldIn
    <3>2. d # c BY <3>1, <2>3, Zenon
    <3>3. QED BY <3>1, <3>2, <1>2, Zenon DEF HeldIn
  <2>4. QED BY <2>1, <2>2, <2>3, Zenon
<1>7. QED BY <1>5, <1>6

\* What the holder of a job leaves: the worker's reference, or nothing.
LEMMA HolderLeaves ==
    ASSUME JobInv, NEW j \in 1..RqJobs, HeldIn(conn, j)
    PROVE  /\ job_release(jobs, j) \in [1..RqJobs -> JobRecord]
           /\ job_release(jobs, j)[j].refs = 0 + (IF job_release(jobs, j)[j].worker = "gone" THEN 0 ELSE 1)
           /\ \A i \in 1..RqJobs \ {j} : job_release(jobs, j)[i] = jobs[i]
<1> DEFINE z == job_release(jobs, j)
<1>1. jobs \in [1..RqJobs -> JobRecord] /\ Counted(jobs, j, conn) BY Zenon DEF JobInv
<1>2. jobs[j].refs = 1 + (IF jobs[j].worker = "gone" THEN 0 ELSE 1) BY <1>1, Zenon DEF Counted
<1>3. jobs[j].refs > 0 BY <1>2, SMT
<1>4. /\ z \in [1..RqJobs -> JobRecord] /\ z[j].refs = jobs[j].refs - 1
      /\ jobs[j].refs > 1 => z[j].worker = jobs[j].worker
      /\ jobs[j].refs = 1 => z[j].worker = "gone"
      /\ \A i \in 1..RqJobs \ {j} : z[i] = jobs[i]
  BY <1>1, <1>3, Released, Zenon
<1> HIDE DEF z
<1>5. z[j].refs = 0 + (IF z[j].worker = "gone" THEN 0 ELSE 1) BY <1>2, <1>4, SMT
<1>6. QED BY <1>4, <1>5 DEF z

\* A connection lets go of what it holds.
LEMMA LetGo ==
    ASSUME JobInv, NEW c \in RqClients, NEW x \in RqRecord, conn' = [conn EXCEPT ![c] = x],
           x.st # "job", x.job = 0,
           \A j \in 1..RqJobs : jobs'[j] = IF conn[c].job = j THEN job_release(jobs, j)[j] ELSE jobs[j],
           jobs' \in [1..RqJobs -> JobRecord]
    PROVE  JobInv'
<1>1. Pinned(conn) /\ jobs \in [1..RqJobs -> JobRecord] BY Zenon DEF JobInv
<1>2. x.st = "job" <=> x.job # 0 BY Zenon
<1>3. /\ Pinned(conn')
      /\ \A j \in 1..RqJobs : HeldIn(conn', j) <=> (j = x.job \/ (j # conn[c].job /\ HeldIn(conn, j)))
  BY <1>1, <1>2, OneConn, Zenon
<1>4. ASSUME NEW j \in 1..RqJobs PROVE Counted(jobs', j, conn')
  <2>1. j # x.job BY SMT
  <2>2. Counted(jobs, j, conn) /\ jobs[j] \in JobRecord BY <1>1, Zenon DEF JobInv
  <2>3. jobs[j].refs \in 0..2 BY <2>2, Zenon DEF JobRecord
  <2>4. CASE conn[c].job = j
    <3>1. HeldIn(conn, j) = TRUE /\ HeldIn(conn', j) = FALSE BY <2>1, <2>4, <1>3, Zenon DEF HeldIn
    <3>2. jobs'[j] = job_release(jobs, j)[j] BY <2>4, Zenon
    <3>3. jobs'[j].refs = 0 + (IF jobs'[j].worker = "gone" THEN 0 ELSE 1)
      <4>1. job_release(jobs, j)[j].refs = 0 + (IF job_release(jobs, j)[j].worker = "gone" THEN 0 ELSE 1)
        BY <3>1, HolderLeaves, Zenon
      <4>2. QED BY <4>1, <3>2, Zenon
    <3>4. QED BY <3>1, <3>3, Zenon DEF Counted
  <2>5. CASE conn[c].job # j
    <3>1. jobs'[j] = jobs[j] BY <2>5, Zenon
    <3>2. HeldIn(conn', j) <=> HeldIn(conn, j) BY <1>3, <2>1, <2>5, Zenon
    <3>3. QED BY <2>2, <3>1, <3>2, Zenon DEF Counted
  <2>6. QED BY <2>4, <2>5
<1>5. QED BY <1>3, <1>4, Zenon DEF JobInv

LEMMA RemoveOne ==
    ASSUME JobInv, NEW c \in RqClients, RqRemove({c})
    PROVE  JobInv'
<1>1. Pinned(conn) /\ conn \in [RqClients -> RqRecord] /\ jobs \in [1..RqJobs -> JobRecord]
  BY Zenon DEF JobInv, Pinned
<1>2. conn' = [d \in RqClients |-> IF d \in {c} THEN NoConn ELSE conn[d]]
      /\ jobs' = [j \in 1..RqJobs |-> job_release(jobs, IF \E d \in {c} : conn[d].job = j THEN j ELSE 0)[j]]
  BY Zenon DEF RqRemove
<1>3. conn' = [conn EXCEPT ![c] = NoConn] BY <1>1, <1>2, Zenon
<1>4. job_release(jobs, 0) = jobs BY SMT DEF job_release
<1>5. \A j \in 1..RqJobs : jobs'[j] = IF conn[c].job = j THEN job_release(jobs, j)[j] ELSE jobs[j]
  BY <1>2, <1>4, Zenon
<1>6. ASSUME NEW j \in 1..RqJobs PROVE jobs'[j] \in JobRecord
  <2>1. CASE conn[c].job = j
    <3>1. HeldIn(conn, j) BY <2>1, Zenon DEF HeldIn
    <3>2. job_release(jobs, j) \in [1..RqJobs -> JobRecord] BY <3>1, HolderLeaves, Zenon
    <3>3. QED BY <2>1, <1>5, <3>2, Zenon
  <2>2. CASE conn[c].job # j BY <1>1, <1>5, <2>2, Zenon
  <2>3. QED BY <2>1, <2>2
<1>7. jobs' \in [1..RqJobs -> JobRecord] BY <1>2, <1>6, Zenon
<1>8. QED BY <1>3, <1>5, <1>7, NoOneHolds, LetGo, Zenon

LEMMA JobStarted ==
    ASSUME JobInv, NEW c \in RqClients, conn[c].st = "read", NEW w \in {"claim", "set"}, api_start(c, w)
    PROVE  JobInv'
<1>1. Pinned(conn) /\ conn \in [RqClients -> RqRecord] /\ jobs \in [1..RqJobs -> JobRecord]
  BY Zenon DEF JobInv, Pinned
<1>2. CASE RqRemove({c}) BY <1>2, RemoveOne
<1>3. CASE \E j \in 1..RqJobs :
              /\ jobs[j].refs = 0
              /\ jobs' = [jobs EXCEPT ![j] = [refs |-> 2, worker |-> "run", what |-> w]]
              /\ conn' = [conn EXCEPT ![c] = [@ EXCEPT !.st = "job", !.job = j]]
  <2>1. PICK j \in 1..RqJobs :
              /\ jobs[j].refs = 0
              /\ jobs' = [jobs EXCEPT ![j] = [refs |-> 2, worker |-> "run", what |-> w]]
              /\ conn' = [conn EXCEPT ![c] = [@ EXCEPT !.st = "job", !.job = j]]
    BY <1>3, Zenon
  <2> DEFINE x == [conn[c] EXCEPT !.st = "job", !.job = j]
             y == [refs |-> 2, worker |-> "run", what |-> w]
  <2>2. j # 0 /\ j \in 0..RqJobs BY SMT
  <2>3. conn[c] \in RqRecord BY <1>1, Zenon
  <2>4. x \in RqRecord /\ x.st = "job" /\ x.job = j BY <2>2, <2>3, Zenon DEF RqRecord
  <2>5. 2 \in 0..2 BY SMT
  <2>6. y \in JobRecord /\ y.refs = 2 /\ y.worker = "run" BY <2>5, Zenon DEF JobRecord
  <2>7. conn' = [conn EXCEPT ![c] = x] /\ jobs' = [jobs EXCEPT ![j] = y] BY <2>1, Zenon
  <2> HIDE DEF x, y
  <2>8. jobs' \in [1..RqJobs -> JobRecord] /\ jobs'[j] = y /\ \A i \in 1..RqJobs : i # j => jobs'[i] = jobs[i]
    BY <1>1, <2>6, <2>7, Zenon
  <2>9. ~HeldIn(conn, j)
    <3>1. Counted(jobs, j, conn) BY Zenon DEF JobInv
    <3>2. QED BY <2>1, <3>1, SMT DEF Counted
  <2>10. /\ Pinned(conn')
         /\ \A i \in 1..RqJobs : HeldIn(conn', i) <=> (i = x.job \/ (i # conn[c].job /\ HeldIn(conn, i)))
    <3>1. x.st = "job" <=> x.job # 0 BY <2>2, <2>4, Zenon
    <3>2. x.job # 0 => ~HeldIn(conn, x.job) BY <2>4, <2>9, Zenon
    <3>3. QED BY <1>1, <2>4, <2>7, <3>1, <3>2, OneConn, Zenon
  <2>11. conn[c].job = 0 BY Zenon DEF JobInv, Pinned
  <2>12. ASSUME NEW i \in 1..RqJobs PROVE Counted(jobs', i, conn')
    <3>1. i # 0 /\ Counted(jobs, i, conn)
      <4>1. i # 0 BY SMT
      <4>2. QED BY <4>1, Zenon DEF JobInv
    <3>2. CASE i = j
      <4>1. HeldIn(conn', i) = TRUE BY <3>2, <2>10, <2>4, Zenon
      <4>2. jobs'[i].refs = 2 /\ jobs'[i].worker # "gone" BY <3>2, <2>6, <2>8, Zenon
      <4>3. 2 = 1 + 1 BY SMT
      <4>4. QED BY <4>1, <4>2, <4>3, Zenon DEF Counted
    <3>3. CASE i # j
      <4>1. jobs'[i] = jobs[i] BY <3>3, <2>8, Zenon
      <4>2. HeldIn(conn', i) <=> HeldIn(conn, i) BY <3>1, <3>3, <2>4, <2>10, <2>11, Zenon
      <4>3. QED BY <3>1, <4>1, <4>2, Zenon DEF Counted
    <3>4. QED BY <3>2, <3>3
  <2>13. QED BY <2>8, <2>10, <2>12, Zenon DEF JobInv
<1>4. QED BY <1>2, <1>3, Zenon DEF api_start

\* Steps of a connection that holds nothing and takes nothing.
LEMMA HoldsNothing ==
    ASSUME JobInv, NEW c \in RqClients, conn[c].job = 0, NEW x \in RqRecord, x.st # "job", x.job = 0,
           conn' = [conn EXCEPT ![c] = x], jobs' = jobs
    PROVE  JobInv'
<1>1. jobs' \in [1..RqJobs -> JobRecord] BY Zenon DEF JobInv
<1>2. ASSUME NEW j \in 1..RqJobs PROVE jobs'[j] = IF conn[c].job = j THEN job_release(jobs, j)[j] ELSE jobs[j]
  <2>1. conn[c].job # j BY SMT
  <2>2. QED BY <2>1, Zenon
<1>3. QED BY <1>1, <1>2, LetGo, Zenon

LEMMA WorkerEnds ==
    ASSUME JobInv, NEW j \in 1..RqJobs, jobs[j].worker # "gone", conn' = conn,
           \/ jobs' = [jobs EXCEPT ![j].worker = "done"]
           \/ jobs' = job_release([jobs EXCEPT ![j].worker = "gone"], j)
    PROVE  JobInv'
<1>1. Pinned(conn) /\ jobs \in [1..RqJobs -> JobRecord] BY Zenon DEF JobInv
<1>2. jobs[j] \in JobRecord /\ Counted(jobs, j, conn) /\ jobs[j].refs \in 0..2 BY <1>1, Zenon DEF JobInv, JobRecord
<1>3. jobs[j].refs = (IF HeldIn(conn, j) THEN 1 ELSE 0) + 1 BY <1>2, Zenon DEF Counted
<1>4. CASE jobs' = [jobs EXCEPT ![j].worker = "done"]
  <2> DEFINE y == [jobs[j] EXCEPT !.worker = "done"]
  <2>1. y \in JobRecord /\ y.refs = jobs[j].refs /\ y.worker = "done" BY <1>2, Zenon DEF JobRecord
  <2>2. jobs' = [jobs EXCEPT ![j] = y] BY <1>4, Zenon
  <2> HIDE DEF y
  <2>3. jobs' \in [1..RqJobs -> JobRecord] /\ jobs'[j] = y /\ \A i \in 1..RqJobs : i # j => jobs'[i] = jobs[i]
    BY <1>1, <2>1, <2>2, Zenon
  <2>4. Counted(jobs', j, conn') BY <1>3, <2>1, <2>3, Zenon DEF Counted
  <2>5. ASSUME NEW i \in 1..RqJobs, i # j PROVE Counted(jobs', i, conn')
    <3>1. jobs'[i] = jobs[i] /\ Counted(jobs, i, conn) BY <2>3, <2>5, Zenon DEF JobInv
    <3>2. QED BY <3>1, Zenon DEF Counted
  <2>6. QED BY <1>1, <2>3, <2>4, <2>5, Zenon DEF JobInv
<1>5. CASE jobs' = job_release([jobs EXCEPT ![j].worker = "gone"], j)
  <2> DEFINE y == [jobs[j] EXCEPT !.worker = "gone"]
             js == [jobs EXCEPT ![j].worker = "gone"]
  <2>1. y \in JobRecord /\ y.refs = jobs[j].refs /\ y.worker = "gone" BY <1>2, Zenon DEF JobRecord
  <2>2. js = [jobs EXCEPT ![j] = y] BY Zenon
  <2> HIDE DEF y, js
  <2>3. js \in [1..RqJobs -> JobRecord] /\ js[j] = y /\ \A i \in 1..RqJobs : i # j => js[i] = jobs[i]
    BY <1>1, <2>1, <2>2, Zenon
  <2>4. js[j].refs = (IF HeldIn(conn, j) THEN 1 ELSE 0) + 1 /\ js[j].worker = "gone" BY <1>3, <2>1, <2>3, Zenon
  <2>5. js[j].refs \in Nat /\ js[j].refs > 0 BY <2>4, SMT
  <2>6. jobs' = job_release(js, j) BY <1>5 DEF js
  <2>7. /\ jobs' \in [1..RqJobs -> JobRecord] /\ jobs'[j].refs = js[j].refs - 1
        /\ js[j].refs > 1 => jobs'[j].worker = js[j].worker
        /\ js[j].refs = 1 => jobs'[j].worker = "gone"
        /\ \A i \in 1..RqJobs \ {j} : jobs'[i] = js[i]
    <3> DEFINE z == job_release(js, j)
    <3>1. /\ z \in [1..RqJobs -> JobRecord] /\ z[j].refs = js[j].refs - 1
          /\ js[j].refs > 1 => z[j].worker = js[j].worker
          /\ js[j].refs = 1 => z[j].worker = "gone"
          /\ \A i \in 1..RqJobs \ {j} : z[i] = js[i]
      BY <2>3, <2>5, Released, Zenon
    <3> HIDE DEF z
    <3>2. jobs' = z BY <2>6 DEF z
    <3>3. QED BY <3>1, <3>2, Zenon
  <2>8. jobs'[j].worker = "gone"
    <3>1. js[j].refs > 1 \/ js[j].refs = 1 BY <2>5, SMT
    <3>2. QED BY <3>1, <2>4, <2>7, Zenon
  <2>9. jobs'[j].refs = (IF HeldIn(conn, j) THEN 1 ELSE 0) + 0 BY <2>4, <2>7, SMT
  <2>10. Counted(jobs', j, conn') BY <2>8, <2>9, Zenon DEF Counted
  <2>11. ASSUME NEW i \in 1..RqJobs, i # j PROVE Counted(jobs', i, conn')
    <3>1. jobs'[i] = jobs[i] /\ Counted(jobs, i, conn) BY <2>3, <2>7, <2>11, Zenon DEF JobInv
    <3>2. QED BY <3>1, Zenon DEF Counted
  <2>12. QED BY <1>1, <2>7, <2>10, <2>11, Zenon DEF JobInv
<1>6. QED BY <1>4, <1>5

\* The reaper's clock.
LEMMA AgeNat ==
    ASSUME NEW n \in Nat
    PROVE  Min({n + 1, Max({RqRecv, RqSend})}) \in Nat
<1>1. RqRecv \in Nat /\ RqSend \in Nat BY RhdRequestsConstants
<1>2. Max({RqRecv, RqSend}) \in Nat
  <2>1. \E z \in {RqRecv, RqSend} : \A y \in {RqRecv, RqSend} : z >= y BY <1>1, SMT
  <2>2. Max({RqRecv, RqSend}) \in {RqRecv, RqSend} BY <2>1, Zenon DEF Max
  <2>3. QED BY <1>1, <2>2, Zenon
<1> DEFINE m == Max({RqRecv, RqSend})
<1> HIDE DEF m
<1>3. m \in Nat /\ n + 1 \in Nat BY <1>2, SMT DEF m
<1>4. Min({n + 1, m}) \in Nat BY <1>3, LesserOfTwo, SMT
<1>5. QED BY <1>4 DEF m

LEMMA Reaped ==
    ASSUME JobInv, Reap
    PROVE  JobInv'
<1>1. Pinned(conn) /\ conn \in [RqClients -> RqRecord] BY Zenon DEF JobInv, Pinned
<1>2. jobs' = jobs BY Zenon DEF Reap
<1>3. ASSUME NEW c \in RqClients PROVE conn'[c] \in RqRecord /\ conn'[c].job = conn[c].job
                                      /\ (conn'[c].st = "job" <=> conn[c].st = "job")
  <2> DEFINE n == conn[c].age
             old == Min({n + 1, Max({RqRecv, RqSend})})
  <2>1. conn[c] \in RqRecord /\ n \in Nat BY <1>1, Zenon DEF RqRecord
  <2>2. \/ conn'[c] = NoConn /\ (Expired(c) \/ conn[c].st = "none")
        \/ conn'[c] = [conn[c] EXCEPT !.age = old]
    BY Zenon DEF Reap
  <2>3. old \in Nat BY <2>1, AgeNat, Zenon
  <2> HIDE DEF old, n
  <2>4. CASE conn'[c] = NoConn /\ (Expired(c) \/ conn[c].st = "none")
    <3>1. conn[c].st # "job" BY <2>4, Zenon DEF Expired
    <3>2. conn[c].job = 0 BY <1>1, <3>1, Zenon DEF Pinned
    <3>3. QED BY <2>4, <3>1, <3>2, NoOneHolds, Zenon
  <2>5. CASE conn'[c] = [conn[c] EXCEPT !.age = old] BY <2>1, <2>3, <2>5, Zenon DEF RqRecord
  <2>6. QED BY <2>2, <2>4, <2>5
<1>4. conn' \in [RqClients -> RqRecord]
  <2>1. \E f : conn' = [c \in RqClients |-> f[c]]
    <3> DEFINE late == {c \in RqClients : Expired(c)}
               f == [c \in RqClients |-> IF c \in late THEN NoConn
                                         ELSE IF conn[c].st = "none" THEN NoConn
                                         ELSE [conn[c] EXCEPT !.age = Min({@ + 1, Max({RqRecv, RqSend})})]]
    <3>1. conn' = f BY Zenon DEF Reap
    <3>2. f = [c \in RqClients |-> f[c]] BY Zenon
    <3> HIDE DEF f
    <3>3. QED BY <3>1, <3>2, Zenon
  <2>2. QED BY <2>1, <1>3, Zenon
<1>5. \A j : HeldIn(conn', j) <=> HeldIn(conn, j) BY <1>3, Zenon DEF HeldIn
<1>6. Pinned(conn') BY <1>1, <1>3, <1>4, ZenonT(60) DEF Pinned
<1>7. \A j \in 1..RqJobs : Counted(jobs', j, conn') BY <1>2, <1>5, Zenon DEF Counted, JobInv
<1>8. QED BY <1>2, <1>6, <1>7, Zenon DEF JobInv

LEMMA JobStep ==
    ASSUME JobInv, RqNext \/ UNCHANGED rqvars
    PROVE  JobInv'
<1>1. conn \in [RqClients -> RqRecord] /\ \A c \in RqClients : conn[c].st # "job" => conn[c].job = 0
  BY Zenon DEF JobInv, Pinned
<1>2. CASE UNCHANGED rqvars BY <1>2, Zenon DEF JobInv, rqvars
<1>3. 0 \in Nat /\ 0 \in 0..RqJobs
  <2>1. RqJobs \in Nat BY RhdRequestsConstants
  <2>2. QED BY <2>1, SMT
<1>4. ASSUME NEW c \in RqClients, RqAccept(c) PROVE JobInv'
  <2> DEFINE x == [conn[c] EXCEPT !.st = "read"]
  <2>1. conn' = [conn EXCEPT ![c] = x] /\ jobs' = jobs /\ conn[c].st = "none" BY <1>4, Zenon DEF RqAccept
  <2>2. conn[c].job = 0 /\ conn[c] \in RqRecord BY <1>1, <2>1, Zenon
  <2>3. x \in RqRecord /\ x.st = "read" /\ x.job = conn[c].job BY <2>2, Zenon DEF RqRecord
  <2> HIDE DEF x
  <2>4. x.st # "job" /\ x.job = 0 BY <2>2, <2>3, Zenon
  <2>5. QED BY <2>1, <2>2, <2>3, <2>4, HoldsNothing, Zenon
<1>5. ASSUME NEW c \in RqClients, ApiClaim(c) PROVE JobInv'
  BY <1>5, JobStarted, Zenon DEF ApiClaim
<1>6. ASSUME NEW c \in RqClients, Refused(c) \/ Drained(c) \/ HangUp(c) PROVE JobInv'
  BY <1>6, RemoveOne, Zenon DEF Refused, Drained, HangUp
<1>7. ASSUME NEW c \in RqClients, NEW b \in BOOLEAN, ApiHandle(c, b) PROVE JobInv'
  BY <1>7, JobStarted, Zenon DEF ApiHandle
<1>8. ASSUME NEW c \in RqClients, conn[c].st = "read", RqQueued(c), jobs' = jobs PROVE JobInv'
  <2> DEFINE x == [st |-> "send", age |-> 0, job |-> 0]
  <2>1. conn' = [conn EXCEPT ![c] = x] BY <1>8, Zenon DEF RqQueued
  <2>2. conn[c].job = 0 BY <1>1, <1>8, Zenon
  <2>3. x \in RqRecord /\ x.st # "job" /\ x.job = 0 BY <1>3, Zenon DEF RqRecord
  <2> HIDE DEF x
  <2>4. QED BY <1>8, <2>1, <2>2, <2>3, HoldsNothing, Zenon
<1>9. ASSUME NEW c \in RqClients, NEW b \in BOOLEAN, Page(c, b) PROVE JobInv'
  BY <1>8, <1>9, Zenon DEF Page
<1>10. ASSUME NEW c \in RqClients, NEW v \in BOOLEAN, NEW b \in BOOLEAN, RqMedia(c, v, b) PROVE JobInv'
  BY <1>8, <1>10, Zenon DEF RqMedia
<1>11. ASSUME NEW c \in RqClients, NEW b \in BOOLEAN, rhd_api_poll(c, b) PROVE JobInv'
  <2> DEFINE o == IF b THEN 0 ELSE conn[c].age
             w == IF b THEN "send" ELSE "owes"
             x == [st |-> w, age |-> o, job |-> 0]
             k == conn[c].job
  <2>1. conn' = [conn EXCEPT ![c] = x] /\ jobs' = job_release(jobs, k) /\ conn[c].st = "job"
    BY <1>11, Zenon DEF rhd_api_poll
  <2>2. conn[c] \in RqRecord /\ jobs \in [1..RqJobs -> JobRecord] BY <1>1, Zenon DEF JobInv
  <2>3. o \in Nat /\ w \in {"send", "owes"} BY <1>3, <2>2, Zenon DEF RqRecord
  <2> HIDE DEF o, w
  <2>4. x \in RqRecord /\ x.st # "job" /\ x.job = 0 BY <1>3, <2>3, Zenon DEF RqRecord
  <2> HIDE DEF x
  <2>5. k # 0 /\ k \in 0..RqJobs BY <2>1, <2>2, Zenon DEF JobInv, Pinned, RqRecord
  <2>6. k \in 1..RqJobs
    <3>1. RqJobs \in Nat BY RhdRequestsConstants
    <3> HIDE DEF k
    <3>2. QED BY <2>5, <3>1, SMT
  <2>7. HeldIn(conn, k) BY Zenon DEF HeldIn
  <2> DEFINE z == job_release(jobs, k)
  <2>8. z \in [1..RqJobs -> JobRecord] /\ \A i \in 1..RqJobs \ {k} : z[i] = jobs[i]
    <3> HIDE DEF k
    <3>1. QED BY <2>6, <2>7, HolderLeaves, Zenon
  <2>9. ASSUME NEW j \in 1..RqJobs PROVE jobs'[j] = IF conn[c].job = j THEN job_release(jobs, j)[j] ELSE jobs[j]
    BY <2>1, <2>8, Zenon
  <2>10. jobs' \in [1..RqJobs -> JobRecord] BY <2>1, <2>8, Zenon
  <2>11. QED BY <2>1, <2>4, <2>9, <2>10, LetGo, Zenon
<1>12. ASSUME NEW j \in 1..RqJobs, Works(j) PROVE JobInv'
  <2>1. conn' = conn /\ jobs[j].worker \in {"run", "done"}
    BY <1>12, Zenon DEF Works, WorkerLeaves, WorkerDone
  <2>2. \/ jobs' = [jobs EXCEPT ![j].worker = "done"]
        \/ jobs' = job_release([jobs EXCEPT ![j].worker = "gone"], j)
    BY <1>12, Zenon DEF Works, WorkerLeaves, WorkerDone
  <2>3. jobs[j].worker # "gone" BY <2>1, Zenon
  <2>4. QED BY <2>1, <2>2, <2>3, WorkerEnds, Zenon
<1>13. QED BY <1>2, <1>4, <1>5, <1>6, <1>7, <1>9, <1>10, <1>11, <1>12, Reaped, Zenon DEF RqNext

LEMMA JobStart == ASSUME RqInit PROVE JobInv
<1>1. conn = [c \in RqClients |-> NoConn] /\ jobs = [j \in 1..RqJobs |-> NoJob] BY Zenon DEF RqInit
<1>2. conn \in [RqClients -> RqRecord] /\ jobs \in [1..RqJobs -> JobRecord]
      /\ \A c \in RqClients : conn[c].st = "none" /\ conn[c].job = 0
  BY <1>1, NoOneHolds, Zenon
<1>3. ASSUME NEW j \in 1..RqJobs PROVE Counted(jobs, j, conn)
  <2>1. j # 0 /\ 0 = 0 + 0 BY SMT
  <2>2. ~HeldIn(conn, j) BY <1>2, <2>1, Zenon DEF HeldIn
  <2>3. jobs[j].refs = 0 /\ jobs[j].worker = "gone" BY <1>1, NoOneHolds, Zenon
  <2>4. QED BY <2>1, <2>2, <2>3, Zenon DEF Counted
<1>4. Pinned(conn) BY <1>2, Zenon DEF Pinned
<1>5. QED BY <1>2, <1>3, <1>4, Zenon DEF JobInv

LEMMA JobHolds == ASSUME JobInv PROVE JobsHeld
<1>1. ASSUME NEW j \in 1..RqJobs
      PROVE  LET n == Cardinality({c \in RqClients : conn[c].job = j})
             IN jobs[j].refs = n + (IF jobs[j].worker = "gone" THEN 0 ELSE 1) /\ n <= 1
  <2> DEFINE S == {c \in RqClients : conn[c].job = j}
  <2>1. Counted(jobs, j, conn) BY Zenon DEF JobInv
  <2>2. CASE HeldIn(conn, j)
    <3>1. PICK c \in RqClients : conn[c].job = j BY <2>2, Zenon DEF HeldIn
    <3>2. j # 0 BY SMT
    <3>3. S = {c} BY <3>1, <3>2, Zenon DEF JobInv, Pinned
    <3>4. Cardinality(S) = 1 BY <3>3, FS_Singleton, Zenon
    <3> HIDE DEF S
    <3>5. jobs[j].refs = Cardinality(S) + (IF jobs[j].worker = "gone" THEN 0 ELSE 1) BY <2>1, <2>2, <3>4, Zenon DEF Counted
    <3>6. Cardinality(S) <= 1 BY <3>4, SMT
    <3>7. QED BY <3>5, <3>6 DEF S
  <2>3. CASE ~HeldIn(conn, j)
    <3>1. S = {} BY <2>3, Zenon DEF HeldIn
    <3>2. Cardinality(S) = 0 BY <3>1, FS_EmptySet, Zenon
    <3> HIDE DEF S
    <3>3. jobs[j].refs = Cardinality(S) + (IF jobs[j].worker = "gone" THEN 0 ELSE 1) BY <2>1, <2>3, <3>2, Zenon DEF Counted
    <3>4. Cardinality(S) <= 1 BY <3>2, SMT
    <3>5. QED BY <3>3, <3>4 DEF S
  <2>4. QED BY <2>2, <2>3
<1>2. QED BY <1>1, Zenon DEF JobsHeld

-----------------------------------------------------------------------------
(* The guesses: every token ever there was in the first burst or is paid   *)
(* for by the time up to the last refill.                                  *)
SourceRecord == [host : RaHosts \cup {""}, fails : Nat, until : Nat, seen : Nat]
GuessInv ==
    /\ aclock \in Nat /\ wrong \in Nat
    /\ bucket \in [tokens : 0..RaBurst, refill : 0..aclock]
    /\ RaRefill * (wrong + bucket.tokens) <= RaRefill * RaBurst + bucket.refill
    /\ asrc \in [1..RaSlots -> SourceRecord]
    /\ \A i \in 1..RaSlots : asrc[i].until <= aclock + RaDelayMax

\* g tokens for at most the time passed since from, moved on by their price.
LEMMA RefillPays ==
    ASSUME NEW R \in Nat \ {0}, NEW from \in Nat, NEW now \in Nat, from <= now,
           NEW g \in Nat, g <= (now - from) \div R
    PROVE  from + g * R \in Nat /\ from + g * R <= now
<1> DEFINE d == now - from
           k == d \div R
<1>1. d \in Nat BY SMT
<1> HIDE DEF d
<1>2. k \in Nat /\ R * k <= d BY <1>1, SMT
<1>3. g <= k BY SMT DEF d
<1> HIDE DEF k
<1>4. \E e \in Nat : k = g + e BY <1>2, <1>3, SMT
<1>5. PICK e \in Nat : k = g + e BY <1>4
<1>6. R * k = R * g + R * e BY <1>5, SMT
<1>7. R * e \in Nat /\ R * g \in Nat /\ g * R = R * g BY SMT
<1> DEFINE rk == R * k
           rg == R * g
           re == R * e
<1>8. g * R <= d
  <2>1. rk <= d /\ rk = rg + re /\ re \in Nat /\ rg \in Nat /\ g * R = rg BY <1>2, <1>6, <1>7, Zenon
  <2> HIDE DEF rk, rg, re
  <2>2. rg <= d BY <2>1, <1>1, SMT
  <2>3. QED BY <2>1, <2>2, Zenon
<1>9. QED BY <1>8, <1>7, SMT DEF d

LEMMA TokensPaid ==
    ASSUME NEW R \in Nat \ {0}, NEW w \in Nat, NEW t \in Nat, NEW g \in Nat, NEW m \in Nat, NEW from \in Nat,
           R * (w + t) <= R * m + from
    PROVE  R * (w + (t + g)) <= R * m + (from + g * R)
<1>1. R * (w + (t + g)) = R * (w + t) + g * R BY SMT
<1>2. R * (w + t) \in Nat /\ R * m \in Nat /\ g * R \in Nat BY SMT
<1>3. QED BY <1>1, <1>2, SMT

LEMMA RefillSound ==
    ASSUME GuessInv
    PROVE  /\ Refilled \in [tokens : 0..RaBurst, refill : 0..aclock]
           /\ RaRefill * (wrong + Refilled.tokens) <= RaRefill * RaBurst + Refilled.refill
<1> DEFINE from == IF bucket.refill = 0 THEN aclock ELSE bucket.refill
           got == Min({RaBurst - bucket.tokens, (aclock - from) \div RaRefill})
           tk == bucket.tokens + got
           rf == IF tk >= RaBurst THEN aclock ELSE from + got * RaRefill
<1>1. RaRefill \in Nat \ {0} /\ RaBurst \in Nat BY RhdRequestsConstants
<1>2. /\ bucket.tokens \in 0..RaBurst /\ bucket.refill \in 0..aclock /\ aclock \in Nat /\ wrong \in Nat
      /\ RaRefill * (wrong + bucket.tokens) <= RaRefill * RaBurst + bucket.refill
  BY DEF GuessInv
<1>3. Refilled = [tokens |-> tk, refill |-> rf] BY Zenon DEF Refilled
<1>4. from \in Nat /\ from <= aclock /\ bucket.refill <= from BY <1>2, SMT
<1> HIDE DEF from
<1>5. aclock - from \in Nat BY <1>2, <1>4, SMT
<1>6. (aclock - from) \div RaRefill \in Nat BY <1>5, <1>1, SMT
<1>7. got \in Nat /\ got <= RaBurst - bucket.tokens /\ got <= (aclock - from) \div RaRefill
  <2> DEFINE x == RaBurst - bucket.tokens
             y == (aclock - from) \div RaRefill
  <2>1. x \in Nat BY <1>1, <1>2, SMT
  <2>2. y \in Nat BY <1>6
  <2>3. got = Min({x, y}) OBVIOUS
  <2> HIDE DEF x, y, got
  <2>4. got \in Nat /\ got <= x /\ got <= y BY <2>1, <2>2, <2>3, LesserOfTwo, SMT
  <2>5. QED BY <2>4 DEF x, y
<1> HIDE DEF got
<1>8. from + got * RaRefill \in Nat /\ from + got * RaRefill <= aclock BY <1>1, <1>2, <1>4, <1>7, RefillPays
<1>9. tk \in 0..RaBurst BY <1>1, <1>2, <1>7, SMT
<1>10. rf \in 0..aclock /\ from + got * RaRefill <= rf BY <1>2, <1>8, SMT
<1>11. RaRefill * (wrong + bucket.tokens) <= RaRefill * RaBurst + from
  <2>1. RaRefill * (wrong + bucket.tokens) \in Nat /\ RaRefill * RaBurst \in Nat BY <1>1, <1>2, SMT
  <2>2. QED BY <2>1, <1>2, <1>4, SMT
<1>12. RaRefill * (wrong + tk) <= RaRefill * RaBurst + (from + got * RaRefill)
  BY <1>1, <1>2, <1>4, <1>7, <1>11, TokensPaid
<1> HIDE DEF tk, rf
<1>13. RaRefill * (wrong + tk) \in Nat /\ RaRefill * RaBurst \in Nat BY <1>1, <1>2, <1>9, SMT
<1>14. RaRefill * (wrong + tk) <= RaRefill * RaBurst + rf BY <1>8, <1>10, <1>12, <1>13, <1>2, SMT
<1>15. QED BY <1>3, <1>9, <1>10, <1>14, Zenon

\* The host's slot as it is looked up, and as a wrong or a right password leaves it.
WaitsWithin(s) == s \in SourceRecord /\ s.until <= aclock + RaDelayMax

LEMMA SourceSound ==
    ASSUME GuessInv, NEW h \in RaHosts
    PROVE  /\ WaitsWithin(Source(h))
           /\ WaitsWithin(rhd_auth_failed(Source(h))) /\ WaitsWithin(rhd_auth_succeeded(Source(h)))
<1>1. RaDelayMax \in Nat /\ aclock \in Nat /\ RaSlots \in Nat BY RhdRequestsConstants DEF GuessInv
<1>9. 0 \in Nat /\ 0 <= aclock + RaDelayMax BY <1>1, SMT
<1>2. WaitsWithin(Source(h))
  <2>1. CASE Mine(h) = {}
    <3>1. Source(h) = [host |-> h, fails |-> 0, until |-> 0, seen |-> aclock] BY <2>1, Zenon DEF Source
    <3>2. Source(h) \in SourceRecord /\ Source(h).until = 0
      <4>1. h \in RaHosts \cup {""} BY Zenon
      <4>2. [host |-> h, fails |-> 0, until |-> 0, seen |-> aclock] \in SourceRecord
        BY <4>1, <1>9, <1>1, Zenon DEF SourceRecord
      <4>3. [host |-> h, fails |-> 0, until |-> 0, seen |-> aclock].until = 0 OBVIOUS
      <4>4. Source(h) \in SourceRecord BY <4>2, <3>1, Zenon
      <4>5. Source(h).until = 0 BY <4>3, <3>1
      <4>6. QED BY <4>4, <4>5
    <3>3. QED BY <3>2, <1>9, Zenon DEF WaitsWithin
  <2>2. CASE Mine(h) # {}
    <3> DEFINE k == slot_for(h)
    <3>1. k \in Mine(h) /\ Mine(h) \in SUBSET (1..RaSlots)
      <4>1. Mine(h) \in SUBSET (1..RaSlots) BY Zenon DEF Mine
      <4>2. Min(Mine(h)) \in Mine(h) BY <4>1, <2>2, <1>1, LeastNumber, Zenon
      <4>3. slot_for(h) = Min(Mine(h)) BY <2>2, Zenon DEF slot_for
      <4>4. QED BY <4>1, <4>2, <4>3, Zenon
    <3>2. asrc[k] \in SourceRecord /\ asrc[k].until <= aclock + RaDelayMax BY <3>1, Zenon DEF GuessInv
    <3>3. \/ Source(h) = [asrc[k] EXCEPT !.fails = 0, !.until = 0, !.seen = aclock]
          \/ Source(h) = [asrc[k] EXCEPT !.seen = aclock]
      BY <2>2, Zenon DEF Source
    <3> HIDE DEF k
    <3>4. Source(h) \in SourceRecord /\ Source(h).until \in {0, asrc[k].until}
      BY <1>9, <1>1, <3>2, <3>3, Zenon DEF SourceRecord
    <3>5. QED BY <1>9, <3>2, <3>4, Zenon DEF WaitsWithin
  <2>3. QED BY <2>1, <2>2
<1> DEFINE s == Source(h)
<1> HIDE DEF s
<1>3. WaitsWithin(s) BY <1>2 DEF s
<1>4. WaitsWithin(rhd_auth_succeeded(s))
  <2>1. rhd_auth_succeeded(s) \in SourceRecord /\ rhd_auth_succeeded(s).until = 0
    BY <1>9, <1>3, Zenon DEF rhd_auth_succeeded, WaitsWithin, SourceRecord
  <2>2. QED BY <1>9, <2>1, Zenon DEF WaitsWithin
<1>5. WaitsWithin(rhd_auth_failed(s))
  <2> DEFINE n == s.fails + 1
             till == IF n <= RaFree THEN s.until ELSE aclock + RqWait(n)
  <2>1. s.fails \in Nat /\ s.until \in Nat BY <1>3, Zenon DEF WaitsWithin, SourceRecord
  <2>2. n \in Nat BY <2>1, SMT
  <2>3. RqWait(n) \in 0..RaDelayMax
    <3>1. RaDelayMax \in 0..RaDelayMax BY <1>1, SMT
    <3>2. QED BY <3>1, Zenon DEF RqWait
  <2>4. rhd_auth_failed(s) = [s EXCEPT !.fails = n, !.until = till] BY Zenon DEF rhd_auth_failed
  <2> HIDE DEF n
  <2>5. till \in Nat /\ till <= aclock + RaDelayMax BY <1>1, <1>3, <2>1, <2>3, SMT DEF WaitsWithin
  <2> HIDE DEF till
  <2>6. rhd_auth_failed(s) \in SourceRecord /\ rhd_auth_failed(s).until = till
    BY <1>3, <2>2, <2>4, <2>5, Zenon DEF WaitsWithin, SourceRecord
  <2>7. QED BY <2>5, <2>6, Zenon DEF WaitsWithin
<1>6. QED BY <1>2, <1>4, <1>5 DEF s

LEMMA GuessStep ==
    ASSUME GuessInv, RaNext \/ UNCHANGED ravars
    PROVE  GuessInv'
<1>1. CASE UNCHANGED ravars BY <1>1, Zenon DEF GuessInv, ravars
<1>2. RaRefill \in Nat \ {0} /\ RaBurst \in Nat /\ RaDelayMax \in Nat BY RhdRequestsConstants
<1>3. CASE Tick
  <2>1. aclock' = aclock + 1 /\ asrc' = asrc /\ bucket' = bucket /\ wrong' = wrong BY <1>3, Zenon DEF Tick
  <2>2. aclock' \in Nat /\ aclock <= aclock' BY <2>1, SMT DEF GuessInv
  <2>3. bucket' \in [tokens : 0..RaBurst, refill : 0..aclock'] BY <2>1, <2>2, SMT DEF GuessInv
  <2>4. ASSUME NEW i \in 1..RaSlots PROVE asrc'[i].until <= aclock' + RaDelayMax
    <3>1. asrc[i].until \in Nat /\ asrc[i].until <= aclock + RaDelayMax /\ aclock \in Nat
      BY Zenon DEF GuessInv, SourceRecord
    <3>2. QED BY <3>1, <2>1, <1>2, SMT
  <2>5. QED BY <2>1, <2>2, <2>3, <2>4, Zenon DEF GuessInv
<1>4. ASSUME NEW h \in RaHosts, NEW right \in BOOLEAN, api_authenticate(h, right) PROVE GuessInv'
  <2> DEFINE s == Source(h)
             hash == rhd_auth_may_hash(s)
             x == IF ~hash THEN s ELSE IF right THEN rhd_auth_succeeded(s) ELSE rhd_auth_failed(s)
             tk == IF hash /\ ~right THEN Refilled.tokens - 1 ELSE Refilled.tokens
  <2>1. /\ asrc' = [asrc EXCEPT ![slot_for(h)] = x]
        /\ bucket' = IF s.until > aclock THEN bucket ELSE [Refilled EXCEPT !.tokens = tk]
        /\ wrong' = IF hash /\ ~right THEN wrong + 1 ELSE wrong
        /\ aclock' = aclock
    BY <1>4, Zenon DEF api_authenticate
  <2>2. WaitsWithin(x) BY SourceSound, Zenon
  <2>3. asrc' \in [1..RaSlots -> SourceRecord] /\ \A i \in 1..RaSlots : asrc'[i].until <= aclock + RaDelayMax
    <3> HIDE DEF x
    <3>1. QED BY <2>1, <2>2, Zenon DEF GuessInv, WaitsWithin
  <2>4. aclock' \in Nat BY <2>1, Zenon DEF GuessInv
  <2>5. /\ wrong' \in Nat /\ bucket' \in [tokens : 0..RaBurst, refill : 0..aclock]
        /\ RaRefill * (wrong' + bucket'.tokens) <= RaRefill * RaBurst + bucket'.refill
    <3>1. CASE s.until > aclock
      <4>1. ~hash
        <5>1. s.until \in Nat /\ aclock \in Nat BY SourceSound, Zenon DEF WaitsWithin, SourceRecord, GuessInv
        <5>2. ~(s.until <= aclock) BY <3>1, <5>1, SMT
        <5>3. QED BY <5>2, Zenon DEF rhd_auth_may_hash
      <4>2. bucket' = bucket /\ wrong' = wrong BY <2>1, <3>1, <4>1, Zenon
      <4>3. QED BY <4>2, Zenon DEF GuessInv
    <3>2. CASE ~(s.until > aclock)
      <4> DEFINE r == Refilled
      <4>1. r \in [tokens : 0..RaBurst, refill : 0..aclock] /\ RaRefill * (wrong + r.tokens) <= RaRefill * RaBurst + r.refill
        BY RefillSound, Zenon
      <4>2. hash => r.tokens > 0 BY Zenon DEF rhd_auth_may_hash
      <4>3. bucket' = [r EXCEPT !.tokens = tk] BY <2>1, <3>2, Zenon
      <4>4. (hash /\ ~right) \/ ~(hash /\ ~right) BY Zenon
      <4>5. /\ (hash /\ ~right) => wrong' = wrong + 1 /\ tk = r.tokens - 1
            /\ ~(hash /\ ~right) => wrong' = wrong /\ tk = r.tokens
        BY <2>1, Zenon
      <4>6. aclock \in Nat /\ wrong \in Nat BY Zenon DEF GuessInv
      <4> HIDE DEF r, tk, hash, s
      <4>7. wrong' \in Nat /\ tk \in 0..RaBurst /\ wrong' + tk = wrong + r.tokens
        <5>1. CASE hash /\ ~right BY <5>1, <4>1, <4>2, <4>5, <4>6, <1>2, SMT
        <5>2. CASE ~(hash /\ ~right) BY <5>2, <4>1, <4>5, <4>6, <1>2, SMT
        <5>3. QED BY <5>1, <5>2
      <4>8. bucket' \in [tokens : 0..RaBurst, refill : 0..aclock] /\ bucket'.tokens = tk /\ bucket'.refill = r.refill
        BY <4>1, <4>3, <4>7, SMT
      <4>9. QED BY <4>1, <4>7, <4>8, Zenon
    <3>3. QED BY <3>1, <3>2
  <2> HIDE DEF x, tk, hash, s
  <2>6. QED BY <2>1, <2>3, <2>4, <2>5, Zenon DEF GuessInv
<1>5. QED BY <1>1, <1>3, <1>4, Zenon DEF RaNext

LEMMA GuessStart == ASSUME RaInit PROVE GuessInv
<1>1. RaRefill \in Nat \ {0} /\ RaBurst \in Nat /\ RaDelayMax \in Nat BY RhdRequestsConstants
<1>2. /\ asrc = [i \in 1..RaSlots |-> [host |-> "", fails |-> 0, until |-> 0, seen |-> 0]]
      /\ bucket = [tokens |-> RaBurst, refill |-> 0] /\ aclock = 1 /\ wrong = 0
  BY Zenon DEF RaInit
<1>3. bucket \in [tokens : 0..RaBurst, refill : 0..aclock]
  <2>1. RaBurst \in 0..RaBurst /\ 0 \in 0..1 BY <1>1, SMT
  <2>2. QED BY <1>2, <2>1, Zenon
<1>4. RaRefill * (wrong + bucket.tokens) <= RaRefill * RaBurst + bucket.refill
  <2>1. RaRefill * (0 + RaBurst) <= RaRefill * RaBurst + 0 BY <1>1, SMT
  <2>2. wrong = 0 /\ bucket.tokens = RaBurst /\ bucket.refill = 0 BY <1>2, Zenon
  <2>3. QED BY <2>1, <2>2, Zenon
<1>5. [host |-> "", fails |-> 0, until |-> 0, seen |-> 0] \in SourceRecord
  <2>1. 0 \in Nat BY SMT
  <2>2. QED BY <2>1, Zenon DEF SourceRecord
<1>6. asrc \in [1..RaSlots -> SourceRecord] /\ \A i \in 1..RaSlots : asrc[i].until = 0 BY <1>2, <1>5, Zenon
<1>7. 0 <= aclock + RaDelayMax /\ aclock \in Nat /\ wrong \in Nat
  <2>1. aclock = 1 /\ wrong = 0 BY <1>2
  <2>2. 0 <= 1 + RaDelayMax /\ 1 \in Nat /\ 0 \in Nat BY <1>1, SMT
  <2>3. QED BY <2>1, <2>2, Zenon
<1>8. QED BY <1>3, <1>4, <1>6, <1>7, Zenon DEF GuessInv

LEMMA GuessHolds == ASSUME GuessInv PROVE GuessesCost
<1>1. RaRefill \in Nat \ {0} /\ RaBurst \in Nat BY RhdRequestsConstants
<1>2. /\ wrong \in Nat /\ aclock \in Nat /\ bucket.tokens \in 0..RaBurst /\ bucket.refill \in 0..aclock
      /\ RaRefill * (wrong + bucket.tokens) <= RaRefill * RaBurst + bucket.refill
  BY DEF GuessInv
<1>3. aclock \div RaRefill \in Nat BY <1>1, <1>2, SMT
<1>4. CASE wrong <= RaBurst BY <1>1, <1>2, <1>3, <1>4, SMT DEF GuessesCost, GuessInv
<1>5. CASE wrong > RaBurst
  <2> DEFINE over == wrong - RaBurst
  <2>1. over \in Nat /\ wrong = RaBurst + over BY <1>1, <1>2, <1>5, SMT
  <2> HIDE DEF over
  <2>2. RaRefill * (wrong + bucket.tokens) = RaRefill * RaBurst + (RaRefill * over + RaRefill * bucket.tokens)
    BY <1>1, <1>2, <2>1, SMT
  <2>3. RaRefill * RaBurst \in Nat /\ RaRefill * over \in Nat /\ RaRefill * bucket.tokens \in Nat
    BY <1>1, <1>2, <2>1, SMT
  <2>4. RaRefill * over <= aclock
    <3> DEFINE y == RaRefill * RaBurst
               z == RaRefill * over
               v == RaRefill * bucket.tokens
    <3>1. y + (z + v) <= y + bucket.refill BY <1>2, <2>2, Zenon
    <3>2. y \in Nat /\ z \in Nat /\ v \in Nat BY <2>3
    <3> HIDE DEF y, z, v
    <3>3. z <= aclock BY <1>2, <3>1, <3>2, SMT
    <3>4. QED BY <3>3 DEF z
  <2>5. over <= aclock \div RaRefill BY <1>1, <1>2, <2>1, <2>4, SMT
  <2>6. wrong <= RaBurst + aclock \div RaRefill BY <1>1, <1>3, <2>1, <2>5, SMT
  <2>7. QED BY <2>6, Zenon DEF GuessesCost, GuessInv
<1>6. QED BY <1>1, <1>2, <1>4, <1>5, SMT

-----------------------------------------------------------------------------
(* rwd's media path.  A client that has lost a frame waits for a keyframe, *)
(* at the gate or at the queue; its thread has transports to send with.    *)
Entry == [key : BOOLEAN, cont : BOOLEAN]
MediaInv ==
    /\ wcl \in [media : BOOLEAN, sending : BOOLEAN, wait : BOOLEAN]
    /\ wq \in Seq(Entry) /\ wneed \in BOOLEAN /\ wshut \in BOOLEAN /\ wlost \in BOOLEAN
    /\ whand \in {{}} \cup {{f} : f \in Frames} /\ wfly \in Entry
    /\ wcl.sending /\ wlost => wcl.wait \/ wneed
    /\ \A i \in DOMAIN wq : wq[i].key \/ wq[i].cont
    /\ wthr = "send" => wfly.key \/ wfly.cont
    /\ wcl.sending => wthr # "off" /\ wmain # "join"
    /\ wthr # "off" => wcl.media

LEMMA WHandedFrame ==
    ASSUME MediaInv, whand # NoHand
    PROVE  (CHOOSE f \in whand : TRUE).key \in BOOLEAN
<1>1. PICK f \in Frames : whand = {f} BY Zenon DEF MediaInv, NoHand
<1>2. (CHOOSE g \in whand : TRUE) = f BY <1>1, Zenon
<1>3. f.key \in BOOLEAN BY Zenon DEF Frames
<1>4. QED BY <1>2, <1>3, Zenon

\* What a push or a purge leaves behind, as the next frame finds it.
LEMMA PushSound ==
    ASSUME MediaInv, NEW key \in BOOLEAN, SendqPush(key), wcl.sending, ~(wcl.wait /\ ~key)
    PROVE  /\ wq' \in Seq(Entry) /\ wneed' \in BOOLEAN /\ wshut' \in BOOLEAN /\ wlost' \in BOOLEAN
           /\ \A i \in DOMAIN wq' : wq'[i].key \/ wq'[i].cont
           /\ \E w \in BOOLEAN : wcl' = [wcl EXCEPT !.wait = w] /\ (wlost' => w \/ wneed')
<1>1. /\ wq \in Seq(Entry) /\ wneed \in BOOLEAN /\ wshut \in BOOLEAN /\ wlost \in BOOLEAN
      /\ \A i \in DOMAIN wq : wq[i].key \/ wq[i].cont
      /\ wcl.sending /\ wlost => wcl.wait \/ wneed
  BY Zenon DEF MediaInv
<1>2. <<>> \in Seq(Entry) /\ DOMAIN <<>> = {} BY SMT
<1>3. CASE UNCHANGED queue /\ wlost' = TRUE /\ wcl' = [wcl EXCEPT !.wait = TRUE]
  BY <1>1, <1>3, Zenon DEF queue
<1>4. CASE Purge /\ wshut' = wshut /\ wcl' = [wcl EXCEPT !.wait = TRUE]
  BY <1>1, <1>2, <1>4, Zenon DEF Purge
<1>5. CASE /\ ~(wneed /\ ~key)
           /\ wq' = Append(wq, [key |-> key, cont |-> ~wlost])
           /\ wneed' = FALSE /\ wlost' = FALSE /\ wshut' = wshut
           /\ wcl' = [wcl EXCEPT !.wait = FALSE]
  <2> DEFINE e == [key |-> key, cont |-> ~wlost]
  <2>1. e \in Entry /\ (e.key \/ e.cont)
    <3>1. e \in Entry BY Zenon DEF Entry
    <3>2. e.key = key /\ e.cont = ~wlost BY Zenon
    <3>3. key \/ ~wlost BY <1>1, <1>5, Zenon
    <3>4. QED BY <3>1, <3>2, <3>3, Zenon
  <2>2. wq' = Append(wq, e) BY <1>5, Zenon
  <2> HIDE DEF e
  <2>3. wq' \in Seq(Entry) /\ Len(wq') = Len(wq) + 1 /\ Len(wq) \in Nat /\ wq'[Len(wq) + 1] = e
        /\ \A i \in 1..Len(wq) : wq'[i] = wq[i]
    BY <1>1, <2>1, <2>2, AppendProperties, LenProperties
  <2>4. ASSUME NEW i \in DOMAIN wq' PROVE wq'[i].key \/ wq'[i].cont
    <3>1. i \in 1..(Len(wq) + 1) BY <2>3, <2>4
    <3>2. CASE i \in 1..Len(wq)
      <4>1. i \in DOMAIN wq BY <1>1, <3>2
      <4>2. QED BY <4>1, <3>2, <2>3, <1>1, Zenon
    <3>3. CASE i = Len(wq) + 1 BY <3>3, <2>3, <2>1, Zenon
    <3>4. QED BY <3>1, <3>2, <3>3, <2>3, SMT
  <2>5. QED BY <1>1, <1>5, <2>3, <2>4, Zenon
<1>6. SendqFail => UNCHANGED queue \/ (Purge /\ wshut' = wshut) BY Zenon DEF SendqFail
<1>7. QED BY <1>3, <1>4, <1>5, <1>6, Zenon DEF SendqPush

\* The queue, the gate and the rest of a step together.
LEMMA MediaStep ==
    ASSUME MediaInv, WNext \/ UNCHANGED mvars
    PROVE  MediaInv'
<1>1. /\ wcl \in [media : BOOLEAN, sending : BOOLEAN, wait : BOOLEAN]
      /\ wq \in Seq(Entry) /\ wneed \in BOOLEAN /\ wshut \in BOOLEAN /\ wlost \in BOOLEAN
      /\ whand \in {{}} \cup {{f} : f \in Frames} /\ wfly \in Entry
      /\ wcl.sending /\ wlost => wcl.wait \/ wneed
      /\ \A i \in DOMAIN wq : wq[i].key \/ wq[i].cont
      /\ wthr = "send" => wfly.key \/ wfly.cont
      /\ wcl.sending => wthr # "off" /\ wmain # "join"
      /\ wthr # "off" => wcl.media
  BY Zenon DEF MediaInv
<1>2. <<>> \in Seq(Entry) /\ DOMAIN <<>> = {} /\ WNoFrame \in Entry /\ {} \in {{}} \cup {{f} : f \in Frames}
  <2>1. <<>> \in Seq(Entry) /\ DOMAIN <<>> = {} BY SMT
  <2>2. WNoFrame \in Entry /\ {} \in {{}} \cup {{f} : f \in Frames} BY Zenon DEF WNoFrame, Entry
  <2>3. QED BY <2>1, <2>2
<1>3. CASE UNCHANGED mvars BY <1>3, Zenon DEF MediaInv, mvars
<1>4. CASE Idle BY <1>1, <1>4, Zenon DEF Idle, queue, sender, MediaInv
<1>5. CASE WReopen
  <2>1. PICK c \in {"h264", "h265"} : wcl' = [wcl EXCEPT !.sending = @ /\ c = wring.codec] BY <1>5, Zenon DEF WReopen
  <2>2. /\ wcl' \in [media : BOOLEAN, sending : BOOLEAN, wait : BOOLEAN]
        /\ wcl'.wait = wcl.wait /\ wcl'.media = wcl.media /\ (wcl'.sending => wcl.sending)
    BY <1>1, <2>1, Zenon
  <2>3. UNCHANGED <<wq, wneed, wshut, wthr, wfly, wmain, whand, wlost>> BY <1>5, Zenon DEF WReopen, queue, sender
  <2>4. QED BY <1>1, <2>2, <2>3, Zenon DEF MediaInv
<1>6. CASE GateAll
  <2>1. wcl' = [wcl EXCEPT !.wait = TRUE] /\ wlost' = TRUE /\ UNCHANGED <<wq, wneed, wshut, wthr, wfly, wmain, whand>>
    BY <1>6, Zenon DEF GateAll, queue, sender
  <2>2. /\ wcl' \in [media : BOOLEAN, sending : BOOLEAN, wait : BOOLEAN]
        /\ wcl'.wait = TRUE /\ wcl'.media = wcl.media /\ wcl'.sending = wcl.sending
    BY <1>1, <2>1, Zenon
  <2>3. QED BY <1>1, <2>1, <2>2, Zenon DEF MediaInv
<1>7. CASE WReadFrame
  <2>1. PICK f \in Frames : whand' = {f} BY <1>7, Zenon DEF WReadFrame
  <2>2. UNCHANGED <<wcl, wq, wneed, wshut, wthr, wfly, wmain, wlost>> BY <1>7, Zenon DEF WReadFrame, queue, sender
  <2>3. whand' \in {{}} \cup {{g} : g \in Frames} BY <2>1, Zenon
  <2>4. QED BY <1>1, <2>2, <2>3, Zenon DEF MediaInv
<1>8. CASE HandOut
  <2> DEFINE k == (CHOOSE f \in whand : TRUE).key
  <2>1. k \in BOOLEAN BY <1>8, WHandedFrame, Zenon DEF HandOut
  <2>2. whand' = {} /\ UNCHANGED <<wthr, wfly, wmain>> BY <1>8, Zenon DEF HandOut, sender, NoHand
  <2>3. \/ /\ ~wcl.sending \/ (wcl.wait /\ ~k) \/ wthr = "off"
           /\ wlost' = TRUE /\ UNCHANGED queue
           /\ wcl' = [wcl EXCEPT !.wait = @ /\ ~(wcl.sending /\ k)]
        \/ /\ wcl.sending /\ ~(wcl.wait /\ ~k) /\ SendqPush(k)
    BY <1>8, Zenon DEF HandOut
  <2> HIDE DEF k
  <2>4. CASE /\ ~wcl.sending \/ (wcl.wait /\ ~k) \/ wthr = "off"
             /\ wlost' = TRUE /\ UNCHANGED queue
             /\ wcl' = [wcl EXCEPT !.wait = @ /\ ~(wcl.sending /\ k)]
    <3> DEFINE w == wcl.wait /\ ~(wcl.sending /\ k)
    <3>1. /\ wcl' \in [media : BOOLEAN, sending : BOOLEAN, wait : BOOLEAN]
          /\ wcl'.wait = w /\ wcl'.media = wcl.media /\ wcl'.sending = wcl.sending
      BY <1>1, <2>4, Zenon
    <3>2. wcl.sending => w BY <1>1, <2>4, Zenon
    <3>3. UNCHANGED <<wq, wneed, wshut>> BY <2>4, Zenon DEF queue
    <3> HIDE DEF w
    <3>4. QED BY <1>1, <1>2, <2>2, <2>4, <3>1, <3>2, <3>3, Zenon DEF MediaInv
  <2>5. CASE wcl.sending /\ ~(wcl.wait /\ ~k) /\ SendqPush(k)
    <3>1. /\ wq' \in Seq(Entry) /\ wneed' \in BOOLEAN /\ wshut' \in BOOLEAN /\ wlost' \in BOOLEAN
          /\ \A i \in DOMAIN wq' : wq'[i].key \/ wq'[i].cont
          /\ \E w \in BOOLEAN : wcl' = [wcl EXCEPT !.wait = w] /\ (wlost' => w \/ wneed')
      BY <2>1, <2>5, PushSound, Zenon
    <3>2. PICK w \in BOOLEAN : wcl' = [wcl EXCEPT !.wait = w] /\ (wlost' => w \/ wneed') BY <3>1, Zenon
    <3>3. /\ wcl' \in [media : BOOLEAN, sending : BOOLEAN, wait : BOOLEAN]
          /\ wcl'.wait = w /\ wcl'.media = wcl.media /\ wcl'.sending = wcl.sending
      BY <1>1, <3>2, Zenon
    <3>4. QED BY <1>1, <1>2, <2>2, <3>1, <3>2, <3>3, Zenon DEF MediaInv
  <2>6. QED BY <2>3, <2>4, <2>5, Zenon
<1>9. CASE Pop
  <2>1. UNCHANGED <<wcl, wneed, wshut, wmain, whand, wlost>> /\ wthr = "pop" BY <1>9, Zenon DEF Pop, reader
  <2>2. CASE wthr' = "done" /\ UNCHANGED <<wq, wfly>> BY <1>1, <2>1, <2>2, Zenon DEF MediaInv
  <2>3. CASE /\ wq # <<>> /\ wfly' = Head(wq) /\ wq' = Tail(wq) /\ wthr' \in {"send", "pop"}
    <3>1. wq' \in Seq(Entry) /\ 1 \in DOMAIN wq /\ wfly' = wq[1] BY <1>1, <2>3
    <3>2. ASSUME NEW i \in DOMAIN wq' PROVE wq'[i].key \/ wq'[i].cont
      <4>1. i + 1 \in DOMAIN wq /\ wq'[i] = wq[i + 1] BY <1>1, <2>3, <3>2
      <4>2. QED BY <4>1, <1>1, Zenon
    <3>3. wfly' \in Entry BY <1>1, <3>1
    <3>4. wfly'.key \/ wfly'.cont BY <3>1, <1>1, Zenon
    <3>5. QED BY <1>1, <2>1, <2>3, <3>1, <3>2, <3>3, <3>4, Zenon DEF MediaInv
  <2>4. QED BY <1>9, <2>2, <2>3, Zenon DEF Pop
<1>10. CASE WSendEnd
  <2>1. UNCHANGED <<wcl, wfly, wmain, whand>> /\ wthr = "send" /\ wthr' = "pop" BY <1>10, Zenon DEF WSendEnd, reader
  <2>2. UNCHANGED <<wq, wneed, wshut, wlost>> \/ (Purge /\ wshut' = wshut)
    BY <1>10, Zenon DEF WSendEnd, SendqFail, queue
  <2>3. CASE UNCHANGED <<wq, wneed, wshut, wlost>> BY <1>1, <2>1, <2>3, Zenon DEF MediaInv
  <2>4. CASE Purge /\ wshut' = wshut
    <3>1. wq' = <<>> /\ wneed' = TRUE /\ wlost' = TRUE BY <2>4, Zenon DEF Purge
    <3>2. QED BY <1>1, <1>2, <2>1, <2>4, <3>1, Zenon DEF MediaInv
  <2>5. QED BY <2>2, <2>3, <2>4, Zenon
<1>11. CASE MediaSetup
  <2>1. /\ wcl' = [media |-> TRUE, sending |-> TRUE, wait |-> TRUE] /\ wq' = <<>> /\ wneed' = FALSE /\ wshut' = FALSE
        /\ wthr' = "pop" /\ wfly' = WNoFrame /\ wlost' = TRUE /\ wmain = "idle" /\ wmain' = wmain /\ whand' = whand
    BY <1>11, Zenon DEF MediaSetup, reader
  <2>2. /\ wcl' \in [media : BOOLEAN, sending : BOOLEAN, wait : BOOLEAN]
        /\ wcl'.wait = TRUE /\ wcl'.media = TRUE
    BY <2>1, Zenon
  <2>3. QED BY <1>1, <1>2, <2>1, <2>2, Zenon DEF MediaInv
<1>12. CASE Teardown
  <2>1. /\ wcl' = [wcl EXCEPT !.sending = FALSE] /\ wshut' = TRUE
        /\ UNCHANGED <<wq, wneed, wthr, wfly, whand, wlost>>
    BY <1>12, Zenon DEF Teardown, sender, reader
  <2>2. /\ wcl' \in [media : BOOLEAN, sending : BOOLEAN, wait : BOOLEAN]
        /\ wcl'.media = wcl.media /\ wcl'.sending = FALSE
    BY <1>1, <2>1, Zenon
  <2>3. QED BY <1>1, <2>1, <2>2, Zenon DEF MediaInv
<1>13. CASE Joined
  <2>1. /\ wcl' = [wcl EXCEPT !.media = FALSE] /\ wq' = <<>> /\ wthr' = "off" /\ wfly' = WNoFrame /\ wmain = "join"
        /\ UNCHANGED <<wneed, wshut, whand, wlost>>
    BY <1>13, Zenon DEF Joined, reader
  <2>2. /\ wcl' \in [media : BOOLEAN, sending : BOOLEAN, wait : BOOLEAN] /\ wcl'.sending = wcl.sending
    BY <1>1, <2>1, Zenon
  <2>3. wcl'.sending = FALSE BY <1>1, <2>1, <2>2, Zenon
  <2>4. QED BY <1>1, <1>2, <2>1, <2>2, <2>3, Zenon DEF MediaInv
<1>14. QED BY <1>3, <1>4, <1>5, <1>6, <1>7, <1>8, <1>9, <1>10, <1>11, <1>12, <1>13, Zenon DEF WNext, WReader, Sender

LEMMA MediaStart == ASSUME WInit PROVE MediaInv
<1>1. <<>> \in Seq(Entry) /\ DOMAIN <<>> = {} BY SMT
<1>2. WNoFrame \in Entry /\ {} \in {{}} \cup {{f} : f \in Frames} BY Zenon DEF WNoFrame, Entry
<1>3. /\ wcl = [media |-> FALSE, sending |-> FALSE, wait |-> FALSE] /\ wq = <<>> /\ wneed = FALSE /\ wshut = FALSE
      /\ wthr = "off" /\ wfly = WNoFrame /\ whand = {} /\ wlost = TRUE
  BY Zenon DEF WInit, NoHand
<1>4. wcl \in [media : BOOLEAN, sending : BOOLEAN, wait : BOOLEAN] /\ wcl.sending = FALSE BY <1>3, Zenon
<1>5. QED BY <1>1, <1>2, <1>3, <1>4, Zenon DEF MediaInv

LEMMA MediaHolds == ASSUME MediaInv PROVE WireDecodable /\ TransportsHeld
BY Zenon DEF MediaInv, WireDecodable, TransportsHeld

-----------------------------------------------------------------------------
(* rsp's connection.  What the server was told is of the ring being read. *)
CnRecord == [up : BOOLEAN, header_sent : BOOLEAN, wait_key : BOOLEAN, params : Params,
             hdr : Params, ahdr : {"none", "sent", "failed"}, joined : BOOLEAN]
PuFrame == [key : BOOLEAN, set : PuSets]
VrRecord == [open : BOOLEAN, unread : Seq(PuFrame), lapped : BOOLEAN, idr : BOOLEAN,
             dead : BOOLEAN, codec : {PuCodec[s] : s \in PuSets}, idle : Nat]
PsRecord == [mode : {"rtmp", "udp"}, pushing : BOOLEAN, was : BOOLEAN, wait : Nat,
             reopen : BOOLEAN, at : {"top", "media"}]
PushTyped ==
    /\ prod \in [set : PuSets, since : Nat] /\ vr \in VrRecord /\ ps \in PsRecord /\ cn \in CnRecord
    /\ aud \in BOOLEAN

\* The frames to read, and the parameters taken from some of them, are of the ring's codec.
OfCodec(u, codec) == \A i \in DOMAIN u : PuCodec[u[i].set] = codec
RingTold(p, r, params) ==
    /\ r.open /\ ~r.dead => PuCodec[p.set] = r.codec
    /\ OfCodec(r.unread, r.codec)
    /\ params \in PuSets => PuCodec[params] = r.codec

\* And so are the headers this connection was sent, before a keyframe of it.
ServerTold(s, c, codec, a) ==
    /\ s.at = "media" => c.up
    /\ s.mode = "udp" /\ c.up /\ ~c.wait_key => c.joined
    /\ s.mode = "rtmp" /\ c.header_sent =>
         /\ c.up /\ (c.params # "none" => c.joined)
         /\ c.hdr # "none" /\ (c.hdr \in PuSets => PuCodec[c.hdr] = codec)
         /\ a => c.ahdr # "none"
PushInv ==
    PushTyped /\ RingTold(prod, vr, cn.params) /\ ServerTold(ps, cn, vr.codec, aud) /\ WireDescribed

LEMMA PushConstants ==
    PuWait \in Nat /\ PuGop \in Nat /\ "none" \notin PuSets /\ "bad" \notin PuSets
BY RspPushConstants

LEMMA NothingSent == ASSUME wire' = NoFrame PROVE WireDescribed'
<1>1. NoFrame.kind = "none" BY Zenon DEF NoFrame
<1>2. wire'.kind = "none" BY <1>1, Zenon
<1>3. QED BY <1>2, Zenon DEF WireDescribed

\* The queue of frames to read.
LEMMA UnreadGrows ==
    ASSUME NEW u \in Seq(PuFrame), NEW f \in PuFrame, NEW codec, OfCodec(u, codec), PuCodec[f.set] = codec
    PROVE  /\ Append(u, f) \in Seq(PuFrame) /\ OfCodec(Append(u, f), codec)
           /\ <<f>> \in Seq(PuFrame) /\ OfCodec(<<f>>, codec)
<1> DEFINE z == Append(u, f)
<1>1. z \in Seq(PuFrame) /\ Len(z) = Len(u) + 1 /\ Len(u) \in Nat /\ z[Len(u) + 1] = f
      /\ \A i \in 1..Len(u) : z[i] = u[i]
  BY AppendProperties, LenProperties
<1> HIDE DEF z
<1>2. ASSUME NEW i \in DOMAIN z PROVE PuCodec[z[i].set] = codec
  <2>1. i \in 1..(Len(u) + 1) BY <1>1, <1>2
  <2>2. CASE i \in 1..Len(u)
    <3>1. i \in DOMAIN u BY <2>2
    <3>2. QED BY <3>1, <2>2, <1>1, Zenon DEF OfCodec
  <2>3. CASE i = Len(u) + 1 BY <2>3, <1>1, Zenon
  <2>4. QED BY <2>1, <2>2, <2>3, <1>1, SMT
<1>3. OfCodec(z, codec) BY <1>2, Zenon DEF OfCodec
<1>4. <<f>> \in Seq(PuFrame) /\ DOMAIN <<f>> = {1} /\ <<f>>[1] = f BY SMT
<1>5. OfCodec(<<f>>, codec) BY <1>4, Zenon DEF OfCodec
<1>6. QED BY <1>1, <1>3, <1>4, <1>5 DEF z

LEMMA UnreadShrinks ==
    ASSUME NEW u \in Seq(PuFrame), u # <<>>, NEW codec, OfCodec(u, codec)
    PROVE  /\ Tail(u) \in Seq(PuFrame) /\ OfCodec(Tail(u), codec)
           /\ Head(u) \in PuFrame /\ PuCodec[Head(u).set] = codec
<1>1. Tail(u) \in Seq(PuFrame) /\ Head(u) = u[1] /\ 1 \in DOMAIN u /\ u[1] \in PuFrame OBVIOUS
<1>2. ASSUME NEW i \in DOMAIN Tail(u) PROVE PuCodec[Tail(u)[i].set] = codec
  <2>1. i + 1 \in DOMAIN u /\ Tail(u)[i] = u[i + 1] BY <1>2
  <2>2. QED BY <2>1, Zenon DEF OfCodec
<1>3. OfCodec(Tail(u), codec) BY <1>2, Zenon DEF OfCodec
<1>4. PuCodec[Head(u).set] = codec BY <1>1, Zenon DEF OfCodec
<1>5. QED BY <1>1, <1>3, <1>4

\* A connection that is let go of has been told nothing.
LEMMA Disconnected ==
    ASSUME NEW c \in CnRecord
    PROVE  /\ rsp_disconnect(c) \in CnRecord /\ rsp_disconnect(c).up = FALSE
           /\ rsp_disconnect(c).header_sent = FALSE /\ rsp_disconnect(c).params = c.params
<1> DEFINE x == [c EXCEPT !.up = FALSE]
           y == [c EXCEPT !.hdr = "none", !.ahdr = "none", !.joined = FALSE]
           z == [y EXCEPT !.up = FALSE]
<1>1. "none" \in Params BY Zenon DEF Params
<1>2. x \in CnRecord /\ x.up = FALSE /\ x.params = c.params BY Zenon DEF CnRecord
<1>3. y \in CnRecord /\ y.params = c.params BY <1>1, Zenon DEF CnRecord
<1> HIDE DEF y
<1>4. z \in CnRecord /\ z.up = FALSE /\ z.params = c.params BY <1>3, Zenon DEF CnRecord
<1>5. rsp_disconnect(c) = [x EXCEPT !.header_sent = FALSE] \/ rsp_disconnect(c) = [z EXCEPT !.header_sent = FALSE]
  BY Zenon DEF rsp_disconnect, rsp_net_close, rsp_rtmp_disconnect, Fresh, y
<1> HIDE DEF x, z
<1>6. CASE rsp_disconnect(c) = [x EXCEPT !.header_sent = FALSE] BY <1>2, <1>6, Zenon DEF CnRecord
<1>7. CASE rsp_disconnect(c) = [z EXCEPT !.header_sent = FALSE] BY <1>4, <1>7, Zenon DEF CnRecord
<1>8. QED BY <1>5, <1>6, <1>7

\* The server, when the connection goes: whatever the loop does with the rest of the pass.
LEMMA ToldNothing ==
    ASSUME NEW s, NEW c \in CnRecord, c.up = FALSE, c.header_sent = FALSE, s.at = "top", NEW codec, NEW a
    PROVE  ServerTold(s, c, codec, a)
BY Zenon DEF ServerTold

\* The loop's own state changes, and the server is told nothing new.
LEMMA PassOn ==
    ASSUME PushInv, ps' \in PsRecord, ps'.mode = ps.mode, ps'.at = ps.at \/ ps'.at = "top",
           UNCHANGED <<cn, aud>>, vr'.codec = vr.codec
    PROVE  ServerTold(ps', cn', vr'.codec, aud')
BY Zenon DEF PushInv, ServerTold

\* The encoder and the producer's restarts.
LEMMA EncoderSteps ==
    ASSUME PushInv, PuProduce \/ Restart \/ Resize
    PROVE  PushInv'
<1>1. /\ prod \in [set : PuSets, since : Nat] /\ vr \in VrRecord /\ ps \in PsRecord /\ cn \in CnRecord /\ aud \in BOOLEAN
      /\ RingTold(prod, vr, cn.params)
  BY Zenon DEF PushInv, PushTyped
<1>2. UNCHANGED <<ps, cn, aud>> /\ wire' = NoFrame BY Zenon DEF PuProduce, Restart, Resize
<1>3. WireDescribed' BY <1>2, NothingSent
<1>4. ASSUME vr' \in VrRecord, prod' \in [set : PuSets, since : Nat], vr'.codec = vr.codec,
             RingTold(prod', vr', cn.params)
      PROVE  PushInv'
  <2>1. ServerTold(ps', cn', vr'.codec, aud') BY <1>1, <1>2, <1>4, PassOn, Zenon
  <2>2. QED BY <1>1, <1>2, <1>3, <1>4, <2>1, Zenon DEF PushInv, PushTyped
<1>5. PuGop \in Nat BY PushConstants
<1>6. CASE PuProduce
  <2> DEFINE f == [key |-> Due = "key", set |-> prod.set]
             n == IF f.key THEN 0 ELSE prod.since + 1
  <2>1. prod.since \in Nat /\ prod.set \in PuSets BY <1>1, Zenon
  <2>2. f \in PuFrame /\ f.set = prod.set BY <2>1, Zenon DEF PuFrame
  <2>3. n \in Nat
    <3>1. prod.since + 1 \in Nat /\ 0 \in Nat BY <2>1, SMT
    <3>2. QED BY <3>1, Zenon
  <2>4. prod' = [prod EXCEPT !.since = n] BY <1>6, Zenon DEF PuProduce
  <2>5. \/ vr' = vr
        \/ vr.open /\ ~vr.dead /\ vr' = [vr EXCEPT !.unread = Append(@, f), !.idr = FALSE]
        \/ vr.open /\ ~vr.dead /\ vr' = [vr EXCEPT !.unread = <<f>>, !.lapped = TRUE, !.idr = FALSE]
    BY <1>6, Zenon DEF PuProduce
  <2> HIDE DEF f, n
  <2>6. prod' \in [set : PuSets, since : Nat] /\ prod'.set = prod.set BY <1>1, <2>3, <2>4, Zenon
  <2>7. vr.unread \in Seq(PuFrame) BY <1>1, Zenon DEF VrRecord
  <2>8. CASE vr' = vr BY <1>1, <1>4, <2>6, <2>8, Zenon DEF RingTold
  <2>9. ASSUME NEW u \in Seq(PuFrame), OfCodec(u, vr.codec), vr'.unread = u, vr' \in VrRecord,
               vr'.codec = vr.codec, vr'.open = vr.open, vr'.dead = vr.dead
        PROVE  PushInv'
    BY <1>1, <1>4, <2>6, <2>9, Zenon DEF RingTold
  <2>10. CASE vr.open /\ ~vr.dead
    <3>1. PuCodec[f.set] = vr.codec /\ OfCodec(vr.unread, vr.codec) BY <1>1, <2>2, <2>10, Zenon DEF RingTold
    <3> DEFINE u1 == Append(vr.unread, f)
               u2 == <<f>>
    <3>2. u1 \in Seq(PuFrame) /\ OfCodec(u1, vr.codec) /\ u2 \in Seq(PuFrame) /\ OfCodec(u2, vr.codec)
      BY <2>2, <2>7, <3>1, UnreadGrows, Zenon
    <3>3. \/ vr' = vr
          \/ vr' = [vr EXCEPT !.unread = u1, !.idr = FALSE]
          \/ vr' = [vr EXCEPT !.unread = u2, !.lapped = TRUE, !.idr = FALSE]
      BY <2>5, Zenon
    <3> HIDE DEF u1, u2
    <3>4. CASE vr' = [vr EXCEPT !.unread = u1, !.idr = FALSE]
      <4>1. vr' \in VrRecord /\ vr'.unread = u1 /\ vr'.codec = vr.codec /\ vr'.open = vr.open /\ vr'.dead = vr.dead
        BY <1>1, <3>2, <3>4, Zenon DEF VrRecord
      <4>2. QED BY <4>1, <3>2, <2>9, Zenon
    <3>5. CASE vr' = [vr EXCEPT !.unread = u2, !.lapped = TRUE, !.idr = FALSE]
      <4>1. vr' \in VrRecord /\ vr'.unread = u2 /\ vr'.codec = vr.codec /\ vr'.open = vr.open /\ vr'.dead = vr.dead
        BY <1>1, <3>2, <3>5, Zenon DEF VrRecord
      <4>2. QED BY <4>1, <3>2, <2>9, Zenon
    <3>6. QED BY <3>3, <3>4, <3>5, <2>8
  <2>11. QED BY <2>5, <2>8, <2>10, Zenon
<1>7. CASE Restart
  <2>1. PICK s \in PuSets : prod' = [set |-> s, since |-> PuGop] BY <1>7, Zenon DEF Restart
  <2>2. prod' \in [set : PuSets, since : Nat] BY <1>5, <2>1, Zenon
  <2>3. vr' = [vr EXCEPT !.dead = @ \/ vr.open] BY <1>7, Zenon DEF Restart
  <2>4. /\ vr' \in VrRecord /\ vr'.codec = vr.codec /\ vr'.unread = vr.unread
        /\ vr'.open = vr.open /\ vr'.dead = (vr.dead \/ vr.open)
    BY <1>1, <2>3, Zenon DEF VrRecord
  <2>5. RingTold(prod', vr', cn.params) BY <1>1, <2>4, Zenon DEF RingTold
  <2>6. QED BY <1>4, <2>2, <2>4, <2>5, Zenon
<1>8. CASE Resize
  <2>1. PICK s \in PuSets : PuCodec[s] = PuCodec[prod.set] /\ prod' = [set |-> s, since |-> PuGop]
    BY <1>8, Zenon DEF Resize
  <2>2. vr' = vr BY <1>8, Zenon DEF Resize
  <2>3. prod' \in [set : PuSets, since : Nat] /\ prod'.set = s BY <1>5, <2>1, Zenon
  <2>4. RingTold(prod', vr', cn.params) BY <1>1, <2>1, <2>2, <2>3, Zenon DEF RingTold
  <2>5. QED BY <1>1, <1>4, <2>2, <2>3, <2>4, Zenon
<1>9. QED BY <1>6, <1>7, <1>8, Zenon

\* Steps of the loop that read nothing: the ring and what is in it stay.
LEMMA RingStays ==
    ASSUME PushInv, ps' \in PsRecord, cn' \in CnRecord, cn'.params = cn.params \/ cn'.params = "none",
           vr' = vr \/ \E i \in BOOLEAN : vr' = [vr EXCEPT !.idr = i],
           ServerTold(ps', cn', vr.codec, aud), UNCHANGED <<prod, aud>>, wire' = NoFrame
    PROVE  PushInv'
<1>1. prod \in [set : PuSets, since : Nat] /\ vr \in VrRecord /\ aud \in BOOLEAN /\ RingTold(prod, vr, cn.params)
  BY Zenon DEF PushInv, PushTyped
<1>2. /\ vr' \in VrRecord /\ vr'.codec = vr.codec /\ vr'.unread = vr.unread
      /\ vr'.open = vr.open /\ vr'.dead = vr.dead
  <2>1. CASE vr' = vr BY <1>1, <2>1, Zenon
  <2>2. ASSUME NEW i \in BOOLEAN, vr' = [vr EXCEPT !.idr = i] 
        PROVE  /\ vr' \in VrRecord /\ vr'.codec = vr.codec /\ vr'.unread = vr.unread
               /\ vr'.open = vr.open /\ vr'.dead = vr.dead
    BY <1>1, <2>2, Zenon DEF VrRecord
  <2>3. QED BY <2>1, <2>2, Zenon
<1>3. RingTold(prod', vr', cn'.params) BY <1>1, <1>2, PushConstants, Zenon DEF RingTold
<1>4. WireDescribed' BY NothingSent
<1>5. ServerTold(ps', cn', vr'.codec, aud') BY <1>2, Zenon
<1>6. QED BY <1>1, <1>2, <1>3, <1>4, <1>5, Zenon DEF PushInv, PushTyped

LEMMA TopSteps ==
    ASSUME PushInv, rsp_ctrl_handler \/ ReopenFails \/ NotPushing \/ BackOff
    PROVE  PushInv'
<1>1. ps \in PsRecord /\ cn \in CnRecord /\ ServerTold(ps, cn, vr.codec, aud) BY Zenon DEF PushInv, PushTyped
<1>2. wire' = NoFrame /\ UNCHANGED <<prod, vr, aud>>
  BY Zenon DEF rsp_ctrl_handler, ReopenFails, NotPushing, BackOff
\* The connection stays, or goes.
<1>3. ASSUME ps' \in PsRecord, ps'.mode = ps.mode, ps'.at = "top", cn' = cn \/ cn' = rsp_disconnect(cn)
      PROVE  PushInv'
  <2>1. CASE cn' = cn
    <3>1. vr'.codec = vr.codec /\ UNCHANGED <<cn, aud>> BY <1>2, <2>1, Zenon
    <3>2. ServerTold(ps', cn', vr'.codec, aud') BY <1>3, <3>1, PassOn, Zenon
    <3>3. ServerTold(ps', cn', vr.codec, aud) BY <3>2, <1>2, Zenon
    <3>4. QED BY <1>1, <1>2, <1>3, <2>1, <3>3, RingStays, Zenon
  <2>2. CASE cn' = rsp_disconnect(cn)
    <3>1. cn' \in CnRecord /\ cn'.up = FALSE /\ cn'.header_sent = FALSE /\ cn'.params = cn.params
      BY <1>1, <2>2, Disconnected, Zenon
    <3>2. ServerTold(ps', cn', vr.codec, aud) BY <1>3, <3>1, ToldNothing, Zenon
    <3>3. QED BY <1>2, <1>3, <3>1, <3>2, RingStays, Zenon
  <2>3. QED BY <1>3, <2>1, <2>2
<1>4. CASE rsp_ctrl_handler
  <2>1. ps.at = "top" /\ (cn' = cn \/ cn' = rsp_disconnect(cn)) BY <1>4, Zenon DEF rsp_ctrl_handler
  <2>2. \/ ps' = [ps EXCEPT !.pushing = TRUE] \/ ps' = [ps EXCEPT !.pushing = FALSE]
        \/ ps' = [ps EXCEPT !.reopen = ps.mode = "udp"]
    BY <1>4, Zenon DEF rsp_ctrl_handler
  <2>3. ps' \in PsRecord /\ ps'.mode = ps.mode /\ ps'.at = "top" BY <1>1, <2>1, <2>2, Zenon DEF PsRecord
  <2>4. QED BY <1>3, <2>1, <2>3, Zenon
<1>5. CASE ReopenFails
  <2>1. ps' = [ps EXCEPT !.at = "top"] /\ cn' = cn BY <1>5, Zenon DEF ReopenFails, PassEnds
  <2>2. ps' \in PsRecord /\ ps'.mode = ps.mode /\ ps'.at = "top" BY <1>1, <2>1, Zenon DEF PsRecord
  <2>3. QED BY <1>3, <2>1, <2>2, Zenon
<1>6. CASE NotPushing
  <2> DEFINE w == IF ps.was THEN 0 ELSE ps.wait
  <2>1. w \in Nat
    <3>1. ps.wait \in Nat BY <1>1, Zenon DEF PsRecord
    <3>2. 0 \in Nat BY SMT
    <3>3. QED BY <3>1, <3>2, Zenon
  <2>2. ps.at = "top" /\ ps' = [ps EXCEPT !.was = FALSE, !.wait = w] /\ (cn' = cn \/ cn' = rsp_disconnect(cn))
    BY <1>6, Zenon DEF NotPushing, Stopped
  <2> HIDE DEF w
  <2>3. ps' \in PsRecord /\ ps'.mode = ps.mode /\ ps'.at = "top" BY <1>1, <2>1, <2>2, Zenon DEF PsRecord
  <2>4. QED BY <1>3, <2>2, <2>3, Zenon
<1>7. CASE BackOff
  <2> DEFINE w == ps.wait - 1
  <2>1. ps.at = "top" /\ ps.wait > 1 /\ ps' = [ps EXCEPT !.wait = w] /\ cn' = cn BY <1>7, Zenon DEF BackOff
  <2>2. ps.wait \in Nat BY <1>1, Zenon DEF PsRecord
  <2>3. w \in Nat BY <2>1, <2>2, SMT
  <2> HIDE DEF w
  <2>4. ps' \in PsRecord /\ ps'.mode = ps.mode /\ ps'.at = "top" BY <1>1, <2>1, <2>3, Zenon DEF PsRecord
  <2>5. QED BY <1>3, <2>1, <2>4, Zenon
<1>8. QED BY <1>4, <1>5, <1>6, <1>7, Zenon

LEMMA ConnectSteps ==
    ASSUME PushInv, ConnectRtmp \/ ConnectUdp
    PROVE  PushInv'
<1>1. ps \in PsRecord /\ cn \in CnRecord /\ vr \in VrRecord /\ ServerTold(ps, cn, vr.codec, aud) BY Zenon DEF PushInv, PushTyped
<1>2. wire' = NoFrame /\ UNCHANGED <<prod, aud>> /\ ps.at = "top" BY Zenon DEF ConnectRtmp, ConnectUdp, Ready
<1>3. PuWait \in Nat /\ 0 \in Nat
  <2>1. 0 \in Nat BY SMT
  <2>2. QED BY <2>1, PushConstants
<1>4. "none" \in Params BY Zenon DEF Params
<1> DEFINE y == [cn EXCEPT !.hdr = "none", !.ahdr = "none", !.joined = FALSE]
<1>5. y \in CnRecord /\ y.params = cn.params /\ y.header_sent = cn.header_sent BY <1>1, <1>4, Zenon DEF CnRecord
<1>6. CASE ConnectRtmp
  <2>1. ps.mode = "rtmp" /\ vr' = vr BY <1>6, Zenon DEF ConnectRtmp
  <2>2. CASE cn.up /\ ps' = [ps EXCEPT !.wait = 0, !.at = "media"] /\ UNCHANGED cn
    <3>1. ps' \in PsRecord /\ ps'.mode = ps.mode /\ ps'.at = "media" BY <1>1, <1>3, <2>2, Zenon DEF PsRecord
    <3>2. ServerTold(ps', cn', vr.codec, aud) BY <1>1, <2>2, <3>1, Zenon DEF ServerTold
    <3>3. QED BY <1>1, <1>2, <2>1, <2>2, <3>1, <3>2, RingStays, Zenon
  <2>3. CASE ~cn.up /\ cn' = NewConn(cn) /\ ps' = [ps EXCEPT !.wait = 0, !.was = TRUE, !.at = "media"]
    <3>1. ps' \in PsRecord /\ ps'.mode = ps.mode /\ ps'.at = "media" BY <1>1, <1>3, <2>3, Zenon DEF PsRecord
    <3>2. cn' = [y EXCEPT !.up = TRUE, !.header_sent = FALSE] BY <2>3, Zenon DEF NewConn, Fresh
    <3> HIDE DEF y
    <3>3. cn' \in CnRecord /\ cn'.up = TRUE /\ cn'.header_sent = FALSE /\ cn'.params = cn.params
      BY <1>5, <3>2, Zenon DEF CnRecord
    <3>4. ServerTold(ps', cn', vr.codec, aud) BY <2>1, <3>1, <3>3, Zenon DEF ServerTold
    <3>5. QED BY <1>2, <2>1, <3>1, <3>3, <3>4, RingStays, Zenon
  <2>4. CASE ~cn.up /\ cn' = rsp_rtmp_disconnect(cn) /\ ps' = [ps EXCEPT !.wait = PuWait]
    <3>1. ps' \in PsRecord /\ ps'.mode = ps.mode /\ ps'.at = "top" BY <1>1, <1>2, <1>3, <2>4, Zenon DEF PsRecord
    <3>2. cn' = [y EXCEPT !.up = FALSE] BY <2>4, Zenon DEF rsp_rtmp_disconnect, Fresh
    <3> HIDE DEF y
    <3>3. cn' \in CnRecord /\ cn'.up = FALSE /\ cn'.header_sent = cn.header_sent /\ cn'.params = cn.params
      BY <1>5, <3>2, Zenon DEF CnRecord
    <3>4. ~cn.header_sent BY <1>1, <2>1, <2>4, Zenon DEF ServerTold
    <3>5. ServerTold(ps', cn', vr.codec, aud) BY <2>1, <3>1, <3>3, <3>4, Zenon DEF ServerTold
    <3>6. QED BY <1>2, <2>1, <3>1, <3>3, <3>5, RingStays, Zenon
  <2>5. QED BY <1>6, <2>2, <2>3, <2>4, Zenon DEF ConnectRtmp
<1>7. CASE ConnectUdp
  <2> DEFINE closed == IF ps.reopen THEN rsp_net_close(cn) ELSE cn
             rest == [ps EXCEPT !.wait = 0, !.reopen = FALSE]
  <2>1. ps.mode = "udp" BY <1>7, Zenon DEF ConnectUdp
  <2>2. rest \in PsRecord /\ rest.mode = ps.mode /\ rest.at = "top" BY <1>1, <1>2, <1>3, Zenon DEF PsRecord
  <2>3. closed \in CnRecord /\ closed.params = cn.params
    <3> DEFINE x == [cn EXCEPT !.up = FALSE]
    <3>1. x \in CnRecord /\ x.params = cn.params BY <1>1, Zenon DEF CnRecord
    <3>2. closed = x \/ closed = cn BY Zenon DEF rsp_net_close
    <3> HIDE DEF x, closed
    <3>3. QED BY <1>1, <3>1, <3>2, Zenon
  <2>4. ~(cn.up /\ ~ps.reopen) => ~closed.up
    <3>1. [cn EXCEPT !.up = FALSE].up = FALSE BY <1>1, Zenon DEF CnRecord
    <3>2. QED BY <3>1, Zenon DEF rsp_net_close
  <2>5. \/ (cn.up /\ ~ps.reopen) /\ ps' = [rest EXCEPT !.at = "media"] /\ cn' = cn /\ vr' = vr
        \/ /\ cn' = rsp_net_open(closed) /\ ps' = [rest EXCEPT !.at = "media", !.was = TRUE]
           /\ vr' = [vr EXCEPT !.idr = @ \/ vr.open]
        \/ ~(cn.up /\ ~ps.reopen) /\ cn' = closed /\ ps' = [rest EXCEPT !.wait = PuWait] /\ vr' = vr
    BY <1>7, Zenon DEF ConnectUdp
  <2> HIDE DEF closed, rest
  <2>6. CASE (cn.up /\ ~ps.reopen) /\ ps' = [rest EXCEPT !.at = "media"] /\ cn' = cn /\ vr' = vr
    <3>1. ps' \in PsRecord /\ ps'.mode = ps.mode BY <2>2, <2>6, Zenon DEF PsRecord
    <3>2. ServerTold(ps', cn', vr.codec, aud) BY <1>1, <2>1, <2>6, <3>1, Zenon DEF ServerTold
    <3>3. QED BY <1>1, <1>2, <2>6, <3>1, <3>2, RingStays, Zenon
  <2>7. CASE /\ cn' = rsp_net_open(closed) /\ ps' = [rest EXCEPT !.at = "media", !.was = TRUE]
             /\ vr' = [vr EXCEPT !.idr = @ \/ vr.open]
    <3>1. ps' \in PsRecord /\ ps'.mode = ps.mode BY <2>2, <2>7, Zenon DEF PsRecord
    <3> DEFINE z == [closed EXCEPT !.hdr = "none", !.ahdr = "none", !.joined = FALSE]
    <3>2. z \in CnRecord /\ z.params = cn.params BY <1>4, <2>3, Zenon DEF CnRecord
    <3>3. cn' = [z EXCEPT !.up = TRUE, !.wait_key = TRUE] BY <2>7, Zenon DEF rsp_net_open, Fresh
    <3> HIDE DEF z
    <3>4. cn' \in CnRecord /\ cn'.up = TRUE /\ cn'.wait_key = TRUE /\ cn'.params = cn.params
      BY <3>2, <3>3, Zenon DEF CnRecord
    <3>5. ServerTold(ps', cn', vr.codec, aud) BY <2>1, <3>1, <3>4, Zenon DEF ServerTold
    <3>6. \E i \in BOOLEAN : vr' = [vr EXCEPT !.idr = i] BY <2>7, Zenon
    <3>7. QED BY <1>2, <3>1, <3>4, <3>5, <3>6, RingStays, Zenon
  <2>8. CASE ~(cn.up /\ ~ps.reopen) /\ cn' = closed /\ ps' = [rest EXCEPT !.wait = PuWait] /\ vr' = vr
    <3>1. ps' \in PsRecord /\ ps'.mode = ps.mode /\ ps'.at = "top" BY <1>3, <2>2, <2>8, Zenon DEF PsRecord
    <3>2. cn' \in CnRecord /\ ~cn'.up /\ cn'.params = cn.params BY <2>3, <2>4, <2>8, Zenon
    <3>3. ServerTold(ps', cn', vr.codec, aud) BY <2>1, <3>1, <3>2, Zenon DEF ServerTold
    <3>4. QED BY <1>2, <2>8, <3>1, <3>2, <3>3, RingStays, Zenon
  <2>9. QED BY <2>5, <2>6, <2>7, <2>8, Zenon
<1>8. QED BY <1>6, <1>7, Zenon

\* The rest of a pass but for a frame that is sent.
LEMMA AttachStep ==
    ASSUME PushInv, AttachAudio
    PROVE  PushInv'
<1>1. /\ prod \in [set : PuSets, since : Nat] /\ vr \in VrRecord /\ ps \in PsRecord /\ cn \in CnRecord
      /\ RingTold(prod, vr, cn.params) /\ ServerTold(ps, cn, vr.codec, aud)
  BY Zenon DEF PushInv, PushTyped
<1>2. UNCHANGED <<prod, vr, ps>> /\ aud' = TRUE /\ ps.mode = "rtmp" /\ wire' = NoFrame BY Zenon DEF AttachAudio
<1>3. \/ \E a \in {"sent", "failed"} : cn' = [cn EXCEPT !.ahdr = a]
      \/ ~cn.header_sent /\ cn' = cn
  BY Zenon DEF AttachAudio, rsp_rtmp_send_audio_header
<1>4. WireDescribed' BY <1>2, NothingSent
<1>5. ASSUME NEW a \in {"sent", "failed"}, cn' = [cn EXCEPT !.ahdr = a] PROVE PushInv'
  <2>1. /\ cn' \in CnRecord /\ cn'.ahdr = a /\ cn'.up = cn.up /\ cn'.header_sent = cn.header_sent
        /\ cn'.params = cn.params /\ cn'.hdr = cn.hdr /\ cn'.joined = cn.joined
    BY <1>1, <1>5, Zenon DEF CnRecord
  <2>2. a # "none" BY <1>5, Zenon
  <2>3. ServerTold(ps', cn', vr'.codec, aud') BY <1>1, <1>2, <2>1, <2>2, Zenon DEF ServerTold
  <2>4. RingTold(prod', vr', cn'.params) BY <1>1, <1>2, <2>1, Zenon
  <2>5. QED BY <1>1, <1>2, <1>4, <2>1, <2>3, <2>4, Zenon DEF PushInv, PushTyped
<1>6. CASE ~cn.header_sent /\ cn' = cn
  <2>1. ServerTold(ps', cn', vr'.codec, aud') BY <1>1, <1>2, <1>6, Zenon DEF ServerTold
  <2>2. QED BY <1>1, <1>2, <1>4, <1>6, <2>1, Zenon DEF PushInv, PushTyped
<1>7. QED BY <1>3, <1>5, <1>6, Zenon

LEMMA ReopenStep ==
    ASSUME PushInv, ReopenVideo
    PROVE  PushInv'
<1>1. prod \in [set : PuSets, since : Nat] /\ ps \in PsRecord /\ cn \in CnRecord /\ aud \in BOOLEAN
  BY Zenon DEF PushInv, PushTyped
<1>2. prod' = prod /\ aud' = aud /\ wire' = NoFrame /\ ps' = [ps EXCEPT !.at = "top"]
  BY Zenon DEF ReopenVideo, PassEnds
<1>3. cn' = [cn EXCEPT !.params = "none", !.header_sent = FALSE, !.joined = FALSE,
                       !.wait_key = @ \/ ps.mode = "udp"]
  BY Zenon DEF ReopenVideo
<1>4. PICK rest \in {<<>>, Newest} : vr' = Opened(rest) BY Zenon DEF ReopenVideo
<1>5. prod.set \in PuSets BY <1>1, Zenon
<1> DEFINE codec == PuCodec[prod.set]
<1>6. rest \in Seq(PuFrame) /\ OfCodec(rest, codec)
  <2> DEFINE k == [key |-> TRUE, set |-> prod.set]
             d == [key |-> FALSE, set |-> prod.set]
  <2>1. k \in PuFrame /\ k.set = prod.set /\ d \in PuFrame /\ d.set = prod.set BY <1>5, Zenon DEF PuFrame
  <2>2. rest = <<>> \/ rest = <<k>> \/ rest = <<d>> BY <1>4, Zenon DEF Newest
  <2> HIDE DEF k, d
  <2>3. <<>> \in Seq(PuFrame) /\ DOMAIN <<>> = {} BY SMT
  <2>4. OfCodec(<<>>, codec) BY <2>3, Zenon DEF OfCodec
  <2>5. <<k>> \in Seq(PuFrame) /\ OfCodec(<<k>>, codec) /\ <<d>> \in Seq(PuFrame) /\ OfCodec(<<d>>, codec)
    BY <2>1, <2>3, <2>4, UnreadGrows, Zenon
  <2>6. QED BY <2>2, <2>3, <2>4, <2>5, Zenon
<1>7. vr' \in VrRecord /\ vr'.codec = codec /\ vr'.unread = rest
  <2>1. codec \in {PuCodec[s] : s \in PuSets} BY <1>5, Zenon
  <2>2. 0 \in Nat BY SMT
  <2> HIDE DEF codec
  <2>3. vr' = [open |-> TRUE, unread |-> rest, lapped |-> rest # <<>>, dead |-> FALSE, idle |-> 0,
               idr |-> ps.mode = "udp", codec |-> codec]
    BY <1>4, Zenon DEF Opened, codec
  <2>4. QED BY <1>6, <2>1, <2>2, <2>3, Zenon DEF VrRecord
<1>8. "none" \in Params BY Zenon DEF Params
<1>9. /\ cn' \in CnRecord /\ cn'.params = "none" /\ cn'.header_sent = FALSE
      /\ cn'.wait_key = (cn.wait_key \/ ps.mode = "udp")
  BY <1>1, <1>3, <1>8, Zenon DEF CnRecord
<1>10. ps' \in PsRecord /\ ps'.mode = ps.mode /\ ps'.at = "top" BY <1>1, <1>2, Zenon DEF PsRecord
<1>11. RingTold(prod', vr', cn'.params) BY <1>2, <1>6, <1>7, <1>9, PushConstants, Zenon DEF RingTold
<1>12. ServerTold(ps', cn', vr'.codec, aud') BY <1>9, <1>10, Zenon DEF ServerTold
<1>13. WireDescribed' BY <1>2, NothingSent
<1>14. QED BY <1>1, <1>2, <1>7, <1>9, <1>10, <1>11, <1>12, <1>13, Zenon DEF PushInv, PushTyped

LEMMA ReadNothingSteps ==
    ASSUME PushInv, IdleVideo \/ ReadFails
    PROVE  PushInv'
<1>1. /\ prod \in [set : PuSets, since : Nat] /\ vr \in VrRecord /\ ps \in PsRecord /\ cn \in CnRecord /\ aud \in BOOLEAN
      /\ RingTold(prod, vr, cn.params)
  BY Zenon DEF PushInv, PushTyped
<1>2. UNCHANGED <<prod, cn, aud>> /\ wire' = NoFrame /\ ps' = [ps EXCEPT !.at = "top"]
  BY Zenon DEF IdleVideo, ReadFails, PassEnds
<1>3. ps' \in PsRecord /\ ps'.mode = ps.mode /\ ps'.at = "top" BY <1>1, <1>2, Zenon DEF PsRecord
<1>4. vr.unread \in Seq(PuFrame) /\ OfCodec(vr.unread, vr.codec) BY <1>1, Zenon DEF VrRecord, RingTold
<1>5. ASSUME vr' \in VrRecord, vr'.codec = vr.codec, vr'.open /\ ~vr'.dead => vr.open /\ ~vr.dead,
             OfCodec(vr'.unread, vr.codec)
      PROVE  PushInv'
  <2>1. ServerTold(ps', cn', vr'.codec, aud') BY <1>2, <1>3, <1>5, PassOn, Zenon
  <2>2. RingTold(prod', vr', cn'.params) BY <1>1, <1>2, <1>5, Zenon DEF RingTold
  <2>3. WireDescribed' BY <1>2, NothingSent
  <2>4. QED BY <1>1, <1>2, <1>3, <1>5, <2>1, <2>2, <2>3, Zenon DEF PushInv, PushTyped
<1>6. CASE IdleVideo
  <2> DEFINE n == vr.idle + 1
  <2>1. \/ vr' = [vr EXCEPT !.idle = n]
        \/ vr' = [vr EXCEPT !.open = FALSE, !.idle = 0, !.dead = FALSE, !.idr = FALSE]
    BY <1>6, Zenon DEF IdleVideo
  <2>2. vr.idle \in Nat BY <1>1, Zenon DEF VrRecord
  <2>3. n \in Nat /\ 0 \in Nat BY <2>2, SMT
  <2> HIDE DEF n
  <2>4. CASE vr' = [vr EXCEPT !.idle = n]
    <3>1. vr' \in VrRecord /\ vr'.codec = vr.codec /\ vr'.open = vr.open /\ vr'.dead = vr.dead /\ vr'.unread = vr.unread
      BY <1>1, <2>3, <2>4, Zenon DEF VrRecord
    <3>2. QED BY <1>4, <1>5, <3>1, Zenon
  <2>5. CASE vr' = [vr EXCEPT !.open = FALSE, !.idle = 0, !.dead = FALSE, !.idr = FALSE]
    <3>1. vr' \in VrRecord /\ vr'.codec = vr.codec /\ vr'.open = FALSE /\ vr'.unread = vr.unread
      BY <1>1, <2>3, <2>5, Zenon DEF VrRecord
    <3>2. QED BY <1>4, <1>5, <3>1, Zenon
  <2>6. QED BY <2>1, <2>4, <2>5
<1>7. CASE ReadFails
  <2> DEFINE u == Tail(vr.unread)
  <2>1. /\ vr.unread # <<>>
        /\ vr' = [vr EXCEPT !.lapped = FALSE, !.idr = TRUE] \/ vr' = [vr EXCEPT !.unread = u]
    BY <1>7, Zenon DEF ReadFails
  <2>2. u \in Seq(PuFrame) /\ OfCodec(u, vr.codec) BY <1>4, <2>1, UnreadShrinks, Zenon
  <2> HIDE DEF u
  <2>3. CASE vr' = [vr EXCEPT !.lapped = FALSE, !.idr = TRUE]
    <3>1. vr' \in VrRecord /\ vr'.codec = vr.codec /\ vr'.open = vr.open /\ vr'.dead = vr.dead /\ vr'.unread = vr.unread
      BY <1>1, <2>3, Zenon DEF VrRecord
    <3>2. QED BY <1>4, <1>5, <3>1, Zenon
  <2>4. CASE vr' = [vr EXCEPT !.unread = u]
    <3>1. vr' \in VrRecord /\ vr'.codec = vr.codec /\ vr'.open = vr.open /\ vr'.dead = vr.dead /\ vr'.unread = u
      BY <1>1, <2>2, <2>4, Zenon DEF VrRecord
    <3>2. QED BY <2>2, <1>5, <3>1, Zenon
  <2>5. QED BY <2>1, <2>3, <2>4
<1>8. QED BY <1>6, <1>7, Zenon

\* A frame is taken from the ring.
LEMMA PeekedRing ==
    ASSUME PushInv, vr.unread # <<>>, NEW torn \in BOOLEAN
    PROVE  /\ Peeked(vr, torn) \in VrRecord /\ Peeked(vr, torn).codec = vr.codec
           /\ \A params : (params \in PuSets => PuCodec[params] = vr.codec) => RingTold(prod, Peeked(vr, torn), params)
           /\ Head(vr.unread) \in PuFrame /\ PuCodec[Head(vr.unread).set] = vr.codec
<1> DEFINE u == Tail(vr.unread)
           i == vr.idr \/ torn
           z == [vr EXCEPT !.unread = u, !.idle = 0, !.idr = i]
<1>1. vr \in VrRecord /\ RingTold(prod, vr, cn.params) BY Zenon DEF PushInv, PushTyped
<1>2. vr.unread \in Seq(PuFrame) /\ OfCodec(vr.unread, vr.codec) BY <1>1, Zenon DEF VrRecord, RingTold
<1>3. u \in Seq(PuFrame) /\ OfCodec(u, vr.codec) /\ Head(vr.unread) \in PuFrame /\ PuCodec[Head(vr.unread).set] = vr.codec
  BY <1>2, UnreadShrinks, Zenon
<1>4. 0 \in Nat BY SMT
<1>5. Peeked(vr, torn) = z BY Zenon DEF Peeked
<1> HIDE DEF u
<1>6. z \in VrRecord /\ z.codec = vr.codec /\ z.open = vr.open /\ z.dead = vr.dead /\ z.unread = u
  BY <1>1, <1>3, <1>4, Zenon DEF VrRecord
<1> HIDE DEF z
<1>7. ASSUME NEW params, params \in PuSets => PuCodec[params] = vr.codec PROVE RingTold(prod, z, params)
  BY <1>1, <1>3, <1>6, <1>7, Zenon DEF RingTold
<1>8. QED BY <1>3, <1>5, <1>6, <1>7, Zenon

LEMMA UnreadyConn ==
    ASSUME NEW c \in CnRecord, NEW torn \in BOOLEAN
    PROVE  LET x == Unready(c, torn) IN
           /\ x \in CnRecord /\ x.up = c.up /\ x.header_sent = c.header_sent /\ x.wait_key = c.wait_key
           /\ x.hdr = c.hdr /\ x.ahdr = c.ahdr /\ x.joined = c.joined
           /\ torn => x.params = "none"
           /\ ~torn => x.params = c.params
<1>1. "none" \in Params BY Zenon DEF Params
<1>2. CASE torn
  <2>1. Unready(c, torn) = [c EXCEPT !.params = "none"] BY <1>2, Zenon DEF Unready
  <2>2. QED BY <1>1, <1>2, <2>1, Zenon DEF CnRecord
<1>3. CASE ~torn
  <2>1. Unready(c, torn) = c BY <1>3, Zenon DEF Unready
  <2>2. QED BY <1>3, <2>1, Zenon
<1>4. QED BY <1>2, <1>3, Zenon

LEMMA SendUdpStep ==
    ASSUME PushInv, SendUdp
    PROVE  PushInv'
<1>1. /\ prod \in [set : PuSets, since : Nat] /\ ps \in PsRecord /\ cn \in CnRecord /\ aud \in BOOLEAN
      /\ RingTold(prod, vr, cn.params) /\ ServerTold(ps, cn, vr.codec, aud)
  BY Zenon DEF PushInv, PushTyped
<1>2. ps.at = "media" /\ ps.mode = "udp" /\ vr.unread # <<>> /\ ps' = [ps EXCEPT !.at = "top"] /\ UNCHANGED <<prod, aud>>
  BY Zenon DEF SendUdp, Media, PassEnds
<1>3. ps' \in PsRecord /\ ps'.mode = "udp" /\ ps'.at = "top" BY <1>1, <1>2, Zenon DEF PsRecord
<1>4. cn.up /\ (cn.params \in PuSets => PuCodec[cn.params] = vr.codec) BY <1>1, <1>2, Zenon DEF ServerTold, RingTold
<1> DEFINE f == Head(vr.unread)
           j == cn.joined \/ f.key
           c == [cn EXCEPT !.wait_key = FALSE, !.joined = j]
<1>5. PICK torn \in BOOLEAN :
        /\ vr' = Peeked(vr, torn)
        /\ IF Joins(f) THEN cn' = Unready(c, torn) /\ wire' = [kind |-> "video", key |-> f.key, set |-> f.set]
           ELSE cn' = Unready(cn, torn) /\ wire' = NoFrame
  BY Zenon DEF SendUdp
<1>6. /\ vr' \in VrRecord /\ vr'.codec = vr.codec /\ f \in PuFrame
      /\ \A params : (params \in PuSets => PuCodec[params] = vr.codec) => RingTold(prod, vr', params)
  BY <1>2, <1>5, PeekedRing, Zenon
<1> HIDE DEF f
<1>7. f.key \in BOOLEAN BY <1>6, Zenon DEF PuFrame
<1>8. CASE Joins(f)
  <2>1. cn.joined \in BOOLEAN BY <1>1, Zenon DEF CnRecord
  <2>2. j = TRUE BY <1>1, <1>2, <1>4, <1>7, <1>8, <2>1, Zenon DEF Joins, ServerTold
  <2>3. j \in BOOLEAN BY <2>2, Zenon
  <2> HIDE DEF j
  <2>4. c \in CnRecord /\ c.up = cn.up /\ c.joined = j /\ c.params = cn.params BY <1>1, <2>3, Zenon DEF CnRecord
  <2>5. cn' = Unready(c, torn) /\ wire' = [kind |-> "video", key |-> f.key, set |-> f.set] BY <1>5, <1>8, Zenon
  <2> HIDE DEF c
  <2>6. cn' \in CnRecord /\ cn'.up = c.up /\ cn'.joined = c.joined /\ (cn'.params = "none" \/ cn'.params = c.params)
    BY <2>4, <2>5, UnreadyConn, Zenon
  <2>7. ServerTold(ps', cn', vr'.codec, aud') BY <1>3, <2>2, <2>4, <2>6, Zenon DEF ServerTold
  <2>8. RingTold(prod', vr', cn'.params)
    <3>1. cn'.params \in PuSets => PuCodec[cn'.params] = vr.codec BY <1>4, <2>4, <2>6, PushConstants, Zenon
    <3>2. QED BY <1>2, <1>6, <3>1, Zenon
  <2>9. wire'.kind = "video" BY <2>5, Zenon
  <2>10. WireDescribed' BY <1>3, <1>4, <2>2, <2>4, <2>6, <2>9, Zenon DEF WireDescribed
  <2>11. QED BY <1>1, <1>2, <1>3, <1>6, <2>6, <2>7, <2>8, <2>10, Zenon DEF PushInv, PushTyped
<1>9. CASE ~Joins(f)
  <2>1. cn' = Unready(cn, torn) /\ wire' = NoFrame BY <1>5, <1>9, Zenon
  <2>2. /\ cn' \in CnRecord /\ cn'.up = cn.up /\ cn'.joined = cn.joined /\ cn'.wait_key = cn.wait_key
        /\ (cn'.params = "none" \/ cn'.params = cn.params)
    BY <1>1, <2>1, UnreadyConn, Zenon
  <2>3. ServerTold(ps', cn', vr'.codec, aud') BY <1>1, <1>2, <1>3, <2>2, Zenon DEF ServerTold
  <2>4. RingTold(prod', vr', cn'.params)
    <3>1. cn'.params \in PuSets => PuCodec[cn'.params] = vr.codec BY <1>4, <2>2, PushConstants, Zenon
    <3>2. QED BY <1>2, <1>6, <3>1, Zenon
  <2>5. WireDescribed' BY <2>1, NothingSent
  <2>6. QED BY <1>1, <1>2, <1>3, <1>6, <2>2, <2>3, <2>4, <2>5, Zenon DEF PushInv, PushTyped
<1>10. QED BY <1>8, <1>9

\* The parameters a frame of the ring gives, and the connection once they are told.
LEMMA ExtractedParams ==
    ASSUME PushInv, NEW f \in PuFrame, PuCodec[f.set] = vr.codec, NEW torn \in BOOLEAN, NEW p \in Extracted(f, torn)
    PROVE  /\ p \in Params /\ (p \in PuSets => PuCodec[p] = vr.codec)
           /\ p # "none" /\ cn.params = "none" => f.key
<1>1. cn \in CnRecord /\ RingTold(prod, vr, cn.params) BY Zenon DEF PushInv, PushTyped
<1>2. p = cn.params \/ (f.key /\ (p = f.set \/ p = "bad")) BY Zenon DEF Extracted
<1>3. cn.params \in Params /\ f.set \in PuSets BY <1>1, Zenon DEF CnRecord, PuFrame
<1>4. QED BY <1>1, <1>2, <1>3, PushConstants, Zenon DEF RingTold, Params

LEMMA HeadersTold ==
    ASSUME PushInv, NEW f \in PuFrame, NEW p \in Params
    PROVE  /\ Headers(p, f) \in CnRecord /\ Headers(p, f).params = p /\ Headers(p, f).up = cn.up
           /\ Headers(p, f).joined = cn.joined
           /\ cn.header_sent \/ ~f.key =>
                /\ Headers(p, f).header_sent = cn.header_sent /\ Headers(p, f).hdr = cn.hdr
                /\ Headers(p, f).ahdr = cn.ahdr
           /\ ~(cn.header_sent \/ ~f.key) =>
                /\ Headers(p, f).header_sent = TRUE /\ Headers(p, f).hdr = p
                /\ aud => Headers(p, f).ahdr = "sent"
<1>1. cn \in CnRecord /\ aud \in BOOLEAN BY Zenon DEF PushInv, PushTyped
<1> DEFINE c == [cn EXCEPT !.params = p]
           v == [c EXCEPT !.hdr = p]
           w == [v EXCEPT !.header_sent = TRUE]
           x == [w EXCEPT !.ahdr = "sent"]
<1>2. /\ c \in CnRecord /\ c.params = p /\ c.up = cn.up /\ c.joined = cn.joined
      /\ c.header_sent = cn.header_sent /\ c.hdr = cn.hdr /\ c.ahdr = cn.ahdr
  BY <1>1, Zenon DEF CnRecord
<1>3. CASE cn.header_sent \/ ~f.key
  <2>1. Headers(p, f) = c BY <1>3, Zenon DEF Headers
  <2> HIDE DEF c
  <2>2. QED BY <1>2, <1>3, <2>1, Zenon
<1>4. CASE ~(cn.header_sent \/ ~f.key)
  <2>1. Headers(p, f) = IF aud THEN x ELSE w
    BY <1>4, Zenon DEF Headers, rsp_send_headers, rsp_rtmp_send_video_header, rsp_rtmp_send_audio_header
  <2> HIDE DEF c
  <2>2. v \in CnRecord /\ v.params = p /\ v.up = cn.up /\ v.joined = cn.joined /\ v.hdr = p
    BY <1>2, Zenon DEF CnRecord
  <2> HIDE DEF v
  <2>3. w \in CnRecord /\ w.params = p /\ w.up = cn.up /\ w.joined = cn.joined /\ w.hdr = p /\ w.header_sent = TRUE
    BY <2>2, Zenon DEF CnRecord
  <2> HIDE DEF w
  <2>4. /\ x \in CnRecord /\ x.params = p /\ x.up = cn.up /\ x.joined = cn.joined /\ x.hdr = p /\ x.header_sent = TRUE
        /\ x.ahdr = "sent"
    BY <2>3, Zenon DEF CnRecord
  <2> HIDE DEF x
  <2>5. CASE aud
    <3>1. Headers(p, f) = x BY <2>1, <2>5, Zenon
    <3>2. QED BY <1>4, <2>4, <3>1, Zenon
  <2>6. CASE ~aud
    <3>1. Headers(p, f) = w BY <2>1, <2>6, Zenon
    <3>2. QED BY <1>4, <2>3, <2>6, <3>1, Zenon
  <2>7. QED BY <2>5, <2>6
<1>5. QED BY <1>3, <1>4

LEMMA VideoRtmpStep ==
    ASSUME PushInv, VideoRtmp
    PROVE  PushInv'
<1>1. /\ prod \in [set : PuSets, since : Nat] /\ ps \in PsRecord /\ cn \in CnRecord /\ aud \in BOOLEAN
      /\ RingTold(prod, vr, cn.params) /\ ServerTold(ps, cn, vr.codec, aud)
  BY Zenon DEF PushInv, PushTyped
<1>2. ps.at = "media" /\ ps.mode = "rtmp" /\ vr.unread # <<>> /\ UNCHANGED <<prod, aud>>
  BY Zenon DEF VideoRtmp, Media
<1>3. cn.up BY <1>1, <1>2, Zenon DEF ServerTold
<1> DEFINE f == Head(vr.unread)
<1>4. PICK torn \in BOOLEAN : \E p \in Extracted(f, torn) :
        vr' = Peeked(vr, torn) /\ (SkipRtmp(f, torn, p) \/ SendRtmp(f, torn, p) \/ SendFails(f, torn, p))
  BY Zenon DEF VideoRtmp
<1>5. PICK p \in Extracted(f, torn) :
        vr' = Peeked(vr, torn) /\ (SkipRtmp(f, torn, p) \/ SendRtmp(f, torn, p) \/ SendFails(f, torn, p))
  BY <1>4, Zenon
<1>6. /\ vr' \in VrRecord /\ vr'.codec = vr.codec /\ f \in PuFrame /\ PuCodec[f.set] = vr.codec
      /\ \A params : (params \in PuSets => PuCodec[params] = vr.codec) => RingTold(prod, vr', params)
  BY <1>2, <1>5, PeekedRing, Zenon
<1> HIDE DEF f
<1>7. /\ p \in Params /\ (p \in PuSets => PuCodec[p] = vr.codec)
      /\ p # "none" /\ cn.params = "none" => f.key
  BY <1>5, <1>6, ExtractedParams, Zenon
<1>8. f.key \in BOOLEAN BY <1>6, Zenon DEF PuFrame
<1> DEFINE h == Headers(p, f)
<1>9. /\ h \in CnRecord /\ h.params = p /\ h.up = cn.up /\ h.joined = cn.joined
      /\ cn.header_sent \/ ~f.key => h.header_sent = cn.header_sent /\ h.hdr = cn.hdr /\ h.ahdr = cn.ahdr
      /\ ~(cn.header_sent \/ ~f.key) => h.header_sent = TRUE /\ h.hdr = p /\ (aud => h.ahdr = "sent")
  BY <1>6, <1>7, HeadersTold, Zenon
\* What the headers say is of the ring's codec, whether they were sent now or before.
<1>10. p # "none" /\ h.header_sent =>
         h.hdr # "none" /\ (h.hdr \in PuSets => PuCodec[h.hdr] = vr.codec) /\ (aud => h.ahdr # "none")
  <2>1. CASE cn.header_sent \/ ~f.key BY <1>1, <1>2, <1>9, <2>1, Zenon DEF ServerTold
  <2>2. CASE ~(cn.header_sent \/ ~f.key)
    <3>1. h.hdr = p /\ (aud => h.ahdr = "sent") BY <1>9, <2>2, Zenon
    <3> HIDE DEF h
    <3>2. QED BY <1>7, <3>1, Zenon
  <2>3. QED BY <2>1, <2>2
<1> HIDE DEF h
<1>11. ASSUME cn' \in CnRecord, ps' \in PsRecord, ServerTold(ps', cn', vr.codec, aud), WireDescribed',
              cn'.params \in {p, cn.params, "none"}
       PROVE  PushInv'
  <2>1. cn'.params \in PuSets => PuCodec[cn'.params] = vr.codec BY <1>1, <1>7, <1>11, PushConstants, Zenon DEF RingTold
  <2>2. RingTold(prod', vr', cn'.params) BY <1>2, <1>6, <2>1, Zenon
  <2>3. ServerTold(ps', cn', vr'.codec, aud') BY <1>2, <1>6, <1>11, Zenon
  <2>4. QED BY <1>1, <1>2, <1>6, <1>11, <2>2, <2>3, Zenon DEF PushInv, PushTyped
<1>12. ASSUME PassEnds PROVE ps' \in PsRecord /\ ps'.mode = "rtmp" /\ ps'.at = "top"
  BY <1>1, <1>2, <1>12, Zenon DEF PsRecord, PassEnds
<1>13. CASE SkipRtmp(f, torn, p)
  <2> DEFINE none == [cn EXCEPT !.params = p]
             c == IF p = "none" THEN none ELSE h
  <2>1. /\ torn \/ p = "none" \/ ~c.header_sent
        /\ cn' = Unready(c, torn) /\ PassEnds /\ wire' = NoFrame
    BY <1>13, Zenon DEF SkipRtmp, h
  <2>2. /\ none \in CnRecord /\ none.params = p /\ none.up = cn.up /\ none.joined = cn.joined
        /\ none.header_sent = cn.header_sent /\ none.hdr = cn.hdr /\ none.ahdr = cn.ahdr
    BY <1>1, <1>7, Zenon DEF CnRecord
  <2> HIDE DEF none
  <2>3. /\ c \in CnRecord /\ c.params = p /\ c.up = cn.up
        /\ c.header_sent => c.hdr # "none" /\ (c.hdr \in PuSets => PuCodec[c.hdr] = vr.codec) /\ (aud => c.ahdr # "none")
    <3>1. CASE p = "none"
      <4>1. c = none BY <3>1, Zenon
      <4> HIDE DEF c
      <4>2. QED BY <1>1, <1>2, <2>2, <4>1, Zenon DEF ServerTold
    <3>2. CASE p # "none"
      <4>1. c = h BY <3>2, Zenon
      <4> HIDE DEF c
      <4>2. QED BY <1>9, <1>10, <3>2, <4>1, Zenon
    <3>3. QED BY <3>1, <3>2
  <2> HIDE DEF c
  <2>4. /\ cn' \in CnRecord /\ cn'.up = c.up /\ cn'.header_sent = c.header_sent /\ cn'.hdr = c.hdr /\ cn'.ahdr = c.ahdr
        /\ (torn => cn'.params = "none") /\ (~torn => cn'.params = c.params)
    BY <2>1, <2>3, UnreadyConn, Zenon
  <2>5. cn'.header_sent => cn'.params = "none" BY <2>1, <2>3, <2>4, Zenon
  <2>6. ps' \in PsRecord /\ ps'.mode = "rtmp" /\ ps'.at = "top" BY <1>12, <2>1, Zenon
  <2>7. ServerTold(ps', cn', vr.codec, aud) BY <1>3, <2>3, <2>4, <2>5, <2>6, Zenon DEF ServerTold
  <2>8. WireDescribed' BY <2>1, NothingSent
  <2>9. cn'.params \in {p, cn.params, "none"} BY <2>3, <2>4, Zenon
  <2>10. QED BY <1>11, <2>4, <2>6, <2>7, <2>8, <2>9, Zenon
<1>14. CASE SendRtmp(f, torn, p)
  <2> DEFINE j == h.joined \/ f.key
  <2>1. /\ p # "none" /\ h.header_sent /\ PassEnds
        /\ cn' = [h EXCEPT !.joined = j] /\ wire' = rsp_rtmp_send_audio(f)
    BY <1>14, Zenon DEF SendRtmp, rsp_rtmp_send_video, h
  <2>2. j = TRUE
    <3>1. cn.joined \in BOOLEAN BY <1>1, Zenon DEF CnRecord
    <3>2. CASE f.key BY <1>8, <1>9, <3>1, <3>2, Zenon
    <3>3. CASE ~f.key
      <4>1. cn.header_sent /\ cn.params # "none" BY <1>7, <1>9, <2>1, <3>3, Zenon
      <4>2. cn.joined BY <1>1, <1>2, <4>1, Zenon DEF ServerTold
      <4>3. QED BY <1>9, <3>1, <4>2, Zenon
    <3>4. QED BY <3>2, <3>3
  <2>3. j \in BOOLEAN BY <2>2, Zenon
  <2> HIDE DEF j
  <2>4. /\ cn' \in CnRecord /\ cn'.up = h.up /\ cn'.header_sent = h.header_sent /\ cn'.params = h.params
        /\ cn'.hdr = h.hdr /\ cn'.ahdr = h.ahdr /\ cn'.joined = j
    BY <1>9, <2>1, <2>3, Zenon DEF CnRecord
  <2>5. ps' \in PsRecord /\ ps'.mode = "rtmp" /\ ps'.at = "top" BY <1>12, <2>1, Zenon
  <2>6. ServerTold(ps', cn', vr.codec, aud) BY <1>3, <1>9, <1>10, <2>1, <2>2, <2>4, <2>5, Zenon DEF ServerTold
  <2>7. wire'.set = f.set /\ (wire'.kind = "both" => aud) /\ (wire'.kind = "both" \/ wire'.kind = "video")
    <3> DEFINE k == IF aud THEN "both" ELSE "video"
    <3>1. wire' = [kind |-> k, key |-> f.key, set |-> f.set] BY <2>1, Zenon DEF rsp_rtmp_send_audio
    <3>2. (k = "both" => aud) /\ (k = "both" \/ k = "video") BY Zenon
    <3> HIDE DEF k
    <3>3. wire'.kind = k /\ wire'.set = f.set BY <3>1, Zenon
    <3>4. QED BY <3>2, <3>3, Zenon
  <2>8. WireDescribed' BY <1>3, <1>6, <1>9, <1>10, <2>1, <2>2, <2>4, <2>7, Zenon DEF WireDescribed
  <2>9. cn'.params \in {p, cn.params, "none"} BY <1>9, <2>4, Zenon
  <2>10. QED BY <1>11, <2>4, <2>5, <2>6, <2>8, <2>9, Zenon
<1>15. CASE SendFails(f, torn, p)
  <2>1. cn' = rsp_disconnect(cn) /\ ps' = [ps EXCEPT !.at = "top", !.wait = PuWait] /\ wire' = NoFrame
    BY <1>15, Zenon DEF SendFails, Dropped
  <2>2. cn' \in CnRecord /\ cn'.up = FALSE /\ cn'.header_sent = FALSE /\ cn'.params = cn.params
    BY <1>1, <2>1, Disconnected, Zenon
  <2>3. ps' \in PsRecord /\ ps'.at = "top" BY <1>1, <2>1, PushConstants, Zenon DEF PsRecord
  <2>4. ServerTold(ps', cn', vr.codec, aud) BY <2>2, <2>3, ToldNothing, Zenon
  <2>5. WireDescribed' BY <2>1, NothingSent
  <2>6. cn'.params \in {p, cn.params, "none"} BY <2>2, Zenon
  <2>7. QED BY <1>11, <2>2, <2>3, <2>4, <2>5, <2>6, Zenon
<1>16. QED BY <1>5, <1>13, <1>14, <1>15, Zenon

LEMMA PushStep ==
    ASSUME PushInv, PuNext \/ UNCHANGED puvars
    PROVE  PushInv'
<1>1. CASE UNCHANGED puvars
  <2>1. UNCHANGED <<prod, vr, ps, cn, aud, wire>> BY <1>1, Zenon DEF puvars
  <2>2. QED BY <2>1, Zenon DEF PushInv, PushTyped, WireDescribed
<1>2. CASE PuNext
  BY <1>2, EncoderSteps, TopSteps, ConnectSteps, AttachStep, ReopenStep, ReadNothingSteps, SendUdpStep, VideoRtmpStep, Zenon
  DEF PuNext, PuLoop, Top, Rest
<1>3. QED BY <1>1, <1>2

LEMMA PushStart == ASSUME PuInit PROVE PushInv
<1>1. PICK m \in {"rtmp", "udp"} : \E auto \in BOOLEAN :
        ps = [mode |-> m, pushing |-> auto, was |-> FALSE, wait |-> 0, reopen |-> FALSE, at |-> "top"]
  BY Zenon DEF PuInit
<1>2. PICK auto \in BOOLEAN :
        ps = [mode |-> m, pushing |-> auto, was |-> FALSE, wait |-> 0, reopen |-> FALSE, at |-> "top"]
  BY <1>1, Zenon
<1>3. 0 \in Nat /\ <<>> \in Seq(PuFrame) /\ DOMAIN <<>> = {} BY SMT
<1>4. ps \in PsRecord /\ ps.at = "top" BY <1>2, <1>3, Zenon DEF PsRecord
<1>5. prod \in [set : PuSets, since : Nat] BY PushConstants, Zenon DEF PuInit
<1>6. vr = [open |-> TRUE, unread |-> <<>>, lapped |-> FALSE, idr |-> FALSE, dead |-> FALSE,
            codec |-> PuCodec[prod.set], idle |-> 0]
  BY Zenon DEF PuInit
<1> DEFINE codec == PuCodec[prod.set]
<1>7. codec \in {PuCodec[s] : s \in PuSets} BY <1>5, Zenon
<1>8. vr \in VrRecord /\ vr.codec = codec /\ vr.unread = <<>>
  <2>1. vr = [open |-> TRUE, unread |-> <<>>, lapped |-> FALSE, idr |-> FALSE, dead |-> FALSE,
              codec |-> codec, idle |-> 0]
    BY <1>6
  <2> HIDE DEF codec
  <2>2. QED BY <1>3, <1>7, <2>1, Zenon DEF VrRecord
<1>9. cn = [up |-> FALSE, header_sent |-> FALSE, wait_key |-> TRUE, params |-> "none",
            hdr |-> "none", ahdr |-> "none", joined |-> FALSE]
  BY Zenon DEF PuInit
<1>10. "none" \in Params BY Zenon DEF Params
<1>11. cn \in CnRecord /\ cn.up = FALSE /\ cn.header_sent = FALSE /\ cn.params = "none" BY <1>9, <1>10, Zenon DEF CnRecord
<1>12. RingTold(prod, vr, cn.params) BY <1>3, <1>8, <1>11, PushConstants, Zenon DEF RingTold, OfCodec
<1>13. ServerTold(ps, cn, vr.codec, aud) BY <1>4, <1>11, ToldNothing, Zenon
<1>14. wire.kind = "none" /\ aud \in BOOLEAN BY Zenon DEF PuInit, NoFrame
<1>15. WireDescribed BY <1>14, Zenon DEF WireDescribed
<1>16. QED BY <1>4, <1>5, <1>8, <1>11, <1>12, <1>13, <1>14, <1>15, Zenon DEF PushInv, PushTyped

-----------------------------------------------------------------------------
(* rwd's audio accumulator.  What is in it beyond less than one Opus frame *)
(* came with the newest decode.                                            *)
AccumInv == fill \in Nat /\ batch \in Nat /\ fill < batch + AFrame

\* A decoder writes at most half the accumulator: an AAC frame is 1024 or, with
\* SBR, 2048 samples, and there is room for 4096 (rwd_media.c:1155).
DecodesFit == \A n \in ADecodes : n <= ACap \div 2

LEMMA AccumStep ==
    ASSUME AccumInv, ANext \/ UNCHANGED avars
    PROVE  AccumInv'
<1>1. AFrame \in Nat \ {0} /\ ADecodes \subseteq Nat BY RwdAudioConstants
<1>2. CASE fill' = fill /\ batch' = batch BY <1>2 DEF AccumInv
<1>3. CASE fill' = 0 /\ batch' = 0 BY <1>1, <1>3 DEF AccumInv
<1>4. CASE AEncode
  <2>1. fill >= AFrame /\ fill' = fill - AFrame /\ batch' = batch BY <1>4, Zenon DEF AEncode
  <2>2. QED BY <1>1, <2>1 DEF AccumInv
<1>5. ASSUME NEW n \in ADecodes, ADecode(n) PROVE AccumInv'
  <2>1. fill < AFrame /\ ((fill' = fill + n /\ batch' = n) \/ (fill' = fill /\ batch' = batch))
    BY <1>5, Zenon DEF ADecode
  <2>2. QED BY <1>1, <2>1, <1>2 DEF AccumInv
<1>6. CASE UNCHANGED avars BY <1>6, <1>2, Zenon DEF avars
<1>7. QED BY <1>2, <1>3, <1>4, <1>5, <1>6, Zenon
          DEF ANext, AOpen, ADecide, AIdle, ANobody, AAnswer, ASetup, AGone

LEMMA StampStep ==
    ASSUME DecodesFit, AccumInv, ANext
    PROVE  /\ AEncode => fill' < batch
           /\ fill' > fill => fill' <= ACap /\ ACap - fill >= ACap \div 2
<1>1. AFrame \in Nat \ {0} /\ ACap \in Nat \ {0} /\ ADecodes \subseteq Nat BY RwdAudioConstants
<1>2. AEncode => fill' < batch
  <2>1. AEncode => fill >= AFrame /\ fill' = fill - AFrame BY Zenon DEF AEncode
  <2>2. QED BY <1>1, <2>1 DEF AccumInv
<1>3. ASSUME fill' > fill PROVE fill' <= ACap /\ ACap - fill >= ACap \div 2
  <2>1. fill' # fill /\ fill' # 0 BY <1>3 DEF AccumInv
  <2>2. ~AEncode
    <3>1. AEncode => fill' = fill - AFrame BY Zenon DEF AEncode
    <3>2. QED BY <3>1, <1>1, <1>3 DEF AccumInv
  <2>3. PICK n \in ADecodes : ADecode(n)
    BY <2>1, <2>2, Zenon DEF ANext, AOpen, ADecide, AIdle, ANobody, AAnswer, ASetup, AGone
  <2>4. fill' = fill + n /\ ACap - fill >= ACap \div 2 BY <2>1, <2>3, Zenon DEF ADecode
  <2>5. n \in Nat /\ n <= ACap \div 2 BY <1>1 DEF DecodesFit
  <2>6. QED BY <1>1, <2>4, <2>5 DEF AccumInv
<1>4. QED BY <1>2, <1>3

LEMMA AccumStart == ASSUME AInit PROVE AccumInv
<1>1. fill = 0 /\ batch = 0 BY Zenon DEF AInit
<1>2. QED BY <1>1, RwdAudioConstants DEF AccumInv

-----------------------------------------------------------------------------
(* Induction over numbers, and the loops it makes: a loop of the code is a *)
(* function on 0..n whose value at k is its state after k rounds.          *)
LEMMA SmallestNumber ==
    ASSUME NEW I \in SUBSET Nat, I # {}
    PROVE  Min(I) \in I /\ \A y \in I : Min(I) <= y
<1>1. \E x \in I : \A y \in I : ~(<<y, x>> \in OpToRel(<, Nat))
  BY NatLessThanWellFounded, WFMin, Zenon
<1>2. PICK x \in I : \A y \in I : ~(<<y, x>> \in OpToRel(<, Nat)) BY <1>1, Zenon
<1>3. ASSUME NEW y \in I PROVE x =< y
  <2>1. <<y, x>> \in Nat \X Nat OBVIOUS
  <2>2. ~(y < x) BY <1>2, <2>1 DEF OpToRel
  <2>3. QED BY <2>2
<1>4. \E z \in I : \A y \in I : z =< y BY <1>3
<1>5. QED BY <1>4, Zenon DEF Min

LEMMA Upto ==
    ASSUME NEW n \in Nat, NEW D, 0 \in D, \A k \in 1 .. n : k - 1 \in D => k \in D
    PROVE  \A k \in 0 .. n : k \in D
<1>1. SUFFICES ASSUME NEW b \in 0 .. n, b \notin D PROVE FALSE OBVIOUS
<1> DEFINE I == {k \in 0 .. n : k \notin D}
<1>2. I \in SUBSET Nat /\ I # {} BY <1>1
<1>3. Min(I) \in I /\ \A y \in I : Min(I) <= y BY <1>2, SmallestNumber
<1>4. PICK m : m = Min(I) BY Zenon
<1>5. m \in 0 .. n /\ m \notin D /\ \A y \in 0 .. n : y \notin D => m <= y BY <1>3, <1>4
<1>6. m # 0 BY <1>5
<1>7. m \in 1 .. n /\ m - 1 \in 0 .. n /\ ~(m <= m - 1) BY <1>5, <1>6
<1>8. m - 1 \in D BY <1>5, <1>7
<1>9. QED BY <1>5, <1>7, <1>8

Rounds(n, A) == [1 .. n -> [A -> A]]
Iterates(f, n, A, a, F) == f \in [0 .. n -> A] /\ f[0] = a /\ \A k \in 1 .. n : f[k] = F[k][f[k - 1]]

LEMMA IterationExists ==
    ASSUME NEW n \in Nat, NEW A, NEW a \in A, NEW F \in Rounds(n, A)
    PROVE  \E f : Iterates(f, n, A, a, F)
<1>0. F \in [1 .. n -> [A -> A]] BY DEF Rounds
<1> DEFINE D == {m \in 0 .. n : \E f \in [0 .. m -> A] : f[0] = a /\ \A k \in 1 .. m : f[k] = F[k][f[k - 1]]}
<1>1. 0 \in D
  <2>1. [i \in 0 .. 0 |-> a] \in [0 .. 0 -> A] /\ [i \in 0 .. 0 |-> a][0] = a /\ 1 .. 0 = {} OBVIOUS
  <2>2. 0 \in 0 .. n OBVIOUS
  <2>3. QED BY <2>1, <2>2
<1>2. ASSUME NEW m \in 1 .. n, m - 1 \in D PROVE m \in D
  <2>1. PICK f \in [0 .. m - 1 -> A] : f[0] = a /\ \A k \in 1 .. m - 1 : f[k] = F[k][f[k - 1]] BY <1>2
  <2> DEFINE g == [i \in 0 .. m |-> IF i = m THEN F[m][f[m - 1]] ELSE f[i]]
  <2>2. m - 1 \in 0 .. m - 1 /\ f[m - 1] \in A BY <2>1
  <2>3. F[m][f[m - 1]] \in A BY <1>0, <2>2
  <2>4. \A i \in 0 .. m : i = m \/ i \in 0 .. m - 1 OBVIOUS
  <2>5. g \in [0 .. m -> A] BY <2>1, <2>3, <2>4
  <2>6. g[0] = a BY <2>1
  <2>7. ASSUME NEW k \in 1 .. m PROVE g[k] = F[k][g[k - 1]]
    <3>1. k \in 0 .. m /\ k - 1 \in 0 .. m /\ k - 1 # m BY <2>7
    <3>2. g[k - 1] = f[k - 1] BY <3>1
    <3>3. CASE k = m BY <3>1, <3>2, <3>3
    <3>4. CASE k # m
      <4>1. k \in 1 .. m - 1 BY <3>4
      <4>2. QED BY <2>1, <3>1, <3>2, <3>4, <4>1
    <3>5. QED BY <3>3, <3>4
  <2>8. m \in 0 .. n OBVIOUS
  <2> HIDE DEF g
  <2>9. QED BY <2>5, <2>6, <2>7, <2>8
<1>3. n \in 0 .. n OBVIOUS
<1> HIDE DEF D
<1>4. n \in D BY <1>1, <1>2, <1>3, Upto
<1>5. PICK f \in [0 .. n -> A] : f[0] = a /\ \A k \in 1 .. n : f[k] = F[k][f[k - 1]] BY <1>4 DEF D
<1>6. Iterates(f, n, A, a, F) BY <1>5, Zenon DEF Iterates
<1>7. QED BY <1>6, Zenon
LEMMA RemoveAtSeq ==
    ASSUME NEW S, NEW s \in Seq(S), NEW i \in 1..Len(s)
    PROVE  /\ RemoveAt(s, i) \in Seq(S)
           /\ Len(RemoveAt(s, i)) = Len(s) - 1
           /\ \A j \in 1..(Len(s) - 1) : RemoveAt(s, i)[j] = s[IF j < i THEN j ELSE j + 1]
  <1> DEFINE a == SubSeq(s, 1, i - 1)
             b == SubSeq(s, i + 1, Len(s))
  <1>0. Len(s) \in Nat /\ i \in Int /\ i - 1 \in Int /\ i + 1 \in Int /\ \A j \in 1..Len(s) : s[j] \in S
    OBVIOUS
  <1>1. /\ a \in Seq(S) /\ Len(a) = i - 1
        /\ \A j \in 1..(i - 1) : a[j] = s[j]
    <2>1. \A j \in 1..(i - 1) : s[j] \in S
      BY <1>0
    <2>2. /\ SubSeq(s, 1, i - 1) \in Seq(S)
          /\ Len(SubSeq(s, 1, i - 1)) = IF 1 <= i - 1 THEN (i - 1) - 1 + 1 ELSE 0
          /\ \A j \in 1..((i - 1) - 1 + 1) : SubSeq(s, 1, i - 1)[j] = s[1 + j - 1]
      BY <1>0, <2>1, SubSeqProperties
    <2>3. (i - 1) - 1 + 1 = i - 1 /\ \A j \in 1..(i - 1) : 1 + j - 1 = j
      BY <1>0
    <2> QED BY <1>0, <2>2, <2>3
  <1>2. /\ b \in Seq(S) /\ Len(b) = Len(s) - i
        /\ \A j \in 1..(Len(s) - i) : b[j] = s[i + j]
    <2>1. \A j \in (i + 1)..Len(s) : s[j] \in S
      BY <1>0
    <2>2. /\ SubSeq(s, i + 1, Len(s)) \in Seq(S)
          /\ Len(SubSeq(s, i + 1, Len(s))) = IF i + 1 <= Len(s) THEN Len(s) - (i + 1) + 1 ELSE 0
          /\ \A j \in 1..(Len(s) - (i + 1) + 1) : SubSeq(s, i + 1, Len(s))[j] = s[(i + 1) + j - 1]
      BY <1>0, <2>1, SubSeqProperties
    <2>3. Len(s) - (i + 1) + 1 = Len(s) - i
      BY <1>0
    <2>4. \A j \in 1..(Len(s) - i) : (i + 1) + j - 1 = i + j
      BY <1>0
    <2>5. (IF i + 1 <= Len(s) THEN Len(s) - (i + 1) + 1 ELSE 0) = Len(s) - i
      BY <1>0
    <2>6. b \in Seq(S) /\ Len(b) = Len(s) - i
      BY <2>2, <2>5
    <2>7. \A j \in 1..(Len(s) - i) : b[j] = s[i + j]
      BY <2>2, <2>3, <2>4
    <2> QED BY <2>6, <2>7
  <1>3. RemoveAt(s, i) = a \o b
    BY DEF RemoveAt
  <1> HIDE DEF a, b
  <1>4. /\ a \o b \in Seq(S) /\ Len(a \o b) = Len(a) + Len(b)
        /\ \A j \in 1..(Len(a) + Len(b)) : (a \o b)[j] = IF j <= Len(a) THEN a[j] ELSE b[j - Len(a)]
    BY <1>1, <1>2, ConcatProperties
  <1>5. Len(a) + Len(b) = Len(s) - 1
    BY <1>0, <1>1, <1>2
  <1>6. ASSUME NEW j \in 1..(Len(s) - 1)
        PROVE  (a \o b)[j] = s[IF j < i THEN j ELSE j + 1]
    <2>1. CASE j < i
      <3>1. j \in 1..(i - 1) /\ j <= Len(a) /\ j \in 1..(Len(a) + Len(b))
        BY <1>0, <1>1, <1>5, <2>1
      <3> QED BY <1>1, <1>4, <2>1, <3>1
    <2>2. CASE ~(j < i)
      <3>1. /\ ~(j <= Len(a)) /\ j \in 1..(Len(a) + Len(b)) /\ j - Len(a) \in 1..(Len(s) - i)
            /\ i + (j - Len(a)) = j + 1
        BY <1>0, <1>1, <1>5, <2>2
      <3>2. (a \o b)[j] = b[j - Len(a)]
        BY <1>4, <3>1
      <3>3. b[j - Len(a)] = s[j + 1]
        BY <1>2, <3>1
      <3> QED BY <2>2, <3>2, <3>3
    <2> QED BY <2>1, <2>2
  <1> QED BY <1>3, <1>4, <1>5, <1>6

-----------------------------------------------------------------------------
(* rsr.  A slot counts at most the clients on it, and one whose ring is    *)
(* held, other than the ring opened at the start, has a client.            *)
RsrSlot == [name : RNames, active : BOOLEAN, dead : BOOLEAN, count : Int, idle : 0 .. RIdle, next : Items, boot : BOOLEAN]
RsrClient == [at : 1 .. RSlots, want : RNames, wait : BOOLEAN, fed : BOOLEAN]
RsrSlots == [1 .. RSlots -> RsrSlot]
On(cs, i) == {k \in DOMAIN cs : cs[k].at = i}
Backed(s, n) == s.count <= n /\ (s.active /\ ~s.boot => n >= 1)
AllBacked(sl, cs) == \A i \in 1 .. RSlots : Backed(sl[i], Cardinality(On(cs, i)))
Backing(sl, cs) == sl \in RsrSlots /\ cs \in Seq(RsrClient) /\ AllBacked(sl, cs)
RsrInv ==
    /\ rup \subseteq RNames /\ rleft \in 0 .. RFaults /\ rpc \in POLL .. AUDIO
    /\ Len(srt) <= RMax /\ Backing(slot, srt)

LEMMA SameCount ==
    ASSUME NEW S, NEW T, IsFiniteSet(S), NEW f \in [S -> T],
           \A x, y \in S : f[x] = f[y] => x = y, \A t \in T : \E x \in S : f[x] = t
    PROVE  IsFiniteSet(T) /\ Cardinality(T) = Cardinality(S)
<1>1. f \in Bijection(S, T) BY Zenon DEF Bijection, Injection, Surjection, IsInjective
<1>2. ExistsBijection(S, T) BY <1>1, Zenon DEF ExistsBijection
<1>3. QED BY <1>2, FS_Bijection

LEMMA OnFinite ==
    ASSUME NEW cs \in Seq(RsrClient), NEW i
    PROVE  IsFiniteSet(On(cs, i)) /\ Cardinality(On(cs, i)) \in Nat /\ On(cs, i) \subseteq 1 .. Len(cs)
<1>1. DOMAIN cs = 1 .. Len(cs) /\ Len(cs) \in Nat OBVIOUS
<1>2. IsFiniteSet(1 .. Len(cs)) BY <1>1, FS_Interval
<1>3. On(cs, i) \subseteq 1 .. Len(cs) BY <1>1 DEF On
<1>4. QED BY <1>2, <1>3, FS_Subset, FS_CardinalityType

LEMMA SamePlaces ==
    ASSUME NEW cs, NEW ds, DOMAIN ds = DOMAIN cs, \A k \in DOMAIN cs : ds[k].at = cs[k].at
    PROVE  \A i : On(ds, i) = On(cs, i)
BY Zenon DEF On

\* The client that leaves is the only one its slot loses.
LEMMA OneLeaves ==
    ASSUME NEW cs \in Seq(RsrClient), NEW k \in 1 .. Len(cs), NEW i
    PROVE  LET ds == RemoveAt(cs, k)
           IN Cardinality(On(ds, i)) = Cardinality(On(cs, i)) - (IF cs[k].at = i THEN 1 ELSE 0)
<1>1. PICK ds : ds = RemoveAt(cs, k) BY Zenon
<1>2. PICK n \in Nat : n = Len(cs) OBVIOUS
<1>3. /\ ds \in Seq(RsrClient) /\ Len(ds) = n - 1
      /\ \A j \in 1 .. (n - 1) : ds[j] = cs[IF j < k THEN j ELSE j + 1]
  BY <1>1, <1>2, RemoveAtSeq
<1>4. DOMAIN cs = 1 .. n /\ DOMAIN ds = 1 .. (n - 1) /\ k \in 1 .. n BY <1>2, <1>3
<1>5. PICK S, T : S = On(cs, i) \ {k} /\ T = On(ds, i) BY Zenon
<1>6. IsFiniteSet(On(cs, i)) /\ Cardinality(On(cs, i)) \in Nat BY OnFinite
<1>7. IsFiniteSet(S) /\ Cardinality(S) = IF k \in On(cs, i) THEN Cardinality(On(cs, i)) - 1 ELSE Cardinality(On(cs, i))
  BY <1>5, <1>6, FS_RemoveElement
<1>8. k \in On(cs, i) <=> cs[k].at = i BY <1>4, Zenon DEF On
<1>9. PICK f : f = [j \in S |-> IF j < k THEN j ELSE j - 1] BY Zenon
<1>10. \A j \in S : j \in 1 .. n /\ j # k /\ cs[j].at = i BY <1>4, <1>5, Zenon DEF On
<1>11. \A j \in T : j \in 1 .. (n - 1) /\ ds[j].at = i BY <1>4, <1>5, Zenon DEF On
<1>12. ASSUME NEW j \in S PROVE f[j] \in T
  <2>1. j \in 1 .. n /\ j # k /\ cs[j].at = i BY <1>10
  <2>2. PICK m : m = IF j < k THEN j ELSE j - 1 BY Zenon
  <2>3. m \in 1 .. (n - 1) /\ (IF m < k THEN m ELSE m + 1) = j BY <1>4, <2>1, <2>2
  <2>4. ds[m].at = i BY <1>3, <2>1, <2>3
  <2>5. QED BY <1>4, <1>5, <1>9, <2>2, <2>3, <2>4, Zenon DEF On
<1>13. f \in [S -> T] BY <1>9, <1>12, Zenon
<1>14. ASSUME NEW x \in S, NEW y \in S, f[x] = f[y] PROVE x = y
  <2>1. x \in 1 .. n /\ x # k /\ y \in 1 .. n /\ y # k BY <1>10
  <2>2. f[x] = (IF x < k THEN x ELSE x - 1) /\ f[y] = (IF y < k THEN y ELSE y - 1) BY <1>9, Zenon
  <2>3. (IF x < k THEN x ELSE x - 1) = (IF y < k THEN y ELSE y - 1) BY <1>14, <2>2, Zenon
  <2>4. QED BY <1>4, <2>1, <2>3
<1>15. ASSUME NEW t \in T PROVE \E x \in S : f[x] = t
  <2>1. t \in 1 .. (n - 1) /\ ds[t].at = i BY <1>11
  <2>2. PICK x : x = IF t < k THEN t ELSE t + 1 BY Zenon
  <2>3. x \in 1 .. n /\ x # k /\ (IF x < k THEN x ELSE x - 1) = t BY <1>4, <2>1, <2>2
  <2>4. cs[x].at = i BY <1>3, <2>1, <2>2
  <2>5. x \in S BY <1>4, <1>5, <2>3, <2>4, Zenon DEF On
  <2>6. QED BY <1>9, <2>3, <2>5, Zenon
<1>16. Cardinality(T) = Cardinality(S) BY <1>7, <1>13, <1>14, <1>15, SameCount, Zenon
<1>17. QED BY <1>1, <1>5, <1>6, <1>7, <1>8, <1>16

LEMMA SlotsOnly ==
    ASSUME NEW sl, NEW cs, Backing(sl, cs), NEW tl \in RsrSlots,
           \A i \in 1 .. RSlots : tl[i].count = sl[i].count /\ tl[i].boot = sl[i].boot /\ (tl[i].active => sl[i].active)
    PROVE  Backing(tl, cs)
BY Zenon DEF Backing, AllBacked, Backed

LEMMA ClientsOnly ==
    ASSUME NEW sl, NEW cs, Backing(sl, cs), NEW ds \in Seq(RsrClient), DOMAIN ds = DOMAIN cs,
           \A k \in DOMAIN cs : ds[k].at = cs[k].at
    PROVE  Backing(sl, ds)
<1>1. \A i : On(ds, i) = On(cs, i) BY SamePlaces, Zenon
<1>2. QED BY <1>1, Zenon DEF Backing, AllBacked

\* What one slot and its clients become, the others being what they were.
LEMMA OneBacked ==
    ASSUME NEW sl, NEW cs, Backing(sl, cs), NEW r \in 1 .. RSlots, NEW q \in RsrSlot, NEW ds \in Seq(RsrClient),
           \A i \in 1 .. RSlots : i # r => Cardinality(On(ds, i)) = Cardinality(On(cs, i)),
           Backed(q, Cardinality(On(ds, r)))
    PROVE  Backing([sl EXCEPT ![r] = q], ds)
<1>1. PICK tl : tl = [sl EXCEPT ![r] = q] BY Zenon
<1>2. sl \in RsrSlots /\ AllBacked(sl, cs) BY Zenon DEF Backing
<1>3. tl \in RsrSlots /\ tl[r] = q /\ \A i \in 1 .. RSlots : i # r => tl[i] = sl[i] BY <1>1, <1>2, Zenon DEF RsrSlots
<1>4. AllBacked(tl, ds) BY <1>2, <1>3, Zenon DEF AllBacked
<1>5. QED BY <1>1, <1>3, <1>4, Zenon DEF Backing

LEMMA SlotLeft ==
    ASSUME NEW sl \in RsrSlots, NEW i \in 1 .. RSlots
    PROVE  \E q \in RsrSlot : /\ LeaveSlot(sl, i) = [sl EXCEPT ![i] = q]
                              /\ q.count = sl[i].count - 1 /\ q.boot = sl[i].boot
                              /\ q.active => q.count > 0
<1>1. PICK s \in RsrSlot : s = sl[i] BY Zenon DEF RsrSlots
<1>2. PICK c \in Int : c = s.count - 1
  <2>1. PICK x \in Int : x = s.count BY Zenon DEF RsrSlot
  <2>2. x - 1 \in Int OBVIOUS
  <2>3. QED BY <2>1, <2>2, Zenon
<1>3. PICK q : q = [s EXCEPT !.count = c] BY Zenon
<1>4. q \in RsrSlot /\ q.count = c /\ q.boot = s.boot BY <1>1, <1>2, <1>3, Zenon DEF RsrSlot
<1>5. PICK l : l = [sl EXCEPT ![i] = q] BY Zenon
<1>6. l \in RsrSlots /\ l[i] = q BY <1>4, <1>5, Zenon DEF RsrSlots
<1>7. l = [sl EXCEPT ![i].count = @ - 1] BY <1>1, <1>2, <1>3, <1>5, Zenon
<1>8. LeaveSlot(sl, i) = IF c <= 0 THEN rsr_stream_release(l, i) ELSE l BY <1>4, <1>6, <1>7, Zenon DEF LeaveSlot
<1>9. CASE c <= 0
  <2>1. PICK f, z : f = FALSE /\ z = "none" BY Zenon
  <2>2. PICK p : p = [q EXCEPT !.active = f, !.dead = f, !.next = z] BY Zenon
  <2>3. p \in RsrSlot /\ p.count = c /\ p.boot = s.boot /\ ~p.active
    BY <1>4, <2>1, <2>2, Zenon DEF RsrSlot, Items
  <2>4. rsr_stream_release(l, i) = [l EXCEPT ![i] = p] BY <1>6, <2>1, <2>2, Zenon DEF rsr_stream_release
  <2>5. [l EXCEPT ![i] = p] = [sl EXCEPT ![i] = p] BY <1>5, Zenon DEF RsrSlots
  <2>6. QED BY <1>1, <1>2, <1>8, <1>9, <2>3, <2>4, <2>5, Zenon
<1>10. CASE ~(c <= 0)
  <2>1. c > 0 BY <1>10
  <2>2. QED BY <1>1, <1>2, <1>4, <1>5, <1>8, <1>10, <2>1, Zenon
<1>11. QED BY <1>9, <1>10

\* rsr_remove_client leaves every slot backed.
LEMMA Leaves ==
    ASSUME NEW sl, NEW cs, Backing(sl, cs), NEW k \in 1 .. Len(cs)
    PROVE  /\ Backing(LeaveSlot(sl, cs[k].at), RemoveAt(cs, k))
           /\ Len(RemoveAt(cs, k)) = Len(cs) - 1
<1>1. sl \in RsrSlots /\ cs \in Seq(RsrClient) /\ AllBacked(sl, cs) BY Zenon DEF Backing
<1>2. PICK ds : ds = RemoveAt(cs, k) BY Zenon
<1>3. ds \in Seq(RsrClient) /\ Len(ds) = Len(cs) - 1 BY <1>1, <1>2, RemoveAtSeq
<1>4. cs[k] \in RsrClient BY <1>1
<1>5. PICK r \in 1 .. RSlots : r = cs[k].at BY <1>4, Zenon DEF RsrClient
<1>6. PICK q \in RsrSlot : /\ LeaveSlot(sl, r) = [sl EXCEPT ![r] = q]
                           /\ q.count = sl[r].count - 1 /\ q.boot = sl[r].boot /\ (q.active => q.count > 0)
  BY <1>1, SlotLeft, Zenon
<1>7. \A i : Cardinality(On(ds, i)) = Cardinality(On(cs, i)) - (IF cs[k].at = i THEN 1 ELSE 0)
  BY <1>1, <1>2, OneLeaves, Zenon
<1>8. \A i : Cardinality(On(cs, i)) \in Nat BY <1>1, OnFinite, Zenon
<1>9. ASSUME NEW i \in 1 .. RSlots, i # r PROVE Cardinality(On(ds, i)) = Cardinality(On(cs, i))
  <2>1. Cardinality(On(ds, i)) = Cardinality(On(cs, i)) - 0 BY <1>5, <1>7, <1>9, Zenon
  <2>2. QED BY <1>8, <2>1
<1>10. PICK n \in Nat : n = Cardinality(On(cs, r)) BY <1>8, Zenon
<1>11. Cardinality(On(ds, r)) = n - 1 BY <1>5, <1>7, <1>10, Zenon
<1>12. PICK c \in Int : c = sl[r].count BY <1>1, Zenon DEF RsrSlots, RsrSlot
<1>13. c <= n BY <1>1, <1>10, <1>12, Zenon DEF AllBacked, Backed
<1>14. c - 1 <= n - 1 /\ (c - 1 > 0 => n - 1 >= 1) BY <1>13
<1>15. q.count <= n - 1 /\ (q.active => n - 1 >= 1) BY <1>6, <1>12, <1>14, Zenon
<1>16. Backed(q, Cardinality(On(ds, r))) BY <1>11, <1>15, Zenon DEF Backed
<1>17. Backing([sl EXCEPT ![r] = q], ds) BY <1>3, <1>9, <1>16, OneBacked, Zenon
<1>18. QED BY <1>2, <1>3, <1>5, <1>6, <1>17, Zenon

\* rsr_stream_get_or_open finds no slot, one that is in use, or takes one.
Given(sl, tl, r) ==
    \/ tl = sl /\ r = 0
    \/ /\ r \in 1 .. RSlots
       /\ \E q \in RsrSlot : /\ tl = [sl EXCEPT ![r] = q] /\ q.boot = sl[r].boot
                             /\ q.count = sl[r].count \/ q.count = 0

LEMMA SlotOpened ==
    ASSUME NEW sl \in RsrSlots, NEW n \in RNames, NEW o, o = rsr_stream_get_or_open(sl, n)
    PROVE  Given(sl, o[1], o[2])
<1>1. Active(sl, n) \subseteq 1 .. RSlots /\ Unused(sl) \subseteq 1 .. RSlots BY Zenon DEF Active, Unused
<1>2. Active(sl, n) \in SUBSET Nat /\ Unused(sl) \in SUBSET Nat BY <1>1
<1>3. CASE Active(sl, n) # {}
  <2>1. PICK i : i = Min(Active(sl, n)) BY Zenon
  <2>2. i \in 1 .. RSlots BY <1>1, <1>2, <1>3, <2>1, SmallestNumber, Zenon
  <2>3. o = <<sl, i>> BY <1>3, <2>1, Zenon DEF rsr_stream_get_or_open
  <2>4. o[1] = sl /\ o[2] = i BY <2>3
  <2>5. PICK q \in RsrSlot : q = sl[i] BY <2>2, Zenon DEF RsrSlots
  <2>6. sl = [sl EXCEPT ![i] = q] BY <2>2, <2>5, Zenon DEF RsrSlots
  <2>7. QED BY <2>2, <2>4, <2>5, <2>6, Zenon DEF Given
<1>4. CASE Active(sl, n) = {} /\ (n \notin rup \/ Unused(sl) = {})
  <2>1. o = <<sl, 0>> BY <1>4, Zenon DEF rsr_stream_get_or_open
  <2>2. o[1] = sl /\ o[2] = 0 BY <2>1
  <2>3. QED BY <2>2, Zenon DEF Given
<1>5. CASE Active(sl, n) = {} /\ ~(n \notin rup \/ Unused(sl) = {})
  <2>1. PICK i : i = Min(Unused(sl)) BY Zenon
  <2>2. i \in 1 .. RSlots BY <1>1, <1>2, <1>5, <2>1, SmallestNumber, Zenon
  <2>3. PICK s \in RsrSlot : s = sl[i] BY <2>2, Zenon DEF RsrSlots
  <2>4. PICK t, f, z, e : t = TRUE /\ f = FALSE /\ z = 0 /\ e = "none" BY Zenon
  <2>5. PICK q : q = [s EXCEPT !.name = n, !.active = t, !.dead = f, !.count = z, !.next = e] BY Zenon
  <2>6. z \in Int BY <2>4
  <2>7. q \in RsrSlot /\ q.boot = s.boot /\ q.count = 0
    BY <2>3, <2>4, <2>5, <2>6, Zenon DEF RsrSlot, Items
  <2>8. o = <<[sl EXCEPT ![i] = q], i>> BY <1>5, <2>1, <2>3, <2>4, <2>5, Zenon DEF rsr_stream_get_or_open
  <2>9. o[1] = [sl EXCEPT ![i] = q] /\ o[2] = i BY <2>8
  <2>10. QED BY <2>2, <2>3, <2>7, <2>9, Zenon DEF Given
<1>6. QED BY <1>3, <1>4, <1>5

\* accept_client: the client is counted on the slot it is given.
LEMMA JoinsSlot ==
    ASSUME NEW sl, NEW cs, Backing(sl, cs), NEW n \in RNames, NEW o, o = rsr_stream_get_or_open(sl, n), o[2] # 0,
           NEW e \in RsrClient, e.at = o[2]
    PROVE  /\ Backing([o[1] EXCEPT ![o[2]] = [o[1][o[2]] EXCEPT !.count = @ + 1, !.boot = FALSE]], Append(cs, e))
           /\ Len(Append(cs, e)) = Len(cs) + 1
<1>1. sl \in RsrSlots /\ cs \in Seq(RsrClient) /\ AllBacked(sl, cs) BY Zenon DEF Backing
<1>2. PICK r \in 1 .. RSlots, q \in RsrSlot :
         /\ r = o[2] /\ o[1] = [sl EXCEPT ![r] = q] /\ q.boot = sl[r].boot
         /\ q.count = sl[r].count \/ q.count = 0
  <2>1. Given(sl, o[1], o[2]) BY <1>1, SlotOpened, Zenon
  <2>2. PICK r : r = o[2] BY Zenon
  <2>3. QED BY <2>1, <2>2, Zenon DEF Given
<1>3. PICK m \in Nat : m = Len(cs) BY <1>1
<1>4. PICK ds : ds = Append(cs, e) BY Zenon
<1>5. /\ ds \in Seq(RsrClient) /\ Len(ds) = m + 1 /\ DOMAIN ds = 1 .. (m + 1) /\ DOMAIN cs = 1 .. m
      /\ ds[m + 1] = e /\ \A j \in 1 .. m : ds[j] = cs[j]
  BY <1>1, <1>3, <1>4
<1>6. \A j \in 1 .. (m + 1) : j = m + 1 \/ j \in 1 .. m OBVIOUS
<1>7. \A j \in 1 .. m : j \in 1 .. (m + 1) /\ j # m + 1 OBVIOUS
<1>a. m + 1 \in 1 .. (m + 1) OBVIOUS
<1>b. ds[m + 1].at = r /\ \A j \in 1 .. m : ds[j].at = cs[j].at BY <1>2, <1>5, Zenon
<1>8. ASSUME NEW i, i # r PROVE On(ds, i) = On(cs, i)
  <2>1. \A j \in 1 .. (m + 1) : ds[j].at = i => j \in 1 .. m BY <1>6, <1>8, <1>b, Zenon
  <2>2. \A j : j \in On(ds, i) <=> j \in On(cs, i) BY <1>5, <1>7, <1>b, <2>1, Zenon DEF On
  <2>3. QED BY <2>2, Zenon
<1>9. On(ds, r) = On(cs, r) \cup {m + 1} /\ m + 1 \notin On(cs, r)
  <2>1. \A j : j \in On(cs, r) => j \in 1 .. m /\ cs[j].at = r BY <1>5, Zenon DEF On
  <2>2. \A j : j \in On(ds, r) <=> j \in 1 .. (m + 1) /\ ds[j].at = r BY <1>5, Zenon DEF On
  <2>3. \A j : j \in On(ds, r) <=> j \in On(cs, r) \/ j = m + 1 BY <1>5, <1>6, <1>7, <1>a, <1>b, <2>1, <2>2, Zenon DEF On
  <2>4. QED BY <1>7, <2>1, <2>3, Zenon
<1>10. PICK x \in Nat : x = Cardinality(On(cs, r)) BY <1>1, OnFinite, Zenon
<1>11. IsFiniteSet(On(cs, r)) BY <1>1, OnFinite, Zenon
<1>12. Cardinality(On(ds, r)) = x + 1 BY <1>9, <1>10, <1>11, FS_AddElement
<1>13. PICK c \in Int : c = q.count BY Zenon DEF RsrSlot
<1>14. PICK d \in Int : d = sl[r].count BY <1>1, Zenon DEF RsrSlots, RsrSlot
<1>15. d <= x BY <1>1, <1>10, <1>14, Zenon DEF AllBacked, Backed
<1>16. c = d \/ c = 0 BY <1>2, <1>13, <1>14, Zenon
<1>17. c + 1 \in Int /\ c + 1 <= x + 1 /\ x + 1 >= 1 BY <1>15, <1>16
<1>18. PICK y, f : y = c + 1 /\ f = FALSE BY Zenon
<1>19. PICK p : p = [q EXCEPT !.count = y, !.boot = f] BY Zenon
<1>20. p \in RsrSlot /\ p.count = y BY <1>17, <1>18, <1>19, Zenon DEF RsrSlot
<1>21. Backed(p, Cardinality(On(ds, r))) BY <1>12, <1>17, <1>18, <1>20, Zenon DEF Backed
<1>22. PICK l : l = o[1] BY Zenon
<1>23. l[r] = q /\ [l EXCEPT ![r] = p] = [sl EXCEPT ![r] = p] BY <1>1, <1>2, <1>22, Zenon DEF RsrSlots
<1>24. [l EXCEPT ![r] = [l[r] EXCEPT !.count = @ + 1, !.boot = FALSE]] = [sl EXCEPT ![r] = p]
  BY <1>13, <1>18, <1>19, <1>23, Zenon
<1>25. Backing([sl EXCEPT ![r] = p], ds) BY <1>5, <1>8, <1>20, <1>21, OneBacked, Zenon
<1>26. QED BY <1>2, <1>3, <1>4, <1>5, <1>22, <1>24, <1>25, Zenon

LEMMA FunctionSeq ==
    ASSUME NEW S, NEW n \in Nat, NEW f \in [1 .. n -> S]
    PROVE  f \in Seq(S) /\ Len(f) = n /\ DOMAIN f = 1 .. n
OBVIOUS

\* The clients of a slot move to another.
Transferred(cs, s, r) == [j \in DOMAIN cs |-> IF cs[j].at = s THEN [cs[j] EXCEPT !.at = r] ELSE cs[j]]
Gathered(cs, ds, s, r) ==
    /\ \A i : i # r /\ i # s => On(ds, i) = On(cs, i)
    /\ Cardinality(On(cs, s)) <= Cardinality(On(ds, r)) /\ Cardinality(On(ds, s)) = 0

LEMMA Moves ==
    ASSUME NEW cs \in Seq(RsrClient), NEW s \in 1 .. RSlots, NEW r \in 1 .. RSlots, r # s, NEW ds,
           ds = Transferred(cs, s, r)
    PROVE  ds \in Seq(RsrClient) /\ Len(ds) = Len(cs) /\ Gathered(cs, ds, s, r)
<1>1. PICK n \in Nat : n = Len(cs) OBVIOUS
<1>2. DOMAIN cs = 1 .. n /\ \A j \in 1 .. n : cs[j] \in RsrClient BY <1>1
<1>3. ASSUME NEW j \in 1 .. n PROVE ds[j] \in RsrClient /\ (cs[j].at = s => ds[j].at = r) /\ (cs[j].at # s => ds[j].at = cs[j].at)
  <2>1. PICK c \in RsrClient : c = cs[j] BY <1>2, Zenon
  <2>2. PICK d : d = [c EXCEPT !.at = r] BY Zenon
  <2>3. d \in RsrClient /\ d.at = r BY <2>1, <2>2, Zenon DEF RsrClient
  <2>4. ds[j] = IF c.at = s THEN d ELSE c BY <1>2, <2>1, <2>2, Zenon DEF Transferred
  <2>5. CASE c.at = s BY <2>1, <2>3, <2>4, <2>5, Zenon
  <2>6. CASE c.at # s BY <2>1, <2>4, <2>6, Zenon
  <2>7. QED BY <2>5, <2>6
<1>4. DOMAIN ds = 1 .. n /\ ds \in [1 .. n -> RsrClient] BY <1>2, <1>3, Zenon DEF Transferred
<1>5. ds \in Seq(RsrClient) /\ Len(ds) = n BY <1>4, FunctionSeq, Zenon
<1>6. ASSUME NEW i, i # r, i # s PROVE On(ds, i) = On(cs, i)
  <2>1. \A j \in 1 .. n : ds[j].at = i <=> cs[j].at = i BY <1>3, <1>6, Zenon
  <2>2. QED BY <1>2, <1>4, <2>1, Zenon DEF On
<1>7. \A j \in 1 .. n : cs[j].at = s => ds[j].at = r BY <1>3, Zenon
<1>8. On(cs, s) \subseteq On(ds, r) BY <1>2, <1>4, <1>7, Zenon DEF On
<1>9. \A j \in 1 .. n : ds[j].at # s BY <1>3, Zenon
<1>10. On(ds, s) = {} BY <1>4, <1>9, Zenon DEF On
<1>11. IsFiniteSet(On(ds, r)) BY <1>5, OnFinite, Zenon
<1>12. Cardinality(On(cs, s)) <= Cardinality(On(ds, r)) BY <1>8, <1>11, FS_Subset
<1>13. Cardinality(On(ds, s)) = 0 BY <1>10, FS_EmptySet
<1>14. QED BY <1>1, <1>5, <1>6, <1>12, <1>13, Zenon DEF Gathered

Worlds(n) == {w \in RsrSlots \X Seq(RsrClient) : Len(w[2]) = n /\ Backing(w[1], w[2])}

LEMMA InWorlds ==
    ASSUME NEW n, NEW sl, NEW cs, Backing(sl, cs), Len(cs) = n
    PROVE  <<sl, cs>> \in Worlds(n)
<1>1. sl \in RsrSlots /\ cs \in Seq(RsrClient) BY Zenon DEF Backing
<1>2. <<sl, cs>>[1] = sl /\ <<sl, cs>>[2] = cs /\ <<sl, cs>> \in RsrSlots \X Seq(RsrClient) BY <1>1
<1>3. QED BY <1>2, Zenon DEF Worlds

LEMMA ReopenedBacked ==
    ASSUME NEW n \in Nat, NEW w \in Worlds(n), NEW k \in 1 .. n
    PROVE  Reopened(w, k) \in Worlds(n)
<1>1. PICK sl, cs : sl = w[1] /\ cs = w[2] BY Zenon
<1>2. Backing(sl, cs) /\ Len(cs) = n BY <1>1, Zenon DEF Worlds
<1>3. sl \in RsrSlots /\ cs \in Seq(RsrClient) /\ AllBacked(sl, cs) BY <1>2, Zenon DEF Backing
<1>4. cs[k] \in RsrClient BY <1>2, <1>3
<1>5. PICK s \in 1 .. RSlots : s = cs[k].at BY <1>4, Zenon DEF RsrClient
<1>6. PICK v \in RsrSlot : v = sl[s] BY <1>3, Zenon DEF RsrSlots
<1>7. PICK m \in RNames, c \in Int : m = v.name /\ c = v.count BY Zenon DEF RsrSlot
<1>8. PICK o, tl, r : o = rsr_stream_get_or_open(sl, m) /\ tl = o[1] /\ r = o[2] BY Zenon
<1>9. PICK ds : ds = Transferred(cs, s, r) BY Zenon
<1>10. Reopened(w, k) = IF v.active \/ c <= 0 THEN w
                        ELSE IF r \in {0, s} THEN <<tl, cs>>
                        ELSE <<[tl EXCEPT ![r] = [tl[r] EXCEPT !.count = c, !.boot = FALSE], ![s].count = 0], ds>>
  <2>1. /\ w[2][k].at = s /\ w[1][s] = v /\ v.name = m /\ v.count = c /\ w[2] = cs
        /\ rsr_stream_get_or_open(w[1], m) = o /\ o[1] = tl /\ o[2] = r
    BY <1>1, <1>5, <1>6, <1>7, <1>8, Zenon
  <2>2. w[1][w[2][k].at] = v /\ rsr_stream_get_or_open(w[1], w[1][w[2][k].at].name) = o BY <2>1, Zenon
  <2>3. CASE v.active \/ c <= 0 BY <2>1, <2>2, <2>3, Zenon DEF Reopened
  <2>4. CASE ~(v.active \/ c <= 0) /\ r \in {0, s} BY <2>1, <2>2, <2>4, Zenon DEF Reopened
  <2>5. CASE ~(v.active \/ c <= 0) /\ r \notin {0, s}
    <3>1. Reopened(w, k) =
            <<[o[1] EXCEPT ![o[2]] = [o[1][o[2]] EXCEPT !.count = w[1][w[2][k].at].count, !.boot = FALSE],
                           ![w[2][k].at].count = 0],
              [j \in DOMAIN w[2] |-> IF w[2][j].at = w[2][k].at THEN [w[2][j] EXCEPT !.at = o[2]] ELSE w[2][j]]>>
      BY <2>1, <2>2, <2>5, Zenon DEF Reopened
    <3>2. QED BY <1>9, <2>1, <2>2, <2>5, <3>1, Zenon DEF Transferred
  <2>6. QED BY <2>3, <2>4, <2>5, Zenon
<1>11. Given(sl, tl, r) BY <1>3, <1>8, SlotOpened, Zenon
<1>12. \A i : Cardinality(On(cs, i)) \in Nat BY <1>3, OnFinite, Zenon
<1>13. CASE v.active \/ c <= 0 BY <1>10, <1>13, Zenon
<1>14. CASE ~(v.active \/ c <= 0) /\ r = 0
  <2>1. r \notin 1 .. RSlots BY <1>14
  <2>2. tl = sl BY <1>11, <2>1, Zenon DEF Given
  <2>3. Reopened(w, k) = <<sl, cs>> BY <1>10, <1>14, <2>2, Zenon
  <2>4. QED BY <1>2, <2>3, InWorlds, Zenon
<1>15. CASE ~(v.active \/ c <= 0) /\ r # 0
  <2>1. PICK q \in RsrSlot : /\ r \in 1 .. RSlots /\ tl = [sl EXCEPT ![r] = q] /\ q.boot = sl[r].boot
                             /\ q.count = sl[r].count \/ q.count = 0
    BY <1>11, <1>15, Zenon DEF Given
  <2>2. PICK x \in Nat : x = Cardinality(On(cs, s)) BY <1>12, Zenon
  <2>3. c <= x BY <1>3, <1>6, <1>7, <2>2, Zenon DEF AllBacked, Backed
  <2>4. c > 0 /\ x >= 1 /\ 0 <= x BY <1>15, <2>3
  <2>5. CASE r = s
    <3>1. q.count = c \/ q.count = 0 BY <1>6, <1>7, <2>1, <2>5, Zenon
    <3>2. Backed(q, Cardinality(On(cs, s))) BY <2>2, <2>3, <2>4, <3>1, Zenon DEF Backed
    <3>3. Backing([sl EXCEPT ![s] = q], cs) BY <1>2, <1>3, <3>2, OneBacked, Zenon
    <3>4. Reopened(w, k) = <<tl, cs>> BY <1>10, <1>15, <2>5, Zenon
    <3>5. Backing(tl, cs) BY <2>1, <2>5, <3>3, Zenon
    <3>6. QED BY <1>2, <3>4, <3>5, InWorlds, Zenon
  <2>6. CASE r # s
    <3>1. /\ ds \in Seq(RsrClient) /\ Len(ds) = n
          /\ \A i : i # r /\ i # s => On(ds, i) = On(cs, i)
          /\ Cardinality(On(cs, s)) <= Cardinality(On(ds, r)) /\ Cardinality(On(ds, s)) = 0
      <4>1. ds \in Seq(RsrClient) /\ Len(ds) = Len(cs) /\ Gathered(cs, ds, s, r)
        BY <1>3, <1>9, <2>1, <2>6, Moves, Zenon
      <4>2. QED BY <1>2, <4>1, Zenon DEF Gathered
    <3>2. PICK f, z : f = FALSE /\ z = 0 BY Zenon
    <3>3. PICK p, u : p = [q EXCEPT !.count = c, !.boot = f] /\ u = [v EXCEPT !.count = z] BY Zenon
    <3>4. z \in Int BY <3>2
    <3>5. p \in RsrSlot /\ p.count = c BY <3>2, <3>3, Zenon DEF RsrSlot
    <3>6. u \in RsrSlot /\ u.count = 0 /\ u.active = v.active BY <3>2, <3>3, <3>4, Zenon DEF RsrSlot
    <3>7. PICK l : l = [tl EXCEPT ![r] = [tl[r] EXCEPT !.count = c, !.boot = FALSE], ![s].count = 0] BY Zenon
    <3>8. tl \in RsrSlots /\ tl[r] = q /\ tl[s] = v /\ \A i \in 1 .. RSlots : i # r => tl[i] = sl[i]
      BY <1>3, <1>6, <2>1, <2>6, Zenon DEF RsrSlots
    <3>9. l = [[tl EXCEPT ![r] = p] EXCEPT ![s] = u] BY <2>6, <3>2, <3>3, <3>7, <3>8, Zenon DEF RsrSlots
    <3>10. l \in RsrSlots /\ l[r] = p /\ l[s] = u /\ \A i \in 1 .. RSlots : i # r /\ i # s => l[i] = sl[i]
      BY <2>1, <2>6, <3>5, <3>6, <3>8, <3>9, Zenon DEF RsrSlots
    <3>11. PICK y \in Nat : y = Cardinality(On(ds, r)) BY <3>1, OnFinite, Zenon
    <3>12. c <= y /\ y >= 1
      <4>1. x <= y BY <2>2, <3>1, <3>11, Zenon
      <4>2. QED BY <2>3, <2>4, <4>1
    <3>13. Backed(p, Cardinality(On(ds, r))) BY <3>5, <3>11, <3>12, Zenon DEF Backed
    <3>14. 0 <= 0 OBVIOUS
    <3>15. Backed(u, Cardinality(On(ds, s))) BY <1>15, <3>1, <3>6, <3>14, Zenon DEF Backed
    <3>16. \A i \in 1 .. RSlots : i # r /\ i # s => Backed(l[i], Cardinality(On(ds, i)))
      BY <1>3, <3>1, <3>10, Zenon DEF AllBacked
    <3>17. AllBacked(l, ds) BY <3>10, <3>13, <3>15, <3>16, Zenon DEF AllBacked
    <3>18. Backing(l, ds) BY <3>1, <3>10, <3>17, Zenon DEF Backing
    <3>19. r \notin {0, s} BY <1>15, <2>6, Zenon
    <3>20. Reopened(w, k) = <<l, ds>> BY <1>10, <1>15, <3>7, <3>19, Zenon
    <3>21. QED BY <3>1, <3>18, <3>20, InWorlds, Zenon
  <2>7. QED BY <2>5, <2>6
<1>16. QED BY <1>13, <1>14, <1>15, Zenon

\* The pass over the clients whose ring was closed.
LEMMA AllReopened ==
    ASSUME NEW n \in Nat, NEW a \in Worlds(n), NEW g,
           g = (CHOOSE c : c = [k \in 0 .. n |-> IF k = 0 THEN a ELSE Reopened(c[k - 1], k)])
    PROVE  g[n] \in Worlds(n)
<1>1. PICK A : A = Worlds(n) BY Zenon
<1>2. \A k \in 1 .. n : \A w \in A : Reopened(w, k) \in A BY <1>1, ReopenedBacked, Zenon
<1>3. PICK F : F = [k \in 1 .. n |-> [w \in A |-> Reopened(w, k)]] BY Zenon
<1>4. F \in Rounds(n, A) BY <1>2, <1>3, Zenon DEF Rounds
<1>5. PICK f : Iterates(f, n, A, a, F) BY <1>1, <1>4, IterationExists, Zenon
<1>6. f \in [0 .. n -> A] /\ f[0] = a /\ \A k \in 1 .. n : f[k] = F[k][f[k - 1]] BY <1>5, Zenon DEF Iterates
<1>7. \A k \in 1 .. n : k - 1 \in 0 .. n /\ k \in 0 .. n /\ k # 0 OBVIOUS
<1>8. \A k \in 1 .. n : f[k] = Reopened(f[k - 1], k) BY <1>3, <1>6, <1>7, Zenon
<1>9. \A k \in 0 .. n : k = 0 \/ k \in 1 .. n OBVIOUS
<1>10. f = [k \in 0 .. n |-> IF k = 0 THEN a ELSE Reopened(f[k - 1], k)] BY <1>6, <1>8, <1>9, Zenon
<1>11. g = [k \in 0 .. n |-> IF k = 0 THEN a ELSE Reopened(g[k - 1], k)] BY <1>10, Zenon
<1>12. PICK D : D = {k \in 0 .. n : g[k] \in A} BY Zenon
<1>13. 0 \in 0 .. n /\ n \in 0 .. n OBVIOUS
<1>14. 0 \in D BY <1>1, <1>11, <1>12, <1>13, Zenon
<1>15. \A k \in 1 .. n : k - 1 \in D => k \in D BY <1>2, <1>7, <1>11, <1>12, Zenon
<1>16. n \in D BY <1>13, <1>14, <1>15, Upto, Zenon
<1>17. QED BY <1>1, <1>12, <1>16, Zenon

\* A round of the loop that removes whose send failed, last to first: it may
\* have removed as many as there were rounds.
LeftAfter(n, k) == {w \in RsrSlots \X Seq(RsrClient) :
                      n - k <= Len(w[2]) /\ Len(w[2]) <= n /\ Backing(w[1], w[2])}
Round(n, bad, w, k) ==
    IF (n + 1 - k) \in bad THEN rsr_remove_client(w[1], w[2], n + 1 - k) ELSE w

LEMMA RoundLeaves ==
    ASSUME NEW n \in Nat, NEW bad, NEW k \in 1 .. n, NEW w \in LeftAfter(n, k - 1)
    PROVE  Round(n, bad, w, k) \in LeftAfter(n, k)
<1>1. PICK sl, cs : sl = w[1] /\ cs = w[2] BY Zenon
<1>2. Backing(sl, cs) /\ n - (k - 1) <= Len(cs) /\ Len(cs) <= n BY <1>1, Zenon DEF LeftAfter
<1>3. cs \in Seq(RsrClient) BY <1>2, Zenon DEF Backing
<1>4. PICK m \in Nat, j \in Int : m = Len(cs) /\ j = n + 1 - k BY <1>3
<1>5. j \in 1 .. m /\ n - k <= m - 1 /\ m - 1 <= n /\ n - k <= m /\ m <= n BY <1>2, <1>4
<1>6. CASE j \in bad
  <2>1. PICK tl, ds : tl = LeaveSlot(sl, cs[j].at) /\ ds = RemoveAt(cs, j) BY Zenon
  <2>2. Backing(tl, ds) /\ Len(ds) = m - 1 BY <1>2, <1>4, <1>5, <2>1, Leaves, Zenon
  <2>3. tl \in RsrSlots /\ ds \in Seq(RsrClient) BY <2>2, Zenon DEF Backing
  <2>4. <<tl, ds>> \in RsrSlots \X Seq(RsrClient) /\ <<tl, ds>>[1] = tl /\ <<tl, ds>>[2] = ds BY <2>3
  <2>5. Round(n, bad, w, k) = <<tl, ds>> BY <1>1, <1>4, <1>6, <2>1, Zenon DEF Round, rsr_remove_client
  <2>6. QED BY <1>5, <2>2, <2>4, <2>5, Zenon DEF LeftAfter
<1>7. CASE j \notin bad
  <2>1. Round(n, bad, w, k) = w BY <1>4, <1>7, Zenon DEF Round
  <2>2. QED BY <1>1, <1>2, <1>4, <1>5, <2>1, Zenon DEF LeftAfter
<1>8. QED BY <1>6, <1>7

LEMMA LoopRemoves ==
    ASSUME NEW n \in Nat, NEW bad, NEW a \in LeftAfter(n, 0), NEW g,
           g = (CHOOSE c : c = [k \in 0 .. n |-> IF k = 0 THEN a ELSE Round(n, bad, c[k - 1], k)])
    PROVE  g[n] \in LeftAfter(n, n)
<1>1. PICK A : A = UNION {LeftAfter(n, k) : k \in 0 .. n} BY Zenon
<1> DEFINE H(w, k) == IF w \in LeftAfter(n, k - 1) THEN Round(n, bad, w, k) ELSE w
<1>7. \A k \in 1 .. n : k - 1 \in 0 .. n /\ k \in 0 .. n /\ k # 0 OBVIOUS
<1>2. ASSUME NEW k \in 1 .. n, NEW w \in A PROVE H(w, k) \in A
  <2>1. CASE w \in LeftAfter(n, k - 1)
    <3>1. Round(n, bad, w, k) \in LeftAfter(n, k) BY <2>1, RoundLeaves, Zenon
    <3>2. QED BY <1>1, <1>7, <2>1, <3>1, Zenon
  <2>2. CASE w \notin LeftAfter(n, k - 1) BY <2>2, Zenon
  <2>3. QED BY <2>1, <2>2
<1> HIDE DEF H
<1>3. PICK F : F = [k \in 1 .. n |-> [w \in A |-> H(w, k)]] BY Zenon
<1>4. F \in Rounds(n, A) BY <1>2, <1>3, Zenon DEF Rounds
<1>13. 0 \in 0 .. n /\ n \in 0 .. n OBVIOUS
<1>a. a \in A BY <1>1, <1>13, Zenon
<1>5. PICK f : Iterates(f, n, A, a, F) BY <1>4, <1>a, IterationExists, Zenon
<1>6. f \in [0 .. n -> A] /\ f[0] = a /\ \A k \in 1 .. n : f[k] = F[k][f[k - 1]] BY <1>5, Zenon DEF Iterates
<1>8. \A k \in 1 .. n : f[k] = H(f[k - 1], k) BY <1>3, <1>6, <1>7, Zenon
<1>9. PICK C : C = {k \in 0 .. n : f[k] \in LeftAfter(n, k)} BY Zenon
<1>10. 0 \in C BY <1>6, <1>9, <1>13, Zenon
<1>11. ASSUME NEW k \in 1 .. n, k - 1 \in C PROVE k \in C
  <2>1. f[k - 1] \in LeftAfter(n, k - 1) BY <1>9, <1>11, Zenon
  <2>2. PICK w : w = f[k - 1] BY Zenon
  <2>3. Round(n, bad, w, k) \in LeftAfter(n, k) BY <2>1, <2>2, RoundLeaves, Zenon
  <2>4. f[k] = Round(n, bad, w, k) BY <1>8, <2>1, <2>2, Zenon DEF H
  <2>5. QED BY <1>7, <1>9, <2>3, <2>4, Zenon
<1>12. \A k \in 0 .. n : k \in C BY <1>10, <1>11, Upto, Zenon
<1>14. \A k \in 1 .. n : f[k - 1] \in LeftAfter(n, k - 1) BY <1>7, <1>9, <1>12, Zenon
<1>15. \A k \in 1 .. n : f[k] = Round(n, bad, f[k - 1], k) BY <1>8, <1>14, Zenon DEF H
<1>16. \A k \in 0 .. n : k = 0 \/ k \in 1 .. n OBVIOUS
<1>17. f = [k \in 0 .. n |-> IF k = 0 THEN a ELSE Round(n, bad, f[k - 1], k)] BY <1>6, <1>15, <1>16, Zenon
<1>18. g = [k \in 0 .. n |-> IF k = 0 THEN a ELSE Round(n, bad, g[k - 1], k)] BY <1>17, Zenon
<1>19. PICK D : D = {k \in 0 .. n : g[k] \in LeftAfter(n, k)} BY Zenon
<1>20. 0 \in D BY <1>13, <1>18, <1>19, Zenon
<1>21. ASSUME NEW k \in 1 .. n, k - 1 \in D PROVE k \in D
  <2>1. PICK w \in LeftAfter(n, k - 1) : w = g[k - 1] BY <1>19, <1>21, Zenon
  <2>2. Round(n, bad, w, k) \in LeftAfter(n, k) BY <2>1, RoundLeaves, Zenon
  <2>3. g[k] = Round(n, bad, w, k) BY <1>7, <1>18, <2>1, Zenon
  <2>4. QED BY <1>7, <1>19, <2>2, <2>3, Zenon
<1>22. n \in D BY <1>13, <1>20, <1>21, Upto, Zenon
<1>23. QED BY <1>19, <1>22, Zenon

LEMMA RemovedBacked ==
    ASSUME NEW sl, NEW cs, Backing(sl, cs), NEW bad, NEW w, w = Removed(sl, cs, bad)
    PROVE  Backing(w[1], w[2]) /\ Len(w[2]) <= Len(cs)
<1>1. sl \in RsrSlots /\ cs \in Seq(RsrClient) BY Zenon DEF Backing
<1>2. PICK n \in Nat : n = Len(cs) BY <1>1
<1>3. PICK a : a = <<sl, cs>> BY Zenon
<1>4. a[1] = sl /\ a[2] = cs /\ a \in RsrSlots \X Seq(RsrClient) /\ n - 0 <= n /\ n <= n BY <1>1, <1>3
<1>5. a \in LeftAfter(n, 0) BY <1>2, <1>4, Zenon DEF LeftAfter
<1>6. PICK g : g = (CHOOSE c : c = [k \in 0 .. n |-> IF k = 0 THEN a ELSE Round(n, bad, c[k - 1], k)]) BY Zenon
<1>7. g[n] \in LeftAfter(n, n) BY <1>5, <1>6, LoopRemoves, Zenon
<1>8. w = g[n] BY <1>2, <1>3, <1>6, Zenon DEF Removed, Round
<1>9. QED BY <1>2, <1>7, <1>8, Zenon DEF LeftAfter

-----------------------------------------------------------------------------
(* The steps of rsr. *)
LEMMA ClientsMapped ==
    ASSUME NEW sl, NEW cs, Backing(sl, cs), NEW ds, DOMAIN ds = DOMAIN cs,
           ds \in [DOMAIN cs -> RsrClient], \A k \in DOMAIN cs : ds[k].at = cs[k].at
    PROVE  Backing(sl, ds) /\ Len(ds) = Len(cs) /\ ds \in Seq(RsrClient)
<1>1. cs \in Seq(RsrClient) BY Zenon DEF Backing
<1>2. PICK n \in Nat : n = Len(cs) /\ DOMAIN cs = 1 .. n BY <1>1
<1>3. ds \in [1 .. n -> RsrClient] BY <1>2, Zenon
<1>4. ds \in Seq(RsrClient) /\ Len(ds) = n BY <1>3, FunctionSeq, Zenon
<1>5. QED BY <1>2, <1>4, ClientsOnly, Zenon

LEMMA SlotKept ==
    ASSUME NEW sl, NEW cs, Backing(sl, cs), NEW r \in 1 .. RSlots, NEW q \in RsrSlot,
           q.count = sl[r].count, q.boot = sl[r].boot, q.active => sl[r].active
    PROVE  Backing([sl EXCEPT ![r] = q], cs)
<1>1. cs \in Seq(RsrClient) /\ Backed(sl[r], Cardinality(On(cs, r))) BY Zenon DEF Backing, AllBacked
<1>2. Backed(q, Cardinality(On(cs, r))) BY <1>1, Zenon DEF Backed
<1>3. QED BY <1>1, <1>2, OneBacked, Zenon

LEMMA FaultLeft == ASSUME RsrInv, NEW n \in {0, 1}, RFault(n) PROVE rleft' \in 0 .. RFaults
<1>1. rleft \in 0 .. RFaults BY Zenon DEF RsrInv
<1>2. rleft >= n /\ rleft' = rleft - n BY Zenon DEF RFault
<1>3. QED BY <1>1, <1>2, RsrConstants

LEMMA Numbers ==
    /\ RSlots \in Nat /\ RSlots >= 1 /\ RMax \in Nat /\ RIdle \in Nat /\ RIdle >= 1 /\ RFaults \in Nat
    /\ POLL \in POLL .. AUDIO /\ REOPEN \in POLL .. AUDIO /\ 1 \in POLL .. AUDIO
    /\ 0 \in 0 .. RIdle /\ RFaults \in 0 .. RFaults /\ 0 \in {0, 1} /\ 1 \in {0, 1}
    /\ \A k \in 1 .. RSlots : k + 1 \in POLL .. AUDIO
BY RsrConstants DEF POLL, REOPEN, AUDIO

LEMMA ProducerSteps ==
    ASSUME RsrInv, \/ AudioIn \/ AudioDies
                   \/ \E n \in RNames : FrameIn(n, "key") \/ FrameIn(n, "delta") \/ RingDies(n) \/ RingBorn(n)
    PROVE  RsrInv'
<1>1. CASE AudioIn BY <1>1, Zenon DEF RsrInv, AudioIn
<1>2. CASE AudioDies
  <2>1. RFault(1) /\ UNCHANGED <<rup, slot, srt, rpc>> BY <1>2, Zenon DEF AudioDies
  <2>2. rleft' \in 0 .. RFaults BY <2>1, FaultLeft, Numbers, Zenon
  <2>3. QED BY <2>1, <2>2, Zenon DEF RsrInv
<1>3. ASSUME NEW n \in RNames, NEW kind \in {"key", "delta"}, FrameIn(n, kind) PROVE RsrInv'
  <2>1. PICK x : x = (IF \E i \in RsrLive(n) : slot[i].count > 0 /\ slot[i].next # "none" THEN 1 ELSE 0) BY Zenon
  <2>2. x \in {0, 1} BY <2>1, Zenon
  <2>3. RFault(x) /\ UNCHANGED <<rup, srt, raud, rpc>> BY <1>3, <2>1, Zenon DEF FrameIn
  <2>4. rleft' \in 0 .. RFaults BY <2>2, <2>3, FaultLeft, Zenon
  <2>5. PICK sl, cs, tl : sl = slot /\ cs = srt /\ tl = slot' BY Zenon
  <2>6. Backing(sl, cs) BY <2>5, Zenon DEF RsrInv
  <2>7. tl = [i \in 1 .. RSlots |-> IF i \in RsrLive(n) THEN [sl[i] EXCEPT !.next = Put(@, kind), !.idle = 0] ELSE sl[i]]
    BY <1>3, <2>5, Zenon DEF FrameIn
  <2>8. ASSUME NEW i \in 1 .. RSlots
        PROVE  /\ tl[i] \in RsrSlot /\ tl[i].count = sl[i].count /\ tl[i].boot = sl[i].boot
               /\ tl[i].active => sl[i].active
    <3>1. PICK s \in RsrSlot : s = sl[i] BY <2>6, Zenon DEF Backing, RsrSlots
    <3>2. PICK m \in Items : m = Put(s.next, kind) BY Zenon DEF RsrSlot, Items, Put
    <3>3. PICK z \in 0 .. RIdle : z = 0 BY Numbers, Zenon
    <3>4. PICK q : q = [s EXCEPT !.next = m, !.idle = z] BY Zenon
    <3>5. q \in RsrSlot /\ q.count = s.count /\ q.boot = s.boot /\ q.active = s.active BY <3>4, Zenon DEF RsrSlot
    <3>6. tl[i] = q \/ tl[i] = s BY <2>7, <3>1, <3>2, <3>3, <3>4, Zenon
    <3>7. QED BY <3>1, <3>5, <3>6, Zenon
  <2>9. tl \in RsrSlots BY <2>7, <2>8, Zenon DEF RsrSlots
  <2>10. Backing(tl, cs) BY <2>6, <2>8, <2>9, SlotsOnly, Zenon
  <2>11. QED BY <2>3, <2>4, <2>5, <2>10, Zenon DEF RsrInv
<1>4. ASSUME NEW n \in RNames, RingDies(n) PROVE RsrInv'
  <2>1. RFault(1) /\ UNCHANGED <<srt, raud, rpc>> /\ rup' = rup \ {n} BY <1>4, Zenon DEF RingDies
  <2>2. rleft' \in 0 .. RFaults BY <2>1, FaultLeft, Numbers, Zenon
  <2>5. PICK sl, cs, tl : sl = slot /\ cs = srt /\ tl = slot' BY Zenon
  <2>6. Backing(sl, cs) BY <2>5, Zenon DEF RsrInv
  <2>7. tl = [i \in 1 .. RSlots |-> IF sl[i].active /\ sl[i].name = n THEN [sl[i] EXCEPT !.dead = TRUE] ELSE sl[i]]
    BY <1>4, <2>5, Zenon DEF RingDies
  <2>8. ASSUME NEW i \in 1 .. RSlots
        PROVE  /\ tl[i] \in RsrSlot /\ tl[i].count = sl[i].count /\ tl[i].boot = sl[i].boot
               /\ tl[i].active => sl[i].active
    <3>1. PICK s \in RsrSlot : s = sl[i] BY <2>6, Zenon DEF Backing, RsrSlots
    <3>2. PICK t : t = TRUE BY Zenon
    <3>4. PICK q : q = [s EXCEPT !.dead = t] BY Zenon
    <3>5. q \in RsrSlot /\ q.count = s.count /\ q.boot = s.boot /\ q.active = s.active BY <3>2, <3>4, Zenon DEF RsrSlot
    <3>6. tl[i] = q \/ tl[i] = s BY <2>7, <3>1, <3>2, <3>4, Zenon
    <3>7. QED BY <3>1, <3>5, <3>6, Zenon
  <2>9. tl \in RsrSlots BY <2>7, <2>8, Zenon DEF RsrSlots
  <2>10. Backing(tl, cs) BY <2>6, <2>8, <2>9, SlotsOnly, Zenon
  <2>11. QED BY <2>1, <2>2, <2>5, <2>10, Zenon DEF RsrInv
<1>5. ASSUME NEW n \in RNames, RingBorn(n) PROVE RsrInv' BY <1>5, Zenon DEF RsrInv, RingBorn
<1>6. "key" \in {"key", "delta"} /\ "delta" \in {"key", "delta"} OBVIOUS
<1>7. QED BY <1>1, <1>2, <1>3, <1>4, <1>5, <1>6, Zenon

LEMMA AcceptStep == ASSUME RsrInv, accept_client PROVE RsrInv'
<1>1. rpc = POLL /\ RFault(1) /\ Len(srt) < RMax /\ UNCHANGED <<rup, raud, rpc>> BY Zenon DEF accept_client
<1>2. rleft' \in 0 .. RFaults BY <1>1, FaultLeft, Numbers, Zenon
<1>3. PICK sl, cs : sl = slot /\ cs = srt BY Zenon
<1>4. Backing(sl, cs) BY <1>3, Zenon DEF RsrInv
<1>5. PICK n \in RNames :
        LET o == rsr_stream_get_or_open(slot, n)
        IN IF o[2] = 0 THEN UNCHANGED <<slot, srt>>
           ELSE /\ slot' = [o[1] EXCEPT ![o[2]] = [o[1][o[2]] EXCEPT !.count = @ + 1, !.boot = FALSE]]
                /\ srt' = Append(srt, [at |-> o[2], want |-> n, wait |-> TRUE, fed |-> FALSE])
  BY Zenon DEF accept_client
<1>6. PICK o : o = rsr_stream_get_or_open(sl, n) BY Zenon
<1>7. CASE o[2] = 0
  <2>1. UNCHANGED <<slot, srt>> BY <1>3, <1>5, <1>6, <1>7, Zenon
  <2>2. QED BY <1>1, <1>2, <2>1, Zenon DEF RsrInv
<1>8. CASE o[2] # 0
  <2>1. /\ slot' = [o[1] EXCEPT ![o[2]] = [o[1][o[2]] EXCEPT !.count = @ + 1, !.boot = FALSE]]
        /\ srt' = Append(cs, [at |-> o[2], want |-> n, wait |-> TRUE, fed |-> FALSE])
    BY <1>3, <1>5, <1>6, <1>8, Zenon
  <2>2. sl \in RsrSlots /\ cs \in Seq(RsrClient) BY <1>4, Zenon DEF Backing
  <2>3. Given(sl, o[1], o[2]) BY <1>6, <2>2, SlotOpened, Zenon
  <2>4. PICK r \in 1 .. RSlots : r = o[2] BY <1>8, <2>3, Zenon DEF Given
  <2>5. PICK t, f : t = TRUE /\ f = FALSE BY Zenon
  <2>6. PICK e : e = [at |-> r, want |-> n, wait |-> t, fed |-> f] BY Zenon
  <2>7. e \in RsrClient /\ e.at = r BY <2>5, <2>6, Zenon DEF RsrClient
  <2>8. srt' = Append(cs, e) BY <2>1, <2>4, <2>5, <2>6, Zenon
  <2>9. /\ Backing([o[1] EXCEPT ![o[2]] = [o[1][o[2]] EXCEPT !.count = @ + 1, !.boot = FALSE]], Append(cs, e))
        /\ Len(Append(cs, e)) = Len(cs) + 1
    BY <1>4, <1>6, <1>8, <2>4, <2>7, JoinsSlot, ZenonT(60)
  <2>10. PICK m \in Nat : m = Len(cs) BY <2>2
  <2>11. m < RMax BY <1>1, <1>3, <2>10, Zenon
  <2>12. m + 1 <= RMax BY <2>11, Numbers
  <2>13. Backing(slot', srt') /\ Len(srt') <= RMax BY <2>1, <2>8, <2>9, <2>10, <2>12, Zenon
  <2>14. QED BY <1>1, <1>2, <2>13, Zenon DEF RsrInv
<1>9. QED BY <1>7, <1>8

LEMMA LeaveStep == ASSUME RsrInv, ClientLeaves PROVE RsrInv'
<1>1. rpc = POLL /\ UNCHANGED <<rup, raud, rpc, rleft>> BY Zenon DEF ClientLeaves
<1>3. PICK sl, cs : sl = slot /\ cs = srt BY Zenon
<1>4. Backing(sl, cs) /\ Len(cs) <= RMax BY <1>3, Zenon DEF RsrInv
<1>5. PICK k \in DOMAIN cs : Becomes(rsr_remove_client(sl, cs, k)) BY <1>3, Zenon DEF ClientLeaves
<1>6. PICK m \in Nat : m = Len(cs) /\ DOMAIN cs = 1 .. m
  <2>1. cs \in Seq(RsrClient) BY <1>4, Zenon DEF Backing
  <2>2. QED BY <2>1
<1>7. PICK tl, ds : tl = LeaveSlot(sl, cs[k].at) /\ ds = RemoveAt(cs, k) BY Zenon
<1>8. Backing(tl, ds) /\ Len(ds) = m - 1 BY <1>4, <1>5, <1>6, <1>7, Leaves, Zenon
<1>9. slot' = <<tl, ds>>[1] /\ srt' = <<tl, ds>>[2] BY <1>5, <1>7, Zenon DEF Becomes, rsr_remove_client
<1>10. slot' = tl /\ srt' = ds BY <1>9
<1>11. m <= RMax BY <1>4, <1>6, Zenon
<1>12. m - 1 <= RMax BY <1>11, Numbers
<1>13. QED BY <1>1, <1>8, <1>10, <1>12, Zenon DEF RsrInv

LEMMA PolledStep == ASSUME RsrInv, Polled PROVE RsrInv'
<1>1. rpc' = REOPEN /\ UNCHANGED <<rup, slot, rleft>> BY Zenon DEF Polled
<1>2. PICK sl, cs, ds : sl = slot /\ cs = srt /\ ds = srt' BY Zenon
<1>3. Backing(sl, cs) /\ Len(cs) <= RMax BY <1>2, Zenon DEF RsrInv
<1>4. ds = [k \in DOMAIN cs |-> [cs[k] EXCEPT !.fed = FALSE]] BY <1>2, Zenon DEF Polled
<1>5. ASSUME NEW k \in DOMAIN cs PROVE ds[k] \in RsrClient /\ ds[k].at = cs[k].at
  <2>1. cs \in Seq(RsrClient) BY <1>3, Zenon DEF Backing
  <2>2. cs[k] \in RsrClient BY <2>1
  <2>3. PICK c \in RsrClient, f \in BOOLEAN : c = cs[k] /\ f = FALSE BY <2>2, Zenon
  <2>4. PICK d : d = [c EXCEPT !.fed = f] BY Zenon
  <2>5. d \in RsrClient /\ d.at = c.at BY <2>3, <2>4, Zenon DEF RsrClient
  <2>6. QED BY <1>4, <2>3, <2>4, <2>5, Zenon
<1>6. DOMAIN ds = DOMAIN cs /\ ds \in [DOMAIN cs -> RsrClient] BY <1>4, <1>5, Zenon
<1>7. Backing(sl, ds) /\ Len(ds) = Len(cs) BY <1>3, <1>5, <1>6, ClientsMapped, Zenon
<1>8. QED BY <1>1, <1>2, <1>3, <1>7, Numbers, Zenon DEF RsrInv

LEMMA ReopenDeadStep == ASSUME RsrInv, ReopenDead PROVE RsrInv'
<1>1. rpc' = 1 /\ UNCHANGED <<rup, raud, rleft>> BY Zenon DEF ReopenDead
<1>2. PICK sl, cs, a : sl = slot /\ cs = srt /\ a = <<sl, cs>> BY Zenon
<1>3. Backing(sl, cs) /\ Len(cs) <= RMax BY <1>2, Zenon DEF RsrInv
<1>4. PICK n \in Nat : n = Len(cs)
  <2>1. cs \in Seq(RsrClient) BY <1>3, Zenon DEF Backing
  <2>2. QED BY <2>1
<1>5. PICK g : g = (CHOOSE c : c = [k \in 0 .. n |-> IF k = 0 THEN a ELSE Reopened(c[k - 1], k)]) BY Zenon
<1>6. Becomes(g[n]) BY <1>2, <1>4, <1>5, Zenon DEF ReopenDead
<1>7. a \in Worlds(n) BY <1>2, <1>3, <1>4, InWorlds, Zenon
<1>8. g[n] \in Worlds(n) BY <1>5, <1>7, AllReopened, Zenon
<1>9. Backing(slot', srt') /\ Len(srt') = n BY <1>6, <1>8, Zenon DEF Worlds, Becomes
<1>10. QED BY <1>1, <1>3, <1>4, <1>9, Numbers, Zenon DEF RsrInv

LEMMA ReadMapped ==
    ASSUME NEW sl, NEW cs, Backing(sl, cs), NEW i, NEW ds, ds = Gated(cs, i) \/ \E key : ds = Fed(cs, i, key)
    PROVE  Backing(sl, ds) /\ Len(ds) = Len(cs) /\ ds \in Seq(RsrClient)
<1>1. cs \in Seq(RsrClient) BY Zenon DEF Backing
<1>2. PICK t, f : t = TRUE /\ f = FALSE BY Zenon
<1>3. ASSUME NEW k \in DOMAIN cs PROVE ds[k] \in RsrClient /\ ds[k].at = cs[k].at
  <2>1. cs[k] \in RsrClient BY <1>1
  <2>2. PICK c \in RsrClient : c = cs[k] BY <2>1, Zenon
  <2>3. PICK d, e : d = [c EXCEPT !.wait = t] /\ e = [c EXCEPT !.wait = f, !.fed = t] BY Zenon
  <2>4. d \in RsrClient /\ d.at = c.at BY <1>2, <2>3, Zenon DEF RsrClient
  <2>5. e \in RsrClient /\ e.at = c.at BY <1>2, <2>3, Zenon DEF RsrClient
  <2>6. ds[k] = c \/ ds[k] = d \/ ds[k] = e BY <1>2, <2>2, <2>3, Zenon DEF Gated, Fed
  <2>7. QED BY <2>2, <2>4, <2>5, <2>6, Zenon
<1>4. DOMAIN ds = DOMAIN cs /\ ds = [k \in DOMAIN cs |-> ds[k]] BY Zenon DEF Gated, Fed
<1>5. ds \in [DOMAIN cs -> RsrClient] BY <1>3, <1>4, Zenon
<1>6. QED BY <1>3, <1>4, <1>5, ClientsMapped, Zenon

LEMMA ReadNothingStep == ASSUME RsrInv, ReadNothing PROVE RsrInv'
<1>1. rpc \in 1 .. RSlots /\ rpc' = rpc + 1 /\ UNCHANGED <<rup, raud>> BY Zenon DEF ReadNothing
<1>2. rpc' \in POLL .. AUDIO BY <1>1, Numbers, Zenon
<1>3. PICK sl, cs, tl, ds : sl = slot /\ cs = srt /\ tl = slot' /\ ds = srt' BY Zenon
<1>4. Backing(sl, cs) /\ Len(cs) <= RMax BY <1>3, Zenon DEF RsrInv
<1>5. PICK r \in 1 .. RSlots : r = rpc BY <1>1, Zenon
<1>6. PICK s \in RsrSlot : s = sl[r] BY <1>4, Zenon DEF Backing, RsrSlots
<1>7. PICK f, z : f = FALSE /\ z = "none" BY Zenon
<1>8. PICK y \in 0 .. RIdle : y = 0 BY Numbers, Zenon
<1>9. \/ tl = sl /\ ds = cs /\ rleft' = rleft
      \/ s.idle + 1 < RIdle /\ tl = [sl EXCEPT ![r].idle = @ + 1] /\ ds = cs /\ rleft' = rleft
      \/ /\ RFault(IF s.dead THEN 0 ELSE 1) /\ ds = Gated(cs, r)
         /\ tl = [sl EXCEPT ![r] = [s EXCEPT !.active = FALSE, !.dead = FALSE, !.idle = 0]]
      \/ tl = [sl EXCEPT ![r].next = "none"] /\ ds = Gated(cs, r) /\ rleft' = rleft
      \/ tl = [sl EXCEPT ![r].next = "none"] /\ ds = cs /\ RFault(1)
  BY <1>3, <1>5, <1>6, Zenon DEF ReadNothing
<1>10. Backing(sl, ds) /\ Len(ds) = Len(cs)
  <2>1. ds = cs \/ ds = Gated(cs, r) BY <1>9, Zenon
  <2>2. CASE ds = cs BY <1>4, <2>2, Zenon
  <2>3. CASE ds = Gated(cs, r) BY <1>4, <2>3, ReadMapped, Zenon
  <2>4. QED BY <2>1, <2>2, <2>3
<1>11. rleft' \in 0 .. RFaults
  <2>1. rleft' = rleft \/ \E n \in {0, 1} : RFault(n)
    <3>1. (IF s.dead THEN 0 ELSE 1) \in {0, 1} /\ 1 \in {0, 1} BY Zenon
    <3>2. QED BY <1>9, <3>1, Zenon
  <2>2. rleft \in 0 .. RFaults BY Zenon DEF RsrInv
  <2>3. QED BY <2>1, <2>2, FaultLeft, Zenon
<1>12. \/ tl = sl
       \/ \E q \in RsrSlot : /\ tl = [sl EXCEPT ![r] = q]
                             /\ q.count = s.count /\ q.boot = s.boot /\ (q.active => s.active)
  <2>1. CASE tl = sl BY <2>1, Zenon
  <2>2. CASE s.idle + 1 < RIdle /\ tl = [sl EXCEPT ![r].idle = @ + 1]
    <3>1. PICK x \in 0 .. RIdle : x = s.idle BY Zenon DEF RsrSlot
    <3>2. x + 1 < RIdle BY <2>2, <3>1, Zenon
    <3>3. x + 1 \in 0 .. RIdle BY <3>2, Numbers
    <3>4. PICK e : e = x + 1 BY Zenon
    <3>5. PICK q : q = [s EXCEPT !.idle = e] BY Zenon
    <3>6. q \in RsrSlot /\ q.count = s.count /\ q.boot = s.boot /\ q.active = s.active
      BY <3>3, <3>4, <3>5, Zenon DEF RsrSlot
    <3>7. tl = [sl EXCEPT ![r] = q] BY <1>6, <2>2, <3>1, <3>4, <3>5, Zenon
    <3>8. QED BY <3>6, <3>7, Zenon
  <2>3. CASE tl = [sl EXCEPT ![r] = [s EXCEPT !.active = FALSE, !.dead = FALSE, !.idle = 0]]
    <3>1. PICK q : q = [s EXCEPT !.active = f, !.dead = f, !.idle = y] BY Zenon
    <3>2. q \in RsrSlot /\ q.count = s.count /\ q.boot = s.boot /\ ~q.active
      BY <1>7, <1>8, <3>1, Zenon DEF RsrSlot
    <3>3. tl = [sl EXCEPT ![r] = q] BY <1>7, <1>8, <2>3, <3>1, Zenon
    <3>4. QED BY <3>2, <3>3, Zenon
  <2>4. CASE tl = [sl EXCEPT ![r].next = "none"]
    <3>1. PICK q : q = [s EXCEPT !.next = z] BY Zenon
    <3>2. q \in RsrSlot /\ q.count = s.count /\ q.boot = s.boot /\ q.active = s.active
      BY <1>7, <3>1, Zenon DEF RsrSlot, Items
    <3>3. tl = [sl EXCEPT ![r] = q] BY <1>6, <1>7, <2>4, <3>1, Zenon
    <3>4. QED BY <3>2, <3>3, Zenon
  <2>5. QED BY <1>9, <2>1, <2>2, <2>3, <2>4, Zenon
<1>13. Backing(tl, ds)
  <2>1. CASE tl = sl BY <1>10, <2>1, Zenon
  <2>2. CASE tl # sl
    <3>1. PICK q \in RsrSlot : /\ tl = [sl EXCEPT ![r] = q]
                               /\ q.count = s.count /\ q.boot = s.boot /\ (q.active => s.active)
      BY <1>12, <2>2, Zenon
    <3>2. Backing([sl EXCEPT ![r] = q], ds) BY <1>6, <1>10, <3>1, SlotKept, Zenon
    <3>3. QED BY <3>1, <3>2, Zenon
  <2>3. QED BY <2>1, <2>2
<1>14. QED BY <1>1, <1>2, <1>3, <1>4, <1>10, <1>11, <1>13, Zenon DEF RsrInv

LEMMA SentBacked ==
    ASSUME NEW sl, NEW cs, Backing(sl, cs), Len(cs) <= RMax, NEW to, rsr_srt_send_to_client(sl, cs, to)
    PROVE  Backing(slot', srt') /\ Len(srt') <= RMax
<1>1. PICK bad : Becomes(Removed(sl, cs, bad)) BY Zenon DEF rsr_srt_send_to_client
<1>2. PICK w : w = Removed(sl, cs, bad) BY Zenon
<1>3. Backing(w[1], w[2]) /\ Len(w[2]) <= Len(cs) BY <1>2, RemovedBacked, Zenon
<1>4. slot' = w[1] /\ srt' = w[2] BY <1>1, <1>2, Zenon DEF Becomes
<1>5. PICK x \in Nat, y \in Nat : x = Len(w[2]) /\ y = Len(cs)
  <2>1. w[2] \in Seq(RsrClient) /\ cs \in Seq(RsrClient) BY <1>3, Zenon DEF Backing
  <2>2. Len(w[2]) \in Nat /\ Len(cs) \in Nat BY <2>1
  <2>3. QED BY <2>2, Zenon
<1>6. x <= y /\ y <= RMax BY <1>3, <1>5, Zenon
<1>7. x <= RMax BY <1>6, Numbers
<1>8. QED BY <1>3, <1>4, <1>5, <1>7, Zenon

LEMMA DistributeStep == ASSUME RsrInv, Distribute PROVE RsrInv'
<1>1. rpc \in 1 .. RSlots /\ rpc' = rpc + 1 /\ UNCHANGED <<rup, raud, rleft>> BY Zenon DEF Distribute
<1>2. rpc' \in POLL .. AUDIO BY <1>1, Numbers, Zenon
<1>3. PICK sl, cs : sl = slot /\ cs = srt BY Zenon
<1>4. Backing(sl, cs) /\ Len(cs) <= RMax BY <1>3, Zenon DEF RsrInv
<1>5. PICK r \in 1 .. RSlots : r = rpc BY <1>1, Zenon
<1>6. PICK s \in RsrSlot : s = sl[r] BY <1>4, Zenon DEF Backing, RsrSlots
<1>7. PICK z : z = "none" BY Zenon
<1>8. PICK y \in 0 .. RIdle : y = 0 BY Numbers, Zenon
<1>9. PICK key, fed, to : /\ key = (s.next = "key") /\ fed = Fed(cs, r, key)
                          /\ to = {k \in DOMAIN cs : cs[k].at = r /\ ~fed[k].wait}
  BY Zenon
<1>10. PICK q, tl : q = [s EXCEPT !.next = z, !.idle = y] /\ tl = [sl EXCEPT ![r] = q] BY Zenon
<1>11. rsr_srt_send_to_client(tl, fed, to) BY <1>3, <1>5, <1>6, <1>7, <1>8, <1>9, <1>10, Zenon DEF Distribute
<1>12. q \in RsrSlot /\ q.count = s.count /\ q.boot = s.boot /\ q.active = s.active
  BY <1>7, <1>8, <1>10, Zenon DEF RsrSlot, Items
<1>a. fed = Gated(cs, r) \/ \E k : fed = Fed(cs, r, k) BY <1>9, Zenon
<1>13. Backing(sl, fed) /\ Len(fed) = Len(cs) BY <1>4, <1>a, ReadMapped, Zenon
<1>14. Backing(tl, fed) BY <1>6, <1>10, <1>12, <1>13, SlotKept, Zenon
<1>15. Len(fed) <= RMax BY <1>4, <1>13, Zenon
<1>16. Backing(slot', srt') /\ Len(srt') <= RMax BY <1>11, <1>14, <1>15, SentBacked, Zenon
<1>17. QED BY <1>1, <1>2, <1>16, Zenon DEF RsrInv

LEMMA AudioPassStep == ASSUME RsrInv, AudioPass PROVE RsrInv'
<1>1. rpc' = POLL /\ UNCHANGED <<rup, rleft>> BY Zenon DEF AudioPass
<1>2. rpc' \in POLL .. AUDIO BY <1>1, Numbers, Zenon
<1>3. PICK sl, cs, to : sl = slot /\ cs = srt /\ to = {k \in DOMAIN srt : ~srt[k].wait} BY Zenon
<1>4. Backing(sl, cs) /\ Len(cs) <= RMax BY <1>3, Zenon DEF RsrInv
<1>5. rsr_srt_send_to_client(sl, cs, to) \/ UNCHANGED <<slot, srt>> BY <1>3, Zenon DEF AudioPass
<1>6. CASE rsr_srt_send_to_client(sl, cs, to)
  <2>1. Backing(slot', srt') /\ Len(srt') <= RMax BY <1>4, <1>6, SentBacked, Zenon
  <2>2. QED BY <1>1, <1>2, <2>1, Zenon DEF RsrInv
<1>7. CASE UNCHANGED <<slot, srt>> BY <1>1, <1>2, <1>7, Zenon DEF RsrInv
<1>8. QED BY <1>5, <1>6, <1>7

LEMMA RsrStep == ASSUME RsrInv, RsrNext \/ UNCHANGED rvars PROVE RsrInv'
<1>1. CASE UNCHANGED rvars BY <1>1, Zenon DEF rvars, RsrInv
<1>2. CASE RsrNext
  BY <1>2, ProducerSteps, AcceptStep, LeaveStep, PolledStep, ReopenDeadStep, ReadNothingStep, DistributeStep,
     AudioPassStep, Zenon DEF RsrNext, ServePass
<1>3. QED BY <1>1, <1>2

LEMMA RsrStart == ASSUME RsrInit PROVE RsrInv
<1>1. PICK sl, o : sl = [i \in 1 .. RSlots |-> NoSlot] /\ o = rsr_stream_get_or_open(sl, RDefault) BY Zenon
<1>2. rup \subseteq RNames /\ slot = o[1] /\ srt = <<>> /\ rpc = POLL /\ rleft = RFaults BY <1>1, Zenon DEF RsrInit
<1>3. NoSlot \in RsrSlot /\ NoSlot.count = 0 /\ NoSlot.boot = TRUE
  <2>1. PICK z, y, t, f, e, d : z = 0 /\ y = 0 /\ t = TRUE /\ f = FALSE /\ e = "none" /\ d = RDefault BY Zenon
  <2>2. z \in Int /\ y \in 0 .. RIdle /\ d \in RNames BY <2>1, Numbers, RsrConstants
  <2>3. NoSlot = [name |-> d, active |-> f, dead |-> f, count |-> z, idle |-> y, next |-> e, boot |-> t]
    BY <2>1, Zenon DEF NoSlot
  <2>4. QED BY <2>1, <2>2, <2>3, Zenon DEF RsrSlot, Items
<1>4. sl \in RsrSlots BY <1>1, <1>3, Zenon DEF RsrSlots
<1>5. RDefault \in RNames BY RsrConstants
<1>6. Given(sl, o[1], o[2]) BY <1>1, <1>4, <1>5, SlotOpened, Zenon
<1>7. PICK tl, r : tl = o[1] /\ r = o[2] BY Zenon
<1>8. tl \in RsrSlots /\ \A i \in 1 .. RSlots : tl[i].count = 0 /\ tl[i].boot = TRUE
  <2>1. \A i \in 1 .. RSlots : sl[i].count = 0 /\ sl[i].boot = TRUE BY <1>1, <1>3, Zenon
  <2>2. CASE tl = sl BY <1>4, <2>1, <2>2, Zenon
  <2>3. CASE tl # sl
    <3>1. PICK q \in RsrSlot : /\ r \in 1 .. RSlots /\ tl = [sl EXCEPT ![r] = q] /\ q.boot = sl[r].boot
                               /\ q.count = sl[r].count \/ q.count = 0
      BY <1>6, <1>7, <2>3, Zenon DEF Given
    <3>2. q.boot = TRUE /\ q.count = 0 BY <2>1, <3>1, Zenon
    <3>3. QED BY <1>4, <2>1, <3>1, <3>2, Zenon DEF RsrSlots
  <2>4. QED BY <2>2, <2>3
<1>9. PICK cs : cs = <<>> BY Zenon
<1>10. cs \in Seq(RsrClient) /\ Len(cs) = 0 /\ 0 <= RMax BY <1>9, Numbers
<1>11. \A i : Cardinality(On(cs, i)) \in Nat BY <1>10, OnFinite, Zenon
<1>12. \A x \in Nat : 0 <= x OBVIOUS
<1>13. AllBacked(tl, cs) BY <1>8, <1>11, <1>12, Zenon DEF AllBacked, Backed
<1>14. Backing(tl, cs) BY <1>8, <1>10, <1>13, Zenon DEF Backing
<1>15. QED BY <1>2, <1>7, <1>9, <1>10, <1>14, Numbers, Zenon DEF RsrInv

LEMMA RsrHolds == ASSUME RsrInv PROVE HeldForSomeone /\ RsrTypeOK
<1>1. PICK sl, cs : sl = slot /\ cs = srt BY Zenon
<1>2. Backing(sl, cs) /\ Len(cs) <= RMax BY <1>1, Zenon DEF RsrInv
<1>3. sl \in RsrSlots /\ cs \in Seq(RsrClient) /\ AllBacked(sl, cs) BY <1>2, Zenon DEF Backing
<1>4. ASSUME NEW i \in 1 .. RSlots, sl[i].active, ~sl[i].boot PROVE \E k \in DOMAIN cs : cs[k].at = i
  <2>1. Cardinality(On(cs, i)) >= 1 BY <1>3, <1>4, Zenon DEF AllBacked, Backed
  <2>2. On(cs, i) # {} BY <2>1, FS_EmptySet
  <2>3. QED BY <2>2, Zenon DEF On
<1>5. HeldForSomeone BY <1>1, <1>4, Zenon DEF HeldForSomeone
<1>6. DOMAIN cs = 1 .. Len(cs) /\ \A k \in DOMAIN cs : cs[k] \in RsrClient BY <1>3
<1>7. \A k \in DOMAIN cs : cs[k].at \in 1 .. RSlots BY <1>6, Zenon DEF RsrClient
<1>8. ASSUME NEW i \in 1 .. RSlots
      PROVE sl[i].name \in RNames /\ sl[i].next \in Items /\ sl[i].idle \in 0 .. RIdle /\ sl[i].count <= RMax
  <2>1. PICK s \in RsrSlot : s = sl[i] BY <1>3, Zenon DEF RsrSlots
  <2>2. s.name \in RNames /\ s.next \in Items /\ s.idle \in 0 .. RIdle BY Zenon DEF RsrSlot
  <2>3. PICK n \in Nat, c \in Int, x \in Nat : n = Len(cs) /\ c = s.count /\ x = Cardinality(On(cs, i))
    <3>1. Len(cs) \in Nat BY <1>3
    <3>2. s.count \in Int BY Zenon DEF RsrSlot
    <3>3. Cardinality(On(cs, i)) \in Nat BY <1>3, OnFinite, Zenon
    <3>4. QED BY <3>1, <3>2, <3>3, Zenon
  <2>4. On(cs, i) \subseteq 1 .. n BY <1>3, <2>3, OnFinite, Zenon
  <2>5. IsFiniteSet(1 .. n) /\ Cardinality(1 .. n) = n BY FS_Interval
  <2>6. x <= n BY <2>3, <2>4, <2>5, FS_Subset
  <2>7. c <= x BY <1>3, <2>1, <2>3, Zenon DEF AllBacked, Backed
  <2>8. n <= RMax BY <1>2, <2>3, Zenon
  <2>9. c <= RMax BY <2>6, <2>7, <2>8, Numbers
  <2>10. QED BY <2>1, <2>2, <2>3, <2>9, Zenon
<1>9. QED BY <1>1, <1>2, <1>5, <1>7, <1>8, Zenon DEF RsrTypeOK, RsrInv

-----------------------------------------------------------------------------
(* rhd's frames.  A client uses the frame its thread sends and the one     *)
(* that waits, which are never the same; a frame has a reference for each  *)
(* client that uses it and one for the loop that fills it.                 *)
HFrame == [refs : Int, pic : BOOLEAN]
Heaps == [1 .. HFrames -> HFrame]
HItem == [f : 1 .. HFrames, pic : BOOLEAN]
HClient == [kind : {"none", "mjpeg", "snap", "sent"}, q : Seq(HItem), tx : 0 .. HFrames, pic : BOOLEAN,
            dead : BOOLEAN, fed : BOOLEAN, off : Nat, wait : Nat]
Waits(x, f) == x.q # <<>> /\ x.q[1].f = f
Uses(x, f) == x.tx = f \/ Waits(x, f)
Orderly(x) ==
    /\ Len(x.q) <= 1 /\ (x.kind # "mjpeg" => x.q = <<>> /\ x.tx = 0)
    /\ x.q # <<>> => x.q[1].f # x.tx
HRoster == {k \in [HClients -> HClient] : \A c \in HClients : Orderly(k[c])}
Shows(h, x) ==
    /\ x.tx # 0 => h[x.tx].pic = x.pic
    /\ x.q # <<>> => h[x.q[1].f].pic = x.q[1].pic
Users(k, f) == {c \in HClients : Uses(k[c], f)}
RefsTrue(h, b, k) == \A f \in 1 .. HFrames : h[f].refs = Cardinality(Users(k, f)) + One(f = b)
Sharing(h, b, k) ==
    /\ h \in Heaps /\ b \in 0 .. HFrames /\ k \in HRoster
    /\ RefsTrue(h, b, k) /\ \A c \in HClients : Shows(h, k[c])
JpegRing == [up : BOOLEAN, have : BOOLEAN, open : BOOLEAN, gen : {"same", "orphan", "moved"}, acq : BOOLEAN,
             lag : 0 .. (HDepth + 1), quiet : 0 .. HQuiet, wrote : BOOLEAN, paced : BOOLEAN, left : Nat]
HInv ==
    /\ jr \in JpegRing /\ hpc \in {"rest", "snap", "wait"} /\ (hpc # "snap" => polls = {})
    /\ polls \subseteq Of({"snap"}) /\ Sharing(heap, fb, cl)

LEMMA HNumbers ==
    /\ HFrames \in Nat /\ HDepth \in Nat /\ HQuiet \in Nat /\ HSnap \in Nat /\ HDeaths \in Nat
    /\ HFrames # 0 /\ HDepth # 0 /\ HQuiet # 0 /\ IsFiniteSet(HClients)
    /\ 0 \in 0 .. HFrames /\ 0 \in 0 .. (HDepth + 1) /\ (HDepth + 1) \in 0 .. (HDepth + 1) /\ 0 \in 0 .. HQuiet
    /\ \A f \in 1 .. HFrames : f \in 0 .. HFrames /\ f # 0
    /\ \A f \in 0 .. HFrames : f # 0 => f \in 1 .. HFrames
BY RhdStreamConstants

LEMMA UsersFinite ==
    ASSUME NEW k, NEW f
    PROVE  IsFiniteSet(Users(k, f)) /\ Cardinality(Users(k, f)) \in Nat
<1>1. Users(k, f) \subseteq HClients BY Zenon DEF Users
<1>2. QED BY <1>1, HNumbers, FS_Subset, FS_CardinalityType

LEMMA OneNat == ASSUME NEW b \in BOOLEAN PROVE One(b) \in {0, 1} /\ (b => One(b) = 1) /\ (~b => One(b) = 0)
BY Zenon DEF One

LEMMA ZeroUsers == ASSUME NEW k, NEW f, Cardinality(Users(k, f)) = 0 PROVE Users(k, f) = {}
BY UsersFinite, FS_EmptySet

\* Clients that use what they used.
LEMMA SameUsers ==
    ASSUME NEW h, NEW b, NEW k, Sharing(h, b, k), NEW j \in HRoster,
           \A c \in HClients : j[c].tx = k[c].tx /\ j[c].q = k[c].q /\ j[c].pic = k[c].pic
    PROVE  Sharing(h, b, j)
<1>1. \A f : Users(j, f) = Users(k, f) BY Zenon DEF Users, Uses, Waits
<1>2. RefsTrue(h, b, j) BY <1>1, Zenon DEF Sharing, RefsTrue
<1>3. \A c \in HClients : Shows(h, j[c]) BY Zenon DEF Sharing, Shows
<1>4. QED BY <1>2, <1>3, Zenon DEF Sharing

\* What a client uses is in the heap.
LEMMA UsedFrame ==
    ASSUME NEW k \in HRoster, NEW c \in HClients
    PROVE  /\ k[c].tx # 0 => k[c].tx \in 1 .. HFrames /\ c \in Users(k, k[c].tx)
           /\ k[c].q # <<>> => k[c].q[1].f \in 1 .. HFrames /\ c \in Users(k, k[c].q[1].f)
<1>1. PICK x \in HClient : x = k[c] BY Zenon DEF HRoster
<1>2. x.tx \in 0 .. HFrames /\ x.q \in Seq(HItem) BY Zenon DEF HClient
<1>3. x.tx # 0 => x.tx \in 1 .. HFrames BY <1>2, HNumbers, Zenon
<1>4. x.q # <<>> => x.q[1] \in HItem BY <1>2
<1>5. x.q # <<>> => x.q[1].f \in 1 .. HFrames BY <1>4, Zenon DEF HItem
<1>6. QED BY <1>1, <1>3, <1>5, Zenon DEF Users, Uses, Waits

LEMMA FrameIs ==
    ASSUME NEW d \in Int, NEW t \in BOOLEAN, NEW x, x = [refs |-> d, pic |-> t]
    PROVE  x \in HFrame /\ x.refs = d /\ x.pic = t
<1>1. x.refs = d /\ x.pic = t BY Zenon
<1>2. x \in HFrame BY Zenon DEF HFrame
<1>3. QED BY <1>1, <1>2

\* References go with what was used: a frame that is left keeps its picture.
LEMMA Unreferenced ==
    ASSUME NEW h \in Heaps, NEW b \in 0 .. HFrames, NEW k \in HRoster, \A c \in HClients : Shows(h, k[c]),
           NEW n \in [1 .. HFrames -> Nat],
           \A f \in 1 .. HFrames : h[f].refs = Cardinality(Users(k, f)) + One(f = b) + n[f]
    PROVE  Sharing(rhd_frame_unref(h, n), b, k)
<1>1. PICK g : g = rhd_frame_unref(h, n) BY Zenon
<1>2. ASSUME NEW f \in 1 .. HFrames
      PROVE  /\ g[f] \in HFrame /\ g[f].refs = Cardinality(Users(k, f)) + One(f = b)
             /\ Users(k, f) # {} => g[f].pic = h[f].pic
  <2>1. PICK x \in HFrame : x = h[f] BY Zenon DEF Heaps
  <2>2. PICK r \in Int, p \in BOOLEAN : r = x.refs /\ p = x.pic BY Zenon DEF HFrame
  <2>3. PICK m \in Nat : m = n[f] BY Zenon
  <2>4. PICK u \in Nat : u = Cardinality(Users(k, f)) BY UsersFinite, Zenon
  <2>5. PICK e \in {0, 1} : e = One(f = b) BY OneNat, Zenon
  <2>6. r = u + e + m BY <2>1, <2>2, <2>3, <2>4, <2>5, Zenon
  <2>7. r - m \in Int /\ r - m = u + e /\ (u # 0 => r > m) BY <2>6
  <2>8. PICK d, t : d = r - m /\ t = (r > m /\ p) BY Zenon
  <2>9. g[f] = [refs |-> d, pic |-> t] BY <1>1, <2>1, <2>2, <2>3, <2>8, Zenon DEF rhd_frame_unref
  <2>10. d \in Int /\ t \in BOOLEAN BY <2>7, <2>8, Zenon
  <2>a. PICK y : y = g[f] BY Zenon
  <2>b. y = [refs |-> d, pic |-> t] BY <2>9, <2>a, Zenon
  <2>c. y \in HFrame /\ y.refs = d /\ y.pic = t BY <2>10, <2>b, FrameIs
  <2>11. g[f] \in HFrame /\ g[f].refs = d /\ g[f].pic = t BY <2>a, <2>c, Zenon
  <2>12. Users(k, f) # {} => u # 0 BY <2>4, ZeroUsers, Zenon
  <2>13. Users(k, f) # {} => g[f].pic = h[f].pic BY <2>1, <2>2, <2>7, <2>8, <2>11, <2>12, Zenon
  <2>14. QED BY <2>4, <2>5, <2>7, <2>8, <2>11, <2>13, Zenon
<1>3. g \in Heaps
  <2>1. DOMAIN g = 1 .. HFrames /\ g = [f \in 1 .. HFrames |-> g[f]] BY <1>1, Zenon DEF rhd_frame_unref
  <2>2. QED BY <1>2, <2>1, Zenon DEF Heaps
<1>4. RefsTrue(g, b, k) BY <1>2, Zenon DEF RefsTrue
<1>5. ASSUME NEW c \in HClients PROVE Shows(g, k[c])
  <2>1. Shows(h, k[c]) OBVIOUS
  <2>2. PICK x : x = k[c] BY Zenon
  <2>3. x.tx # 0 => g[x.tx].pic = x.pic
    <3>1. x.tx # 0 => g[x.tx].pic = h[x.tx].pic BY <1>2, <2>2, UsedFrame, Zenon
    <3>2. QED BY <2>1, <2>2, <3>1, Zenon DEF Shows
  <2>4. x.q # <<>> => g[x.q[1].f].pic = x.q[1].pic
    <3>1. x.q # <<>> => g[x.q[1].f].pic = h[x.q[1].f].pic BY <1>2, <2>2, UsedFrame, Zenon
    <3>2. QED BY <2>1, <2>2, <3>1, Zenon DEF Shows
  <2>5. QED BY <2>2, <2>3, <2>4, Zenon DEF Shows
<1>6. QED BY <1>1, <1>3, <1>4, <1>5, Zenon DEF Sharing

\* One frame of the heap becomes another.
LEMMA OneFrame ==
    ASSUME NEW h, NEW b, NEW k, Sharing(h, b, k), NEW f \in 1 .. HFrames, Users(k, f) = {}, NEW x \in HFrame,
           NEW a \in 0 .. HFrames, \A g \in 1 .. HFrames : g # f => (g = a <=> g = b),
           f = a => x.refs = 1, f # a => x.refs = 0
    PROVE  Sharing([h EXCEPT ![f] = x], a, k)
<1>1. PICK g : g = [h EXCEPT ![f] = x] BY Zenon
<1>2. h \in Heaps /\ k \in HRoster /\ RefsTrue(h, b, k) /\ \A c \in HClients : Shows(h, k[c]) BY Zenon DEF Sharing
<1>3. g \in Heaps /\ g[f] = x /\ \A i \in 1 .. HFrames : i # f => g[i] = h[i] BY <1>1, <1>2, Zenon DEF Heaps
<1>4. ASSUME NEW i \in 1 .. HFrames PROVE g[i].refs = Cardinality(Users(k, i)) + One(i = a)
  <2>1. CASE i = f
    <3>1. Cardinality(Users(k, i)) = 0 BY <2>1, FS_EmptySet
    <3>2. PICK e \in {0, 1} : e = One(f = a) /\ (f = a => e = 1) /\ (f # a => e = 0) BY OneNat, Zenon
    <3>3. e = 0 + e BY <3>2
    <3>4. QED BY <1>3, <2>1, <3>1, <3>2, <3>3, Zenon
  <2>2. CASE i # f
    <3>1. One(i = a) = One(i = b) BY <2>2, Zenon DEF One
    <3>2. QED BY <1>2, <1>3, <2>2, <3>1, Zenon DEF RefsTrue
  <2>3. QED BY <2>1, <2>2
<1>5. ASSUME NEW c \in HClients PROVE Shows(g, k[c])
  <2>1. Shows(h, k[c]) BY <1>2, Zenon
  <2>2. PICK y : y = k[c] BY Zenon
  <2>3. y.tx # 0 => g[y.tx].pic = h[y.tx].pic BY <1>2, <1>3, <2>2, UsedFrame, Zenon
  <2>4. y.q # <<>> => g[y.q[1].f].pic = h[y.q[1].f].pic BY <1>2, <1>3, <2>2, UsedFrame, Zenon
  <2>5. QED BY <2>1, <2>2, <2>3, <2>4, Zenon DEF Shows
<1>6. RefsTrue(g, a, k) BY <1>4, Zenon DEF RefsTrue
<1>7. QED BY <1>1, <1>2, <1>3, <1>5, <1>6, Zenon DEF Sharing

LEMMA FreeUnused ==
    ASSUME NEW h, NEW b, NEW k, Sharing(h, b, k), NEW f \in 1 .. HFrames,
           h[f].refs = 0 \/ (f = b /\ h[f].refs <= 1)
    PROVE  Users(k, f) = {} /\ (h[f].refs = 0 => f # b)
<1>1. PICK u \in Nat, e \in {0, 1}, r \in Int :
        /\ u = Cardinality(Users(k, f)) /\ e = One(f = b) /\ r = h[f].refs /\ r = u + e /\ (f = b => e = 1)
  <2>1. PICK u \in Nat : u = Cardinality(Users(k, f)) BY UsersFinite, Zenon
  <2>2. PICK e \in {0, 1} : e = One(f = b) /\ (f = b => e = 1) BY OneNat, Zenon
  <2>3. h[f].refs = u + e BY <2>1, <2>2, Zenon DEF Sharing, RefsTrue
  <2>4. u + e \in Int OBVIOUS
  <2>5. QED BY <2>1, <2>2, <2>3, <2>4, Zenon
<1>2. (f = b /\ r <= 1) \/ r = 0 BY <1>1, Zenon
<1>3. u = 0 /\ (r = 0 => f # b) BY <1>1, <1>2
<1>4. QED BY <1>1, <1>3, ZeroUsers, Zenon

\* A frame nobody has a reference to is taken for the loop.
LEMMA Allocated ==
    ASSUME NEW h, NEW b, NEW k, Sharing(h, b, k), NEW f \in FreeIds(h), b = 0
    PROVE  Sharing([h EXCEPT ![f].refs = 1], f, k) /\ Users(k, f) = {}
<1>1. f \in 1 .. HFrames /\ h[f].refs = 0 BY Zenon DEF FreeIds
<1>2. Users(k, f) = {} BY <1>1, FreeUnused, Zenon
<1>3. PICK y \in HFrame : y = h[f] BY <1>1, Zenon DEF Sharing, Heaps
<1>4. PICK e \in Int : e = 1 OBVIOUS
<1>5. PICK x : x = [y EXCEPT !.refs = e] BY Zenon
<1>6. x \in HFrame /\ x.refs = e BY <1>5, Zenon DEF HFrame
<1>7. f \in 0 .. HFrames BY <1>1, HNumbers, Zenon
<1>8. \A g \in 1 .. HFrames : g # f => (g = f <=> g = b) BY HNumbers, Zenon
<1>9. PICK a \in 0 .. HFrames : a = f BY <1>7, Zenon
<1>10. /\ \A g \in 1 .. HFrames : g # f => (g = a <=> g = b)
       /\ f = a => x.refs = 1
       /\ f # a => x.refs = 0
  BY <1>4, <1>6, <1>8, <1>9, Zenon
<1>a. Sharing([h EXCEPT ![f] = x], a, k) BY <1>1, <1>2, <1>6, <1>10, OneFrame, Zenon
<1>11. Sharing([h EXCEPT ![f] = x], f, k) BY <1>9, <1>a, Zenon
<1>12. [h EXCEPT ![f].refs = 1] = [h EXCEPT ![f] = x] BY <1>3, <1>4, <1>5, Zenon
<1>13. QED BY <1>2, <1>11, <1>12, Zenon

LEMMA LeastFree ==
    ASSUME NEW h, FreeIds(h) # {} PROVE Min(FreeIds(h)) \in FreeIds(h)
<1>1. FreeIds(h) \subseteq 1 .. HFrames BY Zenon DEF FreeIds
<1>2. FreeIds(h) \in SUBSET Nat BY <1>1, HNumbers
<1>3. QED BY <1>2, SmallestNumber, Zenon

\* frame_for_writing: the frame the loop is given is no client's.
LEMMA ForWriting ==
    ASSUME NEW h, NEW b, NEW k, Sharing(h, b, k), NEW w, w = frame_for_writing(<<h, b>>)
    PROVE  Sharing(w[1], w[2], k) /\ (w[2] # 0 => Users(k, w[2]) = {})
<1>1. PICK v : v = <<h, b>> BY Zenon
<1>2. v[1] = h /\ v[2] = b BY <1>1
<1>3. h \in Heaps /\ b \in 0 .. HFrames /\ k \in HRoster /\ RefsTrue(h, b, k) /\ \A c \in HClients : Shows(h, k[c])
  BY Zenon DEF Sharing
<1>4. CASE b = 0 \/ h[b].refs <= 1
  <2>1. w = v BY <1>1, <1>2, <1>4, Zenon DEF frame_for_writing
  <2>2. b # 0 => b \in 1 .. HFrames BY <1>3, HNumbers, Zenon
  <2>3. b # 0 => Users(k, b) = {} BY <1>4, <2>2, FreeUnused, Zenon
  <2>4. QED BY <1>2, <2>1, <2>3, Zenon
<1>5. CASE ~(b = 0 \/ h[b].refs <= 1)
  <2>1. b \in 1 .. HFrames BY <1>3, <1>5, HNumbers, Zenon
  <2>2. PICK n, g : n = [f \in 1 .. HFrames |-> One(f = b)] /\ g = rhd_frame_unref(h, n) BY Zenon
  <2>3. n \in [1 .. HFrames -> Nat]
    <3>1. \A f \in 1 .. HFrames : One(f = b) \in {0, 1} BY OneNat, Zenon
    <3>2. \A f \in 1 .. HFrames : One(f = b) \in Nat BY <3>1
    <3>3. QED BY <2>2, <3>2, Zenon
  <2>4. ASSUME NEW f \in 1 .. HFrames PROVE h[f].refs = Cardinality(Users(k, f)) + One(f = 0) + n[f]
    <3>1. One(f = 0) = 0 BY HNumbers, Zenon DEF One
    <3>2. h[f].refs = Cardinality(Users(k, f)) + n[f] BY <1>3, <2>2, Zenon DEF RefsTrue
    <3>3. PICK u \in Nat, m \in Nat : u = Cardinality(Users(k, f)) /\ m = n[f] BY <2>3, UsersFinite, Zenon
    <3>4. u + m = u + 0 + m OBVIOUS
    <3>5. QED BY <3>1, <3>2, <3>3, <3>4, Zenon
  <2>5. PICK z \in 0 .. HFrames : z = 0 BY HNumbers, Zenon
  <2>6. Sharing(g, z, k) BY <1>3, <2>2, <2>3, <2>4, <2>5, Unreferenced, Zenon
  <2>7. w = IF FreeIds(g) = {} THEN <<g, 0>> ELSE <<[g EXCEPT ![Min(FreeIds(g))].refs = 1], Min(FreeIds(g))>>
    BY <1>1, <1>2, <1>5, <2>2, Zenon DEF frame_for_writing
  <2>8. CASE FreeIds(g) = {}
    <3>1. w[1] = g /\ w[2] = 0 BY <2>7, <2>8
    <3>2. QED BY <2>5, <2>6, <3>1, Zenon
  <2>9. CASE FreeIds(g) # {}
    <3>1. PICK f \in FreeIds(g) : f = Min(FreeIds(g)) BY <2>9, LeastFree, Zenon
    <3>2. w = <<[g EXCEPT ![f].refs = 1], f>> BY <2>7, <2>9, <3>1, Zenon
    <3>3. PICK p : p = [g EXCEPT ![f].refs = 1] BY Zenon
    <3>4. w = <<p, f>> BY <3>2, <3>3, Zenon
    <3>5. w[1] = p /\ w[2] = f BY <3>4
    <3>6. Sharing([g EXCEPT ![f].refs = 1], f, k) /\ Users(k, f) = {} BY <2>5, <2>6, Allocated, Zenon
    <3>7. QED BY <3>3, <3>5, <3>6, Zenon
  <2>10. QED BY <2>8, <2>9
<1>6. QED BY <1>4, <1>5

\* A picture is read into it.
LEMMA Written ==
    ASSUME NEW h, NEW b, NEW k, Sharing(h, b, k), NEW f \in 1 .. HFrames, Users(k, f) = {}
    PROVE  Sharing([h EXCEPT ![f].pic = ~@], b, k)
<1>1. PICK y \in HFrame : y = h[f] BY Zenon DEF Sharing, Heaps
<1>2. PICK t \in BOOLEAN : t = ~y.pic BY Zenon
<1>3. PICK x : x = [y EXCEPT !.pic = t] BY Zenon
<1>4. x \in HFrame /\ x.refs = y.refs BY <1>3, Zenon DEF HFrame
<1>5. y.refs = One(f = b)
  <2>1. Cardinality(Users(k, f)) = 0 BY FS_EmptySet
  <2>2. y.refs = 0 + One(f = b) BY <1>1, <2>1, Zenon DEF Sharing, RefsTrue
  <2>3. PICK e \in {0, 1} : e = One(f = b) BY OneNat, Zenon
  <2>4. 0 + e = e BY <2>3
  <2>5. QED BY <2>2, <2>3, <2>4, Zenon
<1>6. b \in 0 .. HFrames BY Zenon DEF Sharing
<1>a. (f = b => x.refs = 1) /\ (f # b => x.refs = 0) BY <1>4, <1>5, Zenon DEF One
<1>b. \A g \in 1 .. HFrames : g # f => (g = b <=> g = b) OBVIOUS
<1>7. Sharing([h EXCEPT ![f] = x], b, k) BY <1>4, <1>6, <1>a, <1>b, OneFrame, Zenon
<1>8. [h EXCEPT ![f].pic = ~@] = [h EXCEPT ![f] = x] BY <1>1, <1>2, <1>3, Zenon
<1>9. QED BY <1>7, <1>8, Zenon

LEMMA GoneIs ==
    /\ Gone \in HClient /\ Orderly(Gone) /\ Gone.q = <<>> /\ Gone.tx = 0 /\ Gone.kind = "none"
    /\ \A h : Shows(h, Gone)
<1>1. PICK e, z, f, kd : e = <<>> /\ z = 0 /\ f = FALSE /\ kd = "none" BY Zenon
<1>2. e \in Seq(HItem) /\ Len(e) <= 1 /\ z \in 0 .. HFrames /\ z \in Nat BY <1>1, HNumbers
<1>3. Gone = [kind |-> kd, q |-> e, tx |-> z, pic |-> f, dead |-> f, fed |-> f, off |-> z, wait |-> z]
  BY <1>1, Zenon DEF Gone
<1>4. Gone.q = e /\ Gone.tx = z /\ Gone.kind = kd BY <1>3, Zenon
<1>5. Gone \in HClient BY <1>1, <1>2, <1>3, Zenon DEF HClient
<1>6. Orderly(Gone) BY <1>1, <1>2, <1>4, Zenon DEF Orderly
<1>7. \A h : Shows(h, Gone) BY <1>1, <1>4, Zenon DEF Shows
<1>8. QED BY <1>1, <1>4, <1>5, <1>6, <1>7, Zenon

LEMMA ThreeParts ==
    ASSUME NEW A, NEW B, NEW C, IsFiniteSet(A), IsFiniteSet(B), IsFiniteSet(C),
           A \cap B = {}, A \cap C = {}, B \cap C = {}
    PROVE  /\ Cardinality(A \cup B \cup C) = Cardinality(C) + Cardinality(A) + Cardinality(B)
           /\ Cardinality(A) \in Nat /\ Cardinality(B) \in Nat /\ Cardinality(C) \in Nat
<1>1. PICK D : D = A \cup B BY Zenon
<1>2. IsFiniteSet(D) /\ Cardinality(D) = Cardinality(A) + Cardinality(B) - Cardinality(A \cap B) BY <1>1, FS_Union
<1>3. Cardinality(A) \in Nat /\ Cardinality(B) \in Nat /\ Cardinality(C) \in Nat BY FS_CardinalityType
<1>4. Cardinality({}) = 0 BY FS_EmptySet
<1>5. D \cap C = {} BY <1>1, Zenon
<1>6. Cardinality(D \cup C) = Cardinality(D) + Cardinality(C) - Cardinality(D \cap C) BY <1>2, FS_Union
<1>9. Cardinality(A \cap B) = 0 /\ Cardinality(D \cap C) = 0 BY <1>4, <1>5, Zenon
<1>a. A \cup B \cup C = D \cup C BY <1>1, Zenon
<1>b. PICK a \in Nat, b \in Nat, c \in Nat : a = Cardinality(A) /\ b = Cardinality(B) /\ c = Cardinality(C) BY <1>3, Zenon
<1>c. Cardinality(D \cup C) = (a + b - 0) + c - 0 BY <1>2, <1>6, <1>9, <1>b, Zenon
<1>d. (a + b - 0) + c - 0 = c + a + b OBVIOUS
<1>8. QED BY <1>3, <1>a, <1>b, <1>c, <1>d, Zenon

\* A client that stays gets the frame, the only one in its queue.
GivesFrame(x, f, p, live) == [x EXCEPT !.q = <<[f |-> f, pic |-> p]>>, !.fed = @ \/ live]

LEMMA GivesFrameIs ==
    ASSUME NEW x \in HClient, x.kind = "mjpeg", NEW f \in 1 .. HFrames, x.tx # f, NEW p \in BOOLEAN, NEW live \in BOOLEAN,
           NEW y, y = GivesFrame(x, f, p, live)
    PROVE  /\ y \in HClient /\ Orderly(y) /\ y.tx = x.tx /\ y.pic = x.pic /\ y.kind = "mjpeg" /\ y.dead = x.dead
           /\ y.q # <<>> /\ y.q[1].f = f /\ y.q[1].pic = p
<1>1. PICK i : i = [f |-> f, pic |-> p] BY Zenon
<1>2. i \in HItem /\ i.f = f /\ i.pic = p BY <1>1, Zenon DEF HItem
<1>3. PICK s : s = <<i>> BY Zenon
<1>4. s \in Seq(HItem) /\ Len(s) <= 1 /\ s # <<>> /\ s[1] = i BY <1>2, <1>3
<1>5. PICK t \in BOOLEAN : t = (x.fed \/ live) BY Zenon
<1>6. y = [x EXCEPT !.q = s, !.fed = t] BY <1>1, <1>3, <1>5, Zenon DEF GivesFrame
<1>7. y \in HClient BY <1>4, <1>5, <1>6, Zenon DEF HClient
<1>8. y.tx = x.tx /\ y.pic = x.pic /\ y.kind = x.kind /\ y.dead = x.dead /\ y.q = s BY <1>4, <1>6, Zenon DEF HClient
<1>9. Orderly(y) BY <1>2, <1>4, <1>8, Zenon DEF Orderly
<1>10. QED BY <1>2, <1>4, <1>7, <1>8, <1>9, Zenon

\* What the roster is after the viewers were given frame f: who quits is gone.
Fans(k) == {c \in HClients : k[c].kind = "mjpeg" /\ ~k[c].dead}
GivenAll(k, j, f) ==
    /\ j \in HRoster
    /\ \A c \in Fans(k) : j[c].tx = k[c].tx /\ j[c].pic = k[c].pic /\ j[c].q # <<>> /\ j[c].q[1].f = f
    /\ \A c \in HClients : c \notin Fans(k) => j[c].q = <<>> /\ j[c].tx = 0

LEMMA AllGiven ==
    ASSUME NEW k, k = cl, NEW h, NEW f \in 1 .. HFrames, Sharing(h, f, k), Users(k, f) = {}, NEW live \in BOOLEAN,
           NEW i \in HRoster, \A c \in HClients : i[c].kind = k[c].kind /\ i[c].tx = k[c].tx /\ i[c].pic = k[c].pic,
           NEW j, j = stream_mjpeg_frame(h, f, live, i)
    PROVE  GivenAll(k, j, f) /\ \A c \in Fans(k) : j[c].q[1].pic = h[f].pic
<1>1. k \in HRoster /\ h \in Heaps BY Zenon DEF Sharing
<1>2. PICK p \in BOOLEAN : p = h[f].pic BY <1>1, Zenon DEF Heaps, HFrame
<1>3. ASSUME NEW c \in HClients
      PROVE  /\ j[c] \in HClient /\ Orderly(j[c])
             /\ c \in Fans(k) => /\ j[c].tx = k[c].tx /\ j[c].pic = k[c].pic
                                 /\ j[c].q # <<>> /\ j[c].q[1].f = f /\ j[c].q[1].pic = p
             /\ c \notin Fans(k) => j[c].q = <<>> /\ j[c].tx = 0
  <2>1. PICK x \in HClient : x = i[c] /\ Orderly(x) BY Zenon DEF HRoster
  <2>2. j[c] = IF x.kind # "mjpeg" THEN x ELSE IF k[c].dead THEN Gone ELSE GivesFrame(x, f, p, live)
    BY <1>2, <2>1, Zenon DEF stream_mjpeg_frame, Quits, GivesFrame
  <2>3. CASE x.kind # "mjpeg"
    <3>1. j[c] = x /\ x.q = <<>> /\ x.tx = 0 BY <2>1, <2>2, <2>3, Zenon DEF Orderly
    <3>2. c \notin Fans(k) BY <2>1, <2>3, Zenon DEF Fans
    <3>3. QED BY <2>1, <3>1, <3>2, Zenon
  <2>4. CASE x.kind = "mjpeg" /\ k[c].dead
    <3>1. j[c] = Gone BY <2>2, <2>4, Zenon
    <3>2. c \notin Fans(k) BY <2>4, Zenon DEF Fans
    <3>3. QED BY <3>1, <3>2, GoneIs, Zenon
  <2>5. CASE x.kind = "mjpeg" /\ ~k[c].dead
    <3>1. j[c] = GivesFrame(x, f, p, live) BY <2>2, <2>5, Zenon
    <3>2. c \in Fans(k) BY <2>1, <2>5, Zenon DEF Fans
    <3>3. x.tx = k[c].tx /\ x.pic = k[c].pic BY <2>1, Zenon
    <3>4. k[c].tx # f BY Zenon DEF Users, Uses
    <3>5. x.tx # f BY <3>3, <3>4, Zenon
    <3>6. PICK y : y = j[c] BY Zenon
    <3>7. y = GivesFrame(x, f, p, live) BY <3>1, <3>6, Zenon
    <3>8. /\ y \in HClient /\ Orderly(y) /\ y.tx = x.tx /\ y.pic = x.pic
          /\ y.q # <<>> /\ y.q[1].f = f /\ y.q[1].pic = p
      BY <2>1, <2>5, <3>5, <3>7, GivesFrameIs
    <3>9. QED BY <3>2, <3>3, <3>6, <3>8, Zenon
  <2>6. QED BY <2>3, <2>4, <2>5, Zenon
<1>4. DOMAIN j = HClients /\ j = [c \in HClients |-> j[c]] BY Zenon DEF stream_mjpeg_frame
<1>5. j \in HRoster BY <1>3, <1>4, Zenon DEF HRoster
<1>6. GivenAll(k, j, f) BY <1>3, <1>5, Zenon DEF GivenAll, Fans
<1>7. Fans(k) \subseteq HClients BY Zenon DEF Fans
<1>8. QED BY <1>2, <1>3, <1>6, <1>7, Zenon

\* The references that go are those of pictures replaced and of who quits.
LEMMA LostCount ==
    ASSUME NEW k \in HRoster, k = cl, NEW j, NEW f \in 1 .. HFrames, GivenAll(k, j, f), Users(k, f) = {},
           NEW g \in 1 .. HFrames
    PROVE  /\ Lost(g) \in Nat
           /\ g # f => Cardinality(Users(k, g)) = Cardinality(Users(j, g)) + Lost(g)
           /\ g = f => Lost(g) = 0 /\ Users(j, g) = Fans(k)
<1>1. PICK A, B, C : /\ A = {c \in Of({"mjpeg"}) : Queued(c, g)}
                     /\ B = {c \in Of({"mjpeg"}) : Quits(c) /\ cl[c].tx = g} /\ C = Users(j, g)
  BY Zenon
<1>2. Lost(g) = Cardinality(A) + Cardinality(B) BY <1>1, Zenon DEF Lost
<1>3. \A c : c \in A <=> c \in HClients /\ k[c].kind = "mjpeg" /\ Waits(k[c], g)
  BY <1>1, Zenon DEF Of, Queued, Waits
<1>4. \A c : c \in B <=> c \in HClients /\ k[c].kind = "mjpeg" /\ k[c].dead /\ k[c].tx = g
  BY <1>1, Zenon DEF Of, Quits
<1>5. IsFiniteSet(A) /\ IsFiniteSet(B) /\ IsFiniteSet(C)
  <2>1. A \subseteq HClients /\ B \subseteq HClients /\ C \subseteq HClients BY <1>1, <1>3, <1>4, Zenon DEF Users
  <2>2. QED BY <2>1, HNumbers, FS_Subset
<1>6. Lost(g) \in Nat
  <2>1. Cardinality(A) \in Nat /\ Cardinality(B) \in Nat BY <1>5, FS_CardinalityType
  <2>2. QED BY <1>2, <2>1
<1>7. \A c \in HClients : Orderly(k[c]) /\ g # 0 BY HNumbers, Zenon DEF HRoster
<1>8. \A c \in HClients : Uses(k[c], g) => k[c].kind = "mjpeg" BY <1>7, Zenon DEF Orderly, Uses, Waits
<1>9. \A c \in HClients : ~(Waits(k[c], g) /\ k[c].tx = g) BY <1>7, Zenon DEF Orderly, Waits
<1>10. CASE g # f
  <2>1. \A c \in HClients : Uses(j[c], g) <=> c \in Fans(k) /\ k[c].tx = g
    <3>1. ASSUME NEW c \in HClients PROVE Uses(j[c], g) <=> c \in Fans(k) /\ k[c].tx = g
      <4>1. CASE c \in Fans(k) BY <1>10, <4>1, Zenon DEF GivenAll, Uses, Waits
      <4>2. CASE c \notin Fans(k) BY <1>7, <4>2, Zenon DEF GivenAll, Uses, Waits
      <4>3. QED BY <4>1, <4>2
    <3>2. QED BY <3>1, Zenon
  <2>2. \A c : c \in C <=> c \in HClients /\ k[c].kind = "mjpeg" /\ ~k[c].dead /\ k[c].tx = g
    BY <1>1, <2>1, Zenon DEF Users, Fans
  <2>3. A \cap B = {} BY <1>3, <1>4, <1>9, Zenon
  <2>4. A \cap C = {} BY <1>3, <1>9, <2>2, Zenon
  <2>5. B \cap C = {} BY <1>4, <2>2, Zenon
  <2>6. \A c : c \in Users(k, g) <=> c \in A \/ c \in B \/ c \in C
    <3>1. \A c : c \in Users(k, g) <=> c \in HClients /\ k[c].kind = "mjpeg" /\ Uses(k[c], g) BY <1>8, Zenon DEF Users
    <3>2. QED BY <1>3, <1>4, <2>2, <3>1, Zenon DEF Uses
  <2>7. Users(k, g) = A \cup B \cup C BY <2>6, Zenon
  <2>8. /\ Cardinality(A \cup B \cup C) = Cardinality(C) + Cardinality(A) + Cardinality(B)
        /\ Cardinality(A) \in Nat /\ Cardinality(B) \in Nat /\ Cardinality(C) \in Nat
    BY <1>5, <2>3, <2>4, <2>5, ThreeParts
  <2>9. PICK a \in Nat, b \in Nat, c \in Nat : a = Cardinality(A) /\ b = Cardinality(B) /\ c = Cardinality(C) BY <2>8, Zenon
  <2>10. c + a + b = c + (a + b) OBVIOUS
  <2>11. QED BY <1>1, <1>2, <1>6, <1>10, <2>7, <2>8, <2>9, <2>10, Zenon
<1>11. CASE g = f
  <2>1. \A c \in HClients : ~Uses(k[c], g) BY <1>11, Zenon DEF Users
  <2>2. A = {} /\ B = {} BY <1>3, <1>4, <2>1, Zenon DEF Uses
  <2>3. Cardinality({}) = 0 BY FS_EmptySet
  <2>4. 0 + 0 = 0 OBVIOUS
  <2>5. Lost(g) = 0 BY <1>2, <2>2, <2>3, <2>4, Zenon
  <2>6. ASSUME NEW c \in HClients PROVE Uses(j[c], g) <=> c \in Fans(k)
    <3>1. CASE c \in Fans(k) BY <1>11, <3>1, Zenon DEF GivenAll, Uses, Waits
    <3>2. CASE c \notin Fans(k) BY <1>7, <3>2, Zenon DEF GivenAll, Uses, Waits
    <3>3. QED BY <3>1, <3>2
  <2>7. Users(j, g) = Fans(k) BY <2>6, Zenon DEF Users, Fans
  <2>8. QED BY <1>6, <1>11, <2>5, <2>7, Zenon
<1>12. QED BY <1>10, <1>11

\* stream_mjpeg_frame as a whole.
LEMMA Pushed ==
    ASSUME NEW k, k = cl, NEW h, NEW f \in 1 .. HFrames, Sharing(h, f, k), Users(k, f) = {}, NEW live \in BOOLEAN,
           NEW i \in HRoster, \A c \in HClients : i[c].kind = k[c].kind /\ i[c].tx = k[c].tx /\ i[c].pic = k[c].pic
    PROVE  Sharing(rhd_sendq_push(h, f), f, stream_mjpeg_frame(h, f, live, i))
<1>1. PICK j : j = stream_mjpeg_frame(h, f, live, i) BY Zenon
<1>2. GivenAll(k, j, f) /\ \A c \in Fans(k) : j[c].q[1].pic = h[f].pic BY <1>1, AllGiven
<1>3. k \in HRoster /\ h \in Heaps /\ RefsTrue(h, f, k) /\ \A c \in HClients : Shows(h, k[c]) BY Zenon DEF Sharing
<1>4. j \in HRoster BY <1>2, Zenon DEF GivenAll
<1>5. PICK n : n = [g \in 1 .. HFrames |-> Lost(g)] BY Zenon
<1>6. ASSUME NEW g \in 1 .. HFrames
      PROVE  /\ n[g] \in Nat
             /\ g # f => Cardinality(Users(k, g)) = Cardinality(Users(j, g)) + n[g]
             /\ g = f => n[g] = 0 /\ Users(j, g) = Fans(k)
  <2>1. n[g] = Lost(g) BY <1>5, Zenon
  <2>2. /\ Lost(g) \in Nat
        /\ g # f => Cardinality(Users(k, g)) = Cardinality(Users(j, g)) + Lost(g)
        /\ g = f => Lost(g) = 0 /\ Users(j, g) = Fans(k)
    BY <1>2, <1>3, LostCount
  <2>3. QED BY <2>1, <2>2, Zenon
<1>7. PICK T : T = Fans(k) BY Zenon
<1>8. {c \in Of({"mjpeg"}) : ~Quits(c)} = T BY <1>7, Zenon DEF Of, Quits, Fans
<1>9. PICK u, e : u = rhd_frame_unref(h, n) /\ e = [refs |-> h[f].refs + Cardinality(T) - n[f], pic |-> h[f].pic] BY Zenon
<1>10. PICK v : v = [u EXCEPT ![f] = e] BY Zenon
<1>11. rhd_sendq_push(h, f) = v BY <1>5, <1>8, <1>9, <1>10, Zenon DEF rhd_sendq_push
<1>12. DOMAIN u = 1 .. HFrames BY <1>9, Zenon DEF rhd_frame_unref
<1>13. v[f] = e /\ \A g \in 1 .. HFrames : g # f => v[g] = u[g] BY <1>10, <1>12, Zenon
<1>14. ASSUME NEW g \in 1 .. HFrames
       PROVE  /\ v[g] \in HFrame /\ v[g].refs = Cardinality(Users(j, g)) + One(g = f)
              /\ Users(j, g) # {} => v[g].pic = h[g].pic
  <2>1. PICK x \in HFrame : x = h[g] BY <1>3, Zenon DEF Heaps
  <2>2. PICK r \in Int, p \in BOOLEAN : r = x.refs /\ p = x.pic BY Zenon DEF HFrame
  <2>3. PICK m \in Nat : m = n[g] BY <1>6, Zenon
  <2>4. PICK a \in Nat, b \in Nat : a = Cardinality(Users(k, g)) /\ b = Cardinality(Users(j, g)) BY UsersFinite, Zenon
  <2>5. PICK y : y = v[g] BY Zenon
  <2>6. CASE g # f
    <3>1. r = a + 0 BY <1>3, <2>1, <2>2, <2>4, <2>6, Zenon DEF RefsTrue, One
    <3>2. a = b + m BY <1>6, <2>3, <2>4, <2>6, Zenon
    <3>3. r - m \in Int /\ r - m = b + 0 /\ (b # 0 => r > m) BY <3>1, <3>2
    <3>4. PICK d \in Int, t \in BOOLEAN : d = r - m /\ t = (r > m /\ p) BY <3>3, Zenon
    <3>5. y = [refs |-> d, pic |-> t]
      BY <1>9, <1>13, <2>1, <2>2, <2>3, <2>5, <2>6, <3>4, Zenon DEF rhd_frame_unref
    <3>6. y \in HFrame /\ y.refs = d /\ y.pic = t BY <3>5, FrameIs
    <3>7. Users(j, g) # {} => b # 0 BY <2>4, ZeroUsers, Zenon
    <3>8. Users(j, g) # {} => y.pic = p BY <3>3, <3>4, <3>6, <3>7, Zenon
    <3>9. y.refs = Cardinality(Users(j, g)) + One(g = f) BY <2>4, <2>6, <3>3, <3>4, <3>6, Zenon DEF One
    <3>10. QED BY <2>1, <2>2, <2>5, <3>6, <3>8, <3>9, Zenon
  <2>7. CASE g = f
    <3>1. Cardinality(Users(k, g)) = 0 BY <2>7, FS_EmptySet
    <3>2. r = 0 + 1 BY <1>3, <2>1, <2>2, <2>7, <3>1, Zenon DEF RefsTrue, One
    <3>3. m = 0 /\ b = Cardinality(T) BY <1>6, <1>7, <2>3, <2>4, <2>7, Zenon
    <3>4. r + b - m \in Int /\ r + b - m = b + 1 BY <3>2, <3>3
    <3>5. PICK d \in Int : d = r + b - m BY <3>4, Zenon
    <3>6. y = [refs |-> d, pic |-> p] BY <1>9, <1>13, <2>1, <2>2, <2>3, <2>5, <2>7, <3>3, <3>5, Zenon
    <3>7. y \in HFrame /\ y.refs = d /\ y.pic = p BY <3>6, FrameIs
    <3>8. y.refs = Cardinality(Users(j, g)) + One(g = f) BY <2>4, <2>7, <3>4, <3>5, <3>7, Zenon DEF One
    <3>9. QED BY <2>1, <2>2, <2>5, <3>7, <3>8, Zenon
  <2>8. QED BY <2>6, <2>7
<1>15. v \in Heaps
  <2>1. DOMAIN v = 1 .. HFrames /\ v = [g \in 1 .. HFrames |-> v[g]] BY <1>9, <1>10, <1>12, Zenon DEF rhd_frame_unref
  <2>2. QED BY <1>14, <2>1, Zenon DEF Heaps
<1>16. RefsTrue(v, f, j) BY <1>14, Zenon DEF RefsTrue
<1>17. ASSUME NEW c \in HClients PROVE Shows(v, j[c])
  <2>1. PICK y : y = j[c] BY Zenon
  <2>2. CASE c \notin Fans(k)
    <3>1. y.q = <<>> /\ y.tx = 0 BY <1>2, <2>1, <2>2, Zenon DEF GivenAll
    <3>2. QED BY <2>1, <3>1, Zenon DEF Shows
  <2>3. CASE c \in Fans(k)
    <3>1. y.tx = k[c].tx /\ y.pic = k[c].pic /\ y.q[1].f = f /\ y.q[1].pic = h[f].pic /\ y.q # <<>>
      BY <1>2, <2>1, <2>3, Zenon DEF GivenAll
    <3>2. y.tx # 0 => y.tx \in 1 .. HFrames /\ c \in Users(j, y.tx) BY <1>4, <2>1, UsedFrame, Zenon
    <3>3. c \in Users(j, f) BY <1>4, <2>1, <3>1, UsedFrame, Zenon
    <3>4. y.tx # 0 => v[y.tx].pic = h[y.tx].pic BY <1>14, <3>2, Zenon
    <3>5. v[f].pic = h[f].pic BY <1>14, <3>3, Zenon
    <3>6. y.tx # 0 => h[y.tx].pic = y.pic BY <1>3, <3>1, Zenon DEF Shows
    <3>7. QED BY <2>1, <3>1, <3>4, <3>5, <3>6, Zenon DEF Shows
  <2>4. QED BY <2>2, <2>3
<1>18. f \in 0 .. HFrames BY HNumbers, Zenon
<1>19. Sharing(v, f, j) BY <1>4, <1>15, <1>16, <1>17, <1>18, Zenon DEF Sharing
<1>20. QED BY <1>1, <1>11, <1>19, Zenon

\* One client becomes another: it gave up what n counts.
LEMMA OneGives ==
    ASSUME NEW h, NEW b, NEW k, Sharing(h, b, k), NEW c \in HClients, NEW y \in HClient, Orderly(y), Shows(h, y),
           \A f \in 1 .. HFrames : Uses(y, f) => Uses(k[c], f), NEW n,
           n = [f \in 1 .. HFrames |-> IF Uses(k[c], f) /\ ~Uses(y, f) THEN 1 ELSE 0]
    PROVE  Sharing(rhd_frame_unref(h, n), b, [k EXCEPT ![c] = y])
<1>1. h \in Heaps /\ b \in 0 .. HFrames /\ k \in HRoster /\ RefsTrue(h, b, k) /\ \A d \in HClients : Shows(h, k[d])
  BY Zenon DEF Sharing
<1>2. PICK j : j = [k EXCEPT ![c] = y] BY Zenon
<1>3. j \in HRoster /\ j[c] = y /\ \A d \in HClients : d # c => j[d] = k[d] BY <1>1, <1>2, Zenon DEF HRoster
<1>4. \A d \in HClients : Shows(h, j[d]) BY <1>1, <1>3, Zenon
<1>5. 0 \in Nat /\ 1 \in Nat OBVIOUS
<1>6. n \in [1 .. HFrames -> Nat] BY <1>5, Zenon
<1>7. ASSUME NEW f \in 1 .. HFrames PROVE h[f].refs = Cardinality(Users(j, f)) + One(f = b) + n[f]
  <2>1. PICK a \in Nat, u \in Nat, e \in {0, 1} :
           a = Cardinality(Users(k, f)) /\ u = Cardinality(Users(j, f)) /\ e = One(f = b)
    BY UsersFinite, OneNat, Zenon
  <2>2. h[f].refs = a + e BY <1>1, <2>1, Zenon DEF RefsTrue
  <2>3. CASE Uses(k[c], f) /\ ~Uses(y, f)
    <3>1. Users(j, f) = Users(k, f) \ {c} /\ c \in Users(k, f) BY <1>3, <2>3, Zenon DEF Users
    <3>2. u = a - 1 BY <2>1, <3>1, UsersFinite, FS_RemoveElement
    <3>3. n[f] = 1 BY <2>3, Zenon
    <3>4. a + e = u + e + 1 BY <3>2
    <3>5. QED BY <2>1, <2>2, <3>3, <3>4, Zenon
  <2>4. CASE ~(Uses(k[c], f) /\ ~Uses(y, f))
    <3>1. Users(j, f) = Users(k, f) BY <1>3, <2>4, Zenon DEF Users
    <3>2. n[f] = 0 BY <2>4, Zenon
    <3>3. a + e = a + e + 0 OBVIOUS
    <3>4. QED BY <2>1, <2>2, <3>1, <3>2, <3>3, Zenon
  <2>5. QED BY <2>3, <2>4
<1>8. Sharing(rhd_frame_unref(h, n), b, j) BY <1>1, <1>3, <1>4, <1>6, <1>7, Unreferenced, Zenon
<1>9. QED BY <1>2, <1>8, Zenon

\* One client becomes another that uses the same frames.
LEMMA OneKeeps ==
    ASSUME NEW h, NEW b, NEW k, Sharing(h, b, k), NEW c \in HClients, NEW y \in HClient, Orderly(y), Shows(h, y),
           \A f \in 1 .. HFrames : Uses(y, f) <=> Uses(k[c], f)
    PROVE  Sharing(h, b, [k EXCEPT ![c] = y])
<1>1. h \in Heaps /\ b \in 0 .. HFrames /\ k \in HRoster /\ RefsTrue(h, b, k) /\ \A d \in HClients : Shows(h, k[d])
  BY Zenon DEF Sharing
<1>2. PICK j : j = [k EXCEPT ![c] = y] BY Zenon
<1>3. j \in HRoster /\ j[c] = y /\ \A d \in HClients : d # c => j[d] = k[d] BY <1>1, <1>2, Zenon DEF HRoster
<1>4. \A d \in HClients : Shows(h, j[d]) BY <1>1, <1>3, Zenon
<1>5. \A f \in 1 .. HFrames : Users(j, f) = Users(k, f) BY <1>3, Zenon DEF Users
<1>6. RefsTrue(h, b, j) BY <1>1, <1>5, Zenon DEF RefsTrue
<1>7. QED BY <1>1, <1>2, <1>3, <1>4, <1>6, Zenon DEF Sharing

-----------------------------------------------------------------------------
(* The ring's record, and the steps of rhd. *)
LEMMA RingOpened == ASSUME NEW r \in JpegRing PROVE jpeg_ring_open_slot(r) \in JpegRing
<1>1. PICK t, g : t = TRUE /\ g = "same" BY Zenon
<1>2. PICK l \in 0 .. (HDepth + 1) : l = IF r.have THEN HDepth + 1 ELSE 0 BY HNumbers, Zenon
<1>3. PICK z \in 0 .. HQuiet : z = 0 BY HNumbers, Zenon
<1>4. PICK s : s = [r EXCEPT !.open = t, !.gen = g, !.lag = l, !.quiet = z] BY Zenon
<1>5. s \in JpegRing BY <1>1, <1>4, Zenon DEF JpegRing
<1>6. jpeg_ring_open_slot(r) = r \/ jpeg_ring_open_slot(r) = s
  BY <1>1, <1>2, <1>3, <1>4, Zenon DEF jpeg_ring_open_slot
<1>7. QED BY <1>5, <1>6, Zenon

LEMMA RingClosed == ASSUME NEW r \in JpegRing PROVE Closed(r) \in JpegRing
<1>1. PICK f, g : f = FALSE /\ g = "same" BY Zenon
<1>2. PICK l \in 0 .. (HDepth + 1), z \in 0 .. HQuiet : l = 0 /\ z = 0 BY HNumbers, Zenon
<1>4. PICK s : s = [r EXCEPT !.open = f, !.gen = g, !.acq = f, !.lag = l, !.quiet = z] BY Zenon
<1>5. s \in JpegRing BY <1>1, <1>4, Zenon DEF JpegRing
<1>6. Closed(r) = s BY <1>1, <1>2, <1>4, Zenon DEF Closed
<1>7. QED BY <1>5, <1>6, Zenon

LEMMA RingAsked == ASSUME NEW r \in JpegRing PROVE Asked(r) \in JpegRing
<1>1. PICK z \in 0 .. HQuiet : z = 0 BY HNumbers, Zenon
<1>2. PICK s : s = [r EXCEPT !.quiet = z] BY Zenon
<1>3. s \in JpegRing BY <1>2, Zenon DEF JpegRing
<1>4. Asked(r) = r \/ Asked(r) = s BY <1>1, <1>2, Zenon DEF Asked
<1>5. QED BY <1>3, <1>4, Zenon

LEMMA RingAcquired == ASSUME NEW r \in JpegRing, NEW b \in BOOLEAN PROVE [r EXCEPT !.acq = b] \in JpegRing
BY Zenon DEF JpegRing

LEMMA RingDemanded == ASSUME NEW r \in JpegRing, NEW b \in BOOLEAN PROVE Demand(r, b) \in JpegRing
<1>1. PICK o \in JpegRing : o = IF b THEN jpeg_ring_open_slot(r) ELSE r BY RingOpened, Zenon
<1>2. Demand(r, b) = IF o.open THEN [o EXCEPT !.acq = b] ELSE o BY <1>1, Zenon DEF Demand
<1>3. [o EXCEPT !.acq = b] \in JpegRing BY RingAcquired
<1>4. QED BY <1>2, <1>3, Zenon

LEMMA RingRead ==
    ASSUME NEW r \in JpegRing, NEW l \in 0 .. (HDepth + 1), NEW z \in 0 .. HQuiet
    PROVE  [r EXCEPT !.lag = l] \in JpegRing /\ [r EXCEPT !.quiet = z] \in JpegRing
           /\ [r EXCEPT !.lag = l, !.quiet = z] \in JpegRing
BY Zenon DEF JpegRing

\* The clients as they are when a ring was opened under parked snapshots.
Alike(j, k) ==
    \A c \in HClients : /\ j[c].kind = k[c].kind /\ j[c].tx = k[c].tx /\ j[c].q = k[c].q
                        /\ j[c].pic = k[c].pic /\ j[c].dead = k[c].dead

LEMMA KeptAlike ==
    ASSUME NEW k \in HRoster, k = cl, NEW was, NEW r, NEW o \in Nat, NEW j, j = Kept(was, r, o)
    PROVE  j \in HRoster /\ Alike(j, k)
<1>1. ASSUME NEW c \in HClients
      PROVE  /\ j[c] \in HClient /\ Orderly(j[c]) /\ j[c].kind = k[c].kind /\ j[c].tx = k[c].tx
             /\ j[c].q = k[c].q /\ j[c].pic = k[c].pic /\ j[c].dead = k[c].dead
  <2>1. PICK x \in HClient : x = k[c] /\ Orderly(x) BY Zenon DEF HRoster
  <2>2. PICK y : y = [x EXCEPT !.off = o] BY Zenon
  <2>3. y \in HClient BY <2>2, Zenon DEF HClient
  <2>4. y.kind = x.kind /\ y.tx = x.tx /\ y.q = x.q /\ y.pic = x.pic /\ y.dead = x.dead BY <2>2, Zenon DEF HClient
  <2>5. Orderly(y) BY <2>1, <2>4, Zenon DEF Orderly
  <2>6. j[c] = x \/ j[c] = y BY <2>1, <2>2, Zenon DEF Kept
  <2>7. QED BY <2>1, <2>3, <2>4, <2>5, <2>6, Zenon
<1>2. DOMAIN j = HClients /\ j = [c \in HClients |-> j[c]] BY Zenon DEF Kept
<1>3. QED BY <1>1, <1>2, Zenon DEF HRoster, Alike

LEMMA CursorNat == ASSUME NEW was, NEW r, NEW o \in Cursors(was, r) PROVE o \in Nat
<1>1. 0 \in Nat /\ HDepth + 1 \in Nat /\ HDepth + 2 \in Nat BY HNumbers
<1>2. QED BY <1>1, Zenon DEF Cursors, Ahead

LEMMA AlikeShares ==
    ASSUME NEW h, NEW b, NEW k, Sharing(h, b, k), NEW j \in HRoster, Alike(j, k)
    PROVE  Sharing(h, b, j)
BY SameUsers, Zenon DEF Alike

LEMMA BufferedShares ==
    ASSUME NEW k, k = cl, Sharing(heap, fb, k), NEW was, NEW r
    PROVE  \E h, b : Buffered(was, r) = <<h, b>> /\ Sharing(h, b, k)
<1>1. PICK h, b : h = heap /\ b = fb BY Zenon
<1>2. Sharing(h, b, k) BY <1>1, Zenon
<1>3. CASE Opens(was, r) /\ b = 0 /\ FreeIds(h) # {}
  <2>1. PICK f \in FreeIds(h) : f = Min(FreeIds(h)) BY <1>3, LeastFree, Zenon
  <2>2. Sharing([h EXCEPT ![f].refs = 1], f, k) BY <1>2, <1>3, Allocated, Zenon
  <2>3. Buffered(was, r) = <<[h EXCEPT ![f].refs = 1], f>> BY <1>1, <1>3, <2>1, Zenon DEF Buffered
  <2>4. QED BY <2>2, <2>3, Zenon
<1>4. CASE ~(Opens(was, r) /\ b = 0 /\ FreeIds(h) # {})
  <2>1. Buffered(was, r) = <<h, b>> BY <1>1, <1>4, Zenon DEF Buffered
  <2>2. QED BY <1>2, <2>1, Zenon
<1>5. QED BY <1>3, <1>4

\* A client that holds nothing becomes another that holds nothing.
LEMMA IdleBecomes ==
    ASSUME NEW h, NEW b, NEW k, Sharing(h, b, k), NEW c \in HClients, k[c].q = <<>>, k[c].tx = 0,
           NEW y \in HClient, y.q = <<>>, y.tx = 0
    PROVE  Sharing(h, b, [k EXCEPT ![c] = y])
<1>1. Len(<<>>) <= 1 OBVIOUS
<1>2. Orderly(y) BY <1>1, Zenon DEF Orderly
<1>3. Shows(h, y) BY Zenon DEF Shows
<1>4. \A f \in 1 .. HFrames : Uses(y, f) <=> Uses(k[c], f) BY HNumbers, Zenon DEF Uses, Waits
<1>5. QED BY <1>2, <1>3, <1>4, OneKeeps, Zenon

LEMMA NoViewer ==
    ASSUME NEW k \in HRoster, NEW c \in HClients, k[c].kind # "mjpeg" PROVE k[c].q = <<>> /\ k[c].tx = 0
BY Zenon DEF HRoster, Orderly

\* Parked snapshots stay parked until the loop has looked at them.
LEMMA StillParked ==
    ASSUME HInv, polls' \subseteq polls, \A c \in polls' : cl'[c].kind = cl[c].kind
    PROVE  polls' \subseteq Of({"snap"})'
BY Zenon DEF HInv, Of

LEMMA HBecomes ==
    ASSUME jr' \in JpegRing, hpc' \in {"rest", "snap", "wait"}, hpc' # "snap" => polls' = {},
           polls' \subseteq Of({"snap"})', Sharing(heap', fb', cl')
    PROVE  HInv'
BY Zenon DEF HInv

\* The pass and the loads the loop does not move in.
LEMMA Beside ==
    ASSUME HInv, hpc' = hpc, polls' = polls, jr' \in JpegRing, Sharing(heap', fb', cl'),
           polls = {} \/ \A c \in HClients : cl'[c].kind = cl[c].kind
    PROVE  HInv'
<1>1. /\ hpc \in {"rest", "snap", "wait"} /\ (hpc # "snap" => polls = {}) /\ polls \subseteq Of({"snap"})
  BY Zenon DEF HInv
<1>2. polls \subseteq HClients BY <1>1, Zenon DEF Of
<1>3. polls' \subseteq Of({"snap"})' BY <1>1, <1>2, StillParked, Zenon
<1>4. QED BY <1>1, <1>3, HBecomes, Zenon

\* Clients whose marks alone change.
LEMMA Marked ==
    ASSUME HInv, NEW j, j \in [HClients -> HClient], Alike(j, cl) PROVE Sharing(heap, fb, j)
<1>1. PICK h, b, k : h = heap /\ b = fb /\ k = cl BY Zenon
<1>2. Sharing(h, b, k) BY <1>1, Zenon DEF HInv
<1>3. k \in HRoster BY <1>2, Zenon DEF Sharing
<1>4. \A c \in HClients : Orderly(j[c]) BY <1>1, <1>3, Zenon DEF HRoster, Orderly, Alike
<1>5. j \in HRoster BY <1>4, Zenon DEF HRoster
<1>6. Sharing(h, b, j) BY <1>1, <1>2, <1>5, AlikeShares, Zenon
<1>7. QED BY <1>1, <1>6, Zenon

LEMMA ClientIs ==
    ASSUME HInv, NEW c \in HClients PROVE cl[c] \in HClient /\ Orderly(cl[c]) /\ Shows(heap, cl[c])
BY Zenon DEF HInv, Sharing, HRoster

LEMMA UnfedIs == ASSUME HInv PROVE Unfed \in [HClients -> HClient] /\ Alike(Unfed, cl)
<1>1. PICK j : j = Unfed BY Zenon
<1>2. ASSUME NEW c \in HClients
      PROVE  /\ j[c] \in HClient /\ j[c].kind = cl[c].kind /\ j[c].tx = cl[c].tx
             /\ j[c].q = cl[c].q /\ j[c].pic = cl[c].pic /\ j[c].dead = cl[c].dead
  <2>1. PICK x \in HClient : x = cl[c] BY ClientIs, Zenon
  <2>2. PICK t \in BOOLEAN : t = FALSE BY Zenon
  <2>3. PICK y : y = [x EXCEPT !.fed = t] BY Zenon
  <2>4. y \in HClient BY <2>3, Zenon DEF HClient
  <2>5. y.kind = x.kind /\ y.tx = x.tx /\ y.q = x.q /\ y.pic = x.pic /\ y.dead = x.dead BY <2>3, Zenon DEF HClient
  <2>6. j[c] = x \/ j[c] = y BY <1>1, <2>1, <2>2, <2>3, Zenon DEF Unfed
  <2>7. QED BY <2>1, <2>4, <2>5, <2>6, Zenon
<1>3. j = [c \in HClients |-> j[c]] BY <1>1, Zenon DEF Unfed
<1>4. j \in [HClients -> HClient] BY <1>2, <1>3, Zenon
<1>5. QED BY <1>1, <1>2, <1>4, Zenon DEF Alike

LEMMA RingLeft ==
    ASSUME NEW r \in JpegRing, NEW n \in Nat, NEW u \in BOOLEAN, NEW v \in BOOLEAN, NEW g \in {"same", "orphan", "moved"}
    PROVE  /\ [r EXCEPT !.left = n, !.up = u, !.have = v, !.gen = g] \in JpegRing
           /\ [r EXCEPT !.left = n, !.have = v, !.gen = g] \in JpegRing
           /\ [r EXCEPT !.up = u] \in JpegRing
<1>1. [r EXCEPT !.left = n, !.up = u, !.have = v, !.gen = g] \in JpegRing BY Zenon DEF JpegRing
<1>2. [r EXCEPT !.left = n, !.have = v, !.gen = g] \in JpegRing BY Zenon DEF JpegRing
<1>3. [r EXCEPT !.up = u] \in JpegRing BY Zenon DEF JpegRing
<1>4. QED BY <1>1, <1>2, <1>3

LEMMA JpegUpStep == ASSUME HInv, JpegUp PROVE HInv'
<1>1. jr' = [jr EXCEPT !.up = TRUE] /\ heap' = heap /\ fb' = fb /\ cl' = cl /\ hpc' = hpc /\ polls' = polls
  BY Zenon DEF JpegUp
<1>2. PICK r \in JpegRing : r = jr BY Zenon DEF HInv
<1>3. PICK t \in BOOLEAN : t = TRUE BY Zenon
<1>4. [r EXCEPT !.up = t] \in JpegRing BY Zenon DEF JpegRing
<1>5. jr' \in JpegRing BY <1>1, <1>2, <1>3, <1>4, Zenon
<1>6. Sharing(heap', fb', cl') BY <1>1, Zenon DEF HInv
<1>7. QED BY <1>1, <1>5, <1>6, Beside, Zenon

LEMMA Unfeeds ==
    ASSUME HInv, cl' = Unfed, heap' = heap, fb' = fb, hpc' = hpc, polls' = polls, jr' \in JpegRing
    PROVE  HInv'
<1>1. PICK j \in [HClients -> HClient] : j = Unfed /\ Alike(j, cl) BY UnfedIs, Zenon
<1>2. Sharing(heap, fb, j) BY <1>1, Marked, Zenon
<1>3. Sharing(heap', fb', cl') BY <1>1, <1>2, Zenon
<1>4. \A c \in HClients : cl'[c].kind = cl[c].kind BY <1>1, Zenon DEF Alike
<1>5. QED BY <1>3, <1>4, Beside, Zenon

LEMMA JpegDownStep == ASSUME HInv, JpegDown PROVE HInv'
<1>1. /\ jr.left > 0 /\ cl' = Unfed /\ heap' = heap /\ fb' = fb /\ hpc' = hpc /\ polls' = polls
      /\ jr' = [jr EXCEPT !.left = @ - 1, !.up = FALSE, !.have = FALSE, !.gen = IF jr.open THEN "orphan" ELSE @]
  BY Zenon DEF JpegDown
<1>2. PICK r \in JpegRing : r = jr BY Zenon DEF HInv
<1>3. PICK d \in Nat : d = r.left BY Zenon DEF JpegRing
<1>4. PICK n \in Nat : n = d - 1
  <2>1. d > 0 BY <1>1, <1>2, <1>3, Zenon
  <2>2. d - 1 \in Nat BY <2>1
  <2>3. QED BY <2>2, Zenon
<1>5. PICK t \in BOOLEAN : t = FALSE BY Zenon
<1>6. PICK g \in {"same", "orphan", "moved"} : g = IF r.open THEN "orphan" ELSE r.gen BY Zenon DEF JpegRing
<1>7. jr' = [r EXCEPT !.left = n, !.up = t, !.have = t, !.gen = g] BY <1>1, <1>2, <1>3, <1>4, <1>5, <1>6, Zenon
<1>8. jr' \in JpegRing BY <1>7, RingLeft
<1>9. QED BY <1>1, <1>8, Unfeeds, Zenon

LEMMA JpegMovedStep == ASSUME HInv, JpegMoved PROVE HInv'
<1>1. /\ jr.left > 0 /\ cl' = Unfed /\ heap' = heap /\ fb' = fb /\ hpc' = hpc /\ polls' = polls
      /\ jr' = [jr EXCEPT !.left = @ - 1, !.have = FALSE, !.gen = "moved"]
  BY Zenon DEF JpegMoved
<1>2. PICK r \in JpegRing : r = jr BY Zenon DEF HInv
<1>3. PICK d \in Nat : d = r.left BY Zenon DEF JpegRing
<1>4. PICK n \in Nat : n = d - 1
  <2>1. d > 0 BY <1>1, <1>2, <1>3, Zenon
  <2>2. d - 1 \in Nat BY <2>1
  <2>3. QED BY <2>2, Zenon
<1>5. PICK t \in BOOLEAN : t = FALSE BY Zenon
<1>6. PICK g \in {"same", "orphan", "moved"} : g = "moved" BY Zenon
<1>7. jr' = [r EXCEPT !.left = n, !.have = t, !.gen = g] BY <1>1, <1>2, <1>3, <1>4, <1>5, <1>6, Zenon
<1>8. jr' \in JpegRing BY <1>7, RingLeft
<1>9. QED BY <1>1, <1>8, Unfeeds, Zenon

\* A client as it is with another cursor, or another deadline.
LEMMA OtherCursor ==
    ASSUME NEW x \in HClient, NEW n \in Nat
    PROVE  \E y, z \in HClient :
             /\ y = [x EXCEPT !.off = n] /\ z = [x EXCEPT !.wait = n]
             /\ y.kind = x.kind /\ y.tx = x.tx /\ y.q = x.q /\ y.pic = x.pic /\ y.dead = x.dead
             /\ z.kind = x.kind /\ z.tx = x.tx /\ z.q = x.q /\ z.pic = x.pic /\ z.dead = x.dead
<1>1. PICK y, z : y = [x EXCEPT !.off = n] /\ z = [x EXCEPT !.wait = n] BY Zenon
<1>2. y \in HClient BY <1>1, Zenon DEF HClient
<1>3. z \in HClient BY <1>1, Zenon DEF HClient
<1>4. y.kind = x.kind /\ y.tx = x.tx /\ y.q = x.q /\ y.pic = x.pic /\ y.dead = x.dead BY <1>1, Zenon DEF HClient
<1>5. z.kind = x.kind /\ z.tx = x.tx /\ z.q = x.q /\ z.pic = x.pic /\ z.dead = x.dead BY <1>1, Zenon DEF HClient
<1>6. QED BY <1>1, <1>2, <1>3, <1>4, <1>5, Zenon

LEMMA ProduceStep == ASSUME HInv, Produce PROVE HInv'
<1>1. /\ heap' = heap /\ fb' = fb /\ hpc' = hpc /\ polls' = polls
      /\ jr' = [jr EXCEPT !.have = TRUE, !.paced = TRUE, !.wrote = TRUE,
                          !.lag = IF jr.open /\ jr.gen = "same" /\ @ <= HDepth THEN @ + 1 ELSE @]
      /\ cl' = [c \in HClients |-> IF cl[c].kind # "snap" THEN cl[c]
                                 ELSE [cl[c] EXCEPT !.off = IF jr.open /\ jr.gen = "same" /\ @ <= HDepth THEN @ + 1 ELSE @]]
  BY Zenon DEF Produce
<1>2. PICK r \in JpegRing : r = jr BY Zenon DEF HInv
<1>3. jr' \in JpegRing
  <2>1. PICK d \in 0 .. (HDepth + 1) : d = r.lag BY Zenon DEF JpegRing
  <2>2. d <= HDepth => d + 1 \in 0 .. (HDepth + 1) BY HNumbers
  <2>3. PICK n \in 0 .. (HDepth + 1) : n = IF r.open /\ r.gen = "same" /\ d <= HDepth THEN d + 1 ELSE d BY <2>2, Zenon
  <2>4. PICK t \in BOOLEAN : t = TRUE BY Zenon
  <2>5. jr' = [r EXCEPT !.have = t, !.paced = t, !.wrote = t, !.lag = n] BY <1>1, <1>2, <2>1, <2>3, <2>4, Zenon
  <2>6. [r EXCEPT !.have = t, !.paced = t, !.wrote = t, !.lag = n] \in JpegRing BY Zenon DEF JpegRing
  <2>7. QED BY <2>5, <2>6, Zenon
<1>4. PICK j : j = cl' BY Zenon
<1>5. ASSUME NEW c \in HClients
      PROVE  /\ j[c] \in HClient /\ j[c].kind = cl[c].kind /\ j[c].tx = cl[c].tx
             /\ j[c].q = cl[c].q /\ j[c].pic = cl[c].pic /\ j[c].dead = cl[c].dead
  <2>1. PICK x \in HClient : x = cl[c] BY ClientIs, Zenon
  <2>2. PICK d \in Nat : d = x.off BY Zenon DEF HClient
  <2>3. d + 1 \in Nat OBVIOUS
  <2>4. PICK n \in Nat : n = IF jr.open /\ jr.gen = "same" /\ d <= HDepth THEN d + 1 ELSE d BY <2>3, Zenon
  <2>5. PICK y, z \in HClient :
             /\ y = [x EXCEPT !.off = n] /\ z = [x EXCEPT !.wait = n]
             /\ y.kind = x.kind /\ y.tx = x.tx /\ y.q = x.q /\ y.pic = x.pic /\ y.dead = x.dead
             /\ z.kind = x.kind /\ z.tx = x.tx /\ z.q = x.q /\ z.pic = x.pic /\ z.dead = x.dead
    BY OtherCursor, Zenon
  <2>6. j[c] = x \/ j[c] = y BY <1>1, <1>4, <2>1, <2>2, <2>4, <2>5, Zenon
  <2>7. QED BY <2>1, <2>5, <2>6, Zenon
<1>6. j = [c \in HClients |-> j[c]] BY <1>1, <1>4, Zenon
<1>7. j \in [HClients -> HClient] BY <1>5, <1>6, Zenon
<1>8. Alike(j, cl) BY <1>5, Zenon DEF Alike
<1>9. Sharing(heap, fb, j) BY <1>7, <1>8, Marked, Zenon
<1>10. Sharing(heap', fb', cl') BY <1>1, <1>4, <1>9, Zenon
<1>11. \A c \in HClients : cl'[c].kind = cl[c].kind BY <1>4, <1>5, Zenon
<1>12. QED BY <1>1, <1>3, <1>10, <1>11, Beside, Zenon

LEMMA WaitStep == ASSUME HInv, Wait PROVE HInv'
<1>1. /\ heap' = heap /\ fb' = fb /\ hpc = "wait" /\ hpc' = "rest" /\ polls' = polls
      /\ jr' = [jr EXCEPT !.quiet = IF jr.open /\ @ < HQuiet THEN @ + 1 ELSE @, !.paced = FALSE]
      /\ cl' = [c \in HClients |-> [cl[c] EXCEPT !.wait = IF @ > 0 THEN @ - 1 ELSE 0]]
  BY Zenon DEF Wait
<1>2. PICK r \in JpegRing : r = jr BY Zenon DEF HInv
<1>3. jr' \in JpegRing
  <2>1. PICK d \in 0 .. HQuiet : d = r.quiet BY Zenon DEF JpegRing
  <2>2. d < HQuiet => d + 1 \in 0 .. HQuiet BY HNumbers
  <2>3. PICK n \in 0 .. HQuiet : n = IF r.open /\ d < HQuiet THEN d + 1 ELSE d BY <2>2, Zenon
  <2>4. PICK t \in BOOLEAN : t = FALSE BY Zenon
  <2>5. jr' = [r EXCEPT !.quiet = n, !.paced = t] BY <1>1, <1>2, <2>1, <2>3, <2>4, Zenon
  <2>6. [r EXCEPT !.quiet = n, !.paced = t] \in JpegRing BY Zenon DEF JpegRing
  <2>7. QED BY <2>5, <2>6, Zenon
<1>4. PICK j : j = cl' BY Zenon
<1>5. ASSUME NEW c \in HClients
      PROVE  /\ j[c] \in HClient /\ j[c].kind = cl[c].kind /\ j[c].tx = cl[c].tx
             /\ j[c].q = cl[c].q /\ j[c].pic = cl[c].pic /\ j[c].dead = cl[c].dead
  <2>1. PICK x \in HClient : x = cl[c] BY ClientIs, Zenon
  <2>2. PICK d \in Nat : d = x.wait BY Zenon DEF HClient
  <2>3. 0 \in Nat /\ (d > 0 => d - 1 \in Nat) OBVIOUS
  <2>4. PICK n \in Nat : n = IF d > 0 THEN d - 1 ELSE 0 BY <2>3, Zenon
  <2>5. PICK y, z \in HClient :
             /\ y = [x EXCEPT !.off = n] /\ z = [x EXCEPT !.wait = n]
             /\ y.kind = x.kind /\ y.tx = x.tx /\ y.q = x.q /\ y.pic = x.pic /\ y.dead = x.dead
             /\ z.kind = x.kind /\ z.tx = x.tx /\ z.q = x.q /\ z.pic = x.pic /\ z.dead = x.dead
    BY OtherCursor, Zenon
  <2>6. j[c] = z BY <1>1, <1>4, <2>1, <2>2, <2>4, <2>5, Zenon
  <2>7. QED BY <2>1, <2>5, <2>6, Zenon
<1>6. j = [c \in HClients |-> j[c]] BY <1>1, <1>4, Zenon
<1>7. j \in [HClients -> HClient] BY <1>5, <1>6, Zenon
<1>8. Alike(j, cl) BY <1>5, Zenon DEF Alike
<1>9. Sharing(heap, fb, j) BY <1>7, <1>8, Marked, Zenon
<1>10. Sharing(heap', fb', cl') BY <1>1, <1>4, <1>9, Zenon
<1>11. "wait" # "snap" OBVIOUS
<1>12. polls' = {} BY <1>1, <1>11, Zenon DEF HInv
<1>13. QED BY <1>1, <1>3, <1>10, <1>12, HBecomes, Zenon

\* The send threads: what waited is sent, what was sent is given back.
LEMMA TakeStep == ASSUME HInv, NEW c \in HClients, Take(c) PROVE HInv'
<1>1. /\ cl[c].tx = 0 /\ cl[c].q # <<>>
      /\ cl' = [cl EXCEPT ![c].tx = Head(cl[c].q).f, ![c].q = Tail(@), ![c].pic = Head(cl[c].q).pic]
      /\ jr' = jr /\ heap' = heap /\ fb' = fb /\ hpc' = hpc /\ polls' = polls
  BY Zenon DEF Take
<1>2. PICK h, b, k : h = heap /\ b = fb /\ k = cl BY Zenon
<1>3. Sharing(h, b, k) BY <1>2, Zenon DEF HInv
<1>4. PICK x \in HClient : x = k[c] /\ Orderly(x) /\ Shows(h, x) BY <1>2, ClientIs, Zenon
<1>5. x.q \in Seq(HItem) /\ Len(x.q) <= 1 /\ x.q # <<>> /\ x.tx = 0 BY <1>1, <1>2, <1>4, Zenon DEF HClient, Orderly
<1>6. Head(x.q) = x.q[1] /\ Tail(x.q) = <<>> /\ x.q[1] \in HItem BY <1>5
<1>7. PICK f \in 1 .. HFrames, p \in BOOLEAN : f = x.q[1].f /\ p = x.q[1].pic BY <1>6, Zenon DEF HItem
<1>8. PICK e \in Seq(HItem) : e = <<>>
  <2>1. Tail(x.q) \in Seq(HItem) BY <1>5
  <2>2. QED BY <1>6, <2>1, Zenon
<1>9. PICK y : y = [x EXCEPT !.tx = f, !.q = e, !.pic = p] BY Zenon
<1>10. f \in 0 .. HFrames /\ f # 0 BY HNumbers, Zenon
<1>11. y \in HClient BY <1>9, <1>10, Zenon DEF HClient
<1>12. y.tx = f /\ y.q = e /\ y.pic = p /\ y.kind = x.kind BY <1>9, Zenon DEF HClient
<1>13. PICK j : j = [k EXCEPT ![c] = y] BY Zenon
<1>14. cl' = j BY <1>1, <1>2, <1>4, <1>6, <1>7, <1>8, <1>9, <1>13, Zenon
<1>15. x.kind = "mjpeg" BY <1>4, <1>5, Zenon DEF Orderly
<1>16. Len(e) <= 1 BY <1>8
<1>17. Orderly(y) BY <1>8, <1>12, <1>15, <1>16, Zenon DEF Orderly
<1>18. Shows(h, y) BY <1>4, <1>5, <1>7, <1>8, <1>12, Zenon DEF Shows
<1>19. \A g \in 1 .. HFrames : Uses(y, g) <=> Uses(k[c], g)
  BY <1>4, <1>5, <1>7, <1>8, <1>12, HNumbers, Zenon DEF Uses, Waits
<1>20. Sharing(h, b, j) BY <1>3, <1>11, <1>13, <1>17, <1>18, <1>19, OneKeeps, Zenon
<1>21. Sharing(heap', fb', cl') BY <1>1, <1>2, <1>14, <1>20, Zenon
<1>22. k \in HRoster BY <1>3, Zenon DEF Sharing
<1>23. \A d \in HClients : cl'[d].kind = cl[d].kind BY <1>2, <1>4, <1>12, <1>13, <1>14, <1>22, Zenon DEF HRoster
<1>24. jr' \in JpegRing BY <1>1, Zenon DEF HInv
<1>25. QED BY <1>1, <1>21, <1>23, <1>24, Beside, Zenon

LEMMA SentStep == ASSUME HInv, NEW c \in HClients, NEW ok \in BOOLEAN, Sent(c, ok) PROVE HInv'
<1>1. /\ cl[c].tx # 0 /\ heap' = rhd_frame_unref(heap, [f \in 1 .. HFrames |-> One(f = cl[c].tx)])
      /\ cl' = [cl EXCEPT ![c].tx = 0, ![c].pic = FALSE, ![c].dead = ~ok]
      /\ jr' = jr /\ fb' = fb /\ hpc' = hpc /\ polls' = polls
  BY Zenon DEF Sent
<1>2. PICK h, b, k : h = heap /\ b = fb /\ k = cl BY Zenon
<1>3. Sharing(h, b, k) BY <1>2, Zenon DEF HInv
<1>4. PICK x \in HClient : x = k[c] /\ Orderly(x) /\ Shows(h, x) BY <1>2, ClientIs, Zenon
<1>5. PICK z \in 0 .. HFrames, p \in BOOLEAN, d \in BOOLEAN : z = 0 /\ p = FALSE /\ d = ~ok BY HNumbers, Zenon
<1>6. PICK y : y = [x EXCEPT !.tx = z, !.pic = p, !.dead = d] BY Zenon
<1>7. y \in HClient BY <1>6, Zenon DEF HClient
<1>8. y.tx = z /\ y.q = x.q /\ y.kind = x.kind BY <1>6, Zenon DEF HClient
<1>9. PICK j : j = [k EXCEPT ![c] = y] BY Zenon
<1>10. cl' = j BY <1>1, <1>2, <1>4, <1>5, <1>6, <1>9, Zenon
<1>11. x.q # <<>> => x.q[1].f \in 1 .. HFrames BY <1>3, <1>4, UsedFrame, Zenon DEF Sharing
<1>12. Orderly(y) BY <1>4, <1>5, <1>8, <1>11, HNumbers, Zenon DEF Orderly
<1>13. Shows(h, y) BY <1>4, <1>5, <1>8, Zenon DEF Shows
<1>14. \A f \in 1 .. HFrames : Uses(y, f) => Uses(k[c], f) BY <1>4, <1>5, <1>8, HNumbers, Zenon DEF Uses, Waits
<1>15. PICK n : n = [f \in 1 .. HFrames |-> IF Uses(k[c], f) /\ ~Uses(y, f) THEN 1 ELSE 0] BY Zenon
<1>16. ASSUME NEW f \in 1 .. HFrames PROVE (Uses(k[c], f) /\ ~Uses(y, f)) <=> f = x.tx
  BY <1>4, <1>5, <1>8, HNumbers, Zenon DEF Uses, Waits, Orderly
<1>17. n = [f \in 1 .. HFrames |-> One(f = cl[c].tx)] BY <1>2, <1>4, <1>15, <1>16, Zenon DEF One
<1>18. Sharing(rhd_frame_unref(h, n), b, j) BY <1>3, <1>7, <1>9, <1>12, <1>13, <1>14, <1>15, OneGives, Zenon
<1>19. Sharing(heap', fb', cl') BY <1>1, <1>2, <1>10, <1>17, <1>18, Zenon
<1>20. k \in HRoster BY <1>3, Zenon DEF Sharing
<1>21. \A e \in HClients : cl'[e].kind = cl[e].kind BY <1>2, <1>4, <1>8, <1>9, <1>10, <1>20, Zenon DEF HRoster
<1>22. jr' \in JpegRing BY <1>1, Zenon DEF HInv
<1>23. QED BY <1>1, <1>19, <1>21, <1>22, Beside, Zenon

LEMMA HLeaveStep == ASSUME HInv, NEW c \in HClients, Leave(c) PROVE HInv'
<1>1. /\ hpc = "rest" /\ heap' = rhd_frame_unref(heap, [f \in 1 .. HFrames |-> Held(c, f)])
      /\ cl' = [cl EXCEPT ![c] = Gone] /\ jr' = jr /\ fb' = fb /\ hpc' = hpc /\ polls' = polls
  BY Zenon DEF Leave
<1>2. PICK h, b, k : h = heap /\ b = fb /\ k = cl BY Zenon
<1>3. Sharing(h, b, k) BY <1>2, Zenon DEF HInv
<1>4. PICK x \in HClient : x = k[c] /\ Orderly(x) BY <1>2, ClientIs, Zenon
<1>5. PICK y \in HClient : y = Gone /\ Orderly(y) /\ y.q = <<>> /\ y.tx = 0 BY GoneIs, Zenon
<1>6. PICK j : j = [k EXCEPT ![c] = y] BY Zenon
<1>7. Shows(h, y) BY <1>5, Zenon DEF Shows
<1>8. \A f \in 1 .. HFrames : ~Uses(y, f) BY <1>5, HNumbers, Zenon DEF Uses, Waits
<1>9. PICK n : n = [f \in 1 .. HFrames |-> IF Uses(k[c], f) /\ ~Uses(y, f) THEN 1 ELSE 0] BY Zenon
<1>10. ASSUME NEW f \in 1 .. HFrames PROVE Held(c, f) = IF Uses(k[c], f) /\ ~Uses(y, f) THEN 1 ELSE 0
  <2>1. Held(c, f) = One(x.tx = f) + One(Waits(x, f)) BY <1>2, <1>4, Zenon DEF Held, Waits
  <2>2. 0 + 0 = 0 /\ 0 + 1 = 1 /\ 1 + 0 = 1 OBVIOUS
  <2>3. ~(x.tx = f /\ Waits(x, f)) BY <1>4, Zenon DEF Waits, Orderly
  <2>4. QED BY <1>4, <1>8, <2>1, <2>2, <2>3, Zenon DEF One, Uses
<1>11. n = [f \in 1 .. HFrames |-> Held(c, f)] BY <1>9, <1>10, Zenon
<1>12. Sharing(rhd_frame_unref(h, n), b, j) BY <1>3, <1>5, <1>6, <1>7, <1>8, <1>9, OneGives, Zenon
<1>13. Sharing(heap', fb', cl') BY <1>1, <1>2, <1>5, <1>6, <1>11, <1>12, Zenon
<1>14. jr' \in JpegRing BY <1>1, Zenon DEF HInv
<1>15. "rest" # "snap" OBVIOUS
<1>16. polls = {} BY <1>1, <1>15, Zenon DEF HInv
<1>17. QED BY <1>1, <1>13, <1>14, <1>16, Beside, Zenon

LEMMA SweepStep == ASSUME HInv, Sweep PROVE HInv'
<1>1. PICK was : was = IF jr.open /\ jr.gen = "orphan" THEN Closed(jr) ELSE jr BY Zenon
<1>2. PICK r : r = jpeg_ring_open_slot(was) BY Zenon
<1>3. /\ hpc = "rest" /\ heap' = Buffered(was, r)[1] /\ fb' = Buffered(was, r)[2] /\ hpc' = hpc /\ polls' = polls
      /\ jr' = IF ~was.open THEN [r EXCEPT !.acq = r.open /\ Of({"mjpeg", "snap"}) # {}]
               ELSE IF ~jr.wrote /\ Of({"snap"}) = {} THEN Closed(jr)
               ELSE [jr EXCEPT !.wrote = FALSE]
  BY <1>1, <1>2, Zenon DEF Sweep
<1>4. PICK o \in Cursors(was, r) : cl' = Kept(was, r, o) BY <1>1, <1>2, Zenon DEF Sweep
<1>5. PICK a \in JpegRing : a = jr BY Zenon DEF HInv
<1>6. Closed(a) \in JpegRing BY RingClosed
<1>7. was \in JpegRing BY <1>1, <1>5, <1>6, Zenon
<1>8. r \in JpegRing BY <1>2, <1>7, RingOpened, Zenon
<1>9. jr' \in JpegRing
  <2>1. PICK t \in BOOLEAN : t = (r.open /\ Of({"mjpeg", "snap"}) # {}) BY <1>8, Zenon DEF JpegRing
  <2>2. [r EXCEPT !.acq = t] \in JpegRing BY <1>8, RingAcquired
  <2>3. PICK e \in BOOLEAN : e = FALSE BY Zenon
  <2>4. [a EXCEPT !.wrote = e] \in JpegRing BY Zenon DEF JpegRing
  <2>5. jr' = [r EXCEPT !.acq = t] \/ jr' = Closed(a) \/ jr' = [a EXCEPT !.wrote = e]
    BY <1>3, <1>5, <2>1, <2>3, Zenon
  <2>6. QED BY <1>6, <2>2, <2>4, <2>5, Zenon
<1>10. PICK k : k = cl BY Zenon
<1>11. Sharing(heap, fb, k) /\ k \in HRoster BY <1>10, Zenon DEF HInv, Sharing
<1>12. PICK h, b : Buffered(was, r) = <<h, b>> /\ Sharing(h, b, k) BY <1>10, <1>11, BufferedShares
<1>13. heap' = h /\ fb' = b
  <2>1. PICK v : v = Buffered(was, r) BY Zenon
  <2>2. v = <<h, b>> BY <1>12, <2>1, Zenon
  <2>3. v[1] = h /\ v[2] = b BY <2>2
  <2>4. QED BY <1>3, <2>1, <2>3, Zenon
<1>14. o \in Nat BY CursorNat, Zenon
<1>15. PICK j : j = Kept(was, r, o) BY Zenon
<1>16. j \in HRoster /\ Alike(j, k) BY <1>10, <1>11, <1>14, <1>15, KeptAlike
<1>17. Sharing(h, b, j) BY <1>12, <1>16, AlikeShares, Zenon
<1>18. Sharing(heap', fb', cl') BY <1>4, <1>13, <1>15, <1>17, Zenon
<1>19. "rest" # "snap" OBVIOUS
<1>20. polls = {} BY <1>3, <1>19, Zenon DEF HInv
<1>21. QED BY <1>3, <1>9, <1>18, <1>20, Beside, Zenon

\* handle_request: one who has nothing joins with nothing.
LEMMA JoinStep ==
    ASSUME HInv, NEW c \in HClients, NEW kind, NEW y \in HClient, y.q = <<>>, y.tx = 0, Join(c, kind, y) PROVE HInv'
<1>1. PICK r : r = jpeg_ring_open_slot(jr) BY Zenon
<1>2. /\ hpc = "rest" /\ cl[c].kind = "none" /\ jr' = r /\ heap' = Buffered(jr, r)[1] /\ fb' = Buffered(jr, r)[2]
      /\ hpc' = hpc /\ polls' = polls
  BY <1>1, Zenon DEF Join
<1>3. PICK o \in Cursors(jr, r) : cl' = [Kept(jr, r, o) EXCEPT ![c] = y] BY <1>1, Zenon DEF Join
<1>4. PICK a \in JpegRing : a = jr BY Zenon DEF HInv
<1>5. jr' \in JpegRing BY <1>1, <1>2, <1>4, RingOpened, Zenon
<1>6. PICK k : k = cl BY Zenon
<1>7. Sharing(heap, fb, k) /\ k \in HRoster BY <1>6, Zenon DEF HInv, Sharing
<1>8. PICK h, b : Buffered(a, r) = <<h, b>> /\ Sharing(h, b, k) BY <1>6, <1>7, BufferedShares
<1>9. heap' = h /\ fb' = b
  <2>1. PICK v : v = Buffered(jr, r) BY Zenon
  <2>2. v = <<h, b>> BY <1>4, <1>8, <2>1, Zenon
  <2>3. v[1] = h /\ v[2] = b BY <2>2
  <2>4. QED BY <1>2, <2>1, <2>3, Zenon
<1>10. o \in Nat BY <1>3, CursorNat, Zenon
<1>11. PICK j : j = Kept(a, r, o) BY Zenon
<1>12. j \in HRoster /\ Alike(j, k) BY <1>6, <1>7, <1>10, <1>11, KeptAlike
<1>13. Sharing(h, b, j) BY <1>8, <1>12, AlikeShares, Zenon
<1>14. "none" # "mjpeg" OBVIOUS
<1>15. j[c].kind # "mjpeg" BY <1>2, <1>6, <1>12, <1>14, Zenon DEF Alike
<1>16. j[c].q = <<>> /\ j[c].tx = 0 BY <1>12, <1>15, NoViewer, Zenon
<1>17. Sharing(h, b, [j EXCEPT ![c] = y]) BY <1>13, <1>16, IdleBecomes, Zenon
<1>18. Sharing(heap', fb', cl') BY <1>3, <1>4, <1>9, <1>11, <1>17, Zenon
<1>19. "rest" # "snap" OBVIOUS
<1>20. polls = {} BY <1>2, <1>19, Zenon DEF HInv
<1>21. QED BY <1>2, <1>5, <1>18, <1>20, Beside, Zenon

\* Clients that come with nothing.
LEMMA Comers ==
    ASSUME NEW e \in {"none", "mjpeg", "snap", "sent"}, NEW n \in Nat
    PROVE  \E y, z \in HClient :
             /\ y = [Gone EXCEPT !.kind = e] /\ z = [Gone EXCEPT !.kind = e, !.wait = n]
             /\ y.q = <<>> /\ y.tx = 0 /\ y.kind = e /\ z.q = <<>> /\ z.tx = 0
<1>1. PICK x \in HClient : x = Gone /\ x.q = <<>> /\ x.tx = 0 BY GoneIs, Zenon
<1>2. PICK y, z : y = [x EXCEPT !.kind = e] /\ z = [x EXCEPT !.kind = e, !.wait = n] BY Zenon
<1>3. y \in HClient BY <1>2, Zenon DEF HClient
<1>4. z \in HClient BY <1>2, Zenon DEF HClient
<1>5. y.q = <<>> /\ y.tx = 0 /\ y.kind = e BY <1>1, <1>2, Zenon DEF HClient
<1>6. z.q = <<>> /\ z.tx = 0 BY <1>1, <1>2, Zenon DEF HClient
<1>7. QED BY <1>1, <1>2, <1>3, <1>4, <1>5, <1>6, Zenon

LEMMA AskStep == ASSUME HInv, NEW c \in HClients, AskMjpeg(c) \/ handle_snapshot(c) PROVE HInv'
<1>1. CASE AskMjpeg(c)
  <2>1. PICK e \in {"none", "mjpeg", "snap", "sent"} : e = "mjpeg" BY Zenon
  <2>2. PICK n \in Nat : n = HSnap BY HNumbers, Zenon
  <2>3. PICK y, z \in HClient :
             /\ y = [Gone EXCEPT !.kind = e] /\ z = [Gone EXCEPT !.kind = e, !.wait = n]
             /\ y.q = <<>> /\ y.tx = 0 /\ y.kind = e /\ z.q = <<>> /\ z.tx = 0
    BY Comers
  <2>4. Join(c, e, y) BY <1>1, <2>1, <2>3, Zenon DEF AskMjpeg
  <2>5. QED BY <2>3, <2>4, JoinStep, Zenon
<1>2. CASE handle_snapshot(c)
  <2>1. PICK e \in {"none", "mjpeg", "snap", "sent"} : e = "snap" BY Zenon
  <2>2. PICK n \in Nat : n = HSnap BY HNumbers, Zenon
  <2>3. PICK y, z \in HClient :
             /\ y = [Gone EXCEPT !.kind = e] /\ z = [Gone EXCEPT !.kind = e, !.wait = n]
             /\ y.q = <<>> /\ y.tx = 0 /\ y.kind = e /\ z.q = <<>> /\ z.tx = 0
    BY Comers
  <2>4. Join(c, e, z) BY <1>2, <2>1, <2>2, <2>3, Zenon DEF handle_snapshot
  <2>5. QED BY <2>3, <2>4, JoinStep, Zenon
<1>3. QED BY <1>1, <1>2

\* A snapshot the loop looks at: served, failed, or left parked.
LEMMA SnapStep == ASSUME HInv, NEW c \in HClients, snap_poll(c) PROVE HInv'
<1>1. PICK r : r = IF jr.open THEN jr ELSE LET o == jpeg_ring_open_slot(jr) IN [o EXCEPT !.acq = o.open] BY Zenon
<1>2. PICK n : n = IF jr.open THEN cl[c].off ELSE 0 BY Zenon
<1>3. PICK w : w = frame_for_writing(Buffered(jr, r)) BY Zenon
<1>4. c \in polls /\ polls' = polls \ {c} /\ hpc' = IF polls' = {} THEN "wait" ELSE "snap" BY Zenon DEF snap_poll
<1>5. \/ heap' = heap /\ fb' = fb
      \/ heap' = w[1] /\ fb' = w[2]
      \/ heap' = [w[1] EXCEPT ![w[2]].pic = ~@] /\ fb' = w[2] /\ w[2] # 0
  BY <1>1, <1>2, <1>3, Zenon DEF snap_poll
<1>6. jr' = r \/ jr' = Closed(r) \/ jr' = [r EXCEPT !.quiet = 0] \/ jr' = Asked(r)
  BY <1>1, <1>2, <1>3, Zenon DEF snap_poll
<1>7. \E o \in Cursors(jr, r) :
         \/ cl' = [cl EXCEPT ![c] = [Gone EXCEPT !.kind = "sent"]]
         \/ cl' = [Kept(jr, r, o) EXCEPT ![c].off = n]
         \/ cl' = [cl EXCEPT ![c].off = 1]
         \/ cl' = [Kept(jr, r, o) EXCEPT ![c] = Gone]
  BY <1>1, <1>2, <1>3, Zenon DEF snap_poll
<1>8. PICK a \in JpegRing : a = jr BY Zenon DEF HInv
<1>9. r \in JpegRing
  <2>1. PICK o \in JpegRing : o = jpeg_ring_open_slot(a) BY RingOpened, Zenon
  <2>2. PICK t \in BOOLEAN : t = o.open BY <2>1, Zenon DEF JpegRing
  <2>3. [o EXCEPT !.acq = t] \in JpegRing BY <2>1, RingAcquired
  <2>4. r = a \/ r = [o EXCEPT !.acq = t] BY <1>1, <1>8, <2>1, <2>2, Zenon
  <2>5. QED BY <2>3, <2>4, Zenon
<1>10. jr' \in JpegRing
  <2>1. PICK z \in 0 .. HQuiet, l \in 0 .. (HDepth + 1) : z = 0 /\ l = 0 BY HNumbers, Zenon
  <2>2. [r EXCEPT !.quiet = z] \in JpegRing BY <1>9, RingRead
  <2>3. Closed(r) \in JpegRing /\ Asked(r) \in JpegRing BY <1>9, RingClosed, RingAsked
  <2>4. QED BY <1>6, <1>9, <2>1, <2>2, <2>3, Zenon
<1>11. PICK k : k = cl BY Zenon
<1>12. Sharing(heap, fb, k) /\ k \in HRoster BY <1>11, Zenon DEF HInv, Sharing
<1>13. PICK h, b : h = heap' /\ b = fb' BY Zenon
<1>14. Sharing(h, b, k)
  <2>1. PICK g, e : Buffered(a, r) = <<g, e>> /\ Sharing(g, e, k) BY <1>11, <1>12, BufferedShares
  <2>2. w = frame_for_writing(<<g, e>>) BY <1>3, <1>8, <2>1, Zenon
  <2>3. Sharing(w[1], w[2], k) /\ (w[2] # 0 => Users(k, w[2]) = {}) BY <2>1, <2>2, ForWriting
  <2>4. PICK p, f : p = w[1] /\ f = w[2] BY Zenon
  <2>5. Sharing(p, f, k) /\ (f # 0 => Users(k, f) = {}) BY <2>3, <2>4, Zenon
  <2>6. f # 0 => f \in 1 .. HFrames BY <2>5, HNumbers, Zenon DEF Sharing
  <2>7. f # 0 => Sharing([p EXCEPT ![f].pic = ~@], f, k) BY <2>5, <2>6, Written, Zenon
  <2>8. CASE heap' = heap /\ fb' = fb BY <1>12, <1>13, <2>8, Zenon
  <2>9. CASE heap' = w[1] /\ fb' = w[2] BY <1>13, <2>3, <2>9, Zenon
  <2>10. CASE heap' = [w[1] EXCEPT ![w[2]].pic = ~@] /\ fb' = w[2] /\ w[2] # 0
    BY <1>13, <2>4, <2>7, <2>10, Zenon
  <2>11. QED BY <1>5, <2>8, <2>9, <2>10, Zenon
<1>15. k[c].kind = "snap" BY <1>4, <1>11, Zenon DEF HInv, Of
<1>16. "snap" # "mjpeg" OBVIOUS
<1>17. k[c].q = <<>> /\ k[c].tx = 0 BY <1>12, <1>15, <1>16, NoViewer, Zenon
<1>18. PICK m \in Nat : m = n
  <2>1. cl[c].off \in Nat BY ClientIs, Zenon DEF HClient
  <2>2. 0 \in Nat OBVIOUS
  <2>3. QED BY <1>2, <2>1, <2>2, Zenon
<1>19. ASSUME NEW j \in HRoster, Alike(j, k), NEW y \in HClient, y.q = <<>>, y.tx = 0, cl' = [j EXCEPT ![c] = y]
       PROVE  Sharing(heap', fb', cl') /\ \A d \in HClients : d # c => cl'[d].kind = cl[d].kind
  <2>1. Sharing(h, b, j) BY <1>14, <1>19, AlikeShares, Zenon
  <2>2. j[c].q = <<>> /\ j[c].tx = 0 BY <1>17, <1>19, Zenon DEF Alike
  <2>3. Sharing(h, b, [j EXCEPT ![c] = y]) BY <1>19, <2>1, <2>2, IdleBecomes, Zenon
  <2>4. \A d \in HClients : d # c => cl'[d] = j[d] BY <1>19, Zenon DEF HRoster
  <2>5. QED BY <1>11, <1>13, <1>19, <2>3, <2>4, Zenon DEF Alike
<1>20. ASSUME NEW j \in HRoster, Alike(j, k), NEW i \in Nat
       PROVE  \E y \in HClient : y.q = <<>> /\ y.tx = 0 /\ [j EXCEPT ![c].off = i] = [j EXCEPT ![c] = y]
  <2>1. PICK x \in HClient : x = j[c] BY Zenon DEF HRoster
  <2>2. x.q = <<>> /\ x.tx = 0 BY <1>17, <1>20, <2>1, Zenon DEF Alike
  <2>3. PICK y, z \in HClient :
             /\ y = [x EXCEPT !.off = i] /\ z = [x EXCEPT !.wait = i]
             /\ y.kind = x.kind /\ y.tx = x.tx /\ y.q = x.q /\ y.pic = x.pic /\ y.dead = x.dead
             /\ z.kind = x.kind /\ z.tx = x.tx /\ z.q = x.q /\ z.pic = x.pic /\ z.dead = x.dead
    BY OtherCursor
  <2>4. [j EXCEPT ![c].off = i] = [j EXCEPT ![c] = y] BY <2>1, <2>3, Zenon
  <2>5. QED BY <2>2, <2>3, <2>4, Zenon
<1>21. Alike(k, k) BY Zenon DEF Alike
<1>22. Sharing(heap', fb', cl') /\ \A d \in HClients : d # c => cl'[d].kind = cl[d].kind
  <2>1. PICK o \in Cursors(a, r) :
         \/ cl' = [cl EXCEPT ![c] = [Gone EXCEPT !.kind = "sent"]]
         \/ cl' = [Kept(a, r, o) EXCEPT ![c].off = n]
         \/ cl' = [cl EXCEPT ![c].off = 1]
         \/ cl' = [Kept(a, r, o) EXCEPT ![c] = Gone]
    BY <1>7, <1>8, Zenon
  <2>2. o \in Nat BY CursorNat
  <2>3. PICK j : j = Kept(a, r, o) BY Zenon
  <2>4. j \in HRoster /\ Alike(j, k) BY <1>11, <1>12, <2>2, <2>3, KeptAlike
  <2>5. CASE cl' = [cl EXCEPT ![c] = [Gone EXCEPT !.kind = "sent"]]
    <3>1. PICK e \in {"none", "mjpeg", "snap", "sent"}, i \in Nat : e = "sent" /\ i = 0 OBVIOUS
    <3>2. PICK y, z \in HClient :
             /\ y = [Gone EXCEPT !.kind = e] /\ z = [Gone EXCEPT !.kind = e, !.wait = i]
             /\ y.q = <<>> /\ y.tx = 0 /\ y.kind = e /\ z.q = <<>> /\ z.tx = 0
      BY Comers
    <3>3. cl' = [k EXCEPT ![c] = y] BY <1>11, <2>5, <3>1, <3>2, Zenon
    <3>4. QED BY <1>12, <1>19, <1>21, <3>2, <3>3, Zenon
  <2>6. CASE cl' = [Kept(a, r, o) EXCEPT ![c].off = n]
    <3>1. cl' = [j EXCEPT ![c].off = m] BY <1>18, <2>3, <2>6, Zenon
    <3>2. PICK y \in HClient : y.q = <<>> /\ y.tx = 0 /\ [j EXCEPT ![c].off = m] = [j EXCEPT ![c] = y]
      BY <1>20, <2>4, Zenon
    <3>3. QED BY <1>19, <2>4, <3>1, <3>2, Zenon
  <2>7. CASE cl' = [cl EXCEPT ![c].off = 1]
    <3>1. PICK i \in Nat : i = 1 OBVIOUS
    <3>2. cl' = [k EXCEPT ![c].off = i] BY <1>11, <2>7, <3>1, Zenon
    <3>3. PICK y \in HClient : y.q = <<>> /\ y.tx = 0 /\ [k EXCEPT ![c].off = i] = [k EXCEPT ![c] = y]
      BY <1>12, <1>20, <1>21, Zenon
    <3>4. QED BY <1>12, <1>19, <1>21, <3>2, <3>3, Zenon
  <2>8. CASE cl' = [Kept(a, r, o) EXCEPT ![c] = Gone]
    <3>1. PICK y \in HClient : y = Gone /\ y.q = <<>> /\ y.tx = 0 BY GoneIs, Zenon
    <3>2. cl' = [j EXCEPT ![c] = y] BY <2>3, <2>8, <3>1, Zenon
    <3>3. QED BY <1>19, <2>4, <3>1, <3>2, Zenon
  <2>9. QED BY <2>1, <2>5, <2>6, <2>7, <2>8, Zenon
<1>23. polls' \subseteq Of({"snap"})'
  <2>1. polls \subseteq HClients BY Zenon DEF HInv, Of
  <2>2. \A d \in polls' : cl'[d].kind = cl[d].kind BY <1>4, <1>22, <2>1, Zenon
  <2>3. polls' \subseteq polls BY <1>4, Zenon
  <2>4. QED BY <2>2, <2>3, StillParked, Zenon
<1>24. hpc' \in {"rest", "snap", "wait"} /\ (hpc' # "snap" => polls' = {}) BY <1>4, Zenon
<1>25. QED BY <1>10, <1>22, <1>23, <1>24, HBecomes, Zenon

\* The loop's first part: whichever way the pass goes, the frame it leaves in
\* the loop's hand and in the queues is counted.
LEMMA PassStep == ASSUME HInv, StreamPass PROVE HInv'
<1>1. PICK t \in BOOLEAN : t = (Of({"mjpeg", "snap"}) # {}) BY Zenon
<1>2. PICK r : r = Demand(jr, t) BY Zenon
<1>3. PICK w : w = frame_for_writing(Buffered(jr, r)) BY Zenon
<1>4. PICK p, f : p = w[1] /\ f = w[2] BY Zenon
<1>5. PICK read : read = [p EXCEPT ![f].pic = ~@] BY Zenon
<1>6. hpc = "rest" /\ polls' = Of({"snap"}) /\ hpc' = IF polls' = {} THEN "wait" ELSE "snap" BY Zenon DEF StreamPass
<1>7. PICK o \in Cursors(jr, r) :
        \/ jr' = r /\ heap' = Buffered(jr, r)[1] /\ fb' = Buffered(jr, r)[2] /\ cl' = Kept(jr, r, o)
        \/ /\ fb' = f /\ heap' = p /\ cl' = Kept(jr, r, o)
           /\ jr' = r \/ jr' = Closed(r) \/ jr' = Asked(r)
        \/ /\ f # 0 /\ r.lag > 0 /\ fb' = f /\ heap' = rhd_sendq_push(read, f)
           /\ cl' = stream_mjpeg_frame(read, f, r.gen = "same", Kept(jr, r, o))
           /\ jr' = [Asked(r) EXCEPT !.lag = 0] \/ jr' = [r EXCEPT !.lag = @ - 1, !.quiet = 0]
  BY <1>1, <1>2, <1>3, <1>4, <1>5, ZenonT(60) DEF StreamPass
<1>8. PICK a \in JpegRing : a = jr BY Zenon DEF HInv
<1>9. r \in JpegRing BY <1>2, <1>8, RingDemanded
<1>10. PICK k : k = cl BY Zenon
<1>11. Sharing(heap, fb, k) /\ k \in HRoster BY <1>10, Zenon DEF HInv, Sharing
<1>12. PICK g, e : Buffered(a, r) = <<g, e>> /\ Sharing(g, e, k) BY <1>10, <1>11, BufferedShares
<1>13. w = frame_for_writing(<<g, e>>) BY <1>3, <1>8, <1>12, Zenon
<1>14. Sharing(w[1], w[2], k) /\ (w[2] # 0 => Users(k, w[2]) = {}) BY <1>12, <1>13, ForWriting
<1>15. Sharing(p, f, k) /\ (f # 0 => Users(k, f) = {}) BY <1>4, <1>14, Zenon
<1>16. f # 0 => f \in 1 .. HFrames BY <1>15, HNumbers, Zenon DEF Sharing
<1>17. f # 0 => Sharing(read, f, k) BY <1>5, <1>15, <1>16, Written, Zenon
<1>18. o \in Nat BY CursorNat, Zenon
<1>19. PICK i : i = Kept(a, r, o) BY Zenon
<1>20. i \in HRoster /\ Alike(i, k) BY <1>10, <1>11, <1>18, <1>19, KeptAlike
<1>21. \A c \in HClients : i[c].kind = k[c].kind /\ i[c].tx = k[c].tx /\ i[c].pic = k[c].pic BY <1>20, Zenon DEF Alike
<1>22. PICK live \in BOOLEAN : live = (r.gen = "same") BY Zenon
<1>23. Closed(r) \in JpegRing /\ Asked(r) \in JpegRing BY <1>9, RingClosed, RingAsked
<1>24. CASE jr' = r /\ heap' = Buffered(jr, r)[1] /\ fb' = Buffered(jr, r)[2] /\ cl' = Kept(jr, r, o)
  <2>1. PICK v : v = Buffered(jr, r) BY Zenon
  <2>2. v = <<g, e>> BY <1>8, <1>12, <2>1, Zenon
  <2>3. v[1] = g /\ v[2] = e BY <2>2
  <2>4. Sharing(g, e, i) BY <1>12, <1>20, AlikeShares, Zenon
  <2>5. Sharing(heap', fb', cl') BY <1>8, <1>19, <1>24, <2>1, <2>3, <2>4, Zenon
  <2>6. \A c \in HClients : cl'[c].kind = cl[c].kind BY <1>8, <1>10, <1>19, <1>21, <1>24, Zenon
  <2>7. polls' \subseteq Of({"snap"})' BY <1>6, <2>6, Zenon DEF Of
  <2>8. hpc' \in {"rest", "snap", "wait"} /\ (hpc' # "snap" => polls' = {}) BY <1>6, Zenon
  <2>9. QED BY <1>9, <1>24, <2>5, <2>7, <2>8, HBecomes, Zenon
<1>25. CASE /\ fb' = f /\ heap' = p /\ cl' = Kept(jr, r, o)
            /\ jr' = r \/ jr' = Closed(r) \/ jr' = Asked(r)
  <2>1. Sharing(p, f, i) BY <1>15, <1>20, AlikeShares, Zenon
  <2>2. Sharing(heap', fb', cl') BY <1>8, <1>19, <1>25, <2>1, Zenon
  <2>3. \A c \in HClients : cl'[c].kind = cl[c].kind BY <1>8, <1>10, <1>19, <1>21, <1>25, Zenon
  <2>4. polls' \subseteq Of({"snap"})' BY <1>6, <2>3, Zenon DEF Of
  <2>5. hpc' \in {"rest", "snap", "wait"} /\ (hpc' # "snap" => polls' = {}) BY <1>6, Zenon
  <2>6. jr' \in JpegRing BY <1>9, <1>23, <1>25, Zenon
  <2>7. QED BY <2>2, <2>4, <2>5, <2>6, HBecomes, Zenon
<1>26. CASE /\ f # 0 /\ r.lag > 0 /\ fb' = f /\ heap' = rhd_sendq_push(read, f)
            /\ cl' = stream_mjpeg_frame(read, f, r.gen = "same", Kept(jr, r, o))
            /\ jr' = [Asked(r) EXCEPT !.lag = 0] \/ jr' = [r EXCEPT !.lag = @ - 1, !.quiet = 0]
  <2>1. f \in 1 .. HFrames /\ Sharing(read, f, k) /\ Users(k, f) = {} BY <1>15, <1>16, <1>17, <1>26, Zenon
  <2>2. PICK h : h = rhd_sendq_push(read, f) BY Zenon
  <2>3. Sharing(rhd_sendq_push(read, f), f, stream_mjpeg_frame(read, f, live, i))
    BY <1>10, <1>20, <1>21, <2>1, Pushed
  <2>4. cl' = stream_mjpeg_frame(read, f, live, i) BY <1>8, <1>19, <1>22, <1>26, Zenon
  <2>5. Sharing(heap', fb', cl') BY <1>26, <2>3, <2>4, Zenon
  <2>6. "snap" # "mjpeg" OBVIOUS
  <2>7. \A c \in HClients : cl[c].kind = "snap" => cl'[c] = i[c]
    BY <1>10, <1>21, <2>4, <2>6, Zenon DEF stream_mjpeg_frame
  <2>8. polls' \subseteq Of({"snap"})' BY <1>6, <1>10, <1>21, <2>7, Zenon DEF Of
  <2>9. hpc' \in {"rest", "snap", "wait"} /\ (hpc' # "snap" => polls' = {}) BY <1>6, Zenon
  <2>10. jr' \in JpegRing
    <3>1. PICK l \in 0 .. (HDepth + 1) : l = r.lag BY <1>9, Zenon DEF JpegRing
    <3>2. l > 0 BY <1>26, <3>1, Zenon
    <3>3. l - 1 \in 0 .. (HDepth + 1) BY <3>1, <3>2, HNumbers
    <3>4. PICK m \in 0 .. (HDepth + 1), y \in 0 .. (HDepth + 1), z \in 0 .. HQuiet : m = l - 1 /\ y = 0 /\ z = 0
      BY <3>3, HNumbers, Zenon
    <3>5. PICK s \in JpegRing : s = Asked(r) BY <1>23, Zenon
    <3>6. [s EXCEPT !.lag = y] \in JpegRing BY RingRead
    <3>7. [r EXCEPT !.lag = m, !.quiet = z] \in JpegRing BY <1>9, RingRead
    <3>8. QED BY <1>26, <3>1, <3>4, <3>5, <3>6, <3>7, Zenon
  <2>11. QED BY <2>5, <2>8, <2>9, <2>10, HBecomes, Zenon
<1>27. QED BY <1>7, <1>24, <1>25, <1>26, Zenon

LEMMA HStep == ASSUME HInv, HNext \/ UNCHANGED hvars PROVE HInv'
<1>1. CASE StreamPass BY <1>1, PassStep
<1>2. CASE Wait BY <1>2, WaitStep
<1>3. CASE Sweep BY <1>3, SweepStep
<1>4. ASSUME NEW c \in HClients, snap_poll(c) PROVE HInv' BY <1>4, SnapStep
<1>5. ASSUME NEW c \in HClients, AskMjpeg(c) \/ handle_snapshot(c) PROVE HInv' BY <1>5, AskStep
<1>6. ASSUME NEW c \in HClients, Leave(c) PROVE HInv' BY <1>6, HLeaveStep
<1>7. ASSUME NEW c \in HClients, Take(c) PROVE HInv' BY <1>7, TakeStep
<1>8. ASSUME NEW c \in HClients, NEW ok \in BOOLEAN, Sent(c, ok) PROVE HInv' BY <1>8, SentStep
<1>9. CASE Produce BY <1>9, ProduceStep
<1>10. CASE JpegDown BY <1>10, JpegDownStep
<1>11. CASE JpegUp BY <1>11, JpegUpStep
<1>12. CASE JpegMoved BY <1>12, JpegMovedStep
<1>13. CASE UNCHANGED hvars
  <2>1. jr' = jr /\ heap' = heap /\ fb' = fb /\ cl' = cl /\ hpc' = hpc /\ polls' = polls BY <1>13, Zenon DEF hvars
  <2>2. jr' \in JpegRing /\ Sharing(heap', fb', cl') BY <2>1, Zenon DEF HInv
  <2>3. QED BY <2>1, <2>2, Beside, Zenon
<1>14. QED
  BY <1>1, <1>2, <1>3, <1>4, <1>5, <1>6, <1>7, <1>8, <1>9, <1>10, <1>11, <1>12, <1>13, Zenon DEF HNext

LEMMA HStart == ASSUME HInit PROVE HInv
<1>1. /\ jr = [up |-> FALSE, have |-> FALSE, open |-> FALSE, gen |-> "same", acq |-> FALSE,
               lag |-> 0, quiet |-> 0, wrote |-> FALSE, paced |-> FALSE, left |-> HDeaths]
      /\ heap = [f \in 1 .. HFrames |-> [refs |-> 0, pic |-> FALSE]] /\ fb = 0
      /\ cl = [c \in HClients |-> Gone] /\ hpc = "rest" /\ polls = {}
  BY Zenon DEF HInit
<1>2. jr \in JpegRing
  <2>1. PICK l \in 0 .. (HDepth + 1), z \in 0 .. HQuiet, n \in Nat : l = 0 /\ z = 0 /\ n = HDeaths BY HNumbers, Zenon
  <2>2. jr = [up |-> FALSE, have |-> FALSE, open |-> FALSE, gen |-> "same", acq |-> FALSE,
               lag |-> l, quiet |-> z, wrote |-> FALSE, paced |-> FALSE, left |-> n]
    BY <1>1, <2>1, Zenon
  <2>3. QED BY <2>2, Zenon DEF JpegRing
<1>a. PICK b \in 0 .. HFrames : b = 0 BY HNumbers, Zenon
<1>b. PICK h, k : h = heap /\ k = cl BY Zenon
<1>3. h = heap /\ k = cl /\ b = 0 BY <1>a, <1>b
<1>4. k \in HRoster BY <1>1, <1>3, GoneIs, Zenon DEF HRoster
<1>c. PICK d \in Int : d = 0 OBVIOUS
<1>d. PICK t \in BOOLEAN : t = FALSE BY Zenon
<1>5. d = 0 /\ t = FALSE BY <1>c, <1>d, Zenon
<1>6. PICK x : x = [refs |-> d, pic |-> t] BY Zenon
<1>7. x \in HFrame /\ x.refs = d BY <1>6, FrameIs
<1>8. \A f \in 1 .. HFrames : h[f] = x BY <1>1, <1>3, <1>5, <1>6, Zenon
<1>9. h \in Heaps
  <2>1. h = [f \in 1 .. HFrames |-> x] BY <1>1, <1>3, <1>5, <1>6, Zenon
  <2>2. QED BY <1>7, <2>1, Zenon DEF Heaps
<1>10. ASSUME NEW f \in 1 .. HFrames PROVE h[f].refs = Cardinality(Users(k, f)) + One(f = b)
  <2>1. \A c \in HClients : ~Uses(k[c], f) BY <1>1, <1>3, GoneIs, HNumbers, Zenon DEF Uses, Waits
  <2>2. Users(k, f) = {} BY <2>1, Zenon DEF Users
  <2>3. Cardinality(Users(k, f)) = 0 BY <2>2, FS_EmptySet
  <2>4. One(f = b) = 0 BY <1>3, HNumbers, Zenon DEF One
  <2>5. 0 + 0 = 0 OBVIOUS
  <2>6. QED BY <1>5, <1>7, <1>8, <2>3, <2>4, <2>5, Zenon
<1>11. \A c \in HClients : Shows(h, k[c]) BY <1>1, <1>3, GoneIs, Zenon DEF Shows
<1>12. Sharing(h, b, k) BY <1>4, <1>9, <1>10, <1>11, Zenon DEF Sharing, RefsTrue
<1>13. Sharing(heap, fb, cl) BY <1>1, <1>3, <1>12, Zenon
<1>14. QED BY <1>1, <1>2, <1>13, Zenon DEF HInv

\* Who holds a frame in one of the two places is one who uses it.
LEMMA HoldersCount ==
    ASSUME HInv, NEW f \in 1 .. HFrames
    PROVE  Cardinality(Holders(f)) = Cardinality(Users(cl, f))
<1>1. PICK k, S, T : k = cl /\ S = Users(cl, f) /\ T = Holders(f) BY Zenon
<1>2. PICK m : m = [c \in S |-> <<c, IF k[c].tx = f THEN 0 ELSE 1>>] BY Zenon
<1>3. 0 \in 0 .. 1 /\ 1 \in 0 .. 1 /\ 0 # 1 /\ \A i \in 0 .. 1 : i = 0 \/ i = 1 OBVIOUS
<1>4. S = {c \in HClients : k[c].tx = f \/ (k[c].q # <<>> /\ k[c].q[1].f = f)} BY <1>1, Zenon DEF Users, Uses, Waits
<1>5. T = {h \in HClients \X (0 .. 1) : IF h[2] = 0 THEN k[h[1]].tx = f ELSE k[h[1]].q # <<>> /\ k[h[1]].q[1].f = f}
  BY <1>1, Zenon DEF Holders
<1>6. ASSUME NEW c \in HClients PROVE ~(k[c].tx = f /\ k[c].q # <<>> /\ k[c].q[1].f = f)
  BY <1>1, ClientIs, Zenon DEF Orderly
<1>7. m \in [S -> T]
  <2>1. ASSUME NEW c \in S PROVE m[c] \in T
    <3>1. PICK i \in 0 .. 1 : i = IF k[c].tx = f THEN 0 ELSE 1 BY <1>3, Zenon
    <3>2. PICK v : v = <<c, i>> BY Zenon
    <3>3. v[1] = c /\ v[2] = i /\ v \in HClients \X (0 .. 1) BY <1>4, <3>1, <3>2
    <3>4. v \in T BY <1>3, <1>4, <1>5, <3>1, <3>3, Zenon
    <3>5. QED BY <1>2, <3>1, <3>2, <3>4, Zenon
  <2>2. QED BY <1>2, <2>1, Zenon
<1>8. ASSUME NEW x \in S, NEW y \in S, m[x] = m[y] PROVE x = y
  <2>1. PICK i, j : i = (IF k[x].tx = f THEN 0 ELSE 1) /\ j = (IF k[y].tx = f THEN 0 ELSE 1) BY Zenon
  <2>2. <<x, i>> = <<y, j>> BY <1>2, <1>8, <2>1, Zenon
  <2>3. QED BY <2>2
<1>9. ASSUME NEW t \in T PROVE \E x \in S : m[x] = t
  <2>1. PICK c \in HClients, i \in 0 .. 1 : t = <<c, i>> BY <1>5
  <2>2. t[1] = c /\ t[2] = i BY <2>1
  <2>3. IF i = 0 THEN k[c].tx = f ELSE k[c].q # <<>> /\ k[c].q[1].f = f BY <1>5, <2>2, Zenon
  <2>4. c \in S BY <1>4, <2>3, Zenon
  <2>5. i = IF k[c].tx = f THEN 0 ELSE 1 BY <1>3, <1>6, <2>3, Zenon
  <2>6. QED BY <1>2, <2>1, <2>4, <2>5, Zenon
<1>10. IsFiniteSet(S) BY <1>1, UsersFinite, Zenon
<1>11. Cardinality(T) = Cardinality(S) BY <1>7, <1>8, <1>9, <1>10, SameCount
<1>12. QED BY <1>1, <1>11, Zenon

LEMMA HHolds == ASSUME HInv PROVE FramesShared /\ HTypeOK
<1>1. PICK h, b, k : h = heap /\ b = fb /\ k = cl BY Zenon
<1>2. Sharing(h, b, k) BY <1>1, Zenon DEF HInv
<1>3. h \in Heaps /\ b \in 0 .. HFrames /\ k \in HRoster /\ RefsTrue(h, b, k) BY <1>2, Zenon DEF Sharing
<1>4. ASSUME NEW f \in 1 .. HFrames PROVE heap[f].refs = Cardinality(Holders(f)) + (IF f = fb THEN 1 ELSE 0)
  BY <1>1, <1>3, HoldersCount, Zenon DEF RefsTrue, One
<1>5. ASSUME NEW c \in HClients
      PROVE  /\ \A i \in 1 .. Len(cl[c].q) : heap[cl[c].q[i].f].pic = cl[c].q[i].pic
             /\ cl[c].tx # 0 => heap[cl[c].tx].pic = cl[c].pic
             /\ Len(cl[c].q) <= 1 /\ cl[c].kind \in {"none", "mjpeg", "snap", "sent"}
  <2>1. PICK x \in HClient : x = cl[c] /\ Orderly(x) /\ Shows(heap, x) BY ClientIs, Zenon
  <2>2. x.q \in Seq(HItem) /\ Len(x.q) <= 1 /\ x.kind \in {"none", "mjpeg", "snap", "sent"}
    BY <2>1, Zenon DEF HClient, Orderly
  <2>3. \A i \in 1 .. Len(x.q) : i = 1 /\ x.q # <<>> BY <2>2
  <2>4. \A i \in 1 .. Len(x.q) : heap[x.q[i].f].pic = x.q[i].pic BY <2>1, <2>3, Zenon DEF Shows
  <2>5. QED BY <2>1, <2>2, <2>4, Zenon DEF Shows
<1>6. ASSUME NEW f \in 1 .. HFrames PROVE heap[f].refs \in 0 .. (Cardinality(HClients) + 2)
  <2>a. PICK u : u = Cardinality(Users(k, f)) BY Zenon
  <2>b. PICK e \in {0, 1} : e = One(f = b) BY OneNat, Zenon
  <2>1. u = Cardinality(Users(k, f)) /\ e = One(f = b) BY <2>a, <2>b
  <2>2. heap[f].refs = u + e BY <1>1, <1>3, <2>1, Zenon DEF RefsTrue
  <2>3. Users(k, f) \subseteq HClients BY Zenon DEF Users
  <2>4. Cardinality(Users(k, f)) <= Cardinality(HClients) /\ Cardinality(HClients) \in Nat
    BY <2>3, HNumbers, FS_Subset, FS_CardinalityType
  <2>5. PICK n \in Nat : n = Cardinality(HClients) BY <2>4, Zenon
  <2>6. u \in Nat /\ u <= n BY <2>1, <2>4, <2>5, UsersFinite, Zenon
  <2>7. u + e \in 0 .. (n + 2) BY <2>b, <2>6
  <2>8. QED BY <2>2, <2>5, <2>7, Zenon
<1>7. FramesShared BY <1>4, <1>5, Zenon DEF FramesShared
<1>8. PICK r \in JpegRing : r = jr BY Zenon DEF HInv
<1>9. jr.lag \in 0 .. (HDepth + 1) /\ jr.quiet \in 0 .. HQuiet BY <1>8, Zenon DEF JpegRing
<1>10. HTypeOK BY <1>1, <1>3, <1>5, <1>6, <1>9, Zenon DEF HTypeOK
<1>11. QED BY <1>7, <1>10

-----------------------------------------------------------------------------
(* The composition. *)

\* Only who has proved itself is served, whatever addresses sessions share and
\* however often their pins move (rwd_main.c, find_client_by_addr), however two
\* claims race (rcd_cmd_claim), and however many hosts guess at the password
\* and lose each other's slots (rhd_authrate.c).
THEOREM ViewersAdmitted == ViewersSpec => []Admitted
<1> DEFINE I == SeInv /\ ClaimInv /\ GuessInv
<1>1. ViewersInit => I BY SeStart, ClaimStart, GuessStart, Zenon DEF ViewersInit
<1>2. I /\ [ViewersNext]_viewers => I'
  BY PartSteps, SeStep, ClaimStep, GuessStep, Zenon
<1>3. I => Admitted BY SeProven, ClaimHolds, GuessHolds, Zenon DEF Admitted
<1> HIDE DEF I
<1>4. QED BY <1>1, <1>2, <1>3, PTL DEF ViewersSpec

\* What reaches a viewer can be decoded with what reached it before: rwd's
\* client gets a keyframe after every loss, at the gate, in the queue or on the
\* wire (rwd_media.c, rwd_sendq_push), and rsp's server the headers and a
\* keyframe of the ring being read, on this connection (rsp_main.c, push_loop).
THEOREM ViewersDecodable == ViewersSpec => []Decodable
<1> DEFINE I == MediaInv /\ PushInv
<1>1. ViewersInit => I BY MediaStart, PushStart, Zenon DEF ViewersInit
<1>2. I /\ [ViewersNext]_viewers => I' BY PartSteps, MediaStep, PushStep, Zenon
<1>3. I => Decodable BY MediaHolds, Zenon DEF Decodable, PushInv
<1> HIDE DEF I
<1>4. QED BY <1>1, <1>2, <1>3, PTL DEF ViewersSpec

\* What several threads or clients share lives exactly as long as one of them
\* holds it: rwd's send thread never packetizes through transports that are gone
\* (rwd_media_teardown joins it first); a frame of rhd has a reference for each
\* queue and thread that has it and one for the loop, and is not written while
\* a client has it (rhd_main.c, frame_for_writing); a round trip of rhd lives as
\* long as its client or its worker (rhd_api.c, job_release); and rsr holds a
\* ring only while a client is on its slot, or the first is still to come
\* (rsr_main.c, rsr_remove_client), however clients leave in the middle of a
\* send and dead rings are reopened under the rest.
THEOREM ViewersHold == ViewersSpec => []HeldWhileUsed
<1> DEFINE I == MediaInv /\ JobInv /\ HInv /\ RsrInv
<1>1. ViewersInit => I BY MediaStart, JobStart, HStart, RsrStart, Zenon DEF ViewersInit
<1>2. I /\ [ViewersNext]_viewers => I' BY PartSteps, MediaStep, JobStep, HStep, RsrStep, Zenon
<1>3. I => HeldWhileUsed BY MediaHolds, JobHolds, HHolds, RsrHolds, Zenon DEF HeldWhileUsed
<1> HIDE DEF I
<1>4. QED BY <1>1, <1>2, <1>3, PTL DEF ViewersSpec

\* An Opus frame of rwd is stamped with its own capture instant: what is left
\* behind it came with the newest decode; and no decode overruns the
\* accumulator (rwd_media.c, the audio reader), if a decoder writes at most
\* half of it.
THEOREM ViewersStampTrue == DecodesFit /\ ViewersSpec => StampTrue
<1> DEFINE A == /\ (AEncode => fill' < batch)
                /\ (fill' > fill => fill' <= ACap /\ ACap - fill >= ACap \div 2)
<1> SUFFICES ASSUME DecodesFit PROVE ViewersSpec => StampTrue OBVIOUS
<1>1. ViewersInit => AccumInv BY AccumStart, Zenon DEF ViewersInit
<1>2. AccumInv /\ [ViewersNext]_viewers => AccumInv' BY PartSteps, AccumStep, Zenon
<1>3. AccumInv /\ [ViewersNext]_viewers => [A]_avars BY PartSteps, StampStep, Zenon
<1>4. StampTrue <=> [][A]_avars BY DEF StampTrue
<1> HIDE DEF A
<1>5. QED BY <1>1, <1>2, <1>3, <1>4, PTL DEF ViewersSpec

=============================================================================
