---------------------------- MODULE RhdRequests ----------------------------
(***************************************************************************)
(* rhd's one-shot requests: who may configure the camera, the claim that   *)
(* gives it an owner, the round trip to rcd that a worker thread makes     *)
(* while the connection may go away, and the deadlines that give a         *)
(* connection's slot back.  And, beside them, what a guess at the system   *)
(* password costs (rhd_authrate.c).                                        *)
(***************************************************************************)
EXTENDS Naturals, FiniteSets, FiniteSetsExt

CONSTANTS
    RqClients, RqMax,          \* connections; max_clients
    RqJobs,                    \* bound: round trips in memory at once
    RqRecv, RqSend,            \* RHD_RECV_TIMEOUT_MS, RHD_SEND_TIMEOUT_MS in passes
    RaHosts, RaSlots,          \* hosts that guess; RHD_AUTH_SOURCES
    RaBurst, RaRefill,         \* RHD_AUTH_BURST, RHD_AUTH_REFILL_MS
    RaFree, RaDelay, RaDelayMax, RaForget,
    RaTime                     \* bound: the clock

ASSUME RhdRequestsConstants ==
    /\ {RqMax, RqJobs, RqRecv, RqSend, RaSlots, RaBurst, RaRefill, RaDelay, RaForget} \subseteq Nat \ {0}
    /\ {RaFree, RaTime} \subseteq Nat /\ RaDelayMax \in Nat /\ RaDelay <= RaDelayMax
    /\ IsFiniteSet(RqClients) /\ IsFiniteSet(RaHosts)

VARIABLES
    conn,   \* connections: [st: none read job send owes, age, job]
    jobs,   \* round trips: [refs, worker: run done gone, what]; refs = 0 is free
    acct,   \* the system account in /etc/shadow: unset, set, locked, missing
    claims, \* claims rcd has accepted
    portal, \* setup mode, decided at boot
    asrc,   \* slots: [host, fails, until, seen]; host "" is free
    bucket, \* [tokens, refill]
    aclock, wrong  \* monotonic time; hashes computed for a wrong password

rqvars == <<conn, jobs, acct, claims, portal>>
ravars == <<asrc, bucket, aclock, wrong>>

NoConn == [st |-> "none", age |-> 0, job |-> 0]
NoJob == [refs |-> 0, worker |-> "gone", what |-> "none"]

-----------------------------------------------------------------------------
JobReleaseUncounted(js, j) == IF j = 0 THEN js ELSE [js EXCEPT ![j] = NoJob]

\* job_release: the last one out frees.
job_release(js, j) ==
    IF j = 0 THEN js
    ELSE [js EXCEPT ![j] = IF js[j].refs = 1 THEN NoJob ELSE [js[j] EXCEPT !.refs = @ - 1]]

\* remove_client, rhd_api_release included.
RqRemove(cs) == /\ conn' = [c \in RqClients |-> IF c \in cs THEN NoConn ELSE conn[c]]
              /\ jobs' = [j \in 1..RqJobs |->
                            job_release(jobs, IF \E c \in cs : conn[c].job = j THEN j ELSE 0)[j]]

RqAccept(c) ==
    /\ conn[c].st = "none" /\ Cardinality({d \in RqClients : conn[d].st # "none"}) < RqMax
    /\ conn' = [conn EXCEPT ![c].st = "read"] /\ UNCHANGED <<jobs, acct, claims, portal>>

\* api_start: a job with a reference for the client and one for its worker.
\* One that cannot be started is refused, and the connection closed.
api_start(c, what) ==
    \/ /\ \E j \in 1..RqJobs :
            /\ jobs[j].refs = 0 /\ \A i \in 1..(j - 1) : jobs[i].refs > 0
            /\ jobs' = [jobs EXCEPT ![j] = [refs |-> 2, worker |-> "run", what |-> what]]
            /\ conn' = [conn EXCEPT ![c] = [@ EXCEPT !.st = "job", !.job = j]]
       /\ UNCHANGED <<acct, claims, portal>>
    \/ (\A j \in 1..RqJobs : jobs[j].refs > 0) /\ RqRemove({c}) /\ UNCHANGED <<acct, claims, portal>>

\* http_send_async: the response drains from the loop.
RqQueued(c) == conn' = [conn EXCEPT ![c] = [st |-> "send", age |-> 0, job |-> 0]]

\* rhd_api_claimed; rhd_api_authenticate's answer OK needs the account to hold
\* a password and the request to carry it.
Claimed == acct = "set"
Authentic(right) == right /\ Claimed

\* handle_request: rhd_api_handle first, then setup mode's one page, then the
\* console page and the media behind their gates.  Whatever is refused is
\* answered and closed.
ApiClaim(c) == /\ conn[c].st = "read" /\ acct = "unset" /\ api_start(c, "claim")
ApiHandle(c, right) ==
    /\ conn[c].st = "read" /\ ((~portal \/ Claimed) => Authentic(right))
    /\ api_start(c, "set")
Page(c, right) ==
    /\ conn[c].st = "read" /\ (portal \/ ~Claimed \/ Authentic(right))
    /\ RqQueued(c) /\ UNCHANGED <<jobs, acct, claims, portal>>
RqMedia(c, viewer, right) ==
    /\ conn[c].st = "read" /\ ~portal /\ (viewer \/ Authentic(right))
    /\ RqQueued(c) /\ UNCHANGED <<jobs, acct, claims, portal>>
Refused(c) == conn[c].st = "read" /\ RqRemove({c}) /\ UNCHANGED <<acct, claims, portal>>

ClaimUnchecked(j) == jobs[j].what = "claim"

\* rcd_cmd_claim, as rcd does it: it looks at the account again.
rcd_claims(j) == jobs[j].what = "claim" /\ acct = "unset"

\* api_worker: rcd carries the request out and answers; or its answer does
\* not come in time, whether or not it was carried out.
WorkerDone(j, carried) ==
    /\ jobs[j].worker = "run" /\ jobs' = [jobs EXCEPT ![j].worker = "done"]
    /\ acct' = IF carried /\ rcd_claims(j) THEN "set" ELSE acct
    /\ claims' = IF carried /\ rcd_claims(j) THEN claims + 1 ELSE claims
    /\ UNCHANGED <<conn, portal>>
WorkerLeaves(j) ==
    /\ jobs[j].worker = "done" /\ jobs' = job_release([jobs EXCEPT ![j].worker = "gone"], j)
    /\ UNCHANGED <<conn, acct, claims, portal>>

\* rhd_api_poll: a round trip that is done is answered and let go of; with no
\* memory for the answer the connection counts again as one that owes a
\* request (bytes it still sends are bounded by its buffer and left out).
rhd_api_poll(c, stored) ==
    /\ conn[c].st = "job" /\ jobs[conn[c].job].worker # "run"
    /\ conn' = [conn EXCEPT ![c] = [st |-> IF stored THEN "send" ELSE "owes",
                                    age |-> IF stored THEN 0 ELSE @.age, job |-> 0]]
    /\ jobs' = job_release(jobs, conn[c].job) /\ UNCHANGED <<acct, claims, portal>>

Drained(c) == conn[c].st = "send" /\ RqRemove({c}) /\ UNCHANGED <<acct, claims, portal>>
HangUp(c) == conn[c].st # "none" /\ RqRemove({c}) /\ UNCHANGED <<acct, claims, portal>>

ExpiredSendOnly(c) == conn[c].st = "send" /\ conn[c].age >= RqSend

\* The reaper: sends that stall, and clients still owing a request.
Expired(c) == \/ conn[c].st = "send" /\ conn[c].age >= RqSend
              \/ conn[c].st \in {"read", "owes"} /\ conn[c].age >= RqRecv
Reap ==
    LET late == {c \in RqClients : Expired(c)}
    IN /\ \E c \in RqClients : conn[c].st # "none"
       /\ conn' = [c \in RqClients |-> IF c \in late THEN NoConn
                                       ELSE IF conn[c].st = "none" THEN NoConn
                                       ELSE [conn[c] EXCEPT !.age = Min({@ + 1, Max({RqRecv, RqSend})})]]
       /\ UNCHANGED <<jobs, acct, claims, portal>>

-----------------------------------------------------------------------------
\* slot_for: the host's own slot, its failures forgotten if it has been quiet
\* long; a free one; or that of the host quiet longest.
Mine(h) == {i \in 1..RaSlots : asrc[i].host = h}
slot_for(h) ==
    LET free == {i \in 1..RaSlots : asrc[i].host = ""}
        least == Min({asrc[i].seen : i \in 1..RaSlots})
    IN IF Mine(h) # {} THEN Min(Mine(h))
       ELSE IF free # {} THEN Max(free)
       ELSE Min({i \in 1..RaSlots : asrc[i].seen = least})
Source(h) ==
    LET s == asrc[slot_for(h)]
    IN IF Mine(h) = {} THEN [host |-> h, fails |-> 0, until |-> 0, seen |-> aclock]
       ELSE IF aclock - s.seen > RaForget THEN [s EXCEPT !.fails = 0, !.until = 0, !.seen = aclock]
       ELSE [s EXCEPT !.seen = aclock]

RefilledByTheCall == [tokens |-> Min({RaBurst, bucket.tokens + 1}), refill |-> aclock]

RefilledUncapped ==  \* mutant: quiet time is saved up past the burst
    LET got == (aclock - bucket.refill) \div RaRefill
    IN [tokens |-> bucket.tokens + got, refill |-> bucket.refill + got * RaRefill]

\* The ceiling, refilled on demand by the time that has passed.
Refilled ==
    LET from == IF bucket.refill = 0 THEN aclock ELSE bucket.refill
        got == Min({RaBurst - bucket.tokens, (aclock - from) \div RaRefill})
        tokens == bucket.tokens + got
    IN [tokens |-> tokens, refill |-> IF tokens >= RaBurst THEN aclock ELSE from + got * RaRefill]

\* The wait after the n-th failure: doubling, up to the ceiling.
RqWait(n) ==
    LET wait == RaDelay * 2^(n - RaFree - 1)
    IN IF wait \in 0..RaDelayMax THEN wait ELSE RaDelayMax

rhd_auth_may_hash(s) == s.until <= aclock /\ Refilled.tokens > 0
rhd_auth_failed(s) ==
    LET n == s.fails + 1
    IN [s EXCEPT !.fails = n, !.until = IF n <= RaFree THEN @ ELSE aclock + RqWait(n)]
rhd_auth_succeeded(s) == [s EXCEPT !.fails = 0, !.until = 0]

\* api_authenticate for the system account's name.  The ceiling is looked at
\* only by a host that is not waiting, and a right password gives its token back.
api_authenticate(h, right) ==
    LET s == Source(h)
        hash == rhd_auth_may_hash(s)
    IN /\ asrc' = [asrc EXCEPT ![slot_for(h)] = IF ~hash THEN s ELSE IF right THEN rhd_auth_succeeded(s)
                                               ELSE rhd_auth_failed(s)]
       /\ bucket' = IF s.until > aclock THEN bucket
                    ELSE [Refilled EXCEPT !.tokens = IF hash /\ ~right THEN @ - 1 ELSE @]
       /\ wrong' = IF hash /\ ~right THEN wrong + 1 ELSE wrong
       /\ UNCHANGED aclock
Tick == aclock < RaTime /\ aclock' = aclock + 1 /\ UNCHANGED <<asrc, bucket, wrong>>

-----------------------------------------------------------------------------
RqInit ==
    /\ conn = [c \in RqClients |-> NoConn] /\ jobs = [j \in 1..RqJobs |-> NoJob]
    /\ acct \in {"unset", "set", "locked", "missing"} /\ claims = 0 /\ portal \in BOOLEAN
RaInit ==
    /\ asrc = [i \in 1..RaSlots |-> [host |-> "", fails |-> 0, until |-> 0, seen |-> 0]]
    /\ bucket = [tokens |-> RaBurst, refill |-> 0] /\ aclock = 1 /\ wrong = 0

Works(j) == WorkerLeaves(j) \/ \E carried \in BOOLEAN : WorkerDone(j, carried)
RqPolled(c) == \E b \in BOOLEAN : rhd_api_poll(c, b)
RqNext ==
    \/ \E c \in RqClients : \/ RqAccept(c) \/ ApiClaim(c) \/ Refused(c) \/ Drained(c) \/ HangUp(c)
    \/ \E c \in RqClients, b \in BOOLEAN : ApiHandle(c, b) \/ Page(c, b) \/ rhd_api_poll(c, b)
    \/ \E c \in RqClients, v \in BOOLEAN, b \in BOOLEAN : RqMedia(c, v, b)
    \/ \E j \in 1..RqJobs : Works(j)
    \/ Reap
RaNext == Tick \/ \E h \in RaHosts, right \in BOOLEAN : api_authenticate(h, right)

\* The loop turns; a worker's exchange with rcd ends (it has a timeout).
RqFair == /\ WF_rqvars(Reap) /\ \A j \in 1..RqJobs : WF_rqvars(Works(j))
          /\ \A c \in RqClients : WF_rqvars(RqPolled(c))
RqSpec == /\ RqInit /\ RaInit /\ RqFair
          /\ [][(RqNext /\ UNCHANGED ravars) \/ (RaNext /\ UNCHANGED rqvars)]_<<rqvars, ravars>>

-----------------------------------------------------------------------------
RqTypeOK ==
    /\ \A c \in RqClients : conn[c].st \in {"none", "read", "job", "send", "owes"} /\ conn[c].job \in 0..RqJobs
    /\ \A j \in 1..RqJobs : jobs[j].refs \in 0..2
    /\ bucket.tokens \in 0..RaBurst /\ bucket.refill <= aclock

\* "Neither side may free what the other is holding, so both hold a reference
\* and the last one out frees": a round trip lives exactly as long as its
\* client or its worker does, whichever of them goes first.
JobsHeld ==
    \A j \in 1..RqJobs :
        /\ jobs[j].refs = Cardinality({c \in RqClients : conn[c].job = j})
                            + (IF jobs[j].worker = "gone" THEN 0 ELSE 1)
        /\ Cardinality({c \in RqClients : conn[c].job = j}) <= 1

\* A camera is claimed once: two claims that both found it unclaimed do not
\* both set its password, and one with a locked or no account is never taken.
ClaimedOnce == claims <= 1 /\ (claims = 1 => Claimed)

\* However hosts share and lose slots, and whatever right passwords come
\* between, the hashes spent on wrong ones keep to the ceiling; and nobody is
\* made to wait past the longest delay.
GuessesCost ==
    /\ wrong <= RaBurst + aclock \div RaRefill
    /\ \A i \in 1..RaSlots : asrc[i].until <= aclock + RaDelayMax

\* A connection that asks nothing, reads nothing, or whose round trip rcd
\* never answers gives its slot back.
SlotsReturn == \A c \in RqClients : []<>(conn[c].st = "none")
=============================================================================
