------------------------------ MODULE KeyLease ------------------------------
(***************************************************************************)
(* CommandCodeKeyLeaseManager (src/key-lease.ts) between its two           *)
(* neighbours: stream requests that send to Command Code with a leased     *)
(* account, and the router that leases accounts to sessions.               *)
(*                                                                         *)
(* A request resolves a lease, makes fetch calls with it, and while        *)
(* Command Code rejects the account walks to other accounts by rotations.  *)
(* Lease tasks are shared: one POST to the router is in flight per request *)
(* key and every caller of that key awaits the same promise.  The router   *)
(* handles a POST at any moment, also after the caller's ten-second        *)
(* timeout; its answer may be overtaken by another task's.                 *)
(***************************************************************************)
EXTENDS Integers, Sequences, FiniteSets

CONSTANTS
    Keys,               \* cache keys: one per (token, session)
    Requests,           \* stream requests, each resolved once
    KeyOf,              \* the cache key of a request
    Accounts,           \* Command Code accounts the router can lease
    NoAccount,          \* the account of NoLease
    Resets,             \* failedQuotaResetAt of a rejection
    NoReset,            \* its absence
    CacheCap,           \* leases cached at once (512 in the code)
    AttemptCap,         \* MAX_DISTINCT_ACCOUNT_ATTEMPTS (64 in the code)
    RouterChecksLease,  \* TRUE: the router compares expectedLeaseId and excludes
                        \* every attempted account (the deployed OpenSec router);
                        \* FALSE: it ignores both (quota-board/server)
    MaxLease,           \* bound: leases the router issues in a behaviour
    MaxCalls,           \* bound: fetch calls of one request
    MaxOrphans          \* bound: timed-out POSTs still on the wire

ASSUME KeyLeaseAssumption ==
    /\ KeyOf \in [Requests -> Keys]
    /\ NoAccount \notin Accounts
    /\ IsFiniteSet(Accounts)
    /\ NoReset \in Resets
    /\ CacheCap \in Nat \ {0}
    /\ AttemptCap \in Nat \ {0}
    /\ RouterChecksLease \in BOOLEAN
    /\ MaxLease \in Nat
    /\ MaxCalls \in Nat
    /\ MaxOrphans \in Nat

VARIABLES
    leases,        \* this.leases: the cached lease of a key, or NoLease
    order,         \* insertion order of the Map `leases`
    renewalAfter,  \* keys that renewed less than a minute ago
    inFlight,      \* this.inFlight: the shared lease tasks, one per request key
    pc,            \* where each request stands
    held,          \* the closure variable `lease` of resolve()
    attempted,     \* attemptedAccountIds of the fetch call in progress
    granted,       \* the lease a rotation resolved to, not yet looked at
    calls,         \* fetch calls begun
    outcome,       \* what the last fetch call ended with
    reports,       \* usage reports handed to the queue
    active,        \* the router's active lease of a session
    issued,        \* leases issued by the router; their ids are 1..issued
    orphans,       \* POSTs on the wire whose task has timed out
    failed,        \* history: ids of leases Command Code rejected
    rejectedBy,    \* history: accounts that rejected the request so far
    served         \* history: id of the lease whose response the request got

requestVars == <<pc, held, attempted, granted, calls, outcome, reports>>
routerVars == <<active, issued, orphans>>
historyVars == <<failed, rejectedBy, served>>
vars == <<leases, order, renewalAfter, inFlight, requestVars, routerVars, historyVars>>

-----------------------------------------------------------------------------
NoLease == [id |-> 0, account |-> NoAccount]
Lease == [id : 1..MaxLease, account : Accounts]
LeaseOrNone == Lease \cup {NoLease}

RequestKey == [key : Keys, kind : {"lease", "renew", "rotate"},
               expected : 0..MaxLease, reset : Resets]

\* A POST to /api/router/lease: forceRotate and its companions.
Post == [rkey : RequestKey, exclude : Accounts \cup {NoAccount},
         excluded : SUBSET Accounts]

\* A shared task: its POST, the id of the lease cached when it was created, the
\* router's answer once there is one, and the callers that await it.
Task == [post : Post, captured : 0..MaxLease, answer : LeaseOrNone,
         waiters : SUBSET Requests]

LeaseKey(k) == [key |-> k, kind |-> "lease", expected |-> 0, reset |-> NoReset]
RenewKey(k) == [LeaseKey(k) EXCEPT !.kind = "renew"]
RotateKey(k, l, reset) ==
    [key |-> k, kind |-> "rotate", expected |-> l.id, reset |-> reset]

NewTask(k, rk, exclude, excluded, who) ==
    [post |-> [rkey |-> rk, exclude |-> exclude, excluded |-> excluded],
     captured |-> leases[k].id, answer |-> NoLease, waiters |-> who]

\* Mutant: every caller posts for itself.
StartOwn(task) == inFlight \cup {task}

\* `const pending = this.inFlight.get(requestKey); if (pending) return pending`
JoinOrStart(task) ==
    IF \E t \in inFlight : t.post.rkey = task.post.rkey
    THEN {IF t.post.rkey = task.post.rkey
          THEN [t EXCEPT !.waiters = @ \cup task.waiters] ELSE t : t \in inFlight}
    ELSE inFlight \cup {task}

\* Mutant: an abort cancels the shared task.
LeaveCancelling(r) == {t \in inFlight : r \notin t.waiters}

\* awaitLease: an aborted caller leaves, the task goes on for the others.
Leave(r) == {[t EXCEPT !.waiters = @ \ {r}] : t \in inFlight}

Init ==
    /\ leases = [k \in Keys |-> NoLease]
    /\ order = <<>>
    /\ renewalAfter = {}
    /\ inFlight = {}
    /\ pc = [r \in Requests |-> "idle"]
    /\ held = [r \in Requests |-> NoLease]
    /\ attempted = [r \in Requests |-> {}]
    /\ granted = [r \in Requests |-> NoLease]
    /\ calls = [r \in Requests |-> 0]
    /\ outcome = [r \in Requests |-> "none"]
    /\ reports = {}
    /\ active = [k \in Keys |-> NoLease]
    /\ issued = 0
    /\ orphans = {}
    /\ failed = {}
    /\ rejectedBy = [r \in Requests |-> {}]
    /\ served = [r \in Requests |-> 0]

-----------------------------------------------------------------------------
(***************************************************************************)
(* resolve(): the request takes the cached lease at once, or awaits the    *)
(* session's lease task.                                                   *)
(***************************************************************************)
ResolveCached(r) ==
    /\ pc[r] = "idle"
    /\ leases[KeyOf[r]] # NoLease
    /\ pc' = [pc EXCEPT ![r] = "ready"]
    /\ held' = [held EXCEPT ![r] = leases[KeyOf[r]]]
    /\ UNCHANGED <<leases, order, attempted, granted, calls, outcome, reports,
                   routerVars, historyVars>>
    /\ \/ UNCHANGED <<renewalAfter, inFlight>>
       \/ \* Within a minute of expiry: renew in the background.
          /\ KeyOf[r] \notin renewalAfter
          /\ renewalAfter' = renewalAfter \cup {KeyOf[r]}
          /\ inFlight' = JoinOrStart(
                NewTask(KeyOf[r], RenewKey(KeyOf[r]), NoAccount, {}, {}))

ResolveUncached(r) ==
    /\ pc[r] = "idle"
    /\ leases[KeyOf[r]] = NoLease
    /\ pc' = [pc EXCEPT ![r] = "leasing"]
    /\ inFlight' = JoinOrStart(
          NewTask(KeyOf[r], LeaseKey(KeyOf[r]), NoAccount, {}, {r}))
    /\ UNCHANGED <<leases, order, renewalAfter, held, attempted, granted, calls,
                   outcome, reports, routerVars, historyVars>>

\* The minute between renewals outlasts the ten seconds a renewal may take.
RenewalDue(k) ==
    /\ k \in renewalAfter
    /\ \A t \in inFlight : t.post.rkey # RenewKey(k)
    /\ renewalAfter' = renewalAfter \ {k}
    /\ UNCHANGED <<leases, order, inFlight, requestVars, routerVars, historyVars>>

-----------------------------------------------------------------------------
(***************************************************************************)
(* routed.fetch: one call of the transport, which may call again (a retry).*)
(***************************************************************************)
\* Mutant: the evicted lease is not kept.
CurrentLeaseOnly(r) == leases[KeyOf[r]]

\* lease = this.leases.get(cacheKey) ?? lease
CurrentLease(r) == IF leases[KeyOf[r]] # NoLease THEN leases[KeyOf[r]] ELSE held[r]

BeginCall(r) ==
    /\ pc[r] = "ready"
    /\ calls[r] < MaxCalls
    /\ calls' = [calls EXCEPT ![r] = @ + 1]
    /\ held' = [held EXCEPT ![r] = CurrentLease(r)]
    /\ attempted' = [attempted EXCEPT ![r] = {}]
    /\ pc' = [pc EXCEPT ![r] = "sending"]
    /\ UNCHANGED <<leases, order, renewalAfter, inFlight, granted, outcome, reports,
                   routerVars, historyVars>>

EndCall(r, how) ==
    /\ pc' = [pc EXCEPT ![r] = "ready"]
    /\ outcome' = [outcome EXCEPT ![r] = how]
    /\ attempted' = [attempted EXCEPT ![r] = {}]

\* leaseFailure(response) is undefined: success, throttling, 5xx.
Response(r) ==
    /\ pc[r] = "sending"
    /\ EndCall(r, "response")
    /\ served' = [served EXCEPT ![r] = held[r].id]
    /\ UNCHANGED <<leases, order, renewalAfter, inFlight, held, granted, calls,
                   reports, routerVars, failed, rejectedBy>>

\* The cached lease already replaced the one that failed.
AlreadyReplaced(r) ==
    LET cached == leases[KeyOf[r]] IN
    /\ cached # NoLease
    /\ cached.id # held[r].id \/ cached.account # held[r].account

\* 401, 402, or a 403/429 whose body names an exhausted quota: rotate.
Rejected(r) ==
    LET tried == attempted[r] \cup {held[r].account} IN
    /\ pc[r] = "sending"
    /\ failed' = failed \cup {held[r].id}
    /\ rejectedBy' = [rejectedBy EXCEPT ![r] = @ \cup {held[r].account}]
    /\ UNCHANGED <<leases, order, renewalAfter, held, calls, reports, routerVars, served>>
    /\ \/ /\ Cardinality(tried) >= AttemptCap
          /\ EndCall(r, "rejection")
          /\ UNCHANGED <<inFlight, granted>>
       \/ /\ Cardinality(tried) < AttemptCap
          /\ AlreadyReplaced(r)
          /\ attempted' = [attempted EXCEPT ![r] = tried]
          /\ granted' = [granted EXCEPT ![r] = leases[KeyOf[r]]]
          /\ pc' = [pc EXCEPT ![r] = "granted"]
          /\ UNCHANGED <<inFlight, outcome>>
       \/ /\ Cardinality(tried) < AttemptCap
          /\ ~AlreadyReplaced(r)
          /\ attempted' = [attempted EXCEPT ![r] = tried]
          /\ \E reset \in Resets :
                inFlight' = JoinOrStart(
                    NewTask(KeyOf[r], RotateKey(KeyOf[r], held[r], reset),
                            held[r].account, tried, {r}))
          /\ pc' = [pc EXCEPT ![r] = "rotating"]
          /\ UNCHANGED <<granted, outcome>>

\* Mutant: the replacement's account is not looked up among the attempted ones.
NeverTriedBefore(r) == FALSE

\* An older router may alternate between already-tried accounts.
TriedBefore(r) == granted[r].account \in attempted[r]

\* The caller looks at its replacement: an account it already tried ends the call
\* with the provider's error.
Resume(r) ==
    /\ pc[r] = "granted"
    /\ granted' = [granted EXCEPT ![r] = NoLease]
    /\ IF TriedBefore(r)
       THEN EndCall(r, "rejection") /\ UNCHANGED held
       ELSE /\ held' = [held EXCEPT ![r] = granted[r]]
            /\ pc' = [pc EXCEPT ![r] = "sending"]
            /\ UNCHANGED <<outcome, attempted>>
    /\ UNCHANGED <<leases, order, renewalAfter, inFlight, calls, reports,
                   routerVars, historyVars>>

-----------------------------------------------------------------------------
(***************************************************************************)
(* Aborts, by the caller or by the transport's attempt timeout.            *)
(***************************************************************************)
AbortResolve(r) ==
    /\ pc[r] = "leasing"
    /\ pc' = [pc EXCEPT ![r] = "ended"]
    /\ inFlight' = Leave(r)
    /\ UNCHANGED <<leases, order, renewalAfter, held, attempted, granted, calls,
                   outcome, reports, routerVars, historyVars>>

\* A replacement that arrived with the abort is still taken over (lease =
\* replacement) before signal.throwIfAborted().
AbortCall(r) ==
    /\ pc[r] \in {"sending", "rotating", "granted"}
    /\ EndCall(r, "abort")
    /\ inFlight' = Leave(r)
    /\ held' = IF pc[r] = "granted" /\ ~TriedBefore(r)
               THEN [held EXCEPT ![r] = granted[r]] ELSE held
    /\ granted' = [granted EXCEPT ![r] = NoLease]
    /\ UNCHANGED <<leases, order, renewalAfter, calls, reports, routerVars,
                   historyVars>>

\* Mutant: the report names the session's current lease.
UsageReportOfSession(r, status) ==
    [req |-> r, lease |-> CurrentLease(r).id, status |-> status]

\* onUsageEvent: the terminal event of the stream reports the lease held now.  The
\* request's closure goes out of scope.
UsageReport(r, status) == [req |-> r, lease |-> held[r].id, status |-> status]

Finish(r) ==
    /\ pc[r] = "ready"
    /\ pc' = [pc EXCEPT ![r] = "ended"]
    /\ \E status \in {"completed", "failed"} :
          /\ status = "completed" => outcome[r] = "response"
          /\ reports' = reports \cup {UsageReport(r, status)}
    /\ held' = [held EXCEPT ![r] = NoLease]
    /\ outcome' = [outcome EXCEPT ![r] = "none"]
    /\ rejectedBy' = [rejectedBy EXCEPT ![r] = {}]
    /\ UNCHANGED <<leases, order, renewalAfter, inFlight, attempted, granted, calls,
                   routerVars, failed, served>>

-----------------------------------------------------------------------------
(***************************************************************************)
(* The router.  It answers with the session's active lease, or issues a    *)
(* lease that becomes the active one.                                      *)
(***************************************************************************)
\* Mutant: a rotation does not name the failed lease.
KeepsActiveUnlessForced(post) ==
    active[post.rkey.key] # NoLease /\ post.rkey.kind # "rotate"

KeepsActive(post) ==
    LET current == active[post.rkey.key] IN
    /\ current # NoLease
    /\ \/ post.rkey.kind # "rotate"
       \/ RouterChecksLease /\ current.id # post.rkey.expected

Eligible(post) ==
    IF RouterChecksLease THEN Accounts \ post.excluded ELSE Accounts \ {post.exclude}

\* The router's choice for a post: `lease` is the answer.
Handles(post, lease) ==
    \/ /\ KeepsActive(post)
       /\ lease = active[post.rkey.key]
       /\ UNCHANGED <<active, issued>>
    \/ /\ ~KeepsActive(post)
       /\ issued < MaxLease
       /\ \E a \in Eligible(post) : lease = [id |-> issued + 1, account |-> a]
       /\ issued' = issued + 1
       /\ active' = [active EXCEPT ![post.rkey.key] = lease]

Serve(t) ==
    /\ t.answer = NoLease
    /\ \E lease \in Lease :
          /\ Handles(t.post, lease)
          /\ inFlight' = (inFlight \ {t}) \cup {[t EXCEPT !.answer = lease]}
    /\ UNCHANGED <<leases, order, renewalAfter, requestVars, orphans, historyVars>>

ServeOrphan(post) ==
    /\ \E lease \in Lease : Handles(post, lease)
    /\ orphans' = orphans \ {post}
    /\ UNCHANGED <<leases, order, renewalAfter, inFlight, requestVars, historyVars>>

-----------------------------------------------------------------------------
(***************************************************************************)
(* A lease task ends and its waiters with it.                              *)
(***************************************************************************)
\* Mutant: the last answer wins.
NeverOvertaken(t) == FALSE

\* A lease that replaced the captured one meanwhile wins over the answer.
Overtaken(t) ==
    LET latest == leases[t.post.rkey.key] IN
    latest # NoLease /\ latest.id # t.captured

ResultOf(t) == IF Overtaken(t) THEN leases[t.post.rkey.key] ELSE t.answer

EvictsFor(k) == leases[k] = NoLease /\ Len(order) >= CacheCap

\* The cache after `lease` is stored under k, the oldest key evicted if need be.
Store(k, lease) ==
    LET kept == IF EvictsFor(k) THEN [leases EXCEPT ![Head(order)] = NoLease] ELSE leases
    IN  [kept EXCEPT ![k] = lease]

OrderAfter(k) ==
    LET kept == IF EvictsFor(k) THEN Tail(order) ELSE order
    IN  IF leases[k] = NoLease THEN Append(kept, k) ELSE kept

\* Mutant: eviction forgets the renewal mark.
RenewalAfterLeak(k) == renewalAfter

RenewalAfterStore(k) ==
    IF EvictsFor(k) THEN renewalAfter \ {Head(order)} ELSE renewalAfter

TaskAnswered(t) ==
    LET k == t.post.rkey.key
        result == ResultOf(t)
        Leasing(r) == r \in t.waiters /\ pc[r] = "leasing"
        Rotating(r) == r \in t.waiters /\ pc[r] = "rotating"
    IN
    /\ t.answer # NoLease
    /\ inFlight' = inFlight \ {t}
    /\ IF Overtaken(t)
       THEN UNCHANGED <<leases, order, renewalAfter>>
       ELSE /\ leases' = Store(k, t.answer)
            /\ order' = OrderAfter(k)
            /\ renewalAfter' = RenewalAfterStore(k)
    /\ held' = [r \in Requests |-> IF Leasing(r) THEN result ELSE held[r]]
    /\ granted' = [r \in Requests |-> IF Rotating(r) THEN result ELSE granted[r]]
    /\ pc' = [r \in Requests |-> IF Leasing(r) THEN "ready"
                                 ELSE IF Rotating(r) THEN "granted" ELSE pc[r]]
    /\ UNCHANGED <<attempted, calls, outcome, reports, routerVars, historyVars>>

\* The POST timed out, failed, was refused or answered with an invalid lease.  The
\* stream of a leasing caller fails; a rotating caller gets the provider's error.
TaskFails(t) ==
    /\ inFlight' = inFlight \ {t}
    /\ pc' = [r \in Requests |-> IF r \notin t.waiters THEN pc[r]
                                 ELSE IF pc[r] = "leasing" THEN "ended" ELSE "ready"]
    /\ outcome' = [r \in Requests |-> IF r \in t.waiters /\ pc[r] = "rotating"
                                      THEN "rejection" ELSE outcome[r]]
    /\ attempted' = [r \in Requests |-> IF r \in t.waiters THEN {} ELSE attempted[r]]
    /\ \/ UNCHANGED orphans
       \/ /\ t.answer = NoLease
          /\ Cardinality(orphans) < MaxOrphans
          /\ orphans' = orphans \cup {t.post}
    /\ UNCHANGED <<leases, order, renewalAfter, held, granted, calls, reports,
                   active, issued, historyVars>>

-----------------------------------------------------------------------------
Terminated == \A r \in Requests : pc[r] = "ended"

\* A finished system may stay as it is.
Idle == Terminated /\ inFlight = {} /\ UNCHANGED vars

Next ==
    \/ \E r \in Requests :
          \/ ResolveCached(r) \/ ResolveUncached(r)
          \/ BeginCall(r) \/ Response(r) \/ Rejected(r) \/ Resume(r)
          \/ AbortResolve(r) \/ AbortCall(r) \/ Finish(r)
    \/ \E k \in Keys : RenewalDue(k)
    \/ \E t \in inFlight : Serve(t) \/ TaskAnswered(t) \/ TaskFails(t)
    \/ \E post \in orphans : ServeOrphan(post)
    \/ Idle

Spec == Init /\ [][Next]_vars

\* A lease task settles: its POST has a ten-second timeout.
SettlesFor(r) == \E t \in inFlight : r \in t.waiters /\ (TaskAnswered(t) \/ TaskFails(t))

\* An upstream fetch settles, and a resumed caller runs: both without anyone's help.
FairSpec ==
    /\ Spec
    /\ \A r \in Requests :
          WF_vars(SettlesFor(r)) /\ WF_vars(Response(r) \/ Rejected(r)) /\ WF_vars(Resume(r))

-----------------------------------------------------------------------------
PC == {"idle", "leasing", "ready", "sending", "rotating", "granted", "ended"}

\* Type correctness; a request that resolve() has answered holds a real lease even
\* after the cache has evicted it.
TypeOK ==
    /\ leases \in [Keys -> LeaseOrNone]
    /\ order \in Seq(Keys)
    /\ renewalAfter \subseteq Keys
    /\ inFlight \subseteq Task
    /\ pc \in [Requests -> PC]
    /\ held \in [Requests -> LeaseOrNone]
    /\ attempted \in [Requests -> SUBSET Accounts]
    /\ granted \in [Requests -> LeaseOrNone]
    /\ calls \in [Requests -> 0..MaxCalls]
    /\ outcome \in [Requests -> {"none", "response", "rejection", "abort"}]
    /\ reports \subseteq [req : Requests, lease : 0..MaxLease,
                          status : {"completed", "failed"}]
    /\ active \in [Keys -> LeaseOrNone]
    /\ issued \in 0..MaxLease
    /\ orphans \subseteq Post
    /\ failed \subseteq 1..MaxLease
    /\ rejectedBy \in [Requests -> SUBSET Accounts]
    /\ served \in [Requests -> 0..MaxLease]
    /\ \A r \in Requests :
          /\ pc[r] \in {"ready", "sending", "rotating", "granted"} => held[r] \in Lease
          /\ pc[r] = "granted" => granted[r] \in Lease

\* The Map's order, its size and the renewal marks stay in step with the leases
\* through every interleaving of stores and evictions: nothing outgrows the cap.
CacheIndexed ==
    /\ \A i, j \in 1..Len(order) : order[i] = order[j] => i = j
    /\ {order[i] : i \in 1..Len(order)} = {k \in Keys : leases[k] # NoLease}
    /\ Len(order) <= CacheCap
    /\ \A k \in renewalAfter : leases[k] # NoLease

\* Whoever awaits a lease is awaited for by exactly one task, even when the caller
\* that started that task has been aborted; and no two tasks post the same request.
NoStrandedWaiter ==
    /\ \A r \in Requests :
          pc[r] \in {"leasing", "rotating"} <=> \E t \in inFlight : r \in t.waiters
    /\ \A t, u \in inFlight :
          t # u => t.post.rkey # u.post.rkey /\ t.waiters \cap u.waiters = {}

\* One fetch call never sends to an account twice, and to fewer than the cap.
WalkVisitsDistinctAccounts ==
    \A r \in Requests : pc[r] = "sending" =>
        /\ held[r].account \notin attempted[r]
        /\ Cardinality(attempted[r]) < AttemptCap

\* "Slow background renewal responses cannot restore an older lease", and a session
\* keeps its lease until Command Code has rejected it: a store over a cached lease
\* only ever puts a later one, after that one failed.
LeaseAdvances ==
    \A k \in Keys :
        (leases[k] # NoLease /\ leases'[k] # NoLease /\ leases'[k].id # leases[k].id)
        => leases'[k].id > leases[k].id /\ leases[k].id \in failed

CachedLeaseAdvances == [][LeaseAdvances]_vars

\* "concurrent or delayed failures reuse the replacement": beyond a session's first,
\* every lease was issued for a different rejected lease, whatever answers were lost.
OneRotationPerFailure ==
    issued <= Cardinality({k \in Keys : active[k] # NoLease}) + Cardinality(failed)

\* "Routed usage is attributed to the request's lease, including after rotation":
\* a completed request reports the lease whose response it got, not the session's.
CompletedUsageNamesServingLease ==
    \A u \in reports : u.status = "completed" => u.lease = served[u.req]

\* "consecutive exhausted accounts are never retried during the same generation".
NoAccountRetriedInGeneration ==
    \A r \in Requests : pc[r] = "sending" => held[r].account \notin rejectedBy[r]

\* A fetch call, and the resolve before it, always end: the walk over accounts is
\* finite and every shared task settles for each of its waiters.
EveryCallEnds ==
    \A r \in Requests : pc[r] \in {"leasing", "sending", "rotating", "granted"}
                        ~> pc[r] \in {"ready", "ended"}
=============================================================================
