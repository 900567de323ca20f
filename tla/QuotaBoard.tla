----------------------------- MODULE QuotaBoard -----------------------------
(***************************************************************************)
(* The quota board server (src/quota-board/server): HTTP handlers that     *)
(* share one JSON file.  A handler reads the file whenever it likes; the   *)
(* updates of all handlers go through one queue, and each reads the file,  *)
(* changes its copy and replaces the file by a rename.  Between its read   *)
(* and its update a handler may wait for the CommandCode API.              *)
(*                                                                         *)
(* A snapshot is reduced to the account's headroom, a telemetry event to   *)
(* its account; the seven-step reading of the API's answers is one step    *)
(* that succeeds or fails.                                                 *)
(***************************************************************************)
EXTENDS Integers, Sequences, FiniteSets, Subsequences

CONSTANTS
    Requests,        \* HTTP requests, each handled once
    KindsOf,         \* the kinds of request each of them may be
    AccountIds,      \* account ids, those randomUUID() may still return included
    InitialFiles,    \* the databases an earlier run may have left
    NewIdOf,         \* the id an account created by a request gets
    Keys,            \* API keys
    Sessions,        \* sessionId of the lease requests
    Rooms,           \* accountHeadroom of a snapshot; 0 is exhausted
    Workers,         \* refreshes one /api/refresh runs at a time (4 in the code)
    HistoryCap, LeaseCap, EventCap,  \* the slice() bounds (2000, 20000, 100000)
    MaxFaults        \* bound: failing file operations and crashes of the server

None == [none |-> TRUE]
Kinds == {"create", "refresh", "refreshAll", "delete", "lease", "rotate", "usage", "telemetry"}

\* The rows of the database, and the databases the server can work with.
AccountRows == [key : Keys, healthy : BOOLEAN]
LeaseRows == [session : Sessions, account : AccountIds, active : BOOLEAN]
EventRows == [account : AccountIds]
Histories == UNION {[1..n -> Rooms] : n \in 1..HistoryCap}
Databases ==
    {db \in [accounts  : UNION {[D -> AccountRows] : D \in SUBSET AccountIds},
             snapshots : UNION {[D -> Histories] : D \in SUBSET AccountIds},
             leases    : Seq(LeaseRows),
             telemetry : Seq(EventRows)] :
        Len(db.leases) <= LeaseCap /\ Len(db.telemetry) <= EventCap}

ActiveLeases(db, s) ==
    {i \in 1..Len(db.leases) : db.leases[i].session = s /\ db.leases[i].active}

\* What every update keeps, and the database a server starts with shows.
AtMostOneActive(db) == \A s \in Sessions : Cardinality(ActiveLeases(db, s)) <= 1
SameAccounts(db) == DOMAIN db.snapshots = DOMAIN db.accounts

ASSUME QuotaBoardAssumption ==
    /\ IsFiniteSet(AccountIds)
    /\ KindsOf \in [Requests -> SUBSET Kinds]
    /\ NewIdOf \in [{r \in Requests : "create" \in KindsOf[r]} -> AccountIds]
    /\ \A q, r \in DOMAIN NewIdOf : NewIdOf[q] = NewIdOf[r] => q = r
    /\ \A db \in InitialFiles : db \in Databases /\ AtMostOneActive(db) /\ SameAccounts(db)
    /\ \A db \in InitialFiles, r \in DOMAIN NewIdOf : NewIdOf[r] \notin DOMAIN db.accounts
    /\ Rooms \subseteq Nat
    /\ Workers \in Nat \ {0}
    /\ {HistoryCap, LeaseCap, EventCap} \subseteq Nat \ {0}
    /\ MaxFaults \in Nat

VARIABLES
    file,     \* the database in quota-board.json
    tasks,    \* the update queue of the store, the running task first
    call,     \* each request: phase, kind, the update it asked for, its answer
    walk,     \* each request's refreshes: account ids, cursor, counters; history:
              \* how often the refresh of each account resolved and how often it rejected
    runner,   \* the workers of each walk: account and phase
    applied,  \* history: the updates that reached the file
    faults, crashes

boardVars == <<file, tasks, call, walk, runner, applied, faults, crashes>>

Suffix(s, n) == IF Len(s) <= n THEN s ELSE SubSeq(s, Len(s) - n + 1, Len(s))

-----------------------------------------------------------------------------
(* The mutators handed to update(): the databases an update may leave; none *)
(* when it throws.  `u` is [request, worker, op, account, ...].             *)

HasAccount(db, a) == a \in DOMAIN db.accounts

\* POST /api/accounts pushes the account with its first snapshot.
AddAccount(u, db) ==
    [db EXCEPT !.accounts = [a \in DOMAIN @ \cup {u.account} |->
                                IF a = u.account THEN [key |-> u.key, healthy |-> TRUE] ELSE @[a]],
               !.snapshots = [a \in DOMAIN @ \cup {u.account} |->
                                IF a = u.account THEN <<u.room>> ELSE @[a]]]

History(db, a) == IF a \in DOMAIN db.snapshots THEN db.snapshots[a] ELSE <<>>

SyncAccount(u, db) ==
    [db EXCEPT !.accounts[u.account].healthy = TRUE,
               !.snapshots = [a \in DOMAIN @ \cup {u.account} |->
                                IF a = u.account
                                THEN Suffix(Append(History(db, a), u.room), HistoryCap)
                                ELSE @[a]]]

FlagAccount(u, db) == [db EXCEPT !.accounts[u.account].healthy = FALSE]

RemoveAccount(u, db) ==
    LET Others(rows) == PickAt(rows, {i \in 1..Len(rows) : rows[i].account # u.account}) IN
    [accounts  |-> [a \in DOMAIN db.accounts \ {u.account} |-> db.accounts[a]],
     snapshots |-> [a \in DOMAIN db.snapshots \ {u.account} |-> db.snapshots[a]],
     leases    |-> Others(db.leases),
     telemetry |-> Others(db.telemetry)]

\* Mutant: a lease on the account picked again is left alone.
RotatedElsewhere(u, leases) ==
    [i \in 1..Len(leases) |-> IF leases[i].session = u.session /\ leases[i].account # u.account
                              THEN [leases[i] EXCEPT !.active = FALSE] ELSE leases[i]]

Rotated(u, leases) ==
    [i \in 1..Len(leases) |-> IF leases[i].session = u.session
                              THEN [leases[i] EXCEPT !.active = FALSE] ELSE leases[i]]

\* The issue of a lease drops those unused for thirty days, which are at `old`.
IssueLease(u, db, old) ==
    LET lease == [session |-> u.session, account |-> u.account, active |-> TRUE]
        rows  == Append(Rotated(u, db.leases), lease)
    IN  [db EXCEPT !.leases = Suffix(PickAt(rows, (1..Len(rows)) \ old), LeaseCap)]

AddEvent(u, db) ==
    [db EXCEPT !.telemetry = Suffix(Append(@, [account |-> u.account]), EventCap)]

\* Mutant: a refresh that comes back writes its snapshot without looking for the account.
EffectUnchecked(u, db) ==
    CASE u.op = "add"    -> {AddAccount(u, db)}
      [] u.op = "sync"   -> {[db EXCEPT !.snapshots =
                                [a \in DOMAIN @ \cup {u.account} |-> Append(History(db, a), 0)]]}
      [] u.op = "flag"   -> IF HasAccount(db, u.account) THEN {FlagAccount(u, db)} ELSE {}
      [] u.op = "remove" -> {RemoveAccount(u, db)}
      [] u.op = "issue"  -> {IssueLease(u, db, {})}
      [] u.op = "event"  -> {AddEvent(u, db)}

Effect(u, db) ==
    CASE u.op = "add"    -> {AddAccount(u, db)}
      [] u.op = "sync"   -> IF HasAccount(db, u.account) THEN {SyncAccount(u, db)} ELSE {}
      [] u.op = "flag"   -> IF HasAccount(db, u.account) THEN {FlagAccount(u, db)} ELSE {}
      [] u.op = "remove" -> {RemoveAccount(u, db)}
      [] u.op = "issue"  -> {IssueLease(u, db, old) : old \in SUBSET (1..Len(db.leases))}
      [] u.op = "event"  -> {AddEvent(u, db)}

-----------------------------------------------------------------------------
\* The refreshes of the accounts `ids`, before the first.
WalkOf(ids) == [ids |-> ids, cursor |-> 0, completed |-> 0, failed |-> 0,
                refreshed |-> [a \in AccountIds |-> 0], missed |-> [a \in AccountIds |-> 0]]

BoardInit ==
    /\ file \in InitialFiles
    /\ tasks = <<>>
    /\ call = [r \in Requests |-> [phase |-> "idle", kind |-> "none", task |-> None, answer |-> "none"]]
    /\ walk = [r \in Requests |-> WalkOf(<<>>)]
    /\ runner = [r \in Requests |-> [w \in 1..Workers |-> [account |-> "none", phase |-> "off"]]]
    /\ applied = {} /\ faults = 0 /\ crashes = 0

\* Steps of a handler: waiting for the API, for its update, for its refreshes, answered.
Becomes(r, k, p, u, a) == call' = [call EXCEPT ![r] =
                                      [phase |-> p, kind |-> k, task |-> u, answer |-> a]]
Answers(r, k, a) == Becomes(r, k, "done", None, a) /\ UNCHANGED tasks

\* store.update(): the task waits for its turn.
Queued(u) == [update |-> u, draft |-> None]
Updates(r, k, u) == Becomes(r, k, "storing", u, "none") /\ tasks' = Append(tasks, Queued(u))

Arrives(r, k) == call[r].phase = "idle" /\ k \in KindsOf[r]

fixed == <<file, applied, faults, crashes>>

-----------------------------------------------------------------------------
(* POST /api/accounts *)

Connected(key) == \E a \in DOMAIN file.accounts : file.accounts[a].key = key

CreateArrives(r) ==
    /\ Arrives(r, "create")
    /\ \E key \in Keys :
          \/ Connected(key) /\ Answers(r, "create", "conflict")
          \/ /\ ~Connected(key)
             /\ Becomes(r, "create", "fetching", [key |-> key], "none")
             /\ UNCHANGED tasks
    /\ UNCHANGED <<fixed, walk, runner>>

CreateFetched(r) ==
    /\ call[r].phase = "fetching"
    /\ \/ Answers(r, "create", "upstream_error")
       \/ \E room \in Rooms :
             Updates(r, "create", [request |-> r, worker |-> 0, op |-> "add",
                                   account |-> NewIdOf[r], key |-> call[r].task.key, room |-> room])
    /\ UNCHANGED <<fixed, walk, runner>>

(* DELETE /api/accounts/:id *)
DeleteArrives(r) ==
    /\ Arrives(r, "delete")
    /\ \E a \in AccountIds :
          Updates(r, "delete", [request |-> r, worker |-> 0, op |-> "remove", account |-> a])
    /\ UNCHANGED <<fixed, walk, runner>>

-----------------------------------------------------------------------------
(* POST /api/router/lease, with (rotate) or without forceRotate *)

\* accountHeadroom() of the last snapshot.
Headroom(db, a) == History(db, a)[Len(History(db, a))]

\* The healthy accounts with headroom, other than `excluded`, that rank first; ties
\* are decided by fields a snapshot does not keep here.
Ranked(db, excluded) ==
    LET usable == {a \in DOMAIN db.accounts \ {excluded} :
                      db.accounts[a].healthy /\ History(db, a) # <<>> /\ Headroom(db, a) > 0}
    IN  {a \in usable : \A b \in usable : Headroom(db, a) >= Headroom(db, b)}

Lease(r, k, s, excluded) ==
    \/ /\ Ranked(file, excluded) = {}
       /\ Answers(r, k, "no_headroom")
    \/ \E a \in Ranked(file, excluded) :
          Updates(r, k, [request |-> r, worker |-> 0, op |-> "issue", session |-> s, account |-> a])

LeaseArrives(r) ==
    /\ \E s \in Sessions :
          LET active  == ActiveLeases(file, s)
              current == file.leases[CHOOSE i \in active : \A j \in active : i <= j]
          IN
          \/ /\ Arrives(r, "lease") /\ active # {}
             /\ Answers(r, "lease", IF HasAccount(file, current.account) THEN "ok" ELSE "not_found")
          \/ \E k \in {"lease", "rotate"}, given \in AccountIds \cup {None} :
                /\ Arrives(r, k) /\ (k = "lease" => active = {})
                /\ Lease(r, k, s, IF given = None /\ active # {} THEN current.account ELSE given)
    /\ UNCHANGED <<fixed, walk, runner>>

-----------------------------------------------------------------------------
(* POST /api/router/leases/:id/usage and POST /api/telemetry *)

UsageArrives(r) ==
    /\ Arrives(r, "usage")
    /\ \/ \E i \in 1..Len(file.leases) :
             Updates(r, "usage", [request |-> r, worker |-> 0, op |-> "event",
                                  account |-> file.leases[i].account])
       \/ Answers(r, "usage", "not_found")
    /\ UNCHANGED <<fixed, walk, runner>>

TelemetryArrives(r) ==
    /\ Arrives(r, "telemetry")
    /\ \E a \in AccountIds :
          \/ /\ HasAccount(file, a)
             /\ Updates(r, "telemetry", [request |-> r, worker |-> 0, op |-> "event", account |-> a])
          \/ ~HasAccount(file, a) /\ Answers(r, "telemetry", "not_found")
    /\ UNCHANGED <<fixed, walk, runner>>

-----------------------------------------------------------------------------
(* refreshAccount(), alone (a walk of one account) or under mapConcurrent() *)

RefreshArrives(r) ==
    /\ Arrives(r, "refresh")
    /\ \E a \in AccountIds : walk' = [walk EXCEPT ![r] = WalkOf(<<a>>)]
    /\ Becomes(r, "refresh", "refreshing", None, "none")
    /\ UNCHANGED <<fixed, tasks, runner>>

RefreshAllArrives(r) ==
    /\ Arrives(r, "refreshAll")
    /\ \E ids \in [1..Cardinality(DOMAIN file.accounts) -> DOMAIN file.accounts] :
          /\ \A i, j \in DOMAIN ids : ids[i] = ids[j] => i = j
          /\ walk' = [walk EXCEPT ![r] = WalkOf(ids)]
    /\ Becomes(r, "refreshAll", "refreshing", None, "none")
    /\ UNCHANGED <<fixed, tasks, runner>>

\* Mutant: a worker reads its item, waits, and moves the cursor only then; another one
\* (v) may have read the same item meanwhile.
WorkerTakesLate(r, w) ==
    /\ runner[r][w].phase = "off"
    /\ walk[r].cursor < Len(walk[r].ids)
    /\ LET item == [account |-> walk[r].ids[walk[r].cursor + 1], phase |-> "reading"] IN
       \/ /\ runner' = [runner EXCEPT ![r][w] = item]
          /\ walk' = [walk EXCEPT ![r].cursor = @ + 1]
       \/ \E v \in (1..Workers) \ {w} :
             /\ runner[r][v].phase = "off" /\ walk[r].cursor + 2 <= Len(walk[r].ids)
             /\ runner' = [runner EXCEPT ![r][w] = item, ![r][v] = item]
             /\ walk' = [walk EXCEPT ![r].cursor = @ + 2]
    /\ UNCHANGED <<fixed, tasks, call>>

WorkerTakes(r, w) ==
    /\ runner[r][w].phase = "off"
    /\ walk[r].cursor < Len(walk[r].ids)
    /\ runner' = [runner EXCEPT ![r][w] =
                     [account |-> walk[r].ids[walk[r].cursor + 1], phase |-> "reading"]]
    /\ walk' = [walk EXCEPT ![r].cursor = @ + 1]
    /\ UNCHANGED <<fixed, tasks, call>>

\* The refresh of account a has resolved, or rejected.
Ended(wk, a, ok) ==
    IF ok THEN [wk EXCEPT !.completed = @ + 1, !.refreshed[a] = @ + 1]
          ELSE [wk EXCEPT !.failed = @ + 1, !.missed[a] = @ + 1]

\* A refresh is over: the worker is free for the next account.
Counted(r, w, ok) ==
    /\ runner' = [runner EXCEPT ![r][w] = [account |-> "none", phase |-> "off"]]
    /\ walk' = [walk EXCEPT ![r] = Ended(@, runner[r][w].account, ok)]

WorkerReads(r, w) ==
    /\ runner[r][w].phase = "reading"
    /\ \/ /\ HasAccount(file, runner[r][w].account)
          /\ runner' = [runner EXCEPT ![r][w].phase = "fetching"]
          /\ UNCHANGED walk
       \/ /\ ~HasAccount(file, runner[r][w].account)
          /\ Counted(r, w, FALSE)
    /\ UNCHANGED <<fixed, tasks, call>>

Flag(r, w) == [request |-> r, worker |-> w, op |-> "flag", account |-> runner[r][w].account]

WorkerFetched(r, w) ==
    /\ runner[r][w].phase = "fetching"
    /\ \/ \E room \in Rooms :
             /\ tasks' = Append(tasks, Queued([request |-> r, worker |-> w, op |-> "sync",
                                               account |-> runner[r][w].account, room |-> room]))
             /\ runner' = [runner EXCEPT ![r][w].phase = "storing"]
       \/ /\ tasks' = Append(tasks, Queued(Flag(r, w)))
          /\ runner' = [runner EXCEPT ![r][w].phase = "flagging"]
    /\ UNCHANGED <<fixed, call, walk>>

\* Mutant: only successful refreshes end the walk.
AllSucceeded(wk) == wk.completed = Len(wk.ids)

WalkEnded(wk) == wk.completed + wk.failed = Len(wk.ids)

\* refreshAccount() rejects when it failed; mapConcurrent() reports the counts.
RefreshAnswers(r) ==
    /\ call[r].phase = "refreshing"
    /\ WalkEnded(walk[r])
    /\ Answers(r, call[r].kind, IF call[r].kind = "refresh" /\ walk[r].failed > 0
                                THEN "upstream_error" ELSE "ok")
    /\ UNCHANGED <<fixed, walk, runner>>

-----------------------------------------------------------------------------
(* The queue of JsonStore.update() *)

\* Mutant: updates do not wait for one another.
AnyTurn(i) == i \in 1..Len(tasks)

Turn(i) == i = 1

Without(i) == SubSeq(tasks, 1, i - 1) \o SubSeq(tasks, i + 1, Len(tasks))

\* The update has settled: its caller goes on.  A refresh whose snapshot could not be
\* stored tries to store the error; a usage report, once answered, is followed by a
\* refresh nobody waits for; a lease is answered only if its account is still there.
Settled(i, ok, db) ==
    LET u == tasks[i].update
        r == u.request
    IN
    \/ /\ u.worker # 0 /\ u.op = "sync" /\ ~ok
       /\ tasks' = Append(Without(i), Queued(Flag(r, u.worker)))
       /\ runner' = [runner EXCEPT ![r][u.worker].phase = "flagging"]
       /\ UNCHANGED <<call, walk>>
    \/ /\ u.worker # 0 /\ ~(u.op = "sync" /\ ~ok)
       /\ tasks' = Without(i)
       /\ Counted(r, u.worker, u.op = "sync")
       /\ UNCHANGED call
    \/ /\ u.worker = 0
       /\ tasks' = Without(i)
       /\ Becomes(r, call[r].kind, "done", u,
                  IF ~ok THEN "store_error"
                  ELSE IF u.op = "issue" /\ ~HasAccount(db, u.account) THEN "not_found"
                  ELSE "ok")
       /\ walk' = [walk EXCEPT ![r] = IF ok /\ call[r].kind = "usage"
                                      THEN WalkOf(<<u.account>>) ELSE @]
       /\ UNCHANGED runner

\* The task reads the file and applies its mutator to what it read.
TaskStarts(i) ==
    /\ Turn(i) /\ i \in 1..Len(tasks)
    /\ tasks[i].draft = None
    /\ \E db \in Effect(tasks[i].update, file) : tasks' = [tasks EXCEPT ![i].draft = db]
    /\ UNCHANGED <<fixed, call, walk, runner>>

TaskThrows(i) ==
    /\ Turn(i) /\ i \in 1..Len(tasks)
    /\ tasks[i].draft = None
    /\ Effect(tasks[i].update, file) = {}
    /\ Settled(i, FALSE, file)
    /\ UNCHANGED fixed

\* The temporary file replaces the data file.
TaskCommits(i) ==
    /\ Turn(i) /\ i \in 1..Len(tasks)
    /\ tasks[i].draft # None
    /\ file' = tasks[i].draft
    /\ applied' = applied \cup {tasks[i].update}
    /\ Settled(i, TRUE, file')
    /\ UNCHANGED <<faults, crashes>>

\* A file operation fails: before the rename, or at the chmod that follows it.
TaskFails(i) ==
    /\ Turn(i) /\ i \in 1..Len(tasks)
    /\ faults + crashes < MaxFaults
    /\ faults' = faults + 1
    /\ Settled(i, FALSE, file)
    /\ \/ UNCHANGED <<file, applied>>
       \/ /\ tasks[i].draft # None
          /\ file' = tasks[i].draft
          /\ applied' = applied \cup {tasks[i].update}
    /\ UNCHANGED crashes

\* The server dies and is started again: the file is what the last rename left, a
\* half-written temporary file is overwritten by the next update.  (With nothing in
\* flight a crash changes nothing.)
Crash ==
    /\ faults + crashes < MaxFaults
    /\ \E r \in Requests : call[r].phase \notin {"idle", "done", "lost"} \/ ~WalkEnded(walk[r])
    /\ crashes' = crashes + 1
    /\ tasks' = <<>>
    /\ call' = [r \in Requests |-> IF call[r].phase \in {"idle", "done"} THEN call[r]
                                   ELSE [call[r] EXCEPT !.phase = "lost"]]
    /\ walk' = [r \in Requests |-> IF WalkEnded(walk[r]) THEN walk[r] ELSE WalkOf(<<>>)]
    /\ runner' = [r \in Requests |-> [w \in 1..Workers |-> [account |-> "none", phase |-> "off"]]]
    /\ UNCHANGED <<file, applied, faults>>

-----------------------------------------------------------------------------
HandlerSteps(r) == CreateFetched(r) \/ RefreshAnswers(r)
WorkerSteps(r, w) == WorkerTakes(r, w) \/ WorkerReads(r, w) \/ WorkerFetched(r, w)
StoreSteps == \E i \in 1..Len(tasks) : TaskStarts(i) \/ TaskThrows(i) \/ TaskCommits(i)

BoardNext ==
    \/ \E r \in Requests :
          \/ CreateArrives(r) \/ DeleteArrives(r) \/ LeaseArrives(r) \/ UsageArrives(r)
          \/ TelemetryArrives(r) \/ RefreshArrives(r) \/ RefreshAllArrives(r)
          \/ CreateFetched(r) \/ RefreshAnswers(r)
          \/ \E w \in 1..Workers : WorkerTakes(r, w) \/ WorkerReads(r, w) \/ WorkerFetched(r, w)
    \/ \E i \in 1..Len(tasks) : TaskStarts(i) \/ TaskThrows(i) \/ TaskCommits(i) \/ TaskFails(i)
    \/ Crash

BoardSpec == BoardInit /\ [][BoardNext]_boardVars

\* The queue goes on after every task, calls of the API time out after fifteen
\* seconds, and a worker never waits for anything else.
BoardFairness ==
    /\ WF_boardVars(StoreSteps)
    /\ \A r \in Requests :
          /\ WF_boardVars(HandlerSteps(r))
          /\ \A w \in 1..Workers : WF_boardVars(WorkerSteps(r, w))

-----------------------------------------------------------------------------
QueuedUpdates == {tasks[i].update : i \in 1..Len(tasks)}

\* Type correctness; a task that runs is the first of the queue, and a call or a worker
\* that waits for the store has its update there.
BoardTypeOK ==
    /\ file \in Databases
    /\ \A i \in 1..Len(tasks) : tasks[i].draft # None => i = 1
    /\ \A r \in Requests :
          /\ call[r].phase \in {"idle", "fetching", "storing", "refreshing", "done", "lost"}
          /\ call[r].phase = "storing" => call[r].task \in QueuedUpdates
          /\ walk[r].cursor \in 0..Len(walk[r].ids)
          /\ \A w \in 1..Workers :
                runner[r][w].phase \in {"storing", "flagging"} <=>
                    \E u \in QueuedUpdates : u.request = r /\ u.worker = w
    /\ faults \in Nat /\ crashes \in Nat /\ faults + crashes <= MaxFaults

\* "The server rotates": whatever requests of a session overlap, at most one of its
\* leases is active.  The handlers decide on a copy of the file; only the update,
\* applied to the file as it is then, can keep this.
OneActiveLease == AtMostOneActive(file)

\* A refresh that comes back after its account was deleted leaves no snapshot behind,
\* and no account is ever without one.
SnapshotsOfAccounts == SameAccounts(file)

\* The updates whose client was answered "ok".
Acknowledged ==
    {call[r].task : r \in {q \in Requests : call[q].answer = "ok" /\ call[q].task # None}}

\* "Data writes are serialized, atomic": the file is an atomic store, whatever fails or
\* crashes, and what a client was told is stored is stored.
Store == INSTANCE AtomicStore WITH
    data <- file, stored <- applied, acknowledged <- Acknowledged
StoreIsAtomic == Store!Spec

\* "per-account failure isolation": /api/refresh refreshes each account it found exactly
\* once and no other, whatever becomes of the rest; it reports as refreshed the accounts
\* whose refresh resolved, all of them stored, and as failed the others, none of them
\* stored but for an update that failed after its rename.
RefreshAllAccounted ==
    \A r \in Requests :
        LET ids       == {walk[r].ids[k] : k \in 1..Len(walk[r].ids)}
            refreshed == {a \in AccountIds : walk[r].refreshed[a] > 0}
            stored    == {u.account : u \in {v \in applied : v.request = r /\ v.op = "sync"}}
        IN  call[r].kind = "refreshAll" /\ call[r].phase = "done" =>
            /\ \A a \in AccountIds :
                  walk[r].refreshed[a] + walk[r].missed[a] = IF a \in ids THEN 1 ELSE 0
            /\ walk[r].completed = Cardinality(refreshed)
            /\ walk[r].failed = Cardinality(ids \ refreshed)
            /\ refreshed \subseteq stored
            /\ Cardinality(stored \ refreshed) <= faults

\* Every request is answered unless the server dies, and background refreshes end: a
\* task that fails does not stop the queue.
Busy(r) == call[r].phase \in {"fetching", "storing", "refreshing"} \/ ~WalkEnded(walk[r])
BoardAnswers == \A r \in Requests : Busy(r) ~> ~Busy(r)
=============================================================================
