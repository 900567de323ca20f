# A TLA+ model of pi-commandcode-provider

The repository is a provider extension for the pi coding agent: it streams chat
completions from Command Code, leases Command Code accounts from a router and
walks to another account when one is exhausted, reports usage to the router, and
captures requests for offline replay.  `quota-board/` is a server (and its page)
that watches the quotas of several accounts and can serve as that router.

This directory holds TLA+ modules of its concurrent and protocol-like parts, the
TLC configurations that check them on small instances, and TLAPS proofs for
instances of every size.  Every definition is translated from the source lines
that `PROJECT.json` names for it under `map`.

Contents: 1 inventory of the system, 2 the modules and how they correspond to the
code, 3 the runs, 4 fairness, 5 the proofs, 6 findings, 7 what is not modelled,
8 plan.

## 1. The system

```
 pi ──stream()──▶ transport router ──provider──▶ pi-ai stream ──┐
                    │        └──────legacy──▶ streamCommandCode ─┤ fetch
                    │ resolveOptions                             ▼
                    ├──────▶ key lease manager ── routed fetch ──▶ Command Code
                    │            │   └── leases ──▶ router (deployed, or quota-board)
                    │            └── usage queue ──▶ router /usage
                    └── REAP capture (files)
 catalog runtime ◀── models.ts (live, cached)      login ◀── auth-server (callback)
```

Everything runs on one JavaScript thread: interleaving happens at `await`s, timers,
abort signals and callbacks, never inside a synchronous stretch of code.  That is
the granularity of the actions below.

| component | state | operations | what makes it correct |
|---|---|---|---|
| Key lease manager `src/key-lease.ts` | lease cache per session (512 entries, insertion order), renewal marks, lease tasks in flight per request key; per request the held lease and the accounts tried | `resolve`, the routed `fetch` with its walk over accounts, `acquire`, background renewal, eviction, usage attribution | a walk visits each account once and ends; concurrent and delayed failures burn one account, not several; slow answers never bring back an older lease; an aborted caller does not cancel or strand others; usage names the lease that served |
| Usage queue `src/usage-queue.ts` | buffered events, the batch being uploaded, bytes, per-event attempts, timer, backoff, stopping/closed, counters | `enqueue`, timer, `flush`, end of an upload, `shutdown` with its drain | bytes within the cap and returned once; each event counted once; the retry budget holds across re-batching; no wake-up is lost; shutdown is final and ends |
| Generate stream core `src/core.ts` | the closure of `run()`: attempt, timers and abort links, message under construction with its open blocks, finish/pause flags, usage | attempts, retries, hooks, backoff, `handleEvent`, continuations, abort, timeout | the consumer's event protocol; content is never shown twice; done means complete; retries within the budget; a timeout ends every hang |
| Transport selector `src/transport.ts` | the transport that works for the current key, the current key; per stream the suppression flag and the held terminal event | `stream`, fallback, `reset` | one start and one terminal event over a fallback; a stale stream does not set the transport of a new key; a stream whose key is stale does not use the new key's |
| REAP capture `src/reap-capture.ts` | write queue, first error, attempts with their tapped bodies, in-flight directory | `begin`, `observeEvent`, captured fetch, `finalize` | the bundle is committed before the terminal event is forwarded; required capture fails closed; a failed write does not lose later ones; finalisation ends |
| Catalog runtime `src/runtime.ts`, `src/models.ts` | the registered catalog, the status, the refresh in flight, the shutdown signal; on disk the cache file and the temporary files, shared by all processes | `initialize`, `refresh` (also `/commandcode-refresh`), `dispose`, load live → cache → empty, write and rename | refreshes coalesce and end; a host never loses the models it has to an older or an empty catalog; the cache file is whole |
| Login `src/oauth.ts`, `src/auth-server.ts` | the stage of `login()`, the one-shot callback server and its connections, the promise of the callback | choice of the flow, search for a port, callback `POST`, timeout, prompt, validation | one credential wins, and it was vouched for; the server is closed on every path; a member token stays away from Command Code |
| Quota board server `quota-board/server/` | `quota-board.json` behind a queue of updates; accounts, snapshots, leases, telemetry | account add/remove/refresh, refresh-all, lease and rotation, usage, telemetry | an update is whole, applied once, and there when acknowledged; a deleted account stays deleted; one active lease per session; every request is answered |
| Converters `src/converters.ts`, `src/json-schema.ts` | none (the transcript is the host's) | `messagesToCC`, schema sanitising | every tool call is answered after it is made, and no result comes without its call |
| Quota command `src/quota-command.ts`, `src/quota.ts`, `src/api-key.ts` | four replies and the overall timeout of one command | choice of the key, whoami, credits with subscription, usage | the report says what happened; the right key goes to the right service |
| Tables, formats, display (`cost`, `pricing`, catalogs, `quota-format`, `diagnostics`, `overflow`, `metrics`, `prompt-cache`, the board's page) | none that outlives a call | lookups, arithmetic, formatting, HTTP parsing | data, not behaviour |

How they interact.  The transport asks the lease manager to resolve the options of
each stream; the routed `fetch` it gets back is called once per HTTP attempt by
whichever stream runs (`streamCommandCode` or pi-ai's), so the *walk* over accounts
nests inside the stream's *retries*.  The stream's terminal event goes back through
`onUsageEvent` to the lease manager, which names the lease and hands the report to
the usage queue.  Session shutdown disposes the runtime and drains the queue.

The behaviours that are hard to test, each at the line where it bites, are listed
under `hazards` in `PROJECT.json`, with the properties that cover them or a note
that says why none does.

## 2. Modules

| module | models | lines of code it stands for |
|---|---|---|
| `KeyLease` | the lease manager between its requests and the router | `src/key-lease.ts`, the lease handler of `quota-board/server/index.ts`, `rankAccounts` |
| `UsageQueue` | the usage queue | `src/usage-queue.ts` |
| `EventStream` | what the consumer of an assistant stream may rely on (abstract) | `AssistantMessageEvent` in `src/types.ts` |
| `StreamCore` | one `run()` of `streamCommandCode`, refining `EventStream` | `src/core.ts` |
| `Transport` | the transport selector over any source of events, with the REAP capture; its output refines `EventStream` | `src/transport.ts`, `src/reap-capture.ts` |
| `AtomicStore` | what a data file promises to those that update it (abstract) | the promise of `quota-board/README.md`, for `quota-board/server/store.ts` |
| `QuotaBoard` | the board's handlers over its file; the file refines `AtomicStore` | `quota-board/server/` (`index.ts`, `store.ts`, `router.ts`) |
| `Catalog` | the model catalog of several hosts over one cache file | `src/runtime.ts`, `loadCommandCodeModels` and the cache of `src/models.ts` |
| `Login` | the login and its callback server | `src/oauth.ts`, `src/auth-server.ts` |
| `Conversation` | the conversion of a growing transcript | `messagesToCC` and its helpers in `src/converters.ts` |
| `QuotaFetch` | the quota command | `src/quota-command.ts`, `src/quota.ts`, `src/api-key.ts` |
| `MCKeyLease`, `MCUsageQueue`, `MCStreamCore`, `MCTransport`, `MCServices` | the instances TLC checks; `MCServices` runs the last five components of this table side by side | |
| `Subsequences` | what `Array.prototype.filter` returns, stated by position | used by `UsageQueue`, `QuotaBoard` and `Conversation` |
| `KeyLeaseProofs`, `UsageQueueProofs`, `StreamCoreProofs`, `TransportProofs`, `CatalogProofs`, `QuotaBoardProofs` | theorems about the module of that name | |
| `ServiceProofs` | theorems about `Conversation`, `QuotaFetch` and `Login` | |
| `SubsequencesProofs` | lemmas about `Subsequences` | |

In each module the operators that a comment calls a *mutant* are plausible bugs of
the operator that follows; no specification uses them.  `PROJECT.json` pairs each
with the properties that must fail when it replaces the real one.

### KeyLease

`leases`, `order` and `renewalAfter` are the maps of
`CommandCodeKeyLeaseManager`; `order` is the insertion order of the JavaScript Map,
which decides evictions.  `inFlight` is the set of shared promises: a task has its
POST, the lease id captured when it was made, the router's answer once it is there,
and its waiters.  A request is a closure of `resolve()`: `pc` is where it stands,
`held` its variable `lease`, `attempted` the accounts tried in this fetch call.

| action | code |
|---|---|
| `ResolveCached`, `ResolveUncached` | `resolve()`: cached lease at once (with a background renewal when it is about to expire) or await the session's task |
| `BeginCall`, `Response`, `Rejected`, `Resume` | one `routed.fetch`: send, classify the response, rotate (or take the lease that already replaced the failed one), look at the replacement |
| `AbortResolve`, `AbortCall`, `Finish` | the caller leaves; the terminal event is attributed |
| `Serve`, `ServeOrphan` | the router handles a POST, or one whose client gave up |
| `TaskAnswered`, `TaskFails`, `RenewalDue` | the end of a shared promise: cache store, eviction, or failure; the minute between renewals |

`RouterChecksLease` chooses the router.  TRUE is the contract the client's README
gives of the deployed router (it compares the expected lease and excludes every
tried account); its code is not in the repository.  FALSE is the router that is,
`quota-board/server`.  Expiry times are a free choice at `ResolveCached`; which
statuses and bodies count as a rejection is one free choice; the scores of
`rankAccounts` are abstracted to "any eligible account".

### UsageQueue

The variables are the fields of the class.  `batch` is the local of `flushBatch`
across its await.  `Enqueue`, `TimerFires`, `Flush`, `Upload*`, `Shutdown`,
`DrainFlush`, `DrainEnds` are the methods and their continuations; `EndUpload` is
the `finally` block all outcomes share, with `Schedule` after `uploading` is reset.
Which events of a failed batch may be kept is `Retryable` (attempts left, not
closed, young enough); any subset of those is kept, because `Retry-After` and the
clock decide.  `BackoffElapses` and `Expire` are the clock.  Events are distinct objects, so
the bytes of a line of events are counted as a set (`BytesIn`: one element per byte of
each event), and what a `filter` leaves is picked by position (`Without`): neither is a
recursion, which no proof could follow.

### EventStream and StreamCore

`EventStream` is the consumer's view: `new → streaming → done | error | aborted`,
blocks appended and closed and never taken back, text and thinking open only at the
end.  `StreamCore` has the locals of `run()` as variables and its awaits as `pc`:

| `pc` | await |
|---|---|
| `payload` | the `onPayload` hook under its own timeout |
| `fetch`, `drain`, `backoff` | the request; the body of an answer that will be retried; the delay |
| `onResponse`, `errorBody` | the hook; the text of an error answer |
| `read` | `reader.read()` and, for each line, `handleEvent` |
| `cancelFailed`, `cancelPaused` | `reader.cancel()` of a failed or a paused leg |

Upstream is unconstrained: any status, any order of lines, interleaved tool inputs,
missing ends, drops and hangs.  `linked` is whether the attempt's controller was
registered on the caller's signal while that was not aborted yet; `timer` is the
attempt's timeout.  `sent`, `shown`, `usage` and `lines` count what the properties
speak of.  Texts, arguments and token numbers are left out.
`Consumer == INSTANCE EventStream WITH blocks <- Blocks` is the refinement: `Blocks`
reads the content and says which blocks some index of the closure still points to.

### Transport

`transport` and `apiKey` are the two variables of `createCommandCodeTransportRouter`,
shared by all streams; the rest belongs to one call of `stream()`: `pc` is where its
`run()` stands, `source` the stream it pipes (pi-ai's, or `streamCommandCode`) and
where that one stands, `phase` what the consumer has.

| action | code |
|---|---|
| `Call`, `Reset` | the synchronous part of `stream()`; `reset()` |
| `Resolved`, `ResolveFails`, `CaptureBegins`, `BeginFails` | the two awaits before the source is chosen by the shared transport (`Connect`) |
| `GenerateStarts`, `ProviderStarts`, `Content`, `SourceEnds` | an event of the source, and what the loop of `run()` does with it (`Hears`) |
| `Fetch`, `FetchAnswers`, `FetchThrows`, `UpgradeRequired` | an HTTP attempt through `captureFetch` |
| `BodySettles`, `BodyLeft` | the tapped body is read, breaks or is cancelled; or is never touched again |
| `PipeEnds`, `PipeThrows` | the source is exhausted (the fallback begins, or the capture is finalised, or the terminal event goes out); the loop throws |
| `QueueDrains`, `Finalize`, `CatchFinalizes` | the capture's queue; `finalize()` from `run()` and from its catch |

The capture's files are abstracted to what decides the bundle's marker: whether
writes are pending, which tapped bodies have not settled, and whether there was an
error and of which kind (`"body"` is the rejection of a `responseDone`, after which
`Promise.all` waits for no other).  Any write may fail.  Not every source is possible:
a source of the Provider API starts once it is answered and may not for a key without
access; `streamCommandCode` starts at once.  An event counts as handled when it is
pushed.  `Leases` is what `resolveOptions` may put in the place of the call's key.

### AtomicStore and QuotaBoard

`AtomicStore` has the data, the updates applied so far and those that were
acknowledged: each change is one update applied to the data as it was, none is
applied twice, and what was acknowledged was applied.  `QuotaBoard!Store` maps
`data` to the file, `stored` to the updates a rename brought to it, `acknowledged`
to those answered with success; `Effect` is what the mutators do.  The refinement is
not a formality: the task of an update reads the file in one step and replaces it in
a later one, between which other handlers run.

`file` is `quota-board.json` without what no handler decides on: an account is its
key and whether its last refresh failed, a snapshot the headroom `accountHeadroom`
computes, a telemetry event its account.  `tasks` is the promise chain of
`JsonStore.update`, the running task first with the database it has changed
(`draft`).  `call` is where each request stands, `walk` and `runner` the cursor and
workers of `mapConcurrent`; a single refresh is a walk of one account, and so is the
one that follows a usage report, after its answer.  A walk also keeps as history how
often the refresh of each account resolved (`refreshed`) and how often it rejected
(`missed`), of which the code keeps only the sums `completed` and `failed`; no guard
reads it.  `RefreshAllAccounted` speaks of the accounts by it: two workers that took the
same item and passed over another would leave the sums right.

| action | code |
|---|---|
| `CreateArrives`, `CreateFetched` | `POST /api/accounts`: the duplicate check, then after the API the update |
| `DeleteArrives`, `TelemetryArrives`, `UsageArrives` | the handlers that look at most at a copy of the file before their update |
| `LeaseArrives` | `POST /api/router/lease`: the active lease of the session, or the account that ranks first in a copy of the file |
| `RefreshArrives`, `RefreshAllArrives`, `WorkerTakes`, `WorkerReads`, `WorkerFetched`, `RefreshAnswers` | `refreshAccount` and `mapConcurrent`: read, ask the API, queue the snapshot or the failure |
| `TaskStarts`, `TaskThrows`, `TaskCommits`, `TaskFails` | one link of the chain: read and mutate, a mutator that throws, the rename with the continuation of the caller (`Settled`), a failing file operation before or after the rename |
| `Crash` | the server dies; the file is what the last rename left |

`Databases` is the type of the file.  An initial file is any database that an earlier
run can have left: at most one active lease per session, and snapshots only of accounts
that are there (`AtMostOneActive`, `SameAccounts`, assumed of `InitialFiles` and no
more).  Leases, telemetry and histories keep the order of the code's arrays; what
`filter` and `slice` leave of them is picked by position (`Subsequences`).

### Catalog

A host has a `hostStage`, a `load` (where `loadCommandCodeModels` stands and the live
catalog it holds), the catalog it registered last (`provider`) with the `status`
beside it, and the commands that await its refresh.  `cache` and `temporary` are
files; a temporary file is named after its process.

| action | code |
|---|---|
| `Start`, `CacheLoaded` | `initialize()`: register the cache and refresh in the background, or await the refresh |
| `Command` | `/commandcode-refresh`: join the refresh or start one |
| `FetchSucceeds`, `FetchFails`, `FetchAborted` | `runWithTimeout` around the request |
| `WriteStarts`, `WriteEnds`, `Renames`, `CacheWriteFails` | the cache file, by a temporary one |
| `ReadsCache` | the fallback |
| `Dispose`, `Dies` | session shutdown; the end of the process, between any two file operations |

`Loaded` (the end of `refreshCatalog`) and `Released` (everyone who awaits it) are
part of the actions that end a load.  `dispose()` aborts the request only: a refresh
that is past it still writes the file and registers, so no property claims
otherwise.

### Login

`loginStage` is where `login()` stands, `server` and `offset` the callback server and
its search for a port, `callback` the promise `waitForCallback` with its first
settlement, `conn` the connections.  `Choose`, `Pastes`, `Validates` are the prompts
and `validateApiKey`; `PortTaken`, `Listens`, `ListenFails` are
`listenOnAvailablePort`; `TimesOut` and `CallbackTaken` are the two ends of the race
in `browserLogin`; `Connects`, `Received`, `Drops` are the request listener.  A
connection is accepted while the server listens and may be received after it was
closed.  `sentTo` and `vouched` are histories the property speaks of.

### Conversation

The transcript grows by one message the host may append (`Say`), and the property is
about `messagesToCC` of every transcript on the way, for models with and without
images.  Tool calls may be left unanswered, results may come for calls that were
compacted away (`LostIds`), calls may lack an id.  The conversion is built from the
two passes of the code: `Called` and `ResultIds` (`toolCallState`), then one message
at a time.  The loop of the code pushes at most two messages for each of the transcript:
`FirstPush` of message i has place 2i - 1 and `SecondPush` place 2i among the
`Candidates`, of which the pushed ones are picked; the calls of a message and the ids it
answers are sets, since their order decides nothing.  The property never looks at the transcript's calls: it reads the
converted messages alone.

### QuotaFetch

`QuotaCommand` chooses the key (`Configured`, `Picked`) from the registry and from the
places `getConfiguredApiKey` looks at, and sends `whoami`, if the key is one of
Command Code; `Returns` is an answer of any kind, `TimerEnds` the overall timeout,
`WhoamiIn`, `SectionsIn`, `UsageIn` the three continuations.

### MCServices

The five components above share no state with one another and little with the
streams: a behaviour of `MCServices` picks one of them (`part`) and leaves the others
in their initial states, so the states of the run are the sum of theirs, and each
property is checked on its own component.

## 3. Runs

| run | instance | checks | states |
|---|---|---|---|
| `key_lease_walk` | 1 session, 2 requests of 2 calls, 2 accounts, 2 reset times, 3 leases, 1 lost answer | `WalkVisitsDistinctAccounts`, `OneRotationPerFailure`, `CompletedUsageNamesServingLease`, `CachedLeaseAdvances` | 2.2 M |
| `key_lease_evict` | 2 sessions, cache of 1, 3 requests, 2 accounts, 2 leases | `TypeOK`, `CacheIndexed`, `NoStrandedWaiter`, `EveryCallEnds` | 300 k |
| `key_lease_retry` | 1 session, 2 calls per generation | `NoAccountRetriedInGeneration` — violated | |
| `key_lease_board` | the quota-board as router | `OneRotationPerFailure` — violated | |
| `usage_queue` | 4 events of 2 credentials, byte cap below their sum, batches of 2, 1 retry | `BytesAccounted`, `EveryEventAccounted`, `AttemptBudget`, `NoLostWakeup`, `ShutIsFinal`, `EveryEventSettles` | 329 k |
| `stream_core` | 1 retry, 1 continuation, 2 tool ids, 4 lines, timeout set | `TypeOK`, `DoneIsComplete`, `RetryBudget`, `ConsumerProtocol`, `NoRetryAfterContent`, `EveryStreamEnds` | 275 k |
| `stream_timeout` | the same | `HungStreamIsRetried` — violated | |
| `stream_abort` | no timeout | `NoRequestAfterAbort` — violated | |
| `transport` | 2 streams, 2 keys, 3 and 2 attempts; captured: the first stream alone | `TypeOK`, `LegacyOnlyForLegacyKeys`, `FailsClosed`, `CommittedIsComplete`, `ConsumerProtocol`, `BestEffortIsInvisible`, `EveryStreamEnds` | 104 k |
| `transport_hang` | the same | `PiReceivesTerminal` — violated | |
| `transport_leases` | 1 request key, 2 leased ones | `RedetectedForEachKey` — violated | |
| `services` | see below | `BoardTypeOK`, `CatalogTypeOK`, `OneActiveLease`, `SnapshotsOfAccounts`, `RefreshAllAccounted`, `CacheFileWhole`, `LoginSettlesCleanly`, `ConversationPaired`, `QuotaTruthful`, `StoreIsAtomic`, `BoardAnswers`, `CatalogNeverRegresses`, `RefreshSettles` | 221 k |

Why the bounds are enough.

- *KeyLease.*  Two requests are what a race needs: one that rotates and one that
  fails late, with equal or different reset times (one shared task or two).  Two
  calls let a request start with a lease another has replaced meanwhile.  Three
  leases are the first, its replacement and the one a second failure gets; one
  orphan is a rotation that happened although its client timed out.  Accounts are
  only compared, so they are symmetric in the run without liveness.  The second
  instance trades calls for a second session, so that a cache of one evicts.
  `MaxLease`, `MaxCalls` and `MaxOrphans` are the bounds; `CacheCap` and
  `AttemptCap` are the code's 512 and 64 made reachable.
- *UsageQueue.*  Four events overfill both the batch and the byte cap; a second
  credential splits a batch; one retry reaches both "kept" and "given up".
- *StreamCore.*  One retry reaches the last attempt, one continuation the leg after
  a pause and the pause that is one too many; four lines open text, thinking and
  two interleaved tool inputs and close one; `MaxLines` bounds the lines of a whole
  stream.  `MaxPauses` is 5 in the code.
- *Transport.*  Two streams are what the shared variables need: an older one of a key
  that falls back and a newer one of another key or of the same.  A fallback takes two
  attempts, a retry a third (`MaxAttempts`).  Captures share nothing, so with a
  capture only the first stream is called (`CapturedCalls`).

- *QuotaBoard.*  Two requests, each of any of its kinds (`KindsOf`): one that updates
  (all refreshes, one refresh, a usage report, an account, telemetry, a lease) and one
  that takes the ground from under it (a deletion) or competes for the same rows (a
  lease, a rotation).  Two accounts and a third to be created; snapshots with and
  without headroom; a lease of an earlier run or none.  `Workers` is 4 in the code: two
  already refresh two accounts at once.  `HistoryCap`, `LeaseCap`, `EventCap` are the
  code's 2000, 20000 and 100000 made reachable: one more row than the file holds at the
  start.  `MaxFaults` is one file operation that fails, or one crash, anywhere.
- *Catalog.*  Two hosts are what a shared file needs, two catalogs an older and a newer
  one; one command joins a refresh in flight or starts the next (`MaxCommands`: in one
  host only, since hosts share nothing but the file).
- *Login.*  Two connections are the callback and one that comes late, with every body;
  three keys are an ordinary one, a member token and a malformed one; `PortRange` is 10
  in the code, and one port in use reaches both ends of the search.
- *Conversation.*  `MaxMessages` is 3 and `MaxParts` 2: a message with two calls,
  results in either order or missing, and what comes between them.
- *QuotaFetch.*  `Places` is 2 where the code has two variables and three files with
  five fields each: one place that hides another.

Deadlock is checked in every run but `services`, whose components really stop (a login
ends, a server has no request left); that nothing stops too early is what
`BoardAnswers` and `RefreshSettles` check there.  Elsewhere a finished system may
stutter (`Idle`, `Finished`, `Ended`).  In `Transport` a stream that waits for a body its source has
left counts as finished: that is finding 5, and `EveryStreamEnds` excepts it by name.

## 4. Fairness

- `KeyLease!FairSpec`: a lease task settles for each of its waiters (its POST has a
  ten-second timeout, so it is answered or fails); the upstream `fetch` of a call
  settles; a resumed promise continuation runs.  The requests need not begin, abort
  or finish, and the router need not serve.
- `UsageQueue!FairSpec`: timers fire, a backoff elapses, an upload ends (five-second
  timeout), the drain loop runs and its budget ends.  Nothing obliges the program to
  flush or to shut down.
- `StreamCore!FairSpec`: the attempt's timer fires, an abort signal ends the await
  it covers, a delay elapses, a reader is cancelled.  Upstream owes nothing: it may
  hang at every await, which is why `EveryStreamEnds` is checked with a timeout set.
  What is fair about `DrainEnds`, `FetchFails`, `OnResponseFails` and `ErrorBodyEnds`
  holds only once the signal of the attempt has fired.
- `Transport!FairSpec`: a source goes on until its terminal event (pi-ai's timeouts,
  and those `StreamCore` is checked with), files are written or fail, and `run()`
  resumes.  No stream need be called, and nothing obliges a source to read a body.
- `QuotaBoard!BoardFairness`: the promise chain goes on after every task; a request to
  the API ends within its fifteen seconds; a worker whose refresh has ended takes the
  next account.  Requests need not arrive, and neither faults nor crashes need happen.
- `Catalog!CatalogFairness`: a fetch ends by its timeout, file operations end.  Hosts
  need not start, run commands, be disposed or die.  Fairness is per host: one that is
  slow owes the other nothing.

## 5. Proofs

Every invariant and every action property of a passing run is a theorem, for every value
of the constants that the module's named assumption admits.  `tlapm` checks the proofs to
the last leaf; the largest module, `QuotaBoardProofs`, takes about five minutes.

The assumptions, each in the module that declares its constants, say of what kind the
constants are and no more than this:

| assumption | beyond kinds of numbers and functions |
|---|---|
| `KeyLeaseAssumption` | finitely many accounts; a cache and a walk of at least one |
| `UsageQueueAssumption` | finitely many events; batches of at least one (sizes may be 0) |
| `StreamCoreAssumption` | nothing |
| `TransportAssumption` | the mark for "no key" is no key; `Leases` may be empty |
| `QuotaBoardAssumption` | finitely many accounts; two requests do not create the same id, nor one that is there (ids are random UUIDs); the initial file is one that a run can leave; caps and workers of at least one |
| `CatalogAssumption`, `LoginAssumption`, `ConversationAssumption` | markers are no catalogs, no keys, no call ids |
| `PlacesAssumption` | nothing |

Two theorems have one hypothesis more: `CacheAdvances` and `RotationsAccounted` hold of a
router that compares the expected lease (`RouterChecksLease`); for the other one the run
`key_lease_board` refutes the second (finding 2).

What is assumed of the environment is in the actions, not in the proofs.

`KeyLeaseProofs`

- `TypeCorrect` (`TypeOK`) and `WaitersServed` (`NoStrandedWaiter`).  Neither is
  inductive alone: that a resolved request holds a real lease needs to know that
  those a task resumes are its waiters, and that each waiter is listed once needs
  the tasks' types.  `Sound` is their conjunction, with one lemma per group of
  actions.
- `CacheAdvances` (`CachedLeaseAdvances`).  A stored answer could be older than the
  cached lease; that it is not needs `Chained`: every lease in the client's cache,
  captured by a task or given as an answer is the router's active one or an older one
  that Command Code has rejected, no answer is older than the lease its task captured,
  and a rotation names a rejected lease.  A store that is not overtaken replaces exactly
  the captured lease.
- `WalksDistinct` (`WalkVisitsDistinctAccounts`).  `WalkBounded` adds that while a call
  walks it may still try one more account, and that the account it sends to is new to
  it: the check is made when a replacement arrives, several steps before the account is
  counted as tried.
- `CacheStaysIndexed` (`CacheIndexed`): the two maps of the cache keep the same
  sessions, each once, within the cap, for caches of any size.  It is inductive over
  `Sound`; the work is in moving a session to the end and evicting the first.
- `UsageAttributed` (`CompletedUsageNamesServingLease`).  `Attributed` adds that between
  a response and the report the request keeps the lease that got the response, and that
  nothing serves a request that has reported.
- `RotationsAccounted` (`OneRotationPerFailure`).  The property counts: there are no
  more leases than first leases and failures.  `Accounted` says why: every lease that
  was issued is a session's active one or was rejected, and no two sessions share an
  active one; with `Chained`, which makes a rotation name a rejected lease, the count
  follows from cardinalities alone.

`UsageQueueProofs`

- `TypesHold`, `BytesStayAccounted`, `NoEventLost`, `AttemptsBounded`, `WakeupsKept`,
  `ShutdownIsFinal`: the six invariants of the run, for any events, sizes, caps, batches
  and budgets.  `IInv` is their conjunction with `Lines` (nothing occurs twice in the
  queue or in the batch, nor in both) and `Fresh` (what was never offered was never
  uploaded).  Without `Lines` neither count is inductive: an event that stood twice in
  the queue would be one element of the set whose bytes are counted.  Each action has a
  lemma; those about shifting a batch off the queue, putting the retained part of one
  back before it and dropping the oldest use the lemmas about sequences without
  repetition at the head of the module.

`SubsequencesProofs`

- `PickAtPositions`: what `PickAt(s, P)` holds at place n is s at the position of P with
  n - 1 others before it, positions keep their order, and every position of P occurs.
  It is the fact about `filter` that three components need.  It rests on
  counting rather than on induction: the number of picked positions before a position is
  an injection of a finite set into an interval of its size, hence a bijection.

`StreamCoreProofs`

- `StreamTypeCorrect`, `BudgetRespected`, `DoneOnlyIfComplete` and
  `ContentNotRepeated` follow from one inductive invariant, `Inv`: types; `Control`,
  which ties the phase, the number of requests, the usage and what was shown to
  where the control stands; and `Current`, that text and thinking are open only at
  the end of the message.  The message lemmas (`TextDeltaSound`, ...) say what each
  kind of line does to a sound message.
- `StreamImplementsProtocol` is the refinement `Spec => ConsumerProtocol`: a line is
  an `Emit` because blocks only grow (`Grows`) and the result is tidy; the end of a
  leg is an `Emit`, `Done` or `Fail`; the outer catch is a `Fail`; everything else
  changes nothing the consumer sees.  The one step that could take blocks back, the
  reset before a retry, is invisible because `CanRetry` holds only when there are
  none.

`TransportProofs`

- `TypesOfTransport`, `LegacyRememberedRightly` (`LegacyOnlyForLegacyKeys`),
  `RequiredFailsClosed` (`FailsClosed`) and `CommittedStaysComplete`
  (`CommittedIsComplete`), for any number of streams, keys and attempts.  The invariant
  is `Typed`, the property of the shared variables, and `Sound(s)` for each stream s:
  `Unbegun` (a stream that has not been connected has sent nothing and shown nothing),
  `OwnKey` (without leases an attempt uses the key of the call, so an upgrade-required
  answer is about that key), `Shown` (what the consumer has, what is held back and where
  `run()` stands agree), `Kept` (a required capture is begun before its stream, and
  `COMMITTED` is the last thing that happens) and `Bounded`.  A step moves one stream
  (`OneMoves`), and the others stay sound (`StaysSound`), so there is one lemma per
  action.
- `BestEffortUnseen` (`BestEffortIsInvisible`: the finalising step of a best-effort
  capture leaves the terminal event alone; that the step comes is `EveryStreamEnds`) and `ProtocolOfConsumers`
  (`ConsumerProtocol`, the refinement of `EventStream` by every stream) follow from it:
  each action is `Start`, `Emit`, `Done`, `Fail` or nothing for its own stream
  (`StreamShows`) and nothing for the others.

`CatalogProofs`

- `CacheIsWhole` (`CacheFileWhole`) and `RegistrationsAdvance` (`CatalogNeverRegresses`),
  for any number of hosts.  `CatalogInv` strengthens the first by what a host holds: a
  load that is past its request has a whole catalog, and when it is about to rename,
  the temporary file of its name holds that catalog, because no other process writes
  it.  The second needs that the status describes the registered catalog (so a catalog
  is never taken for "none yet") and that a host that has not read the cache has
  registered nothing.
- `TypesOfCatalog` (`CatalogTypeOK`), which says beside the types that the status calls a
  host refreshing exactly while its refresh runs.  `Coalesced` adds that those who wait
  are commands that were issued, or the start, and wait only while a refresh runs.

`QuotaBoardProofs`

- `BoardInv` has two layers.  `QueueInv` is about the store: the file is `Sound` (its
  type, one active lease per session, snapshots of accounts that are there), the draft
  of the first task is an effect of its update on the file *as it still is*
  (`DraftsCurrent`), and the queued updates are wanted by exactly those requests and
  workers that await them, each once (`QueueOwned`, `QueueDistinct`, `QueueComplete`).
  `RequestsFine` is about the requests: an account was refreshed or missed, once, exactly
  when the cursor of its walk is past it and no worker has it any more (`VisitsSound`,
  which needs that no two workers have the same account and is part of `WalkSound`; with
  `WalkFits`), an update that was applied is not asked for again
  (`AllSpent`), what was answered with success was applied (`AnswerTrue`), every account
  a walk counts as refreshed has an update that was (`StoredTrue`), and no more updates
  of the walk were applied than those, one for each failure excepted (`CountsTrue`).
- `OneLeaseActive` (`OneActiveLease`), `SnapshotsStay` (`SnapshotsOfAccounts`) and
  `TypesOfTheBoard` (`BoardTypeOK`) come from the first layer, `RefreshesAccounted`
  (`RefreshAllAccounted`) from the second, whatever files fail and however often the
  server crashes: an answered walk has no worker left and its cursor at the end, so that
  `VisitsSound` is about all of its accounts and no other, and the rest is a count of
  finite sets (`WalkOver`, `AccountsOf`).
- `BoardIsAtomicStore` is the refinement `BoardSpec => StoreIsAtomic`: a commit is the
  update of the abstract store, since by `DraftsCurrent` no other update came between its
  read and its rename; an acknowledgement names an update that was applied; everything
  else, crashes included, is a stutter.

`ServiceProofs`

- `EveryConversationPaired` (`ConversationPaired`), for transcripts of any length with
  messages of any number of parts.  `Coherent` says that a call belongs to one message,
  is not among the lost ones, and is made before its result.  The property reads the
  output, where positions have shifted: the lemma about `PickAt` brings them back to
  places among the candidates, whose parity tells a first push from a second.
- `QuotaIsTruthful` (`QuotaTruthful`), for any number of places a key may come from.
  `QuotaInv` adds which replies can be in at each phase (`Progress`), and that the key
  was picked once (`Asked`).  That the key is the *first* that is not empty needs a least
  place, which `LeastNatural` gets from the well-foundedness of the natural numbers.
- `LoginIsClean` (`LoginSettlesCleanly`) and `TypesOfLogin` (`LoginTypeOK`, which says
  beside the types that the server listens exactly while the login waits for an
  unsettled callback).  `LoginInv` adds that nobody connects before there is a server,
  and that a callback resolves only to a key posted for this login.

Proved and not among the properties of a run: `TypeOK` of `UsageQueue` (`TypesHold`) and
`LoginTypeOK`.  Every run takes time and these theorems say more than a run could.

Model-checked only: the liveness properties (`EveryCallEnds`, `EveryEventSettles`,
`EveryStreamEnds` of both stream modules, `BoardAnswers`, `RefreshSettles`), which rest
on fairness and `ENABLED`, out of this prover's reach; and the violations of section 6,
which are counterexamples.  Three definitions were written so that they can be
reasoned about: what a `filter` leaves is stated by position and bytes are counted as a
set, because what a recursive definition computes for every input cannot be proved here
(the library's induction theorems take an operator as a parameter, which none of the
installed provers can instantiate).

## 6. Findings

1. `key_lease_retry`: the exclusion set lasts one fetch call.  A retry of the same
   generation by the transport starts with an empty set and may be sent to an
   account that already rejected it, where `src/README.md:381` says consecutive
   exhausted accounts are never retried during the same generation.
2. `key_lease_board`: the repository's own router ignores the failed lease's id, so
   a delayed failure rotates the replacement away, where `src/README.md:373` says it
   reuses the replacement.
3. `stream_timeout`: an attempt timeout while the body is read is taken for the
   caller's abort: the stream ends as `aborted` and is not retried, where
   `src/src/types.ts:126` says it is.
4. `stream_abort`: an abort that arrives while a retried answer is drained (with
   `Retry-After: 0`) or a paused leg's reader is cancelled is not seen by the next
   attempt, which is sent, where `src/tests/test-retry.ts:328` says an abort stops
   retries immediately.
5. `transport_hang`: `finalize()` waits for every tapped body.  `streamCommandCode`
   leaves one unread when it throws for a `Retry-After` above the cap or for its
   `onResponse` hook; the stream then never ends, where `src/docs/reap-capture.md:24`
   says Pi receives an error.
6. `transport_leases`: the remembered transport belongs to the key of the call, the
   request to the key leased for it.  After one account was refused, other accounts
   are sent to the legacy transport unprobed, where `src/CHANGELOG.md:132` says the
   transport is re-detected when credentials change.  (The read at
   `src/src/transport.ts:163` is not tied to the key either: a stream of an older key
   may find the transport of a newer one.)

Behaviour the models have because the code does, and that no document contradicts:

- A callback that arrives after another one, or after the timeout gave up but before
  its connection ended, is answered with success although only the first settlement
  counts (`src/src/auth-server.ts:83`, `:191`).  An `onAuth` that throws leaves the
  callback server listening (`src/src/oauth.ts:182`); hosts' callbacks do not throw in
  the model.
- Two requests that create an account with one key at the same time both succeed
  (`src/quota-board/server/index.ts:257`).
- A lease decided on before its account was deleted is stored for the deleted account;
  the session is answered 404 until it rotates (`src/quota-board/server/index.ts:352`).
- An update whose last `chmod` fails is stored and reported as failed
  (`src/quota-board/server/store.ts:55`); `RefreshAllAccounted` allows for it.
- A blank `COMMAND_CODE_API_KEY`, or one that holds the name of a variable, hides a
  usable key in an auth file: the configured key is the first that is not empty, and is
  judged afterwards (`src/src/converters.ts:162`).  `QuotaTruthful` says exactly this.
- A refresh of the catalog that is past its request when the session shuts down still
  registers (`src/src/runtime.ts`, `dispose`).

## 7. Not modelled

Tables and arithmetic (`cost`, `pricing`, the model tables of `models.ts`), formatting
and display, string patterns (`overflow`), encryption (`vault`), the pages of the
board, the telemetry client, `prompt-cache`, `metrics` (wired to nothing), scripts and
benchmarks, the deployed router (only its documented contract, as
`RouterChecksLease`), pi and pi-ai (callers and an unconstrained event source).

Inside the modelled parts: message texts, JSON parsing, headers, clock values and
token counts, except where a property is about them.  In `QuotaBoard` the four requests
of `fetchAccountSnapshot` are one step, the handlers that only read (dashboard,
verification, key export) are left out, stored keys always decrypt, and ties of the
ranking are broken freely.  In `Catalog` a catalog is a value without entries, and a
process that is reloaded under its own pid is not told from the one before.  In
`Conversation` invalid image data, prompts, schemas and reasoning blocks are left out.
In `QuotaFetch` a member token or a key is only its kind.  `components` in
`PROJECT.json` gives the state of each part.

## 8. Plan

The components with a protocol are modelled and the safety their runs check is proved.
What is left, the most consequential first:

1. Towards liveness, the part that is not `ENABLED`: that the steps fairness speaks of
   decrease something (the requests left to a stream, the attempts left to an event, the
   updates before a task), as action properties with a proof each.
2. The hazards without a property: a renewal answered after its session was evicted
   (`src/src/key-lease.ts:317`), `responseDone` rejected before `finalize()` looks at it
   (`src/src/reap-capture.ts:376`), two creations of an account with one key, a lease
   stored for an account deleted meanwhile, and a snapshot that is older than the one it
   follows (`src/quota-board/server/index.ts:257`, `:384`, `:171`).  `responseDone` is the
   host's policy; the models show the others but the last, for which snapshots would need
   a time; and no document says what should be.
3. A composition of `KeyLease` with `Transport`: the walk over accounts nests inside the
   attempts of a stream, which `Transport` sees only as the choice of `Leases`.
