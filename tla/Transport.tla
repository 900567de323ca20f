------------------------------ MODULE Transport ------------------------------
(***************************************************************************)
(* createCommandCodeTransportRouter (src/transport.ts) over its two sources*)
(* of events, with the REAP capture of a stream (src/reap-capture.ts).     *)
(*                                                                         *)
(* The streams of all requests share the transport that works and the key  *)
(* it was found for.  A stream resolves its options, opens a capture,      *)
(* pipes the Provider API's events or, after 403 upgrade_required, those   *)
(* of the legacy transport, and holds the terminal event until its capture *)
(* is finalised.                                                           *)
(*                                                                         *)
(* A source is pi-ai's stream (external: it pushes start once it is        *)
(* answered) or streamCommandCode (module StreamCore): it makes HTTP       *)
(* attempts, each recorded by captureFetch, and pushes events.  An event   *)
(* is handled when it is pushed: a later `for await` is a later push.      *)
(***************************************************************************)
EXTENDS Naturals, FiniteSets

CONSTANTS
    Streams,       \* calls of stream()
    Keys,          \* API keys that requests come with
    NoKey,         \* apiKey before the first call
    Leases,        \* keys of the accounts the quota board leases, if it does
    LegacyKeys,    \* keys without Provider API access, COMMANDCODE_ENABLE_LEGACY_GO=1
    MaxAttempts,   \* bound: HTTP attempts of each call
    CapturedCalls  \* bound: the calls that are made when streams are captured

ASSUME TransportAssumption ==
    /\ NoKey \notin Keys \cup Leases
    /\ LegacyKeys \subseteq Keys \cup Leases
    /\ MaxAttempts \in [Streams -> Nat]
    /\ CapturedCalls \subseteq Streams

VARIABLES
    transport,        \* "unknown", "provider" or "generate", for all streams
    apiKey,           \* the key it was found for
    captureMode,      \* "off", "bestEffort" or "required", fixed by the environment
    pc,               \* where run() of a stream stands
    requestApiKey,    \* options.apiKey of the call
    source,           \* the source it pipes, and where that stands
    upgradeRequired,  \* the Provider API answered 403 upgrade_required
    terminal,         \* the terminal event held back
    phase,            \* what the consumer has: new, streaming, or its terminal event
    fetches,          \* attempts made
    keyUsed,          \* the key of the last one
    bodies,           \* attempts whose tapped body has not settled (responseDone)
    writing,          \* writes of events wait in the capture's queue
    captureError,     \* this.captureError: none, of recording, or of a tapped body
    bundle            \* the capture's directory: none, inflight or its final marker

routerVars == <<transport, apiKey>>
streamVars == <<pc, requestApiKey, source, upgradeRequired, terminal, phase>>
attemptVars == <<fetches, keyUsed>>
captureVars == <<bodies, writing, captureError, bundle>>
vars == <<routerVars, captureMode, streamVars, attemptVars, captureVars>>

Final == {"done", "error", "aborted"}

Init ==
    /\ transport = "unknown" /\ apiKey = NoKey
    /\ captureMode \in {"off", "bestEffort", "required"}
    /\ pc = [s \in Streams |-> "idle"]
    /\ requestApiKey = [s \in Streams |-> NoKey]
    /\ source = [s \in Streams |-> [kind |-> "none", at |-> "over"]]
    /\ upgradeRequired = [s \in Streams |-> FALSE]
    /\ terminal = [s \in Streams |-> "none"]
    /\ phase = [s \in Streams |-> "new"]
    /\ fetches = [s \in Streams |-> 0]
    /\ keyUsed = [s \in Streams |-> NoKey]
    /\ bodies = [s \in Streams |-> {}]
    /\ writing = [s \in Streams |-> FALSE]
    /\ captureError = [s \in Streams |-> "none"]
    /\ bundle = [s \in Streams |-> "none"]

\* A capture was begun for the stream; its bundle is written while it is in flight.
Captured(s) == bundle[s] # "none"

-----------------------------------------------------------------------------
(***************************************************************************)
(* The beginning of a stream.                                              *)
(***************************************************************************)
MayCall(s) == captureMode = "off" \/ s \in CapturedCalls

\* The synchronous part of stream(): another key than the last one's starts over.
Call(s) ==
    /\ pc[s] = "idle" /\ MayCall(s)
    /\ pc' = [pc EXCEPT ![s] = "resolving"]
    /\ \E key \in Keys :
          /\ requestApiKey' = [requestApiKey EXCEPT ![s] = key]
          /\ apiKey' = key
          /\ transport' = IF key = apiKey THEN transport ELSE "unknown"
    /\ UNCHANGED <<captureMode, source, upgradeRequired, terminal, phase, attemptVars,
                   captureVars>>

\* reset(): nothing in the program calls it, its tests do.
Reset ==
    /\ transport' = "unknown" /\ apiKey' = NoKey
    /\ UNCHANGED <<captureMode, streamVars, attemptVars, captureVars>>

GoesTo(kind) == [kind |-> kind, at |-> IF kind = "generate" THEN "fresh" ELSE "ready"]

\* if (transport === "generate"): whatever stream found it, under whatever key.
Connect(s) ==
    /\ pc' = [pc EXCEPT ![s] = "piping"]
    /\ source' = [source EXCEPT
          ![s] = GoesTo(IF transport = "generate" THEN "generate" ELSE "provider")]
    /\ UNCHANGED <<requestApiKey, upgradeRequired, terminal, phase>>

\* run() ends in the error event of its catch.
Errs(s) ==
    /\ pc' = [pc EXCEPT ![s] = "ended"]
    /\ phase' = [phase EXCEPT ![s] = "error"]
    /\ UNCHANGED <<requestApiKey, source, upgradeRequired, terminal>>

ResolveFails(s) ==
    /\ pc[s] = "resolving"
    /\ Errs(s)
    /\ UNCHANGED <<routerVars, captureMode, attemptVars, captureVars>>

Resolved(s) ==
    /\ pc[s] = "resolving"
    /\ \/ captureMode = "off" /\ Connect(s)
       \/ /\ captureMode # "off"
          /\ pc' = [pc EXCEPT ![s] = "beginning"]
          /\ UNCHANGED <<requestApiKey, source, upgradeRequired, terminal, phase>>
    /\ UNCHANGED <<routerVars, captureMode, attemptVars, captureVars>>

CaptureBegins(s) ==
    /\ pc[s] = "beginning"
    /\ bundle' = [bundle EXCEPT ![s] = "inflight"]
    /\ Connect(s)
    /\ UNCHANGED <<routerVars, captureMode, attemptVars, bodies, writing, captureError>>

BeginFails(s) ==
    /\ pc[s] = "beginning"
    /\ IF captureMode = "required" THEN Errs(s) ELSE Connect(s)
    /\ UNCHANGED <<routerVars, captureMode, attemptVars, captureVars>>

-----------------------------------------------------------------------------
(***************************************************************************)
(* Events of the source, and what run() does with them.                    *)
(***************************************************************************)
\* Mutant: a stream whose key is stale records its transport.
OwnsRouterAlways(s) == TRUE

OwnsRouter(s) == apiKey = requestApiKey[s]

\* Mutant: the fallback's events are dropped like the provider's.
DroppedForGood(s) == upgradeRequired[s]

\* The provider's events are dropped once the legacy transport is to follow.
Dropped(s) == source[s].kind = "provider" /\ upgradeRequired[s]

\* Mutant: terminal events go out at once, whatever becomes of the capture.
HearsAtOnce(s, event) ==
    /\ UNCHANGED transport
    /\ writing' = [writing EXCEPT ![s] = Captured(s)]
    /\ terminal' = [terminal EXCEPT ![s] = IF event \in Final THEN event ELSE @]
    /\ phase' = [phase EXCEPT ![s] = CASE event = "start" -> "streaming"
                                       [] event \in Final -> event [] OTHER -> @]

Hears(s, event) ==
    IF pc[s] # "piping" \/ Dropped(s) THEN UNCHANGED <<transport, writing, terminal, phase>>
    ELSE /\ transport' = IF source[s].kind = "provider" /\ OwnsRouter(s)
                         THEN "provider" ELSE transport
         /\ writing' = [writing EXCEPT ![s] = Captured(s)]
         /\ terminal' = [terminal EXCEPT ![s] = IF event \in Final THEN event ELSE @]
         /\ phase' = [phase EXCEPT ![s] = IF event = "start" THEN "streaming" ELSE @]

\* The source pushes an event and stands at `at`.
Pushes(s, event, at) ==
    /\ Hears(s, event)
    /\ source' = [source EXCEPT ![s].at = at]
    /\ UNCHANGED <<apiKey, captureMode, pc, requestApiKey, upgradeRequired, attemptVars,
                   bodies, captureError, bundle>>

\* The source moves on without an event.
Moves(s, at) ==
    /\ source' = [source EXCEPT ![s].at = at]
    /\ UNCHANGED <<routerVars, captureMode, pc, requestApiKey, terminal, phase, writing, bundle>>

\* streamCommandCode starts at once, or refuses for want of a key.
GenerateStarts(s) ==
    /\ source[s].at = "fresh"
    /\ Pushes(s, "start", "ready") \/ Pushes(s, "error", "over")

ProviderStarts(s) ==
    /\ source[s] = [kind |-> "provider", at |-> "reading"]
    /\ keyUsed[s] \notin LegacyKeys /\ phase[s] = "new"
    /\ Pushes(s, "start", "reading")

Content(s) ==
    /\ source[s].at = "reading" /\ phase[s] = "streaming"
    /\ Pushes(s, "content", "reading")

\* The terminal event: done after a whole body, or an error.
SourceEnds(s) ==
    \/ source[s].at = "read" /\ phase[s] = "streaming" /\ Pushes(s, "done", "over")
    \/ /\ source[s].at \in {"read", "failed", "ready"}
       /\ \E event \in {"error", "aborted"} : Pushes(s, event, "over")

-----------------------------------------------------------------------------
(***************************************************************************)
(* HTTP attempts of the source, through captureFetch when there is one.    *)
(***************************************************************************)
\* resolveOptions() gives a stream a leased key, and its fetch walks to others.
KeysFor(s) == IF Leases = {} THEN {requestApiKey[s]} ELSE Leases

Fetch(s) ==
    /\ source[s].at \in {"ready", "read", "failed"} /\ fetches[s] < MaxAttempts[s]
    /\ source[s].kind = "provider" => phase[s] = "new" /\ ~upgradeRequired[s]
    /\ fetches' = [fetches EXCEPT ![s] = @ + 1]
    /\ \E key \in KeysFor(s) : keyUsed' = [keyUsed EXCEPT ![s] = key]
    /\ Moves(s, "fetching")
    /\ UNCHANGED <<upgradeRequired, bodies, captureError>>

FailsToRecord(s, what) ==
    captureError' = [captureError EXCEPT ![s] = IF @ = "body" THEN @ ELSE what]

\* Some file of the capture may not be written; "body": that rejects a responseDone.
MayFailToRecord(s) ==
    \/ UNCHANGED captureError
    \/ Captured(s) /\ \E what \in {"recording", "body"} : FailsToRecord(s, what)

\* The request fails, or is not made (or its answer not returned) because it cannot
\* be recorded.
FetchThrows(s) ==
    /\ source[s].at = "fetching"
    /\ MayFailToRecord(s)
    /\ Moves(s, "failed")
    /\ UNCHANGED <<upgradeRequired, attemptVars, bodies>>

\* Mutant: the index is taken after the attempt was pushed.
AttemptIndexAfterPush(s) == fetches[s] + 1

AttemptIndex(s) == fetches[s]

\* An answer whose body will be recorded while it is read.  It is not when nothing
\* captures it or, without `required`, when recording has failed; one without a body
\* has settled.
FetchAnswers(s) ==
    /\ source[s].at = "fetching"
    /\ \/ /\ Captured(s)
          /\ bodies' = [bodies EXCEPT ![s] = @ \cup {AttemptIndex(s)}]
          /\ UNCHANGED captureError
       \/ /\ IF captureMode = "required" THEN UNCHANGED captureError ELSE MayFailToRecord(s)
          /\ UNCHANGED bodies
    /\ Moves(s, "reading")
    /\ UNCHANGED <<upgradeRequired, attemptVars>>

\* 403 upgrade_required; isUpgradeRequired reads a clone of the body to its end.
UpgradeRequired(s) ==
    /\ source[s] = [kind |-> "provider", at |-> "fetching"]
    /\ keyUsed[s] \in LegacyKeys
    /\ upgradeRequired' = [upgradeRequired EXCEPT ![s] = TRUE]
    /\ MayFailToRecord(s)
    /\ Moves(s, "failed")
    /\ UNCHANGED <<attemptVars, bodies>>

\* The body was read to its end, was cancelled or broke.
BodySettles(s) ==
    /\ source[s].at = "reading"
    /\ bodies' = [bodies EXCEPT ![s] = @ \ {fetches[s]}]
    /\ MayFailToRecord(s)
    /\ Moves(s, "read") \/ Moves(s, "failed")
    /\ UNCHANGED <<upgradeRequired, attemptVars>>

\* streamCommandCode throws for a Retry-After above the cap, or when onResponse throws
\* or times out, before it has looked at the body.
BodyLeft(s) ==
    /\ source[s] = [kind |-> "generate", at |-> "reading"]
    /\ Moves(s, "failed")
    /\ UNCHANGED <<upgradeRequired, attemptVars, bodies, captureError>>

-----------------------------------------------------------------------------
(***************************************************************************)
(* The end of a stream.                                                    *)
(***************************************************************************)
\* emit(terminal) and output.end().
Forwards(s) ==
    /\ pc' = [pc EXCEPT ![s] = "ended"]
    /\ phase' = [phase EXCEPT ![s] = terminal[s]]
    /\ UNCHANGED <<requestApiKey, source, upgradeRequired, terminal>>

\* The source is exhausted: the legacy transport follows the provider's refusal;
\* otherwise the capture is finalised before the terminal event goes out.
PipeEnds(s) ==
    /\ pc[s] = "piping" /\ source[s].at = "over"
    /\ \/ /\ Dropped(s)
          /\ transport' = IF OwnsRouter(s) THEN "generate" ELSE transport
          /\ source' = [source EXCEPT ![s] = GoesTo("generate")]
          /\ UNCHANGED <<pc, requestApiKey, upgradeRequired, terminal, phase>>
       \/ /\ ~Dropped(s) /\ Captured(s)
          /\ pc' = [pc EXCEPT ![s] = "finalizing"]
          /\ UNCHANGED <<transport, requestApiKey, source, upgradeRequired, terminal, phase>>
       \/ /\ ~Dropped(s) /\ ~Captured(s)
          /\ Forwards(s)
          /\ UNCHANGED transport
    /\ UNCHANGED <<apiKey, captureMode, attemptVars, captureVars>>

\* A source or an observer of an event throws.
PipeThrows(s) ==
    /\ pc[s] = "piping"
    /\ IF Captured(s)
       THEN /\ pc' = [pc EXCEPT ![s] = "failing"]
            /\ writing' = [writing EXCEPT ![s] = TRUE]
            /\ UNCHANGED <<requestApiKey, source, upgradeRequired, terminal, phase>>
       ELSE Errs(s) /\ UNCHANGED writing
    /\ UNCHANGED <<routerVars, captureMode, attemptVars, bodies, captureError, bundle>>

\* The capture's queue has written what was observed, or failed to.
QueueDrains(s) ==
    /\ writing[s]
    /\ writing' = [writing EXCEPT ![s] = FALSE]
    /\ UNCHANGED captureError \/ FailsToRecord(s, "recording")
    /\ UNCHANGED <<routerVars, captureMode, streamVars, attemptVars, bodies, bundle>>

\* Mutant: finalize() does not wait for the queue.
RecordedBodiesOnly(s) == bodies[s] = {}

\* What finalize() awaits: the queue, and every tapped body or the first that fails.
Recorded(s) == ~writing[s] /\ (bodies[s] = {} \/ captureError[s] = "body")

\* Mutant: an earlier error of the capture does not show in the marker.
MarkerOfTerminal(s, status) == status

Marker(s, status) == IF captureError[s] = "none" THEN status ELSE "FAILED"

\* finalize(): nothing is committed after an error of a required capture; else the
\* directory gets its marker and its final name, unless that fails too.
Commits(s, status) ==
    /\ (captureMode = "required" => captureError[s] = "none")
    /\ bundle' = [bundle EXCEPT ![s] = Marker(s, status)]
    /\ UNCHANGED captureError

CommitFails(s) ==
    /\ FailsToRecord(s, "recording")
    /\ UNCHANGED bundle

\* Mutant: a best-effort capture fails its stream.
CommitErrorReachesPiAlways == TRUE

\* Mutant: run() goes on when finalize() throws.
CommitErrorReachesPiNever == FALSE

\* finalize() rethrows for a required capture.
CommitErrorReachesPi == captureMode = "required"

StatusOf(event) ==
    CASE event = "done" -> "COMMITTED" [] event = "aborted" -> "ABORTED" [] OTHER -> "FAILED"

Finalize(s) ==
    /\ pc[s] = "finalizing" /\ Recorded(s)
    /\ \/ Commits(s, StatusOf(terminal[s])) /\ Forwards(s)
       \/ CommitFails(s) /\ IF CommitErrorReachesPi THEN Errs(s) ELSE Forwards(s)
    /\ UNCHANGED <<routerVars, captureMode, attemptVars, bodies, writing>>

\* The catch of run() finalises an open capture; an error of it is only reported.
CatchFinalizes(s) ==
    /\ pc[s] = "failing" /\ Recorded(s)
    /\ (\E status \in {"FAILED", "ABORTED"} : Commits(s, status)) \/ CommitFails(s)
    /\ Errs(s)
    /\ UNCHANGED <<routerVars, captureMode, attemptVars, bodies, writing>>

-----------------------------------------------------------------------------
SourceAdvances(s) ==
    \/ GenerateStarts(s) \/ SourceEnds(s) \/ FetchThrows(s)
    \/ FetchAnswers(s) \/ UpgradeRequired(s) \/ BodySettles(s) \/ BodyLeft(s)

\* finalize() waits for a body that nobody reads any more.
WaitsForLeftBody(s) ==
    /\ pc[s] \in {"finalizing", "failing"} /\ source[s].at = "over"
    /\ ~writing[s] /\ ~Recorded(s)

Ended ==
    /\ \A s \in Streams : MayCall(s) =>
          source[s].at = "over" /\ (pc[s] = "ended" \/ WaitsForLeftBody(s))
    /\ UNCHANGED vars

Next ==
    \/ \E s \in Streams :
          \/ Call(s) \/ ResolveFails(s) \/ Resolved(s) \/ CaptureBegins(s) \/ BeginFails(s)
          \/ GenerateStarts(s) \/ ProviderStarts(s) \/ Content(s) \/ SourceEnds(s)
          \/ Fetch(s) \/ FetchThrows(s) \/ FetchAnswers(s) \/ UpgradeRequired(s)
          \/ BodySettles(s) \/ BodyLeft(s)
          \/ PipeEnds(s) \/ PipeThrows(s) \/ QueueDrains(s) \/ Finalize(s) \/ CatchFinalizes(s)
    \/ Reset
    \/ Ended

Spec == Init /\ [][Next]_vars

RunAdvances(s) ==
    \/ ResolveFails(s) \/ Resolved(s) \/ CaptureBegins(s) \/ BeginFails(s)
    \/ PipeEnds(s) \/ Finalize(s) \/ CatchFinalizes(s)

\* Sources end (their attempts are bounded and time out), files are written or not, and
\* run() goes on.
FairSpec ==
    /\ Spec
    /\ \A s \in Streams :
          WF_vars(SourceAdvances(s)) /\ WF_vars(QueueDrains(s)) /\ WF_vars(RunAdvances(s))

-----------------------------------------------------------------------------
\* Type correctness; a capture waits only for attempts that were made.
TypeOK ==
    /\ transport \in {"unknown", "provider", "generate"}
    /\ apiKey \in Keys \cup {NoKey}
    /\ captureMode \in {"off", "bestEffort", "required"}
    /\ pc \in [Streams -> {"idle", "resolving", "beginning", "piping", "finalizing",
                           "failing", "ended"}]
    /\ requestApiKey \in [Streams -> Keys \cup {NoKey}]
    /\ source \in [Streams -> [kind : {"none", "provider", "generate"},
                               at : {"fresh", "ready", "fetching", "reading", "read",
                                     "failed", "over"}]]
    /\ upgradeRequired \in [Streams -> BOOLEAN]
    /\ terminal \in [Streams -> Final \cup {"none"}]
    /\ phase \in [Streams -> Final \cup {"new", "streaming"}]
    /\ fetches \in [Streams -> Nat] /\ keyUsed \in [Streams -> Keys \cup Leases \cup {NoKey}]
    /\ bodies \in [Streams -> SUBSET Nat]
    /\ \A s \in Streams : fetches[s] <= MaxAttempts[s] /\ bodies[s] \subseteq 1..fetches[s]
    /\ writing \in [Streams -> BOOLEAN]
    /\ captureError \in [Streams -> {"none", "recording", "body"}]
    /\ bundle \in [Streams -> {"none", "inflight", "COMMITTED", "ABORTED", "FAILED"}]

\* The consumer's protocol, whichever sources follow each other and whatever becomes of
\* the capture.  (Its blocks are StreamCore's and pi-ai's concern.)
Consumer(s) == INSTANCE EventStream WITH phase <- phase[s], blocks <- <<>>

ConsumerProtocol ==
    /\ \A s \in Streams : Consumer(s)!Init
    /\ [][\A s \in Streams : Consumer(s)!Next \/ UNCHANGED phase[s]]_vars

\* "prevent stale in-flight requests from overwriting the new credential's transport":
\* the legacy transport is remembered only for a key that needs it.  (Of options.apiKey:
\* when keys are leased it says nothing of the key that is used.)
LegacyOnlyForLegacyKeys == Leases = {} /\ transport = "generate" => apiKey \in LegacyKeys

\* "Pi receives an error instead of a successful terminal event when a replay bundle
\* cannot be committed."
FailsClosed ==
    \A s \in Streams :
        captureMode = "required" /\ phase[s] = "done" => bundle[s] = "COMMITTED"

\* "COMMITTED is the replay-eligibility marker": whatever was observed or read has been
\* recorded by then without an error, and the stream was done.
CommittedIsComplete ==
    \A s \in Streams : bundle[s] = "COMMITTED" =>
        /\ terminal[s] = "done" /\ captureError[s] = "none"
        /\ bodies[s] = {} /\ ~writing[s]

\* Without `required`, the step that finalises a capture leaves the terminal event what
\* the source made it, however the capture fared.  (That the step comes at all is the
\* matter of EveryStreamEnds.)
BestEffortIsInvisible ==
    [][\A s \in Streams : captureMode # "required" /\ pc[s] = "finalizing"
                           => phase'[s] \in {phase[s], terminal[s]}]_vars

\* Every stream ends, or its capture waits for a body that its source has left.
EveryStreamEnds ==
    \A s \in Streams : pc[s] # "idle" ~> pc[s] = "ended" \/ WaitsForLeftBody(s)

\* The same doc, of a stream whose bundle waits to be committed: Pi receives an event.
PiReceivesTerminal == \A s \in Streams : pc[s] = "finalizing" ~> pc[s] = "ended"

\* "Remember the detected transport for the running process, re-detect it when
\* credentials change": a key is sent to the legacy transport unprobed only if it
\* needs it.
RedetectedForEachKey ==
    \A s \in Streams :
        source[s].kind = "generate" /\ ~upgradeRequired[s] /\ fetches[s] > 0
            => keyUsed[s] \in LegacyKeys
=============================================================================
