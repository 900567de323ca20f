--------------------------- MODULE TransportProofs ---------------------------
(***************************************************************************)
(* Safety of Transport for every set of streams, keys, leases and legacy   *)
(* keys and every number of attempts: the properties of the run transport  *)
(* but its liveness.                                                       *)
(***************************************************************************)
EXTENDS Transport, Sequences, TLAPS

(***************************************************************************)
(* The inductive invariant, a conjunction of facts about one stream each.  *)
(***************************************************************************)
\* What has not begun: no source, no attempt, no event.
Unbegun(s) ==
    pc[s] \in {"idle", "resolving", "beginning"} =>
        /\ source[s].at = "over" /\ ~upgradeRequired[s] /\ fetches[s] = 0
        /\ terminal[s] = "none" /\ phase[s] = "new" /\ bundle[s] = "none"

\* Without leases the only key a stream uses is its own.
OwnKey(s) ==
    /\ source[s].at = "fetching" => fetches[s] > 0
    /\ Leases = {} /\ fetches[s] > 0 => keyUsed[s] = requestApiKey[s]
    /\ Leases = {} /\ upgradeRequired[s] => requestApiKey[s] \in LegacyKeys

ProviderAsked(s) == source[s] = [kind |-> "provider", at |-> "fetching"]

\* The consumer has its terminal event when run() has ended; nothing reaches it from a
\* provider that refuses; what is held back ends a stream that can end so.
Shown(s) ==
    /\ pc[s] = "ended" <=> phase[s] \in Final
    /\ pc[s] = "piping" =>
          /\ source[s].at = "over" /\ ~Dropped(s) => terminal[s] \in Final
          /\ source[s].at = "fresh" \/ Dropped(s) \/ ProviderAsked(s) => phase[s] = "new"
    /\ pc[s] = "finalizing" => terminal[s] \in Final /\ source[s].at = "over"
    /\ pc[s] \in {"piping", "finalizing"} /\ terminal[s] = "done" => phase[s] = "streaming"

\* A required capture is begun before its stream is, and the marker COMMITTED is the
\* last thing that happens to a stream.
Kept(s) ==
    /\ captureMode = "required" =>
          /\ pc[s] \in {"piping", "finalizing"} => Captured(s)
          /\ phase[s] = "done" => bundle[s] = "COMMITTED"
    /\ bundle[s] = "COMMITTED" =>
          /\ pc[s] = "ended" /\ source[s].at = "over"
          /\ terminal[s] = "done" /\ captureError[s] = "none"
          /\ bodies[s] = {} /\ ~writing[s]

\* Attempts are bounded, and a capture waits only for bodies of attempts that were made.
Bounded(s) == fetches[s] <= MaxAttempts[s] /\ bodies[s] \subseteq 1..fetches[s]

Sound(s) == Bounded(s) /\ Unbegun(s) /\ OwnKey(s) /\ Shown(s) /\ Kept(s)

\* The types, by the code that owns the state.
RunTyped ==
    /\ transport \in {"unknown", "provider", "generate"}
    /\ apiKey \in Keys \cup {NoKey}
    /\ captureMode \in {"off", "bestEffort", "required"}
    /\ pc \in [Streams -> {"idle", "resolving", "beginning", "piping", "finalizing",
                           "failing", "ended"}]
    /\ requestApiKey \in [Streams -> Keys \cup {NoKey}]
    /\ upgradeRequired \in [Streams -> BOOLEAN]
Sources == [kind : {"none", "provider", "generate"},
            at : {"fresh", "ready", "fetching", "reading", "read", "failed", "over"}]
EventsTyped ==
    /\ source \in [Streams -> Sources]
    /\ terminal \in [Streams -> Final \cup {"none"}]
    /\ phase \in [Streams -> Final \cup {"new", "streaming"}]
AttemptsTyped ==
    /\ fetches \in [Streams -> Nat]
    /\ keyUsed \in [Streams -> Keys \cup Leases \cup {NoKey}]
    /\ bodies \in [Streams -> SUBSET Nat]
CaptureTyped ==
    /\ writing \in [Streams -> BOOLEAN]
    /\ captureError \in [Streams -> {"none", "recording", "body"}]
    /\ bundle \in [Streams -> {"none", "inflight", "COMMITTED", "ABORTED", "FAILED"}]

Typed == RunTyped /\ EventsTyped /\ AttemptsTyped /\ CaptureTyped

Inv == Typed /\ LegacyOnlyForLegacyKeys /\ \A s \in Streams : Sound(s)


\* A step of another stream.
Stays(t) ==
    /\ pc'[t] = pc[t] /\ requestApiKey'[t] = requestApiKey[t] /\ source'[t] = source[t]
    /\ upgradeRequired'[t] = upgradeRequired[t] /\ terminal'[t] = terminal[t]
    /\ phase'[t] = phase[t] /\ fetches'[t] = fetches[t] /\ keyUsed'[t] = keyUsed[t]
    /\ bodies'[t] = bodies[t] /\ writing'[t] = writing[t]
    /\ captureError'[t] = captureError[t] /\ bundle'[t] = bundle[t]

\* What the runs check of it.
LEMMA InvTypes == Inv => TypeOK
  BY DEF Inv, TypeOK, Typed, RunTyped, EventsTyped, Sources, AttemptsTyped, CaptureTyped,
         Sound, Bounded

-----------------------------------------------------------------------------
(***************************************************************************)
(* One stream moves.                                                       *)
(***************************************************************************)
\* A stream that did not move is as sound as before.
LEMMA StaysSound ==
    ASSUME NEW t \in Streams, Sound(t), Stays(t), UNCHANGED captureMode
    PROVE  Sound(t)'
  <1>1. Unbegun(t)' /\ Bounded(t)'
    BY DEF Sound, Stays, Unbegun, Bounded
  <1>2. OwnKey(t)'
    BY DEF Sound, Stays, OwnKey
  <1>3. Shown(t)'
    BY DEF Sound, Stays, Shown, Dropped, ProviderAsked
  <1>4. Kept(t)'
    BY DEF Sound, Stays, Kept, Captured
  <1> QED BY <1>1, <1>2, <1>3, <1>4 DEF Sound

\* So it is enough to look at the stream that moves.
LEMMA OneMoves ==
    ASSUME Inv, NEW s \in Streams, Typed', LegacyOnlyForLegacyKeys', UNCHANGED captureMode,
           \A t \in Streams \ {s} : Stays(t), Sound(s)'
    PROVE  Inv'
  <1>1. ASSUME NEW t \in Streams PROVE Sound(t)'
    <2>1. CASE t = s
      BY <2>1
    <2>2. CASE t # s
      BY <2>2, StaysSound DEF Inv
    <2> QED BY <2>1, <2>2
  <1> QED BY <1>1 DEF Inv

\* A call.
LEMMA CallKeeps ==
    ASSUME Inv, NEW s \in Streams, Call(s)
    PROVE  Inv'
  <1>0. Typed /\ LegacyOnlyForLegacyKeys /\ Sound(s) /\ UNCHANGED captureMode
    BY DEF Inv, Call
  <1>1. Typed'
    <2>1. RunTyped'
      BY <1>0 DEF Typed, RunTyped, Call
    <2>2. EventsTyped'
      BY <1>0 DEF Typed, EventsTyped, Call
    <2>3. AttemptsTyped'
      BY <1>0 DEF Typed, AttemptsTyped, Call, attemptVars, captureVars
    <2>4. CaptureTyped'
      BY <1>0 DEF Typed, CaptureTyped, Call, captureVars
    <2> QED BY <2>1, <2>2, <2>3, <2>4 DEF Typed
  <1>2. \A t \in Streams \ {s} : Stays(t)
    BY <1>0 DEF Stays, Call, attemptVars, captureVars
  <1>3. LegacyOnlyForLegacyKeys'
    BY <1>0 DEF LegacyOnlyForLegacyKeys, Call
  <1>4. Bounded(s)'
    BY <1>0, TransportAssumption DEF Bounded, Sound, Call, attemptVars, captureVars
  <1>5. Unbegun(s)'
    BY <1>0 DEF Sound, Unbegun, Call, attemptVars, captureVars
  <1>6. OwnKey(s)'
    BY <1>0 DEF Sound, Unbegun, OwnKey, Call, attemptVars
  <1>7. Shown(s)'
    BY <1>0 DEF Sound, Shown, Call
  <1>8. Kept(s)'
    BY <1>0 DEF Sound, Kept, Call, captureVars
  <1> QED BY <1>0, <1>1, <1>2, <1>3, <1>4, <1>5, <1>6, <1>7, <1>8, OneMoves DEF Sound

\* Its options cannot be resolved.
LEMMA ResolveFailsKeeps ==
    ASSUME Inv, NEW s \in Streams, ResolveFails(s)
    PROVE  Inv'
  <1>0. Typed /\ LegacyOnlyForLegacyKeys /\ Sound(s) /\ UNCHANGED captureMode
    BY DEF Inv, ResolveFails
  <1>1. Typed'
    <2>1. RunTyped'
      BY <1>0 DEF Typed, RunTyped, ResolveFails, Errs, routerVars
    <2>2. EventsTyped'
      BY <1>0 DEF Typed, EventsTyped, Final, ResolveFails, Errs
    <2>3. AttemptsTyped'
      BY <1>0 DEF Typed, AttemptsTyped, ResolveFails, attemptVars, captureVars
    <2>4. CaptureTyped'
      BY <1>0 DEF Typed, CaptureTyped, ResolveFails, captureVars
    <2> QED BY <2>1, <2>2, <2>3, <2>4 DEF Typed
  <1>2. \A t \in Streams \ {s} : Stays(t)
    BY <1>0 DEF Stays, ResolveFails, Errs, attemptVars, captureVars
  <1>3. LegacyOnlyForLegacyKeys'
    BY <1>0 DEF LegacyOnlyForLegacyKeys, ResolveFails, routerVars
  <1>4. Bounded(s)'
    BY <1>0, TransportAssumption DEF Bounded, Sound, ResolveFails, attemptVars, captureVars
  <1>5. Unbegun(s)'
    BY <1>0 DEF Typed, RunTyped, Unbegun, ResolveFails, Errs
  <1>6. OwnKey(s)'
    BY <1>0 DEF Sound, OwnKey, ResolveFails, Errs, attemptVars
  <1>7. Shown(s)'
    BY <1>0 DEF Typed, RunTyped, EventsTyped, Shown, Final, ResolveFails, Errs
  <1>8. Kept(s)'
    BY <1>0 DEF Sound, Kept, ResolveFails, Errs, captureVars
  <1> QED BY <1>0, <1>1, <1>2, <1>3, <1>4, <1>5, <1>6, <1>7, <1>8, OneMoves DEF Sound

\* They are.
LEMMA ResolvedKeeps ==
    ASSUME Inv, NEW s \in Streams, Resolved(s)
    PROVE  Inv'
  <1>0. Typed /\ LegacyOnlyForLegacyKeys /\ Sound(s) /\ UNCHANGED captureMode
    BY DEF Inv, Resolved
  <1>1. Typed'
    <2>1. RunTyped'
      BY <1>0 DEF Typed, RunTyped, Resolved, Connect, routerVars
    <2>2. EventsTyped'
      BY <1>0 DEF Typed, EventsTyped, Sources, Resolved, Connect, GoesTo
    <2>3. AttemptsTyped'
      BY <1>0 DEF Typed, AttemptsTyped, Resolved, attemptVars, captureVars
    <2>4. CaptureTyped'
      BY <1>0 DEF Typed, CaptureTyped, Resolved, captureVars
    <2> QED BY <2>1, <2>2, <2>3, <2>4 DEF Typed
  <1>2. \A t \in Streams \ {s} : Stays(t)
    BY <1>0 DEF Typed, RunTyped, EventsTyped, Stays, Resolved, Connect, attemptVars, captureVars
  <1>3. LegacyOnlyForLegacyKeys'
    BY <1>0 DEF LegacyOnlyForLegacyKeys, Resolved, routerVars
  <1>4. Bounded(s)'
    BY <1>0, TransportAssumption DEF Bounded, Sound, Resolved, attemptVars, captureVars
  <1>5. Unbegun(s)'
    BY <1>0 DEF Typed, RunTyped, Sound, Unbegun, Resolved, Connect, attemptVars, captureVars
  <1>6. OwnKey(s)'
    BY <1>0 DEF Typed, EventsTyped, Sound, OwnKey, Resolved, Connect, GoesTo, attemptVars
  <1>7. Shown(s)'
    BY <1>0 DEF Typed, RunTyped, EventsTyped, Sound, Unbegun, Shown, Resolved, Connect, GoesTo
  <1>8. Kept(s)'
    BY <1>0 DEF Typed, RunTyped, Sound, Kept, Resolved, captureVars
  <1> QED BY <1>0, <1>1, <1>2, <1>3, <1>4, <1>5, <1>6, <1>7, <1>8, OneMoves DEF Sound

\* The capture begins.
LEMMA CaptureBeginsKeeps ==
    ASSUME Inv, NEW s \in Streams, CaptureBegins(s)
    PROVE  Inv'
  <1>0. Typed /\ LegacyOnlyForLegacyKeys /\ Sound(s) /\ UNCHANGED captureMode
    BY DEF Inv, CaptureBegins
  <1>1. Typed'
    <2>1. RunTyped'
      BY <1>0 DEF Typed, RunTyped, CaptureBegins, Connect, routerVars
    <2>2. EventsTyped'
      BY <1>0 DEF Typed, EventsTyped, Sources, CaptureBegins, Connect, GoesTo
    <2>3. AttemptsTyped'
      BY <1>0 DEF Typed, AttemptsTyped, CaptureBegins, attemptVars
    <2>4. CaptureTyped'
      BY <1>0 DEF Typed, CaptureTyped, CaptureBegins
    <2> QED BY <2>1, <2>2, <2>3, <2>4 DEF Typed
  <1>2. \A t \in Streams \ {s} : Stays(t)
    BY <1>0 DEF Stays, CaptureBegins, Connect, attemptVars
  <1>3. LegacyOnlyForLegacyKeys'
    BY <1>0 DEF LegacyOnlyForLegacyKeys, CaptureBegins, routerVars
  <1>4. Bounded(s)'
    BY <1>0, TransportAssumption DEF Bounded, Sound, CaptureBegins, attemptVars
  <1>5. Unbegun(s)'
    BY <1>0 DEF Typed, RunTyped, Unbegun, CaptureBegins, Connect
  <1>6. OwnKey(s)'
    BY <1>0 DEF Sound, OwnKey, CaptureBegins, Connect, GoesTo, attemptVars
  <1>7. Shown(s)'
    BY <1>0 DEF Typed, EventsTyped, Sound, Unbegun, Shown, CaptureBegins, Connect, GoesTo
  <1>8. Kept(s)'
    BY <1>0 DEF Typed, CaptureTyped, Sound, Kept, Captured, CaptureBegins, Connect
  <1> QED BY <1>0, <1>1, <1>2, <1>3, <1>4, <1>5, <1>6, <1>7, <1>8, OneMoves DEF Sound

\* It cannot be begun.
LEMMA BeginFailsKeeps ==
    ASSUME Inv, NEW s \in Streams, BeginFails(s)
    PROVE  Inv'
  <1>0. Typed /\ LegacyOnlyForLegacyKeys /\ Sound(s) /\ UNCHANGED captureMode
    BY DEF Inv, BeginFails
  <1>1. Typed'
    <2>1. RunTyped'
      BY <1>0 DEF Typed, RunTyped, BeginFails, Connect, Errs, routerVars
    <2>2. EventsTyped'
      <3>1. source' \in [Streams -> Sources]
        BY <1>0 DEF Typed, EventsTyped, Sources, BeginFails, Connect, GoesTo, Errs
      <3>2. terminal' \in [Streams -> Final \cup {"none"}]
        BY <1>0 DEF Typed, EventsTyped, BeginFails, Connect, Errs
      <3>3. phase' \in [Streams -> Final \cup {"new", "streaming"}]
        BY <1>0 DEF Typed, EventsTyped, Final, BeginFails, Connect, Errs
      <3> QED BY <3>1, <3>2, <3>3 DEF EventsTyped
    <2>3. AttemptsTyped'
      BY <1>0 DEF Typed, AttemptsTyped, BeginFails, attemptVars, captureVars
    <2>4. CaptureTyped'
      BY <1>0 DEF Typed, CaptureTyped, BeginFails, captureVars
    <2> QED BY <2>1, <2>2, <2>3, <2>4 DEF Typed
  <1>2. \A t \in Streams \ {s} : Stays(t)
    BY <1>0 DEF Typed, RunTyped, EventsTyped, Stays, BeginFails, Connect, Errs, attemptVars,
                captureVars
  <1>3. LegacyOnlyForLegacyKeys'
    BY <1>0 DEF LegacyOnlyForLegacyKeys, BeginFails, routerVars
  <1>4. Bounded(s)'
    BY <1>0, TransportAssumption DEF Bounded, Sound, BeginFails, attemptVars, captureVars
  <1>5. Unbegun(s)'
    BY <1>0 DEF Typed, RunTyped, Unbegun, BeginFails, Connect, Errs
  <1>6. OwnKey(s)'
    BY <1>0 DEF Typed, EventsTyped, Sound, OwnKey, BeginFails, Connect, GoesTo, Errs,
                attemptVars
  <1>7. Shown(s)'
    BY <1>0 DEF Typed, RunTyped, EventsTyped, Sound, Unbegun, Shown, Final, BeginFails,
                Connect, GoesTo, Errs
  <1>8. Kept(s)'
    BY <1>0 DEF Typed, RunTyped, EventsTyped, Sound, Kept, BeginFails, Errs, captureVars
  <1> QED BY <1>0, <1>1, <1>2, <1>3, <1>4, <1>5, <1>6, <1>7, <1>8, OneMoves DEF Sound

\* The legacy transport starts, or refuses.
LEMMA GenerateStartsKeeps ==
    ASSUME Inv, NEW s \in Streams, GenerateStarts(s)
    PROVE  Inv'
  <1>0. Typed /\ LegacyOnlyForLegacyKeys /\ Sound(s) /\ UNCHANGED captureMode
    BY DEF Inv, GenerateStarts, Pushes
  <1>1. Typed'
    <2>1. RunTyped'
      BY <1>0 DEF Typed, RunTyped, GenerateStarts, Pushes, Hears
    <2>2. EventsTyped'
      <3>1. source' \in [Streams -> Sources]
        BY <1>0 DEF Typed, EventsTyped, Sources, GenerateStarts, Pushes
      <3>2. terminal' \in [Streams -> Final \cup {"none"}]
        BY <1>0 DEF Typed, EventsTyped, GenerateStarts, Pushes, Hears
      <3>3. phase' \in [Streams -> Final \cup {"new", "streaming"}]
        BY <1>0 DEF Typed, EventsTyped, GenerateStarts, Pushes, Hears
      <3> QED BY <3>1, <3>2, <3>3 DEF EventsTyped
    <2>3. AttemptsTyped'
      BY <1>0 DEF Typed, AttemptsTyped, GenerateStarts, Pushes, attemptVars
    <2>4. CaptureTyped'
      BY <1>0 DEF Typed, CaptureTyped, Captured, GenerateStarts, Pushes, Hears
    <2> QED BY <2>1, <2>2, <2>3, <2>4 DEF Typed
  <1>2. \A t \in Streams \ {s} : Stays(t)
    BY <1>0 DEF Typed, EventsTyped, CaptureTyped, Stays, GenerateStarts, Pushes, Hears,
                attemptVars
  <1>3. LegacyOnlyForLegacyKeys'
    BY <1>0 DEF LegacyOnlyForLegacyKeys, GenerateStarts, Pushes, Hears
  <1>4. Bounded(s)'
    BY <1>0, TransportAssumption DEF Bounded, Sound, GenerateStarts, Pushes, attemptVars
  <1>5. Unbegun(s)'
    BY <1>0 DEF Sound, Unbegun, GenerateStarts, Pushes
  <1>6. OwnKey(s)'
    BY <1>0 DEF Typed, EventsTyped, Sources, Sound, OwnKey, GenerateStarts, Pushes, attemptVars
  <1>7. Shown(s)'
    BY <1>0 DEF Typed, EventsTyped, Sources, Sound, Shown, Final, Dropped, ProviderAsked,
                GenerateStarts, Pushes, Hears
  <1>8. Kept(s)'
    BY <1>0 DEF Typed, EventsTyped, Sound, Kept, Captured, GenerateStarts, Pushes, Hears
  <1> QED BY <1>0, <1>1, <1>2, <1>3, <1>4, <1>5, <1>6, <1>7, <1>8, OneMoves DEF Sound

\* The Provider API answers.
LEMMA ProviderStartsKeeps ==
    ASSUME Inv, NEW s \in Streams, ProviderStarts(s)
    PROVE  Inv'
  <1>0. Typed /\ LegacyOnlyForLegacyKeys /\ Sound(s) /\ UNCHANGED captureMode
    BY DEF Inv, ProviderStarts, Pushes
  <1>1. Typed'
    <2>1. RunTyped'
      BY <1>0 DEF Typed, RunTyped, ProviderStarts, Pushes, Hears
    <2>2. EventsTyped'
      BY <1>0 DEF Typed, EventsTyped, Final, ProviderStarts, Pushes, Hears
    <2>3. AttemptsTyped'
      BY <1>0 DEF Typed, AttemptsTyped, ProviderStarts, Pushes, attemptVars
    <2>4. CaptureTyped'
      BY <1>0 DEF Typed, CaptureTyped, Captured, ProviderStarts, Pushes, Hears
    <2> QED BY <2>1, <2>2, <2>3, <2>4 DEF Typed
  <1>2. \A t \in Streams \ {s} : Stays(t)
    BY <1>0 DEF Typed, EventsTyped, CaptureTyped, Stays, ProviderStarts, Pushes, Hears,
                attemptVars
  <1>3. LegacyOnlyForLegacyKeys'
    BY <1>0 DEF LegacyOnlyForLegacyKeys, ProviderStarts, Pushes, Hears
  <1>4. Bounded(s)'
    BY <1>0, TransportAssumption DEF Bounded, Sound, ProviderStarts, Pushes, attemptVars
  <1>5. Unbegun(s)'
    BY <1>0 DEF Sound, Unbegun, ProviderStarts, Pushes
  <1>6. OwnKey(s)'
    BY <1>0 DEF Sound, OwnKey, ProviderStarts, Pushes, attemptVars
  <1>7. Shown(s)'
    BY <1>0 DEF Typed, EventsTyped, Sound, Shown, Final, Dropped, ProviderAsked,
                ProviderStarts, Pushes, Hears
  <1>8. Kept(s)'
    BY <1>0 DEF Typed, EventsTyped, Sound, Kept, Captured, ProviderStarts, Pushes, Hears
  <1> QED BY <1>0, <1>1, <1>2, <1>3, <1>4, <1>5, <1>6, <1>7, <1>8, OneMoves DEF Sound

\* Content arrives.
LEMMA ContentKeeps ==
    ASSUME Inv, NEW s \in Streams, Content(s)
    PROVE  Inv'
  <1>0. Typed /\ LegacyOnlyForLegacyKeys /\ Sound(s) /\ UNCHANGED captureMode
    BY DEF Inv, Content, Pushes
  <1>1. Typed'
    <2>1. RunTyped'
      BY <1>0 DEF Typed, RunTyped, Content, Pushes, Hears
    <2>2. EventsTyped'
      BY <1>0 DEF Typed, EventsTyped, Sources, Content, Pushes, Hears
    <2>3. AttemptsTyped'
      BY <1>0 DEF Typed, AttemptsTyped, Content, Pushes, attemptVars
    <2>4. CaptureTyped'
      BY <1>0 DEF Typed, CaptureTyped, Captured, Content, Pushes, Hears
    <2> QED BY <2>1, <2>2, <2>3, <2>4 DEF Typed
  <1>2. \A t \in Streams \ {s} : Stays(t)
    BY <1>0 DEF Typed, EventsTyped, CaptureTyped, Stays, Content, Pushes, Hears, attemptVars
  <1>3. LegacyOnlyForLegacyKeys'
    BY <1>0 DEF LegacyOnlyForLegacyKeys, Content, Pushes, Hears
  <1>4. Bounded(s)'
    BY <1>0, TransportAssumption DEF Bounded, Sound, Content, Pushes, attemptVars
  <1>5. Unbegun(s)'
    BY <1>0 DEF Sound, Unbegun, Content, Pushes
  <1>6. OwnKey(s)'
    BY <1>0 DEF Sound, OwnKey, Content, Pushes, attemptVars
  <1>7. Shown(s)'
    BY <1>0 DEF Typed, EventsTyped, Sound, Shown, Dropped, ProviderAsked, Content, Pushes, Hears
  <1>8. Kept(s)'
    BY <1>0 DEF Typed, EventsTyped, Sound, Kept, Captured, Content, Pushes, Hears
  <1> QED BY <1>0, <1>1, <1>2, <1>3, <1>4, <1>5, <1>6, <1>7, <1>8, OneMoves DEF Sound

\* The source ends.
LEMMA SourceEndsKeeps ==
    ASSUME Inv, NEW s \in Streams, SourceEnds(s)
    PROVE  Inv'
  <1>0. Typed /\ LegacyOnlyForLegacyKeys /\ Sound(s) /\ UNCHANGED captureMode
    BY DEF Inv, SourceEnds, Pushes
  <1>1. Typed'
    <2>1. RunTyped'
      BY <1>0 DEF Typed, RunTyped, SourceEnds, Pushes, Hears
    <2>2. EventsTyped'
      <3>1. source' \in [Streams -> Sources]
        BY <1>0 DEF Typed, EventsTyped, Sources, SourceEnds, Pushes
      <3>2. terminal' \in [Streams -> Final \cup {"none"}]
        BY <1>0 DEF Typed, EventsTyped, SourceEnds, Pushes, Hears
      <3>3. phase' \in [Streams -> Final \cup {"new", "streaming"}]
        BY <1>0 DEF Typed, EventsTyped, SourceEnds, Pushes, Hears
      <3> QED BY <3>1, <3>2, <3>3 DEF EventsTyped
    <2>3. AttemptsTyped'
      BY <1>0 DEF Typed, AttemptsTyped, SourceEnds, Pushes, attemptVars
    <2>4. CaptureTyped'
      BY <1>0 DEF Typed, CaptureTyped, Captured, SourceEnds, Pushes, Hears
    <2> QED BY <2>1, <2>2, <2>3, <2>4 DEF Typed
  <1>2. \A t \in Streams \ {s} : Stays(t)
    BY <1>0 DEF Typed, EventsTyped, CaptureTyped, Stays, SourceEnds, Pushes, Hears, attemptVars
  <1>3. LegacyOnlyForLegacyKeys'
    BY <1>0 DEF LegacyOnlyForLegacyKeys, SourceEnds, Pushes, Hears
  <1>4. Bounded(s)'
    BY <1>0, TransportAssumption DEF Bounded, Sound, SourceEnds, Pushes, attemptVars
  <1>5. Unbegun(s)'
    BY <1>0 DEF Sound, Unbegun, SourceEnds, Pushes
  <1>6. OwnKey(s)'
    BY <1>0 DEF Typed, EventsTyped, Sources, Sound, OwnKey, SourceEnds, Pushes, attemptVars
  <1>7. Shown(s)'
    BY <1>0 DEF Typed, EventsTyped, Sources, Sound, Shown, Final, Dropped, ProviderAsked,
                SourceEnds, Pushes, Hears
  <1>8. Kept(s)'
    BY <1>0 DEF Typed, EventsTyped, Sound, Kept, Captured, SourceEnds, Pushes, Hears
  <1> QED BY <1>0, <1>1, <1>2, <1>3, <1>4, <1>5, <1>6, <1>7, <1>8, OneMoves DEF Sound

\* An attempt.
LEMMA FetchKeeps ==
    ASSUME Inv, NEW s \in Streams, Fetch(s)
    PROVE  Inv'
  <1>0. Typed /\ LegacyOnlyForLegacyKeys /\ Sound(s) /\ UNCHANGED captureMode
    BY DEF Inv, Fetch, Moves
  <1>1. Typed'
    <2>1. RunTyped'
      BY <1>0 DEF Typed, RunTyped, Fetch, Moves, routerVars
    <2>2. EventsTyped'
      BY <1>0 DEF Typed, EventsTyped, Sources, Fetch, Moves
    <2>3. AttemptsTyped'
      BY <1>0 DEF Typed, AttemptsTyped, RunTyped, KeysFor, Fetch
    <2>4. CaptureTyped'
      BY <1>0 DEF Typed, CaptureTyped, Fetch, Moves
    <2> QED BY <2>1, <2>2, <2>3, <2>4 DEF Typed
  <1>2. \A t \in Streams \ {s} : Stays(t)
    BY <1>0 DEF Stays, Fetch, Moves
  <1>3. LegacyOnlyForLegacyKeys'
    BY <1>0 DEF LegacyOnlyForLegacyKeys, Fetch, Moves, routerVars
  <1>4. Bounded(s)'
    BY <1>0, TransportAssumption DEF Typed, AttemptsTyped, Bounded, Sound, Fetch
  <1>5. Unbegun(s)'
    BY <1>0 DEF Sound, Unbegun, Fetch, Moves
  <1>6. OwnKey(s)'
    BY <1>0 DEF Typed, AttemptsTyped, Sound, OwnKey, KeysFor, Fetch, Moves
  <1>7. Shown(s)'
    BY <1>0 DEF Sound, Shown, Dropped, ProviderAsked, Fetch, Moves
  <1>8. Kept(s)'
    BY <1>0 DEF Sound, Kept, Captured, Fetch, Moves
  <1> QED BY <1>0, <1>1, <1>2, <1>3, <1>4, <1>5, <1>6, <1>7, <1>8, OneMoves DEF Sound

\* It fails.
LEMMA FetchThrowsKeeps ==
    ASSUME Inv, NEW s \in Streams, FetchThrows(s)
    PROVE  Inv'
  <1>0. Typed /\ LegacyOnlyForLegacyKeys /\ Sound(s) /\ UNCHANGED captureMode
    BY DEF Inv, FetchThrows, Moves
  <1>1. Typed'
    <2>1. RunTyped'
      BY <1>0 DEF Typed, RunTyped, FetchThrows, Moves, routerVars
    <2>2. EventsTyped'
      BY <1>0 DEF Typed, EventsTyped, Sources, FetchThrows, Moves
    <2>3. AttemptsTyped'
      BY <1>0 DEF Typed, AttemptsTyped, FetchThrows, attemptVars
    <2>4. CaptureTyped'
      BY <1>0 DEF Typed, CaptureTyped, FetchThrows, Moves, MayFailToRecord, FailsToRecord
    <2> QED BY <2>1, <2>2, <2>3, <2>4 DEF Typed
  <1>2. \A t \in Streams \ {s} : Stays(t)
    BY <1>0 DEF Typed, CaptureTyped, Stays, FetchThrows, Moves, MayFailToRecord, FailsToRecord,
                attemptVars
  <1>3. LegacyOnlyForLegacyKeys'
    BY <1>0 DEF LegacyOnlyForLegacyKeys, FetchThrows, Moves, routerVars
  <1>4. Bounded(s)'
    BY <1>0, TransportAssumption DEF Bounded, Sound, FetchThrows, attemptVars
  <1>5. Unbegun(s)'
    BY <1>0 DEF Sound, Unbegun, FetchThrows, Moves
  <1>6. OwnKey(s)'
    BY <1>0 DEF Sound, OwnKey, FetchThrows, Moves, attemptVars
  <1>7. Shown(s)'
    BY <1>0 DEF Sound, Shown, Dropped, ProviderAsked, FetchThrows, Moves
  <1>8. Kept(s)'
    BY <1>0 DEF Sound, Kept, Captured, FetchThrows, Moves
  <1> QED BY <1>0, <1>1, <1>2, <1>3, <1>4, <1>5, <1>6, <1>7, <1>8, OneMoves DEF Sound

\* It is answered.
LEMMA FetchAnswersKeeps ==
    ASSUME Inv, NEW s \in Streams, FetchAnswers(s)
    PROVE  Inv'
  <1>0. Typed /\ LegacyOnlyForLegacyKeys /\ Sound(s) /\ UNCHANGED captureMode
    BY DEF Inv, FetchAnswers, Moves
  <1>1. Typed'
    <2>1. RunTyped'
      BY <1>0 DEF Typed, RunTyped, FetchAnswers, Moves, routerVars
    <2>2. EventsTyped'
      BY <1>0 DEF Typed, EventsTyped, Sources, FetchAnswers, Moves
    <2>3. AttemptsTyped'
      BY <1>0 DEF Typed, AttemptsTyped, FetchAnswers, AttemptIndex, attemptVars
    <2>4. CaptureTyped'
      BY <1>0 DEF Typed, CaptureTyped, FetchAnswers, Moves, MayFailToRecord, FailsToRecord
    <2> QED BY <2>1, <2>2, <2>3, <2>4 DEF Typed
  <1>2. \A t \in Streams \ {s} : Stays(t)
    BY <1>0 DEF Typed, AttemptsTyped, CaptureTyped, Stays, FetchAnswers, Moves,
                MayFailToRecord, FailsToRecord, attemptVars
  <1>3. LegacyOnlyForLegacyKeys'
    BY <1>0 DEF LegacyOnlyForLegacyKeys, FetchAnswers, Moves, routerVars
  <1>4. Bounded(s)'
    BY <1>0, TransportAssumption DEF Typed, AttemptsTyped, Bounded, Sound, OwnKey,
                                     FetchAnswers, AttemptIndex, attemptVars
  <1>5. Unbegun(s)'
    BY <1>0 DEF Sound, Unbegun, FetchAnswers, Moves
  <1>6. OwnKey(s)'
    BY <1>0 DEF Sound, OwnKey, FetchAnswers, Moves, attemptVars
  <1>7. Shown(s)'
    BY <1>0 DEF Sound, Shown, Dropped, ProviderAsked, FetchAnswers, Moves
  <1>8. Kept(s)'
    BY <1>0 DEF Sound, Kept, Captured, FetchAnswers, Moves
  <1> QED BY <1>0, <1>1, <1>2, <1>3, <1>4, <1>5, <1>6, <1>7, <1>8, OneMoves DEF Sound

\* The Provider API refuses the key.
LEMMA UpgradeRequiredKeeps ==
    ASSUME Inv, NEW s \in Streams, UpgradeRequired(s)
    PROVE  Inv'
  <1>0. Typed /\ LegacyOnlyForLegacyKeys /\ Sound(s) /\ UNCHANGED captureMode
    BY DEF Inv, UpgradeRequired, Moves
  <1>1. Typed'
    <2>1. RunTyped'
      BY <1>0 DEF Typed, RunTyped, UpgradeRequired, Moves, routerVars
    <2>2. EventsTyped'
      BY <1>0 DEF Typed, EventsTyped, Sources, UpgradeRequired, Moves
    <2>3. AttemptsTyped'
      BY <1>0 DEF Typed, AttemptsTyped, UpgradeRequired, attemptVars
    <2>4. CaptureTyped'
      BY <1>0 DEF Typed, CaptureTyped, UpgradeRequired, Moves, MayFailToRecord, FailsToRecord
    <2> QED BY <2>1, <2>2, <2>3, <2>4 DEF Typed
  <1>2. \A t \in Streams \ {s} : Stays(t)
    BY <1>0 DEF Typed, CaptureTyped, Stays, UpgradeRequired, Moves, MayFailToRecord,
                FailsToRecord, attemptVars
  <1>3. LegacyOnlyForLegacyKeys'
    BY <1>0 DEF LegacyOnlyForLegacyKeys, UpgradeRequired, Moves, routerVars
  <1>4. Bounded(s)'
    BY <1>0, TransportAssumption DEF Bounded, Sound, UpgradeRequired, attemptVars
  <1>5. Unbegun(s)'
    BY <1>0 DEF Sound, Unbegun, UpgradeRequired, Moves
  <1>6. OwnKey(s)'
    BY <1>0 DEF Sound, OwnKey, UpgradeRequired, Moves, attemptVars
  <1>7. Shown(s)'
    BY <1>0 DEF Sound, Shown, ProviderAsked, UpgradeRequired, Moves
  <1>8. Kept(s)'
    BY <1>0 DEF Sound, Kept, Captured, UpgradeRequired, Moves
  <1> QED BY <1>0, <1>1, <1>2, <1>3, <1>4, <1>5, <1>6, <1>7, <1>8, OneMoves DEF Sound

\* A body is read.
LEMMA BodySettlesKeeps ==
    ASSUME Inv, NEW s \in Streams, BodySettles(s)
    PROVE  Inv'
  <1>0. Typed /\ LegacyOnlyForLegacyKeys /\ Sound(s) /\ UNCHANGED captureMode
    BY DEF Inv, BodySettles, Moves
  <1>1. Typed'
    <2>1. RunTyped'
      BY <1>0 DEF Typed, RunTyped, BodySettles, Moves, routerVars
    <2>2. EventsTyped'
      <3>1. source' \in [Streams -> Sources]
        BY <1>0 DEF Typed, EventsTyped, Sources, BodySettles, Moves
      <3>2. terminal' \in [Streams -> Final \cup {"none"}]
        BY <1>0 DEF Typed, EventsTyped, BodySettles, Moves
      <3>3. phase' \in [Streams -> Final \cup {"new", "streaming"}]
        BY <1>0 DEF Typed, EventsTyped, BodySettles, Moves
      <3> QED BY <3>1, <3>2, <3>3 DEF EventsTyped
    <2>3. AttemptsTyped'
      BY <1>0 DEF Typed, AttemptsTyped, BodySettles, attemptVars
    <2>4. CaptureTyped'
      BY <1>0 DEF Typed, CaptureTyped, BodySettles, Moves, MayFailToRecord, FailsToRecord
    <2> QED BY <2>1, <2>2, <2>3, <2>4 DEF Typed
  <1>2. \A t \in Streams \ {s} : Stays(t)
    BY <1>0 DEF Typed, EventsTyped, CaptureTyped, Stays, BodySettles, Moves, MayFailToRecord,
                FailsToRecord, attemptVars
  <1>3. LegacyOnlyForLegacyKeys'
    BY <1>0 DEF LegacyOnlyForLegacyKeys, BodySettles, Moves, routerVars
  <1>4. Bounded(s)'
    BY <1>0, TransportAssumption DEF Bounded, Sound, BodySettles, attemptVars
  <1>5. Unbegun(s)'
    BY <1>0 DEF Sound, Unbegun, BodySettles, Moves
  <1>6. OwnKey(s)'
    BY <1>0 DEF Typed, EventsTyped, Sources, Sound, OwnKey, BodySettles, Moves, attemptVars
  <1>7. Shown(s)'
    BY <1>0 DEF Typed, EventsTyped, Sources, Sound, Shown, Dropped, ProviderAsked, BodySettles,
                Moves
  <1>8. Kept(s)'
    BY <1>0 DEF Sound, Kept, Captured, BodySettles, Moves
  <1> QED BY <1>0, <1>1, <1>2, <1>3, <1>4, <1>5, <1>6, <1>7, <1>8, OneMoves DEF Sound

\* A body is not.
LEMMA BodyLeftKeeps ==
    ASSUME Inv, NEW s \in Streams, BodyLeft(s)
    PROVE  Inv'
  <1>0. Typed /\ LegacyOnlyForLegacyKeys /\ Sound(s) /\ UNCHANGED captureMode
    BY DEF Inv, BodyLeft, Moves
  <1>1. Typed'
    <2>1. RunTyped'
      BY <1>0 DEF Typed, RunTyped, BodyLeft, Moves, routerVars
    <2>2. EventsTyped'
      BY <1>0 DEF Typed, EventsTyped, Sources, BodyLeft, Moves
    <2>3. AttemptsTyped'
      BY <1>0 DEF Typed, AttemptsTyped, BodyLeft, attemptVars
    <2>4. CaptureTyped'
      BY <1>0 DEF Typed, CaptureTyped, BodyLeft, Moves
    <2> QED BY <2>1, <2>2, <2>3, <2>4 DEF Typed
  <1>2. \A t \in Streams \ {s} : Stays(t)
    BY <1>0 DEF Stays, BodyLeft, Moves, attemptVars
  <1>3. LegacyOnlyForLegacyKeys'
    BY <1>0 DEF LegacyOnlyForLegacyKeys, BodyLeft, Moves, routerVars
  <1>4. Bounded(s)'
    BY <1>0, TransportAssumption DEF Bounded, Sound, BodyLeft, attemptVars
  <1>5. Unbegun(s)'
    BY <1>0 DEF Sound, Unbegun, BodyLeft, Moves
  <1>6. OwnKey(s)'
    BY <1>0 DEF Sound, OwnKey, BodyLeft, Moves, attemptVars
  <1>7. Shown(s)'
    BY <1>0 DEF Sound, Shown, Dropped, ProviderAsked, BodyLeft, Moves
  <1>8. Kept(s)'
    BY <1>0 DEF Sound, Kept, Captured, BodyLeft, Moves
  <1> QED BY <1>0, <1>1, <1>2, <1>3, <1>4, <1>5, <1>6, <1>7, <1>8, OneMoves DEF Sound

\* The source is exhausted.
LEMMA PipeEndsKeeps ==
    ASSUME Inv, NEW s \in Streams, PipeEnds(s)
    PROVE  Inv'
  <1>0. Typed /\ LegacyOnlyForLegacyKeys /\ Sound(s) /\ UNCHANGED captureMode
    BY DEF Inv, PipeEnds
  <1>1. Typed'
    <2>1. RunTyped'
      BY <1>0 DEF Typed, RunTyped, PipeEnds, Forwards
    <2>2. EventsTyped'
      <3>1. source' \in [Streams -> Sources]
        BY <1>0 DEF Typed, EventsTyped, Sources, PipeEnds, Forwards, GoesTo
      <3>2. terminal' \in [Streams -> Final \cup {"none"}]
        BY <1>0 DEF Typed, EventsTyped, PipeEnds, Forwards
      <3>3. phase' \in [Streams -> Final \cup {"new", "streaming"}]
        BY <1>0 DEF Typed, EventsTyped, Sound, Shown, PipeEnds, Forwards
      <3> QED BY <3>1, <3>2, <3>3 DEF EventsTyped
    <2>3. AttemptsTyped'
      BY <1>0 DEF Typed, AttemptsTyped, PipeEnds, attemptVars, captureVars
    <2>4. CaptureTyped'
      BY <1>0 DEF Typed, CaptureTyped, PipeEnds, captureVars
    <2> QED BY <2>1, <2>2, <2>3, <2>4 DEF Typed
  <1>2. \A t \in Streams \ {s} : Stays(t)
    BY <1>0 DEF Typed, RunTyped, EventsTyped, Stays, PipeEnds, Forwards, attemptVars,
                captureVars
  <1>3. LegacyOnlyForLegacyKeys'
    BY <1>0 DEF LegacyOnlyForLegacyKeys, Sound, OwnKey, Dropped, OwnsRouter, PipeEnds
  <1>4. Bounded(s)'
    BY <1>0, TransportAssumption DEF Bounded, Sound, PipeEnds, attemptVars, captureVars
  <1>5. Unbegun(s)'
    BY <1>0 DEF Typed, RunTyped, Unbegun, PipeEnds, Forwards
  <1>6. OwnKey(s)'
    BY <1>0 DEF Typed, EventsTyped, Sound, OwnKey, PipeEnds, Forwards, GoesTo, attemptVars
  <1>7. Shown(s)'
    BY <1>0 DEF Typed, RunTyped, EventsTyped, Sound, Shown, PipeEnds, Forwards, GoesTo
  <1>8. Kept(s)'
    BY <1>0 DEF Sound, Kept, Captured, PipeEnds, captureVars
  <1> QED BY <1>0, <1>1, <1>2, <1>3, <1>4, <1>5, <1>6, <1>7, <1>8, OneMoves DEF Sound

\* The pipe throws.
LEMMA PipeThrowsKeeps ==
    ASSUME Inv, NEW s \in Streams, PipeThrows(s)
    PROVE  Inv'
  <1>0. Typed /\ LegacyOnlyForLegacyKeys /\ Sound(s) /\ UNCHANGED captureMode
    BY DEF Inv, PipeThrows
  <1>1. Typed'
    <2>1. RunTyped'
      BY <1>0 DEF Typed, RunTyped, PipeThrows, Errs, routerVars
    <2>2. EventsTyped'
      BY <1>0 DEF Typed, EventsTyped, Final, PipeThrows, Errs
    <2>3. AttemptsTyped'
      BY <1>0 DEF Typed, AttemptsTyped, PipeThrows, attemptVars
    <2>4. CaptureTyped'
      BY <1>0 DEF Typed, CaptureTyped, PipeThrows
    <2> QED BY <2>1, <2>2, <2>3, <2>4 DEF Typed
  <1>2. \A t \in Streams \ {s} : Stays(t)
    BY <1>0 DEF Typed, RunTyped, EventsTyped, CaptureTyped, Stays, PipeThrows, Errs, attemptVars
  <1>3. LegacyOnlyForLegacyKeys'
    BY <1>0 DEF LegacyOnlyForLegacyKeys, PipeThrows, routerVars
  <1>4. Bounded(s)'
    BY <1>0, TransportAssumption DEF Bounded, Sound, PipeThrows, attemptVars
  <1>5. Unbegun(s)'
    BY <1>0 DEF Typed, RunTyped, Unbegun, PipeThrows, Errs
  <1>6. OwnKey(s)'
    BY <1>0 DEF Sound, OwnKey, PipeThrows, Errs, attemptVars
  <1>7. Shown(s)'
    BY <1>0 DEF Typed, RunTyped, EventsTyped, Sound, Shown, Final, PipeThrows, Errs
  <1>8. Kept(s)'
    BY <1>0 DEF Typed, RunTyped, Sound, Kept, PipeThrows
  <1> QED BY <1>0, <1>1, <1>2, <1>3, <1>4, <1>5, <1>6, <1>7, <1>8, OneMoves DEF Sound

\* The capture's queue has run.
LEMMA QueueDrainsKeeps ==
    ASSUME Inv, NEW s \in Streams, QueueDrains(s)
    PROVE  Inv'
  <1>0. Typed /\ LegacyOnlyForLegacyKeys /\ Sound(s) /\ UNCHANGED captureMode
    BY DEF Inv, QueueDrains
  <1>1. Typed'
    <2>1. RunTyped'
      BY <1>0 DEF Typed, RunTyped, QueueDrains, routerVars, streamVars
    <2>2. EventsTyped'
      BY <1>0 DEF Typed, EventsTyped, QueueDrains, streamVars
    <2>3. AttemptsTyped'
      BY <1>0 DEF Typed, AttemptsTyped, QueueDrains, attemptVars
    <2>4. CaptureTyped'
      BY <1>0 DEF Typed, CaptureTyped, QueueDrains, FailsToRecord
    <2> QED BY <2>1, <2>2, <2>3, <2>4 DEF Typed
  <1>2. \A t \in Streams \ {s} : Stays(t)
    BY <1>0 DEF Typed, CaptureTyped, Stays, QueueDrains, FailsToRecord, streamVars, attemptVars
  <1>3. LegacyOnlyForLegacyKeys'
    BY <1>0 DEF LegacyOnlyForLegacyKeys, QueueDrains, routerVars
  <1>4. Bounded(s)'
    BY <1>0, TransportAssumption DEF Bounded, Sound, QueueDrains, attemptVars
  <1>5. Unbegun(s)'
    BY <1>0 DEF Sound, Unbegun, QueueDrains, streamVars, attemptVars
  <1>6. OwnKey(s)'
    BY <1>0 DEF Sound, OwnKey, QueueDrains, streamVars, attemptVars
  <1>7. Shown(s)'
    BY <1>0 DEF Sound, Shown, Dropped, ProviderAsked, QueueDrains, streamVars
  <1>8. Kept(s)'
    BY <1>0 DEF Sound, Kept, Captured, QueueDrains, streamVars
  <1> QED BY <1>0, <1>1, <1>2, <1>3, <1>4, <1>5, <1>6, <1>7, <1>8, OneMoves DEF Sound

\* The capture is finalised.
LEMMA FinalizeKeeps ==
    ASSUME Inv, NEW s \in Streams, Finalize(s)
    PROVE  Inv'
  <1>0. Typed /\ LegacyOnlyForLegacyKeys /\ Sound(s) /\ UNCHANGED captureMode
    BY DEF Inv, Finalize
  <1>1. Typed'
    <2>1. RunTyped'
      BY <1>0 DEF Typed, RunTyped, Finalize, Forwards, Errs, routerVars
    <2>2. EventsTyped'
      BY <1>0 DEF Typed, EventsTyped, Final, Sound, Shown, Finalize, Forwards, Errs
    <2>3. AttemptsTyped'
      BY <1>0 DEF Typed, AttemptsTyped, Finalize, attemptVars
    <2>4. CaptureTyped'
      BY <1>0 DEF Typed, CaptureTyped, Finalize, Commits, CommitFails, FailsToRecord, Marker,
                  StatusOf
    <2> QED BY <2>1, <2>2, <2>3, <2>4 DEF Typed
  <1>2. \A t \in Streams \ {s} : Stays(t)
    BY <1>0 DEF Typed, RunTyped, EventsTyped, CaptureTyped, Stays, Finalize, Forwards, Errs,
                Commits, CommitFails, FailsToRecord, attemptVars
  <1>3. LegacyOnlyForLegacyKeys'
    BY <1>0 DEF LegacyOnlyForLegacyKeys, Finalize, routerVars
  <1>4. Bounded(s)'
    BY <1>0, TransportAssumption DEF Bounded, Sound, Finalize, attemptVars
  <1>5. Unbegun(s)'
    BY <1>0 DEF Typed, RunTyped, Unbegun, Finalize, Forwards, Errs
  <1>6. OwnKey(s)'
    BY <1>0 DEF Sound, OwnKey, Finalize, Forwards, Errs, attemptVars
  <1>7. Shown(s)'
    BY <1>0 DEF Typed, RunTyped, EventsTyped, Sound, Shown, Final, Finalize, Forwards, Errs
  <1>8. Kept(s)'
    BY <1>0 DEF Typed, RunTyped, EventsTyped, CaptureTyped, Sound, Shown, Kept, Finalize,
                Forwards, Errs, Commits, CommitFails, CommitErrorReachesPi, Recorded, Marker,
                StatusOf
  <1> QED BY <1>0, <1>1, <1>2, <1>3, <1>4, <1>5, <1>6, <1>7, <1>8, OneMoves DEF Sound

\* It is, after an error.
LEMMA CatchFinalizesKeeps ==
    ASSUME Inv, NEW s \in Streams, CatchFinalizes(s)
    PROVE  Inv'
  <1>0. Typed /\ LegacyOnlyForLegacyKeys /\ Sound(s) /\ UNCHANGED captureMode
    BY DEF Inv, CatchFinalizes
  <1>1. Typed'
    <2>1. RunTyped'
      BY <1>0 DEF Typed, RunTyped, CatchFinalizes, Errs, routerVars
    <2>2. EventsTyped'
      BY <1>0 DEF Typed, EventsTyped, Final, CatchFinalizes, Errs
    <2>3. AttemptsTyped'
      BY <1>0 DEF Typed, AttemptsTyped, CatchFinalizes, attemptVars
    <2>4. CaptureTyped'
      BY <1>0 DEF Typed, CaptureTyped, CatchFinalizes, Commits, CommitFails, FailsToRecord,
                  Marker
    <2> QED BY <2>1, <2>2, <2>3, <2>4 DEF Typed
  <1>2. \A t \in Streams \ {s} : Stays(t)
    BY <1>0 DEF Typed, CaptureTyped, Stays, CatchFinalizes, Errs, Commits, CommitFails,
                FailsToRecord, attemptVars
  <1>3. LegacyOnlyForLegacyKeys'
    BY <1>0 DEF LegacyOnlyForLegacyKeys, CatchFinalizes, routerVars
  <1>4. Bounded(s)'
    BY <1>0, TransportAssumption DEF Bounded, Sound, CatchFinalizes, attemptVars
  <1>5. Unbegun(s)'
    BY <1>0 DEF Unbegun, CatchFinalizes, Errs
  <1>6. OwnKey(s)'
    BY <1>0 DEF Sound, OwnKey, CatchFinalizes, Errs, attemptVars
  <1>7. Shown(s)'
    BY <1>0 DEF Typed, RunTyped, EventsTyped, Shown, Final, CatchFinalizes, Errs
  <1>8. Kept(s)'
    BY <1>0 DEF Typed, CaptureTyped, Sound, Kept, CatchFinalizes, Errs, Commits, CommitFails,
                Marker
  <1> QED BY <1>0, <1>1, <1>2, <1>3, <1>4, <1>5, <1>6, <1>7, <1>8, OneMoves DEF Sound

-----------------------------------------------------------------------------
(***************************************************************************)
(* The invariant holds.                                                    *)
(***************************************************************************)
\* It holds before any call.
LEMMA InitInv == Init => Inv
  <1> SUFFICES ASSUME Init PROVE Inv
    OBVIOUS
  <1>1. Typed
    BY TransportAssumption
       DEF Init, Typed, RunTyped, EventsTyped, Sources, AttemptsTyped, CaptureTyped, Final
  <1>2. LegacyOnlyForLegacyKeys
    BY DEF Init, LegacyOnlyForLegacyKeys
  <1>3. ASSUME NEW s \in Streams PROVE Sound(s)
    <2>1. Bounded(s) /\ Unbegun(s) /\ OwnKey(s)
      BY TransportAssumption DEF Init, Bounded, Unbegun, OwnKey
    <2>2. Shown(s) /\ Kept(s)
      BY DEF Init, Shown, Kept, Final, Captured
    <2> QED BY <2>1, <2>2 DEF Sound
  <1> QED BY <1>1, <1>2, <1>3 DEF Inv

\* reset() forgets what is remembered.
LEMMA ResetKeeps ==
    ASSUME Inv, Reset
    PROVE  Inv'
  <1>1. /\ UNCHANGED <<captureMode, streamVars, attemptVars, captureVars>>
        /\ transport' = "unknown" /\ apiKey' = NoKey
    BY DEF Reset
  <1>2. Typed'
    BY <1>1 DEF Inv, Typed, RunTyped, EventsTyped, Sources, AttemptsTyped, CaptureTyped,
                streamVars, attemptVars, captureVars
  <1>3. LegacyOnlyForLegacyKeys'
    BY <1>1 DEF LegacyOnlyForLegacyKeys
  <1>4. ASSUME NEW s \in Streams PROVE Sound(s)'
    <2>1. Stays(s)
      BY <1>1 DEF Stays, streamVars, attemptVars, captureVars
    <2> QED BY <1>1, <2>1, StaysSound DEF Inv
  <1> QED BY <1>2, <1>3, <1>4 DEF Inv

\* Nothing changes.
LEMMA IdleKeeps ==
    ASSUME Inv, UNCHANGED vars
    PROVE  Inv'
  <1>1. UNCHANGED <<transport, apiKey, captureMode, streamVars, attemptVars, captureVars>>
    BY DEF vars, routerVars
  <1>2. Typed'
    BY <1>1 DEF Inv, Typed, RunTyped, EventsTyped, Sources, AttemptsTyped, CaptureTyped,
                streamVars, attemptVars, captureVars
  <1>3. LegacyOnlyForLegacyKeys'
    BY <1>1 DEF Inv, LegacyOnlyForLegacyKeys
  <1>4. ASSUME NEW s \in Streams PROVE Sound(s)'
    <2>1. Stays(s)
      BY <1>1 DEF Stays, streamVars, attemptVars, captureVars
    <2> QED BY <1>1, <2>1, StaysSound DEF Inv
  <1> QED BY <1>2, <1>3, <1>4 DEF Inv

\* Every step keeps it.
LEMMA NextKeeps == Inv /\ [Next]_vars => Inv'
  <1> SUFFICES ASSUME Inv, [Next]_vars PROVE Inv'
    OBVIOUS
  <1>1. ASSUME NEW s \in Streams,
               \/ Call(s) \/ ResolveFails(s) \/ Resolved(s) \/ CaptureBegins(s) \/ BeginFails(s)
        PROVE  Inv'
    BY <1>1, CallKeeps, ResolveFailsKeeps, ResolvedKeeps, CaptureBeginsKeeps, BeginFailsKeeps
  <1>2. ASSUME NEW s \in Streams,
               \/ GenerateStarts(s) \/ ProviderStarts(s) \/ Content(s) \/ SourceEnds(s)
        PROVE  Inv'
    BY <1>2, GenerateStartsKeeps, ProviderStartsKeeps, ContentKeeps, SourceEndsKeeps
  <1>3. ASSUME NEW s \in Streams,
               \/ Fetch(s) \/ FetchThrows(s) \/ FetchAnswers(s) \/ UpgradeRequired(s)
               \/ BodySettles(s) \/ BodyLeft(s)
        PROVE  Inv'
    BY <1>3, FetchKeeps, FetchThrowsKeeps, FetchAnswersKeeps, UpgradeRequiredKeeps,
       BodySettlesKeeps, BodyLeftKeeps
  <1>4. ASSUME NEW s \in Streams,
               \/ PipeEnds(s) \/ PipeThrows(s) \/ QueueDrains(s) \/ Finalize(s)
               \/ CatchFinalizes(s)
        PROVE  Inv'
    BY <1>4, PipeEndsKeeps, PipeThrowsKeeps, QueueDrainsKeeps, FinalizeKeeps,
       CatchFinalizesKeeps
  <1>5. CASE Reset
    BY <1>5, ResetKeeps
  <1>6. CASE UNCHANGED vars
    BY <1>6, IdleKeeps
  <1> QED BY <1>1, <1>2, <1>3, <1>4, <1>5, <1>6 DEF Next, Ended

\* In every state.
LEMMA Always == Spec => []Inv
  BY InitInv, NextKeeps, PTL DEF Spec

\* Types, and a capture that waits only for attempts that were made.
THEOREM TypesOfTransport == Spec => []TypeOK
  BY Always, InvTypes, PTL

\* "prevent stale in-flight requests from overwriting the new credential's transport":
\* however many streams and keys there are, the legacy transport is remembered only for
\* a key that needs it.
THEOREM LegacyRememberedRightly == Spec => []LegacyOnlyForLegacyKeys
  <1>1. Inv => LegacyOnlyForLegacyKeys
    BY DEF Inv
  <1> QED BY <1>1, Always, PTL

\* A stream under a required capture is done only when its bundle was committed.
THEOREM RequiredFailsClosed == Spec => []FailsClosed
  <1>1. Inv => FailsClosed
    BY DEF Inv, Sound, Kept, FailsClosed
  <1> QED BY <1>1, Always, PTL

\* A committed bundle is that of a done stream, and complete.
THEOREM CommittedStaysComplete == Spec => []CommittedIsComplete
  <1>1. Inv => CommittedIsComplete
    BY DEF Inv, Sound, Kept, CommittedIsComplete
  <1> QED BY <1>1, Always, PTL

-----------------------------------------------------------------------------
(***************************************************************************)
(* What the consumer sees.                                                 *)
(***************************************************************************)
\* It hears a start, an error of run(), or the terminal event that was held back; when
\* the capture is finalised, an error only from a required one.
Shows(t) ==
    \/ phase'[t] = phase[t]
    \/ pc[t] = "piping" /\ phase[t] = "new" /\ phase'[t] = "streaming"
    \/ /\ pc[t] # "ended" /\ phase'[t] = "error"
       /\ pc[t] = "finalizing" => captureMode = "required"
    \/ pc[t] \in {"piping", "finalizing"} /\ terminal[t] \in Final /\ phase'[t] = terminal[t]

\* A step shows a stream's consumer that much.
LEMMA StreamShows ==
    ASSUME Inv, NEW s \in Streams, NEW t \in Streams,
           \/ Call(s) \/ ResolveFails(s) \/ Resolved(s) \/ CaptureBegins(s) \/ BeginFails(s)
           \/ GenerateStarts(s) \/ ProviderStarts(s) \/ Content(s) \/ SourceEnds(s)
           \/ Fetch(s) \/ FetchThrows(s) \/ FetchAnswers(s) \/ UpgradeRequired(s)
           \/ BodySettles(s) \/ BodyLeft(s)
           \/ PipeEnds(s) \/ PipeThrows(s) \/ QueueDrains(s) \/ Finalize(s) \/ CatchFinalizes(s)
    PROVE  Shows(t)
  <1>0. phase \in [Streams -> Final \cup {"new", "streaming"}] /\ Sound(s) /\ Sound(t)
    BY DEF Inv, Typed, EventsTyped
  <1>1. CASE \/ Call(s) \/ Resolved(s) \/ CaptureBegins(s) \/ Fetch(s) \/ FetchThrows(s)
             \/ FetchAnswers(s) \/ UpgradeRequired(s) \/ BodySettles(s) \/ BodyLeft(s)
             \/ QueueDrains(s)
    <2>1. phase' = phase
      BY <1>1 DEF Call, Resolved, Connect, CaptureBegins, Fetch, Moves, FetchThrows,
                  FetchAnswers, UpgradeRequired, BodySettles, BodyLeft, QueueDrains, streamVars
    <2> QED BY <2>1 DEF Shows
  <1>2. CASE ResolveFails(s) \/ BeginFails(s) \/ PipeThrows(s) \/ CatchFinalizes(s)
    BY <1>0, <1>2 DEF ResolveFails, BeginFails, PipeThrows, CatchFinalizes, Errs, Connect, Shows
  <1>3. CASE GenerateStarts(s) \/ ProviderStarts(s) \/ Content(s) \/ SourceEnds(s)
    <2>1. \/ phase' = phase
          \/ /\ pc[s] = "piping" /\ (source[s].at = "fresh" \/ phase[s] = "new")
             /\ phase' = [phase EXCEPT ![s] = "streaming"]
      BY <1>0, <1>3 DEF GenerateStarts, ProviderStarts, Content, SourceEnds, Pushes, Hears,
                        Final
    <2> QED BY <1>0, <2>1 DEF Shows, Sound, Shown
  <1>4. CASE PipeEnds(s)
    BY <1>0, <1>4 DEF PipeEnds, Forwards, Shows, Sound, Shown
  <1>5. CASE Finalize(s)
    BY <1>0, <1>5 DEF Finalize, Forwards, Errs, CommitErrorReachesPi, Shows, Sound, Shown
  <1> QED BY <1>1, <1>2, <1>3, <1>4, <1>5

\* So does every step.
LEMMA NextShows ==
    ASSUME Inv, [Next]_vars, NEW t \in Streams
    PROVE  Shows(t)
  <1>1. CASE Reset \/ UNCHANGED vars
    BY <1>1 DEF Reset, vars, streamVars, Shows
  <1> QED BY <1>1, StreamShows DEF Next, Ended

\* The step that finalises a best-effort capture leaves the terminal event what the source
\* made it.
THEOREM BestEffortUnseen == Spec => BestEffortIsInvisible
  <1>1. ASSUME Inv, [Next]_vars
        PROVE  \A s \in Streams : captureMode # "required" /\ pc[s] = "finalizing"
                                     => phase'[s] \in {phase[s], terminal[s]}
    BY <1>1, NextShows DEF Shows
  <1> QED BY <1>1, Always, PTL DEF Spec, BestEffortIsInvisible

\* Over fallback, retries and capture, a consumer sees one start and one terminal event.
THEOREM ProtocolOfConsumers == Spec => ConsumerProtocol
  <1>1. Init => \A s \in Streams : Consumer(s)!Init
    BY DEF Init, Consumer!Init
  <1>2. ASSUME Inv, [Next]_vars
        PROVE  \A s \in Streams : Consumer(s)!Next \/ UNCHANGED phase[s]
    <2> SUFFICES ASSUME NEW s \in Streams PROVE Consumer(s)!Next \/ UNCHANGED phase[s]
      OBVIOUS
    <2>1. /\ phase[s] \in Final \cup {"new", "streaming"} /\ Sound(s)
          /\ pc[s] \in {"piping", "finalizing"} /\ terminal[s] = "done" => phase[s] = "streaming"
          /\ phase[s] \in Final <=> pc[s] = "ended"
      BY <1>2 DEF Inv, Typed, EventsTyped, Sources, Sound, Shown
    <2>2. CASE pc[s] = "piping" /\ phase[s] = "new" /\ phase'[s] = "streaming"
      BY <2>2 DEF Consumer!Next, Consumer!Start
    <2>3. CASE phase[s] = "new" /\ phase'[s] \in {"error", "aborted"}
      BY <2>3 DEF Consumer!Next, Consumer!Refuse
    <2>4. CASE phase[s] = "streaming" /\ phase'[s] \in {"error", "aborted"}
      <3>1. /\ {} \in SUBSET (1..Len(<<>>))
            /\ <<>> = [i \in 1..Len(<<>>) |-> [<<>>[i] EXCEPT !.open = @ /\ i \notin {}]]
        OBVIOUS
      <3> QED BY <2>4, <3>1 DEF Consumer!Next, Consumer!Fail
    <2>5. CASE phase[s] = "streaming" /\ phase'[s] = "done"
      BY <2>5 DEF Consumer!Next, Consumer!Done
    <2>6. Shows(s)
      BY <1>2, NextShows
    <2> QED BY <2>1, <2>2, <2>3, <2>4, <2>5, <2>6 DEF Shows, Final
  <1> QED BY <1>1, <1>2, Always, PTL DEF Spec, ConsumerProtocol
=============================================================================
