----------------------------- MODULE StreamCore -----------------------------
(***************************************************************************)
(* streamCommandCode (src/core.ts): one run() of the legacy transport, from*)
(* the caller's request to its terminal event.  Inside one stream it makes *)
(* HTTP attempts (retried after transient statuses, early stream failures  *)
(* and timeouts) and continuation legs (after pause_turn), while the caller*)
(* may abort and each attempt may time out at any moment.                  *)
(*                                                                         *)
(* The state is that of the closure of run() at its awaits; `pc` names the *)
(* await.  Upstream is any server: it answers with any status, sends any   *)
(* lines, hangs or drops the connection.                                   *)
(***************************************************************************)
EXTENDS Integers, Sequences

CONSTANTS
    MaxRetries,     \* options.maxRetries
    MaxPauses,      \* MAX_PAUSE_CONTINUATIONS (5 in the code)
    HasTimeout,     \* whether options.timeoutMs is set
    ToolIds,        \* ids of tool calls
    MaxLines        \* bound: lines upstream sends before it finishes or fails

ASSUME StreamCoreAssumption ==
    /\ MaxRetries \in Nat
    /\ MaxPauses \in Nat
    /\ HasTimeout \in BOOLEAN
    /\ MaxLines \in Nat

VARIABLES
    pc,        \* the await run() is at
    phase,     \* the consumer's stream: new, streaming, or its terminal event
    aborted,   \* controller.signal.aborted: the caller aborted
    linked,    \* the attempt's controller follows the caller's abort
    timer,     \* the attempt's timeout: "off", "armed" or "fired"
    attempt,   \* the loop's counter
    ok,        \* response.ok
    failure,   \* the stream error held while its reader is cancelled
    msg,       \* output.content with textBlock, thinkingIdx, streamingToolCalls
    finished,  \* a finish event was handled
    pauses,    \* pauseContinuations
    usage,     \* finish events whose usage was added to output.usage
    sent,      \* history: requests sent in the current leg
    shown,     \* history: blocks the consumer had when the leg began
    lines      \* lines received so far

attemptVars == <<linked, timer, attempt, ok>>
turnVars == <<msg, finished, pauses, usage>>
historyVars == <<sent, shown, lines>>
vars == <<pc, phase, aborted, attemptVars, failure, turnVars, historyVars>>

Init ==
    /\ pc = "begin" /\ phase = "new"
    /\ aborted \in BOOLEAN
    /\ linked = FALSE /\ timer = "off" /\ attempt = 0 /\ ok = FALSE
    /\ failure = "none"
    /\ msg = [content |-> <<>>, text |-> 0, thinking |-> 0,
              calls |-> [id \in ToolIds |-> 0]]
    /\ finished = FALSE /\ pauses = 0 /\ usage = 0
    /\ sent = 0 /\ shown = 0 /\ lines = 0

timedOut == timer = "fired"

\* attemptController.signal.aborted
AttemptAborted == timedOut \/ (linked /\ aborted)

-----------------------------------------------------------------------------
(***************************************************************************)
(* Ways to leave an await.                                                 *)
(***************************************************************************)
\* The outer catch: the stream's error event.
Fail(isAbort) ==
    /\ pc' = "ended"
    /\ phase' = IF aborted \/ isAbort THEN "aborted" ELSE "error"
    /\ timer' = IF timedOut THEN timer ELSE "off"
    /\ UNCHANGED <<aborted, linked, attempt, ok, failure, turnVars, historyVars>>

\* Mutant: the timeout is armed for the first attempt only.
ArmOnce == IF HasTimeout /\ sent = 0 THEN "armed" ELSE "off"

Arm == IF HasTimeout THEN "armed" ELSE "off"

\* The head of retryLoop: an abort that came before addEventListener is not heard.
\* `leg` is whether a new leg begins.
BeginAttempt(n, leg) ==
    /\ pc' = "fetch"
    /\ attempt' = n
    /\ linked' = ~aborted
    /\ timer' = Arm
    /\ sent' = IF leg THEN 1 ELSE sent + 1
    /\ shown' = IF leg THEN Len(msg.content) ELSE shown
    /\ UNCHANGED <<phase, aborted, ok, lines>>

Await(where) ==
    /\ pc' = where
    /\ UNCHANGED <<phase, aborted, linked, timer, attempt, historyVars>>

Retry == BeginAttempt(attempt + 1, FALSE) /\ UNCHANGED <<failure, turnVars>>

-----------------------------------------------------------------------------
Abort ==
    /\ pc # "ended" /\ ~aborted
    /\ aborted' = TRUE
    /\ UNCHANGED <<pc, phase, attemptVars, failure, turnVars, historyVars>>

AttemptTimesOut ==
    /\ timer = "armed"
    /\ timer' = "fired"
    /\ UNCHANGED <<pc, phase, aborted, linked, attempt, ok, failure, turnVars, historyVars>>

\* No key: the stream is a single error event.
BeginWithoutKey ==
    /\ pc = "begin"
    /\ pc' = "ended" /\ phase' = "error"
    /\ UNCHANGED <<aborted, attemptVars, failure, turnVars, historyVars>>

\* start, then onPayload is awaited under a timeout of its own.  What is checked before
\* it (an abort, images for a text-only model) fails the stream as it does.
Begin ==
    /\ pc = "begin"
    /\ pc' = "payload" /\ phase' = "streaming"
    /\ timer' = Arm
    /\ UNCHANGED <<aborted, linked, attempt, ok, failure, turnVars, historyVars>>

PayloadFails == pc = "payload" /\ Fail(FALSE)

PayloadReady ==
    /\ pc = "payload" /\ ~aborted /\ ~timedOut
    /\ BeginAttempt(0, TRUE)
    /\ UNCHANGED <<failure, turnVars>>

-----------------------------------------------------------------------------
(***************************************************************************)
(* One HTTP attempt, up to its body.                                       *)
(***************************************************************************)
FetchFails ==
    /\ pc = "fetch"
    /\ IF ~aborted /\ timedOut /\ attempt < MaxRetries THEN Retry ELSE Fail(FALSE)

\* Success, or a status that is not retried.
FetchAnswers ==
    /\ pc = "fetch" /\ ~AttemptAborted
    /\ ok' \in BOOLEAN
    /\ Await("onResponse")
    /\ UNCHANGED <<failure, turnVars>>

\* 429 or 5xx: retried after its body is drained, unless Retry-After is too long.
FetchThrottled ==
    /\ pc = "fetch" /\ ~AttemptAborted
    /\ \/ Fail(FALSE)
       \/ /\ ok' = FALSE
          /\ Await(IF attempt < MaxRetries THEN "drain" ELSE "onResponse")
          /\ UNCHANGED <<failure, turnVars>>

\* response.text() of the retried answer; nothing looks at the abort signal when the
\* server asked for no delay.
DrainEnds ==
    /\ pc = "drain"
    /\ \/ Retry
       \/ Await("backoff") /\ UNCHANGED <<ok, failure, turnVars>>

BackoffElapses == pc = "backoff" /\ ~aborted /\ Retry

BackoffAborted == pc = "backoff" /\ aborted /\ Fail(TRUE)

\* Mutant: a timed-out onResponse is retried without end.
MayRetryAfterHookAlways == timedOut /\ ~(linked /\ aborted)

\* The timeout, unless the abort was first.
MayRetryAfterHook == timedOut /\ ~(linked /\ aborted) /\ attempt < MaxRetries

\* The hook throws or hangs.
OnResponseFails ==
    /\ pc = "onResponse"
    /\ IF MayRetryAfterHook THEN Retry ELSE Fail(FALSE)

OnResponseEnds ==
    /\ pc = "onResponse" /\ ~AttemptAborted
    /\ \/ Await(IF ok THEN "read" ELSE "errorBody") /\ UNCHANGED <<ok, failure, turnVars>>
       \/ ok /\ Fail(FALSE)     \* no response body

\* The error body, read or not, becomes the stream's error.
ErrorBodyEnds == pc = "errorBody" /\ Fail(FALSE)

-----------------------------------------------------------------------------
(***************************************************************************)
(* handleEvent: how a line changes the message under construction.         *)
(***************************************************************************)
Opened(m, kind) == [m EXCEPT !.content = Append(@, kind)]

EndTextBlock(m) == [m EXCEPT !.text = 0]
EndThinking(m) == [m EXCEPT !.thinking = 0]

TextDelta(m) ==
    LET n == EndThinking(m) IN
    IF n.text # 0 THEN n
    ELSE [Opened(n, "text") EXCEPT !.text = Len(n.content) + 1]

\* Mutant: reasoning does not end the text before it.
ReasoningDeltaInText(m) ==
    IF m.thinking # 0 THEN m
    ELSE [Opened(m, "thinking") EXCEPT !.thinking = Len(m.content) + 1]

ReasoningDelta(m) ==
    LET n == EndTextBlock(m) IN
    IF n.thinking # 0 THEN n
    ELSE [Opened(n, "thinking") EXCEPT !.thinking = Len(n.content) + 1]

ToolInputStart(m, id) ==
    LET n == EndThinking(EndTextBlock(m)) IN
    IF n.calls[id] # 0 THEN n
    ELSE [Opened(n, "toolCall") EXCEPT !.calls = [@ EXCEPT ![id] = Len(n.content) + 1]]

\* A complete call ends the block its input was streamed to, or is a block at once.
ToolCall(m, id) ==
    LET n == EndThinking(EndTextBlock(m)) IN
    IF n.calls[id] # 0 THEN [n EXCEPT !.calls = [@ EXCEPT ![id] = 0]] ELSE Opened(n, "toolCall")

\* The lines that change it; the others (tool-input-delta, tool-result, malformed
\* lines) leave it as it is.
HandleEvent(m) ==
    {TextDelta(m), EndTextBlock(m), ReasoningDelta(m), EndThinking(m)}
        \cup {ToolInputStart(m, id) : id \in ToolIds}
        \cup {ToolCall(m, id) : id \in ToolIds}

-----------------------------------------------------------------------------
(***************************************************************************)
(* The read loop.                                                          *)
(***************************************************************************)
Reading == pc = "read" /\ ~aborted /\ ~timedOut

\* Mutant: a continuation starts as if it had finished.
FinishedAfterAlways(paused) == TRUE

FinishedAfter(paused) == ~paused

\* The stream completed: the open block is closed and the turn paused or ended.  A
\* `paused` turn continues in another leg while it may.
LegEnds(m, paused) ==
    LET continues == paused /\ pauses < MaxPauses IN
    /\ msg' = EndThinking(EndTextBlock(m))
    /\ finished' = FinishedAfter(continues)
    /\ \/ /\ continues
          /\ pauses' = pauses + 1
          /\ pc' = "cancelPaused"
          /\ UNCHANGED <<phase, timer>>
       \/ /\ ~continues
          /\ pc' = "ended"
          /\ phase' = IF paused THEN "error" ELSE "done"
          /\ timer' = "off"
          /\ UNCHANGED pauses
    /\ UNCHANGED <<aborted, linked, attempt, ok, failure, sent, shown>>

ReadLine ==
    /\ Reading
    /\ lines < MaxLines
    /\ lines' = lines + 1
    /\ \E m \in HandleEvent(msg) :
          IF finished THEN LegEnds(m, FALSE)
          ELSE /\ msg' = m
               /\ UNCHANGED <<pc, phase, aborted, attemptVars, failure, finished,
                              pauses, sent, shown>>
    /\ UNCHANGED usage

ReadFinish ==
    /\ Reading
    /\ usage' = usage + 1
    /\ \E paused \in BOOLEAN : LegEnds(msg, paused)
    /\ UNCHANGED lines

StreamFails(how) ==
    /\ failure' = how
    /\ Await("cancelFailed")
    /\ UNCHANGED <<ok, turnVars>>

\* An error or abort event, a failed finish, a dropped connection, or the end of the
\* body without a finish event.
ReadFails == Reading /\ \E how \in {"plain", "abort"} : StreamFails(how)

\* raceAbort(reader.read()): both aborts reject it with an AbortError.
ReadAborts == pc = "read" /\ (aborted \/ timedOut) /\ StreamFails("abort")

\* Mutant: a stream error is retried also after visible content.
CanRetryAlways == attempt < MaxRetries

\* Never retry after visible content was emitted.
CanRetry == msg.content = <<>> /\ attempt < MaxRetries

CancelFailedEnds ==
    /\ pc = "cancelFailed"
    /\ \/ /\ aborted \/ failure = "abort"
          /\ Fail(TRUE)
       \/ /\ ~aborted /\ failure # "abort" /\ CanRetry
          /\ msg' = [msg EXCEPT !.content = <<>>, !.text = 0, !.thinking = 0]
          /\ finished' = FALSE
          /\ UNCHANGED <<failure, pauses, usage>>
          /\ IF timedOut THEN BeginAttempt(attempt + 1, FALSE)
             ELSE Await("backoff") /\ UNCHANGED ok
       \/ /\ ~aborted /\ failure # "abort" /\ ~CanRetry
          /\ Fail(FALSE)

\* The follow-up request of a paused turn, with a new retry budget.
CancelPausedEnds ==
    /\ pc = "cancelPaused"
    /\ BeginAttempt(0, TRUE)
    /\ UNCHANGED <<failure, turnVars>>

-----------------------------------------------------------------------------
Ended == pc = "ended" /\ UNCHANGED vars

Next ==
    \/ Abort \/ AttemptTimesOut
    \/ BeginWithoutKey \/ Begin \/ PayloadFails \/ PayloadReady
    \/ FetchFails \/ FetchAnswers \/ FetchThrottled \/ DrainEnds
    \/ BackoffElapses \/ BackoffAborted
    \/ OnResponseFails \/ OnResponseEnds \/ ErrorBodyEnds
    \/ ReadLine \/ ReadFinish \/ ReadFails \/ ReadAborts
    \/ CancelFailedEnds \/ CancelPausedEnds
    \/ Ended

Spec == Init /\ [][Next]_vars

\* What happens without upstream's help: the signal of the attempt ends what awaits it,
\* a delay elapses, a reader is cancelled.
Local ==
    \/ Begin \/ BackoffElapses \/ BackoffAborted \/ ReadAborts
    \/ CancelFailedEnds \/ CancelPausedEnds
    \/ (aborted \/ timedOut) /\ PayloadFails
    \/ AttemptAborted /\ (FetchFails \/ DrainEnds \/ OnResponseFails \/ ErrorBodyEnds)

FairSpec == Spec /\ WF_vars(Local) /\ WF_vars(AttemptTimesOut)

-----------------------------------------------------------------------------
PC == {"begin", "payload", "fetch", "drain", "backoff", "onResponse", "errorBody",
       "read", "cancelFailed", "cancelPaused", "ended"}
Phase == {"new", "streaming", "done", "error", "aborted"}
BlockKind == {"text", "thinking", "toolCall"}

Message == [content : Seq(BlockKind), text : Nat, thinking : Nat, calls : [ToolIds -> Nat]]

\* An index of the closure is 0 (none) or points to a block of its kind.
PointsTo(m, i, kind) == i # 0 => i \in 1..Len(m.content) /\ m.content[i] = kind

Indexed(m) ==
    /\ PointsTo(m, m.text, "text")
    /\ PointsTo(m, m.thinking, "thinking")
    /\ \A id \in ToolIds : PointsTo(m, m.calls[id], "toolCall")

\* Type correctness; the indices of open blocks point to blocks of their kind, also
\* after retries and continuations.
TypeOK ==
    /\ pc \in PC /\ phase \in Phase
    /\ aborted \in BOOLEAN /\ linked \in BOOLEAN /\ ok \in BOOLEAN /\ finished \in BOOLEAN
    /\ timer \in {"off", "armed", "fired"}
    /\ attempt \in 0..MaxRetries
    /\ failure \in {"none", "plain", "abort"}
    /\ msg \in Message /\ Indexed(msg)
    /\ pauses \in 0..MaxPauses
    /\ usage \in 0..MaxPauses + 1
    /\ sent \in 0..MaxRetries + 1
    /\ shown \in Nat /\ lines \in Nat

\* What the consumer sees of a message: a block is open while an index points to it.
OpenAt(m, i) == i = m.text \/ i = m.thinking \/ \E id \in ToolIds : m.calls[id] = i

BlocksOf(m) ==
    [i \in 1..Len(m.content) |-> [kind |-> m.content[i], open |-> OpenAt(m, i)]]

Blocks == BlocksOf(msg)

Consumer == INSTANCE EventStream WITH blocks <- Blocks

\* The consumer's protocol holds whatever the attempts, timeouts, aborts and
\* continuations behind it do.
ConsumerProtocol == Consumer!Spec

\* Once a leg has shown content, no request repeats it: only a continuation follows.
NoRetryAfterContent ==
    [][pc \notin {"payload", "backoff", "cancelPaused"} /\ pc' \in {"fetch", "backoff"}
       /\ pc' # pc => Len(msg.content) = shown]_vars

\* "Reject truncated, aborted, and network-failed generate streams": a message is done
\* only if every leg of it came to its finish event, and the usage is that of each once.
DoneIsComplete == phase = "done" => usage = pauses + 1

\* The retry budget of a leg is respected by every way to retry together.
RetryBudget == sent <= MaxRetries + 1 /\ (pc = "fetch" => sent = attempt + 1)

\* With a timeout set, a stream ends whatever upstream does or fails to do.
EveryStreamEnds == pc # "begin" ~> pc = "ended"

\* "retries when the response starts but the stream hangs before finish".
HungStreamIsRetried ==
    [][(pc \in {"read", "cancelFailed"} /\ timedOut /\ ~aborted
        /\ msg.content = <<>> /\ attempt < MaxRetries) => pc' # "ended"]_vars

\* "user abort stops retries immediately": no request is sent once the caller aborted.
NoRequestAfterAbort == [][aborted /\ pc' = "fetch" => pc = "fetch"]_vars
=============================================================================
