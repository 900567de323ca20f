----------------------------- MODULE UsageQueue -----------------------------
(***************************************************************************)
(* UsageQueue (src/usage-queue.ts): best-effort telemetry beside the       *)
(* generation requests.  Events are buffered up to a byte cap, uploaded    *)
(* one batch at a time by a timer, an explicit flush or the shutdown       *)
(* drain, and retried with backoff within a budget of attempts and age.    *)
(*                                                                         *)
(* Time is abstract: a timer fires, a backoff elapses, an event grows too  *)
(* old and the shutdown budget ends at any moment the clock allows.        *)
(***************************************************************************)
EXTENDS Integers, Sequences, FiniteSets, Subsequences

CONSTANTS
    Events,      \* usage reports the program may enqueue, each once
    TokenOf,     \* the credential an event is uploaded with
    BytesOf,     \* its accounted size
    MaxBytes,    \* this.maxBytes (256 KiB in the code)
    BatchSize,   \* BATCH_SIZE (25 in the code)
    MaxRetries   \* uploads after the first (4 in the code)

ASSUME UsageQueueAssumption ==
    /\ IsFiniteSet(Events)
    /\ BytesOf \in [Events -> Nat]
    /\ MaxBytes \in Nat
    /\ BatchSize \in Nat \ {0}
    /\ MaxRetries \in Nat

VARIABLES
    items,      \* this.items: the buffered events, oldest attempt first
    batch,      \* the events of the upload in progress
    uploading,  \* this.uploading, and whether activeUpload is set
    bytes,      \* this.bytes
    attempts,   \* item.attempts: retries granted to an event
    timer,      \* whether this.timer is set
    backoff,    \* whether now < this.nextAttempt
    stopping,   \* this.stopping
    closed,     \* this.closed
    sent,       \* stats.sent
    dropped,    \* stats.dropped
    offered,    \* history: events enqueue() was called with
    expired,    \* events older than five minutes
    uploads     \* history: uploads an event took part in

queueVars == <<items, batch, uploading, bytes, attempts>>
clockVars == <<timer, backoff, expired>>
shutVars == <<stopping, closed>>
statVars == <<sent, dropped>>
vars == <<queueVars, clockVars, shutVars, statVars, offered, uploads>>

Elements(s) == {s[i] : i \in 1..Len(s)}
Without(s, S) == PickAt(s, {i \in 1..Len(s) : s[i] \notin S})

\* The bytes of a set of events, and how many they are.
BytesIn(S) == UNION {{e} \X (1..BytesOf[e]) : e \in S}
Size(S) == Cardinality(BytesIn(S))

Init ==
    /\ items = <<>> /\ batch = <<>> /\ uploading = FALSE /\ bytes = 0
    /\ attempts = [e \in Events |-> 0]
    /\ timer = FALSE /\ backoff = FALSE /\ expired = {}
    /\ stopping = FALSE /\ closed = FALSE
    /\ sent = 0 /\ dropped = 0
    /\ offered = {} /\ uploads = [e \in Events |-> 0]

\* Mutant: the end of an upload calls schedule() before it resets `uploading`.
ScheduleTooEarly(idle) == timer' = (timer \/ (~uploading /\ ~stopping))

\* schedule(): no timer is set once stopping or while an upload runs (its end will).
\* `idle` says whether this.uploading is false at the call.
Schedule(idle) == timer' = (timer \/ (idle /\ ~stopping))

-----------------------------------------------------------------------------
\* Mutant: the events of the running upload do not count.
FitsBuffered(e) == Size(Elements(items)) + BytesOf[e] <= MaxBytes

Fits(e) == bytes + BytesOf[e] <= MaxBytes

Enqueue(e) ==
    /\ e \notin offered
    /\ offered' = offered \cup {e}
    /\ \/ /\ stopping \/ ~Fits(e)
          /\ dropped' = dropped + 1
          /\ UNCHANGED <<items, bytes, timer>>
       \/ /\ ~stopping /\ Fits(e)
          /\ items' = Append(items, e)
          /\ bytes' = bytes + BytesOf[e]
          /\ Schedule(~uploading)
          /\ UNCHANGED dropped
    /\ UNCHANGED <<batch, uploading, attempts, backoff, expired, shutVars, sent, uploads>>

\* The batch taken from the live items: those of the first one's token.
BatchOf(live) ==
    LET same == PickAt(live, {i \in 1..Len(live) : TokenOf[live[i]] = TokenOf[Head(live)]})
    IN  SubSeq(same, 1, IF Len(same) < BatchSize THEN Len(same) ELSE BatchSize)

\* flush() and flushBatch() up to the upload's await.  `due` is the timer as the
\* caller left it.
FlushWith(due) ==
    LET old == Elements(items) \cap expired IN
    /\ ~uploading /\ ~closed /\ items # <<>>
    /\ dropped' = dropped + Cardinality(old)
    /\ bytes' = bytes - Size(old)
    /\ \E live \in {Without(items, old)} :
          \/ /\ live = <<>>
             /\ items' = live
             /\ timer' = due
             /\ UNCHANGED <<batch, uploading, uploads>>
          \/ /\ live # <<>> /\ backoff
             /\ items' = live
             /\ timer' = (due \/ ~stopping)
             /\ UNCHANGED <<batch, uploading, uploads>>
          \/ /\ live # <<>> /\ ~backoff
             /\ batch' = BatchOf(live)
             /\ items' = Without(live, Elements(batch'))
             /\ timer' = FALSE
             /\ uploading' = TRUE
             /\ uploads' = [e \in Events |-> IF e \in Elements(batch')
                                             THEN uploads[e] + 1 ELSE uploads[e]]
    /\ UNCHANGED <<attempts, backoff, expired, shutVars, sent, offered>>

TimerFires ==
    /\ timer
    /\ \/ FlushWith(FALSE)
       \/ /\ uploading \/ closed \/ items = <<>>
          /\ timer' = FALSE
          /\ UNCHANGED <<queueVars, backoff, expired, shutVars, statVars, offered, uploads>>

\* flushUsage(), called by the program at any time.
Flush == FlushWith(timer)

-----------------------------------------------------------------------------
\* Mutant: one retry too many.
RetryableOnceMore == {e \in Elements(batch) : attempts[e] <= MaxRetries /\ e \notin expired}

\* Mutant: the upload that shutdown() aborts keeps its events.
RetryableAfterClose == {e \in Elements(batch) : attempts[e] < MaxRetries /\ e \notin expired}

\* The events a failed upload may keep: retries left, and young enough to outlive the
\* wait (which Retry-After may stretch to any length).
Retryable ==
    {e \in Elements(batch) : ~closed /\ attempts[e] < MaxRetries /\ e \notin expired}

\* Mutant: retained events are not put back.
EndUploadForgetting(kept) ==
    /\ items' = items
    /\ bytes' = bytes - Size(Elements(batch) \ kept)
    /\ attempts' = [e \in Events |-> IF e \in kept THEN attempts[e] + 1 ELSE attempts[e]]
    /\ backoff' = (kept # {})
    /\ batch' = <<>>
    /\ uploading' = FALSE
    /\ IF items' # <<>> THEN Schedule(TRUE) ELSE UNCHANGED timer

\* The finally block: `kept` is retained, everything else of the batch leaves.
EndUpload(kept) ==
    /\ items' = Without(batch, Elements(batch) \ kept) \o items
    /\ bytes' = bytes - Size(Elements(batch) \ kept)
    /\ attempts' = [e \in Events |-> IF e \in kept THEN attempts[e] + 1 ELSE attempts[e]]
    /\ backoff' = (kept # {})
    /\ batch' = <<>>
    /\ uploading' = FALSE
    /\ IF items' # <<>> THEN Schedule(TRUE) ELSE UNCHANGED timer

\* A 2xx, naming the events the server rejected for good.
UploadAccepted ==
    /\ uploading
    /\ \E rejected \in SUBSET Elements(batch) :
          /\ sent' = sent + Cardinality(Elements(batch) \ rejected)
          /\ dropped' = dropped + Cardinality(rejected)
    /\ EndUpload({})
    /\ UNCHANGED <<expired, shutVars, offered, uploads>>

\* A status that is not worth retrying.
UploadRefused ==
    /\ uploading
    /\ dropped' = dropped + Len(batch)
    /\ EndUpload({})
    /\ UNCHANGED <<expired, shutVars, sent, offered, uploads>>

\* 429, 5xx, a network error, the five-second timeout, an unreadable acknowledgement,
\* or the abort of shutdown().
UploadFailed ==
    /\ uploading
    /\ \E kept \in SUBSET Retryable :
          /\ dropped' = dropped + Cardinality(Elements(batch) \ kept)
          /\ EndUpload(kept)
    /\ UNCHANGED <<expired, shutVars, sent, offered, uploads>>

-----------------------------------------------------------------------------
\* shutdown(): new events are refused and the timer is cleared; from here the drain
\* loop flushes.
Shutdown ==
    /\ ~stopping
    /\ stopping' = TRUE
    /\ timer' = FALSE
    /\ UNCHANGED <<queueVars, backoff, expired, closed, statVars, offered, uploads>>

DrainFlush == stopping /\ ~backoff /\ Flush

\* The loop ends drained, or (`late`) when its budget is spent; the finally block
\* drops what is left.
DrainEnds(late) ==
    /\ stopping /\ ~closed
    /\ late \/ (items = <<>> /\ ~uploading)
    /\ closed' = TRUE
    /\ bytes' = bytes - Size(Elements(items))
    /\ dropped' = dropped + Len(items)
    /\ items' = <<>>
    /\ timer' = FALSE
    /\ UNCHANGED <<batch, uploading, attempts, backoff, expired, stopping, sent, offered,
                   uploads>>

-----------------------------------------------------------------------------
BackoffElapses ==
    /\ backoff
    /\ backoff' = FALSE
    /\ UNCHANGED <<queueVars, timer, expired, shutVars, statVars, offered, uploads>>

Expire(e) ==
    /\ e \in (Elements(items) \cup Elements(batch)) \ expired
    /\ expired' = expired \cup {e}
    /\ UNCHANGED <<queueVars, timer, backoff, shutVars, statVars, offered, uploads>>

UploadEnds == UploadAccepted \/ UploadRefused \/ UploadFailed

\* Every event was offered and the process has shut down.
Finished ==
    /\ offered = Events /\ closed /\ ~uploading /\ ~backoff
    /\ UNCHANGED vars

Next ==
    \/ \E e \in Events : Enqueue(e) \/ Expire(e)
    \/ TimerFires \/ Flush \/ BackoffElapses
    \/ UploadAccepted \/ UploadRefused \/ UploadFailed
    \/ Shutdown \/ DrainFlush \/ DrainEnds(TRUE) \/ DrainEnds(FALSE)
    \/ Finished

Spec == Init /\ [][Next]_vars

\* Timers fire, uploads end within five seconds, and the drain loop runs until its
\* budget is spent.  Nothing obliges the program to flush or to shut down.
FairSpec ==
    /\ Spec
    /\ WF_vars(TimerFires) /\ WF_vars(BackoffElapses) /\ WF_vars(UploadEnds)
    /\ WF_vars(DrainFlush) /\ WF_vars(DrainEnds(TRUE))

-----------------------------------------------------------------------------
Pending == Elements(items) \cup Elements(batch)

\* Type correctness; an upload runs exactly while it has a batch.
TypeOK ==
    /\ items \in Seq(Events) /\ batch \in Seq(Events)
    /\ uploading \in BOOLEAN /\ (uploading <=> batch # <<>>)
    /\ bytes \in 0..MaxBytes
    /\ attempts \in [Events -> 0..MaxRetries]
    /\ timer \in BOOLEAN /\ backoff \in BOOLEAN /\ expired \subseteq offered
    /\ stopping \in BOOLEAN /\ closed \in BOOLEAN /\ (closed => stopping)
    /\ sent \in Nat /\ dropped \in Nat
    /\ offered \subseteq Events
    /\ uploads \in [Events -> 0..MaxRetries + 1]

\* The byte count is that of the buffered and the in-flight events together, and stays
\* within the cap: "buffered and in-flight payloads share a 256 KiB cap".
BytesAccounted == bytes = Size(Pending) /\ bytes <= MaxBytes

\* No event is lost or counted twice: every event offered is pending, sent or dropped,
\* and the counters of /commandcode-status say how many of each.
EveryEventAccounted ==
    /\ Cardinality(offered) = Len(items) + Len(batch) + sent + dropped
    /\ Cardinality(Pending) = Len(items) + Len(batch)

\* "up to five attempts": an event's uploads are its retries and the first one, also
\* across batches of different composition.
AttemptBudget ==
    \A e \in Events :
        /\ uploads[e] <= MaxRetries + 1
        /\ e \in Elements(items) => uploads[e] = attempts[e]
        /\ e \in Elements(batch) => uploads[e] = attempts[e] + 1

\* No wake-up is lost: whenever events wait and nothing is being uploaded, a timer or
\* the drain loop will come back for them.
NoLostWakeup == items # <<>> /\ ~uploading => timer \/ stopping

\* After shutdown() only the aborted upload may be left, and nothing starts again.
ShutIsFinal == closed => items = <<>> /\ ~timer

\* Every event ends up sent or dropped (the queue empties once the finitely many
\* events have been offered), and a shutdown ends.
EveryEventSettles ==
    /\ Pending # {} ~> Pending = {}
    /\ stopping ~> closed /\ ~uploading
=============================================================================
