-------------------------- MODULE StreamCoreProofs --------------------------
(***************************************************************************)
(* Safety of StreamCore for every retry budget, number of continuations,   *)
(* set of tool calls and upstream: the properties of the run stream_core,  *)
(* the refinement of EventStream among them, but its liveness.             *)
(***************************************************************************)
EXTENDS StreamCore, SequenceTheorems, TLAPS

\* Awaits of an attempt: its number tells how many requests the leg has sent.
InAttempt == {"fetch", "drain", "backoff", "onResponse", "errorBody", "read", "cancelFailed"}

\* Text and thinking are open only at the end of the message.
Current(m) ==
    /\ m.text # 0 => m.text = Len(m.content)
    /\ m.thinking # 0 => m.thinking = Len(m.content)

(***************************************************************************)
(* The inductive invariant.  The stream's phase follows the control; a leg *)
(* has shown nothing before it reads; every leg but the last added its     *)
(* usage; an attempt's number counts the requests of its leg.              *)
(***************************************************************************)
Control ==
    /\ pc = "begin" <=> phase = "new"
    /\ pc = "ended" <=> phase \in {"done", "error", "aborted"}
    /\ finished => pc = "ended"
    /\ pc # "ended" => usage = pauses
    /\ phase = "done" => usage = pauses + 1
    /\ shown <= Len(msg.content)
    /\ pc \notin {"read", "cancelFailed", "cancelPaused", "ended"} => shown = Len(msg.content)
    /\ pc \in InAttempt => sent = attempt + 1
    /\ pc \in {"drain", "backoff"} => attempt < MaxRetries
    /\ pc = "begin" => msg.content = <<>>

Inv == TypeOK /\ Control /\ Current(msg)

-----------------------------------------------------------------------------
(***************************************************************************)
(* The message under handleEvent.                                          *)
(***************************************************************************)
Sound(m) == m \in Message /\ Indexed(m) /\ Current(m)

\* Blocks stay, and are closed for good.
Grows(m, n) ==
    /\ Len(m.content) <= Len(n.content)
    /\ \A i \in 1..Len(m.content) :
          n.content[i] = m.content[i] /\ (OpenAt(n, i) => OpenAt(m, i))

\* endTextBlock and endThinking clear an index and nothing else.
LEMMA EndShapes ==
    ASSUME NEW m \in Message
    PROVE  /\ EndTextBlock(m) \in Message /\ EndThinking(m) \in Message
           /\ EndTextBlock(m).content = m.content /\ EndThinking(m).content = m.content
           /\ EndTextBlock(m).text = 0 /\ EndThinking(m).text = m.text
           /\ EndTextBlock(m).thinking = m.thinking /\ EndThinking(m).thinking = 0
           /\ EndTextBlock(m).calls = m.calls /\ EndThinking(m).calls = m.calls
  BY DEF Message, EndTextBlock, EndThinking

\* Closing text and thinking is sound.
LEMMA EndsSound ==
    ASSUME NEW m, Sound(m)
    PROVE  /\ Sound(EndTextBlock(m)) /\ Sound(EndThinking(m))
           /\ Grows(m, EndTextBlock(m)) /\ Grows(m, EndThinking(m))
  <1>1. m \in Message /\ Len(m.content) \in Nat
    BY DEF Sound, Message
  <1>2. Sound(EndTextBlock(m)) /\ Sound(EndThinking(m))
    BY <1>1, EndShapes DEF Sound, Indexed, PointsTo, Current
  <1>3. \A i \in 1..Len(m.content) :
           /\ OpenAt(EndTextBlock(m), i) => OpenAt(m, i)
           /\ OpenAt(EndThinking(m), i) => OpenAt(m, i)
    BY <1>1, EndShapes DEF OpenAt
  <1> QED BY <1>1, <1>2, <1>3, EndShapes DEF Grows

\* So is closing both; what remains open are inputs of tool calls.
LEMMA EndBothSound ==
    ASSUME NEW m, Sound(m)
    PROVE  LET n == EndThinking(EndTextBlock(m)) IN
           /\ Sound(n) /\ Grows(m, n)
           /\ n.content = m.content /\ n.text = 0 /\ n.thinking = 0 /\ n.calls = m.calls
  <1> DEFINE e == EndTextBlock(m)
             n == EndThinking(EndTextBlock(m))
  <1>1. Sound(e) /\ Grows(m, e) /\ m \in Message /\ e \in Message /\ Len(m.content) \in Nat
    BY EndsSound, EndShapes DEF Sound, Message
  <1>2. Sound(n) /\ Grows(e, n)
    BY <1>1, EndsSound
  <1>3. /\ e.content = m.content /\ e.text = 0 /\ e.calls = m.calls
        /\ n.content = e.content /\ n.text = e.text /\ n.thinking = 0 /\ n.calls = e.calls
    BY <1>1, EndShapes
  <1>4. Grows(m, n)
    BY <1>1, <1>2, <1>3 DEF Grows
  <1> QED BY <1>2, <1>3, <1>4

\* A sound message with a block appended, before any index is set to it.
LEMMA OpenedShape ==
    ASSUME NEW m \in Message, NEW kind \in BlockKind
    PROVE  LET n == Opened(m, kind) IN
           /\ n \in Message /\ n.text = m.text /\ n.thinking = m.thinking /\ n.calls = m.calls
           /\ n.content \in Seq(BlockKind)
           /\ Len(n.content) = Len(m.content) + 1
           /\ n.content[Len(m.content) + 1] = kind
           /\ \A i \in 1..Len(m.content) : n.content[i] = m.content[i]
  <1> DEFINE c == m.content
             d == Append(c, kind)
  <1>1. c \in Seq(BlockKind) /\ Len(c) \in Nat
    BY DEF Message
  <1>2. /\ d \in Seq(BlockKind) /\ Len(d) = Len(c) + 1 /\ d[Len(c) + 1] = kind
        /\ \A i \in 1..Len(c) : d[i] = c[i]
    BY <1>1
  <1>3. /\ Opened(m, kind).content = d /\ Opened(m, kind).text = m.text
        /\ Opened(m, kind).thinking = m.thinking /\ Opened(m, kind).calls = m.calls
    BY DEF Message, Opened
  <1> HIDE DEF d
  <1>4. Opened(m, kind) \in Message
    BY <1>2 DEF Message, Opened, d
  <1> QED BY <1>2, <1>3, <1>4

\* Opening a block while neither text nor thinking is open, whatever index is set to it.
LEMMA OpenSound ==
    ASSUME NEW m, Sound(m), m.text = 0, m.thinking = 0,
           NEW kind \in BlockKind, NEW n \in Message,
           n.content = Opened(m, kind).content,
           n.text # 0 => n.text = Len(m.content) + 1 /\ kind = "text",
           n.thinking # 0 => n.thinking = Len(m.content) + 1 /\ kind = "thinking",
           \A id \in ToolIds : n.calls[id] # m.calls[id]
                => n.calls[id] = Len(m.content) + 1 /\ kind = "toolCall"
    PROVE  Sound(n) /\ Grows(m, n)
  <1>0. m \in Message /\ Len(m.content) \in Nat
    BY DEF Sound, Message
  <1>1. /\ m \in Message /\ Len(m.content) \in Nat
        /\ Len(n.content) = Len(m.content) + 1
        /\ n.content[Len(m.content) + 1] = kind
        /\ \A i \in 1..Len(m.content) : n.content[i] = m.content[i]
    BY <1>0, OpenedShape
  <1>2. /\ n.text \in Nat /\ n.thinking \in Nat
        /\ \A id \in ToolIds : n.calls[id] \in Nat
    BY DEF Message
  <1>3. Current(n)
    BY <1>1 DEF Current
  <1>4. PointsTo(n, n.text, "text") /\ PointsTo(n, n.thinking, "thinking")
    BY <1>1 DEF PointsTo
  <1>5. ASSUME NEW id \in ToolIds PROVE PointsTo(n, n.calls[id], "toolCall")
    <2>1. CASE n.calls[id] = m.calls[id]
      <3>1. PointsTo(m, m.calls[id], "toolCall")
        BY DEF Sound, Indexed
      <3> QED BY <1>1, <2>1, <3>1 DEF PointsTo
    <2>2. CASE n.calls[id] # m.calls[id]
      BY <1>1, <2>2 DEF PointsTo
    <2> QED BY <2>1, <2>2
  <1>6. ASSUME NEW i \in 1..Len(m.content), OpenAt(n, i) PROVE OpenAt(m, i)
    <2>1. i # n.text /\ i # n.thinking
      BY <1>1, <1>2
    <2>2. PICK id \in ToolIds : n.calls[id] = i
      BY <1>6, <2>1 DEF OpenAt
    <2>3. m.calls[id] = i
      BY <1>1, <2>2
    <2> QED BY <2>3 DEF OpenAt
  <1>7. Grows(m, n)
    BY <1>1, <1>6 DEF Grows
  <1> QED BY <1>3, <1>4, <1>5, <1>7 DEF Sound, Indexed

\* Growth is transitive through a message with the same content.
LEMMA GrowsThrough ==
    ASSUME NEW m, NEW e, NEW n, Grows(m, e), Grows(e, n), e.content = m.content
    PROVE  Grows(m, n)
  BY DEF Grows

\* A text delta closes thinking and extends the open text block or opens one.
LEMMA TextDeltaSound ==
    ASSUME NEW m, Sound(m)
    PROVE  Sound(TextDelta(m)) /\ Grows(m, TextDelta(m))
  <1> DEFINE e == EndThinking(m)
             n == [Opened(e, "text") EXCEPT !.text = Len(e.content) + 1]
  <1>1. /\ Sound(e) /\ Grows(m, e) /\ e \in Message
        /\ e.content = m.content /\ e.thinking = 0
    BY EndsSound, EndShapes DEF Sound
  <1>2. CASE e.text # 0
    BY <1>1, <1>2 DEF TextDelta
  <1>3. CASE e.text = 0
    <2>1. /\ Opened(e, "text") \in Message /\ Opened(e, "text").thinking = 0
          /\ Opened(e, "text").calls = e.calls /\ Len(e.content) \in Nat
      BY <1>1, OpenedShape DEF BlockKind, Message
    <2>2. /\ n \in Message /\ n.content = Opened(e, "text").content
          /\ n.text = Len(e.content) + 1 /\ n.thinking = 0 /\ n.calls = e.calls
      BY <2>1 DEF Message
    <2> HIDE DEF n
    <2>3. Sound(n) /\ Grows(e, n)
      BY <1>1, <1>3, <2>2, OpenSound DEF BlockKind
    <2>4. Grows(m, n)
      BY <1>1, <2>3, GrowsThrough
    <2> QED BY <1>3, <2>3, <2>4 DEF TextDelta, n
  <1> QED BY <1>2, <1>3

\* A reasoning delta closes text and extends the open thinking block or opens one.
LEMMA ReasoningDeltaSound ==
    ASSUME NEW m, Sound(m)
    PROVE  Sound(ReasoningDelta(m)) /\ Grows(m, ReasoningDelta(m))
  <1> DEFINE e == EndTextBlock(m)
             n == [Opened(e, "thinking") EXCEPT !.thinking = Len(e.content) + 1]
  <1>1. /\ Sound(e) /\ Grows(m, e) /\ e \in Message
        /\ e.content = m.content /\ e.text = 0
    BY EndsSound, EndShapes DEF Sound
  <1>2. CASE e.thinking # 0
    BY <1>1, <1>2 DEF ReasoningDelta
  <1>3. CASE e.thinking = 0
    <2>1. /\ Opened(e, "thinking") \in Message /\ Opened(e, "thinking").text = 0
          /\ Opened(e, "thinking").calls = e.calls /\ Len(e.content) \in Nat
      BY <1>1, OpenedShape DEF BlockKind, Message
    <2>2. /\ n \in Message /\ n.content = Opened(e, "thinking").content
          /\ n.thinking = Len(e.content) + 1 /\ n.text = 0 /\ n.calls = e.calls
      BY <2>1 DEF Message
    <2> HIDE DEF n
    <2>3. Sound(n) /\ Grows(e, n)
      BY <1>1, <1>3, <2>2, OpenSound DEF BlockKind
    <2>4. Grows(m, n)
      BY <1>1, <2>3, GrowsThrough
    <2> QED BY <1>3, <2>3, <2>4 DEF ReasoningDelta, n
  <1> QED BY <1>2, <1>3

\* The start of a tool call's input closes both and opens a block unless it has one.
LEMMA ToolInputStartSound ==
    ASSUME NEW m, Sound(m), NEW id \in ToolIds
    PROVE  Sound(ToolInputStart(m, id)) /\ Grows(m, ToolInputStart(m, id))
  <1> DEFINE e == EndThinking(EndTextBlock(m))
             o == Opened(e, "toolCall")
             n == [o EXCEPT !.calls = [@ EXCEPT ![id] = Len(e.content) + 1]]
  <1>1. /\ Sound(e) /\ Grows(m, e) /\ e \in Message
        /\ e.content = m.content /\ e.text = 0 /\ e.thinking = 0
    BY EndBothSound DEF Sound
  <1>2. CASE e.calls[id] # 0
    BY <1>1, <1>2 DEF ToolInputStart
  <1>3. CASE e.calls[id] = 0
    <2>1. /\ o \in Message /\ o.text = 0 /\ o.thinking = 0
          /\ o.calls = e.calls /\ Len(e.content) \in Nat
      BY <1>1, OpenedShape DEF BlockKind, Message
    <2> HIDE DEF o
    <2> DEFINE c == [o.calls EXCEPT ![id] = Len(e.content) + 1]
    <2>2. c \in [ToolIds -> Nat]
      BY <2>1 DEF Message
    <2> HIDE DEF c
    <2>3. n = [o EXCEPT !.calls = c]
      BY DEF c
    <2>4. /\ n \in Message /\ n.content = o.content /\ n.text = 0 /\ n.thinking = 0
          /\ n.calls = c
      BY <2>1, <2>2, <2>3 DEF Message
    <2>5. n.calls = [e.calls EXCEPT ![id] = Len(e.content) + 1]
      BY <2>1, <2>4 DEF c
    <2>6. \A j \in ToolIds : n.calls[j] # e.calls[j] => n.calls[j] = Len(e.content) + 1
      BY <1>1, <2>5 DEF Message
    <2> HIDE DEF n
    <2>7. Sound(n) /\ Grows(e, n)
      BY <1>1, <2>4, <2>6, OpenSound DEF BlockKind, o
    <2>8. Grows(m, n)
      BY <1>1, <2>7, GrowsThrough
    <2> QED BY <1>3, <2>7, <2>8 DEF ToolInputStart, n, o
  <1> QED BY <1>2, <1>3

\* A complete tool call closes its block, or is a closed block.
LEMMA ToolCallSound ==
    ASSUME NEW m, Sound(m), NEW id \in ToolIds
    PROVE  Sound(ToolCall(m, id)) /\ Grows(m, ToolCall(m, id))
  <1> DEFINE e == EndThinking(EndTextBlock(m))
             o == Opened(e, "toolCall")
             n == [e EXCEPT !.calls = [@ EXCEPT ![id] = 0]]
  <1>1. /\ Sound(e) /\ Grows(m, e) /\ e \in Message /\ Len(e.content) \in Nat
        /\ e.content = m.content /\ e.text = 0 /\ e.thinking = 0
    BY EndBothSound DEF Sound, Message
  <1>2. CASE e.calls[id] # 0
    <2>1. /\ n \in Message /\ n.content = e.content /\ n.text = 0 /\ n.thinking = 0
          /\ \A j \in ToolIds : n.calls[j] = IF j = id THEN 0 ELSE e.calls[j]
      BY <1>1 DEF Message
    <2> HIDE DEF n
    <2>2. Sound(n)
      BY <1>1, <2>1 DEF Sound, Indexed, PointsTo, Current
    <2>3. \A i \in 1..Len(e.content) : OpenAt(n, i) => OpenAt(e, i)
      BY <1>1, <2>1 DEF OpenAt
    <2>4. Grows(e, n)
      BY <1>1, <2>1, <2>3 DEF Grows
    <2>5. Grows(m, n)
      BY <1>1, <2>4, GrowsThrough
    <2> QED BY <1>2, <2>2, <2>5 DEF ToolCall, n
  <1>3. CASE e.calls[id] = 0
    <2>1. o \in Message /\ o.text = 0 /\ o.thinking = 0 /\ o.calls = e.calls
      BY <1>1, OpenedShape DEF BlockKind
    <2>2. Sound(o) /\ Grows(e, o)
      BY <1>1, <2>1, OpenSound DEF BlockKind
    <2>3. Grows(m, o)
      BY <1>1, <2>2, GrowsThrough
    <2> QED BY <1>3, <2>2, <2>3 DEF ToolCall
  <1> QED BY <1>2, <1>3

\* Every line that changes the message keeps it sound and takes nothing back.
LEMMA HandleEventSound ==
    ASSUME NEW m, Sound(m), NEW n \in HandleEvent(m)
    PROVE  Sound(n) /\ Grows(m, n)
  BY EndsSound, TextDeltaSound, ReasoningDeltaSound, ToolInputStartSound, ToolCallSound
     DEF HandleEvent

-----------------------------------------------------------------------------
(***************************************************************************)
(* The invariant.                                                          *)
(***************************************************************************)
USE StreamCoreAssumption

\* What the steps that leave the message alone need to know about it.
LEMMA MessageFacts ==
    ASSUME Inv
    PROVE  Sound(msg) /\ Len(msg.content) \in Nat
  BY DEF Inv, TypeOK, Sound, Message

\* A new stream satisfies it.
LEMMA InvInit == Init => Inv
  <1> SUFFICES ASSUME Init PROVE Inv
    OBVIOUS
  <1>1. msg \in Message /\ Indexed(msg) /\ Current(msg) /\ Len(msg.content) = 0
    BY DEF Init, Message, Indexed, PointsTo, Current
  <1>2. TypeOK
    <2>1. linked \in BOOLEAN /\ ok \in BOOLEAN /\ finished \in BOOLEAN /\ aborted \in BOOLEAN
      BY DEF Init
    <2>2. /\ pc \in PC /\ phase \in Phase /\ timer \in {"off", "armed", "fired"}
          /\ failure \in {"none", "plain", "abort"}
      BY DEF Init, PC, Phase
    <2>3. /\ attempt \in 0..MaxRetries /\ pauses \in 0..MaxPauses
          /\ usage \in 0..MaxPauses + 1 /\ sent \in 0..MaxRetries + 1
          /\ shown \in Nat /\ lines \in Nat
      BY DEF Init
    <2> QED BY <1>1, <2>1, <2>2, <2>3 DEF TypeOK
  <1>3. Control
    BY <1>1 DEF Init, Control, InAttempt
  <1> QED BY <1>1, <1>2, <1>3 DEF Inv

\* The outer catch keeps it.
LEMMA FailInv ==
    ASSUME Inv, pc \notin {"begin", "ended"}, NEW isAbort \in BOOLEAN, Fail(isAbort)
    PROVE  Inv'
  <1>1. Sound(msg) /\ Len(msg.content) \in Nat /\ msg' = msg
    BY MessageFacts DEF Fail, turnVars
  <1>2. TypeOK'
    BY <1>1 DEF Inv, TypeOK, Fail, turnVars, historyVars, PC, Phase, timedOut
  <1>3. Control'
    BY <1>1 DEF Inv, Control, TypeOK, Fail, turnVars, historyVars, InAttempt
  <1> QED BY <1>1, <1>2, <1>3 DEF Inv, Sound

\* A retry keeps it: the attempt's number was below the budget.
LEMMA RetryInv ==
    ASSUME Inv, pc \in InAttempt, pc # "read", attempt < MaxRetries,
           shown = Len(msg.content), Retry
    PROVE  Inv'
  <1>1. Sound(msg) /\ Len(msg.content) \in Nat /\ msg' = msg
    BY MessageFacts DEF Retry, turnVars
  <1>2. TypeOK'
    BY <1>1 DEF Inv, TypeOK, Control, Retry, BeginAttempt, Arm, turnVars, PC, Phase
  <1>3. Control'
    BY <1>1 DEF Inv, Control, TypeOK, Retry, BeginAttempt, turnVars, InAttempt
  <1> QED BY <1>1, <1>2, <1>3 DEF Inv, Sound

\* So does the first attempt of a leg.
LEMMA LegBeginsInv ==
    ASSUME Inv, pc \in {"payload", "cancelPaused"},
           BeginAttempt(0, TRUE), UNCHANGED <<failure, turnVars>>
    PROVE  Inv'
  <1>1. Sound(msg) /\ Len(msg.content) \in Nat /\ msg' = msg
    BY MessageFacts DEF turnVars
  <1>2. TypeOK'
    BY <1>1 DEF Inv, TypeOK, BeginAttempt, Arm, turnVars, PC, Phase
  <1>3. Control'
    BY <1>1 DEF Inv, Control, TypeOK, BeginAttempt, turnVars, InAttempt
  <1> QED BY <1>1, <1>2, <1>3 DEF Inv, Sound

\* And the moves from one await of an attempt to the next.
LEMMA AwaitInv ==
    ASSUME Inv, pc \in InAttempt, NEW where \in InAttempt,
           where # "fetch", where \in {"drain", "backoff"} => attempt < MaxRetries,
           where \in {"read", "cancelFailed"} \/ shown = Len(msg.content),
           Await(where), ok' \in BOOLEAN, failure' \in {"none", "plain", "abort"},
           UNCHANGED turnVars
    PROVE  Inv'
  <1>1. Sound(msg) /\ Len(msg.content) \in Nat /\ msg' = msg
    BY MessageFacts DEF turnVars
  <1>2. TypeOK'
    BY <1>1 DEF Inv, TypeOK, Await, turnVars, historyVars, PC, Phase, InAttempt
  <1>3. Control'
    BY <1>1 DEF Inv, Control, TypeOK, Await, turnVars, historyVars, InAttempt
  <1> QED BY <1>1, <1>2, <1>3 DEF Inv, Sound

\* Steps that end a leg's reading on success keep it.
LEMMA LegEndsInv ==
    ASSUME Inv, pc = "read", NEW m, Sound(m), Grows(msg, m), NEW paused \in BOOLEAN,
           usage' = usage + 1, LegEnds(m, paused), lines' \in Nat
    PROVE  Inv'
  <1>1. /\ Sound(msg) /\ Len(msg.content) \in Nat /\ Len(m.content) \in Nat
        /\ Sound(msg') /\ msg'.content = m.content
    BY MessageFacts, EndBothSound DEF LegEnds, Sound, Message
  <1>2. Len(msg'.content) \in Nat /\ Len(msg.content) <= Len(msg'.content)
    BY <1>1 DEF Grows
  <1>3. usage = pauses /\ phase = "streaming" /\ shown <= Len(msg.content)
    BY DEF Inv, Control, TypeOK, Phase
  <1>4. finished' \in BOOLEAN /\ (finished' => pc' = "ended")
    BY DEF LegEnds, FinishedAfter
  <1>5. TypeOK'
    <2>1. CASE paused /\ pauses < MaxPauses
      BY <1>1, <1>3, <1>4, <2>1 DEF Inv, TypeOK, LegEnds, PC, Sound
    <2>2. CASE ~(paused /\ pauses < MaxPauses)
      BY <1>1, <1>3, <1>4, <2>2 DEF Inv, TypeOK, LegEnds, PC, Phase, Sound
    <2> QED BY <2>1, <2>2
  <1>6. Control'
    <2>1. CASE paused /\ pauses < MaxPauses
      BY <1>2, <1>3, <1>4, <2>1 DEF Inv, TypeOK, Control, LegEnds, InAttempt
    <2>2. CASE ~(paused /\ pauses < MaxPauses)
      BY <1>2, <1>3, <1>4, <2>2 DEF Inv, TypeOK, Control, LegEnds, InAttempt
    <2> QED BY <2>1, <2>2
  <1> QED BY <1>1, <1>5, <1>6 DEF Inv, Sound

\* The request before its first attempt, the caller's abort and the timer.
LEMMA BeginsInv ==
    ASSUME Inv,
           Abort \/ AttemptTimesOut \/ BeginWithoutKey \/ Begin \/ PayloadFails \/ PayloadReady
    PROVE  Inv'
  <1>1. Sound(msg) /\ Len(msg.content) \in Nat
    BY MessageFacts
  <1>2. CASE Abort \/ AttemptTimesOut
    <2>1. msg' = msg /\ TypeOK'
      BY <1>1, <1>2 DEF Inv, TypeOK, Abort, AttemptTimesOut, attemptVars, turnVars, historyVars
    <2>2. Control'
      BY <1>1, <1>2 DEF Inv, Control, Abort, AttemptTimesOut, attemptVars, turnVars, historyVars
    <2> QED BY <1>1, <2>1, <2>2 DEF Inv, Sound
  <1>3. CASE BeginWithoutKey \/ Begin
    <2>1. msg' = msg /\ TypeOK'
      BY <1>1, <1>3 DEF Inv, TypeOK, BeginWithoutKey, Begin, Arm, attemptVars, turnVars,
                        historyVars, PC, Phase
    <2>2. Control'
      BY <1>1, <1>3 DEF Inv, TypeOK, Control, BeginWithoutKey, Begin, attemptVars, turnVars,
                        historyVars, InAttempt
    <2> QED BY <1>1, <2>1, <2>2 DEF Inv, Sound
  <1>4. CASE PayloadFails
    BY <1>4, FailInv DEF PayloadFails
  <1>5. CASE PayloadReady
    BY <1>5, LegBeginsInv DEF PayloadReady
  <1> QED BY <1>2, <1>3, <1>4, <1>5

\* One HTTP attempt up to its body.
LEMMA AttemptInv ==
    ASSUME Inv,
           \/ FetchFails \/ FetchAnswers \/ FetchThrottled \/ DrainEnds
           \/ BackoffElapses \/ BackoffAborted
           \/ OnResponseFails \/ OnResponseEnds \/ ErrorBodyEnds
    PROVE  Inv'
  <1>1. /\ ok \in BOOLEAN /\ failure \in {"none", "plain", "abort"}
        /\ pc \in {"drain", "backoff"} => attempt < MaxRetries
        /\ pc \in InAttempt \ {"read", "cancelFailed"} => shown = Len(msg.content)
    BY DEF Inv, TypeOK, Control, InAttempt
  <1>2. CASE FetchFails
    BY <1>1, <1>2, FailInv, RetryInv DEF FetchFails, InAttempt
  <1>3. CASE FetchAnswers
    BY <1>1, <1>3, AwaitInv DEF FetchAnswers, InAttempt
  <1>4. CASE FetchThrottled
    <2>1. CASE Fail(FALSE)
      BY <1>4, <2>1, FailInv DEF FetchThrottled
    <2>2. CASE ~Fail(FALSE)
      BY <1>1, <1>4, <2>2, AwaitInv DEF FetchThrottled, InAttempt
    <2> QED BY <2>1, <2>2
  <1>5. CASE DrainEnds
    BY <1>1, <1>5, AwaitInv, RetryInv DEF DrainEnds, InAttempt
  <1>6. CASE BackoffElapses
    BY <1>1, <1>6, RetryInv DEF BackoffElapses, InAttempt
  <1>7. CASE BackoffAborted
    BY <1>7, FailInv DEF BackoffAborted
  <1>8. CASE OnResponseFails
    BY <1>1, <1>8, FailInv, RetryInv DEF OnResponseFails, MayRetryAfterHook, InAttempt
  <1>9. CASE OnResponseEnds
    <2>1. CASE Fail(FALSE)
      BY <1>9, <2>1, FailInv DEF OnResponseEnds
    <2>2. CASE ~Fail(FALSE)
      BY <1>1, <1>9, <2>2, AwaitInv DEF OnResponseEnds, InAttempt
    <2> QED BY <2>1, <2>2
  <1>10. CASE ErrorBodyEnds
    BY <1>10, FailInv DEF ErrorBodyEnds
  <1> QED BY <1>2, <1>3, <1>4, <1>5, <1>6, <1>7, <1>8, <1>9, <1>10

\* The read loop, and what follows its end.
LEMMA ReadInv ==
    ASSUME Inv,
           \/ ReadLine \/ ReadFinish \/ ReadFails \/ ReadAborts
           \/ CancelFailedEnds \/ CancelPausedEnds
    PROVE  Inv'
  <1>1. /\ Sound(msg) /\ Len(msg.content) \in Nat
        /\ ok \in BOOLEAN /\ lines \in Nat
        /\ pc = "read" => ~finished
    BY MessageFacts DEF Inv, TypeOK, Control
  <1>2. CASE ReadLine
    <2>1. pc = "read" /\ ~finished
      BY <1>1, <1>2 DEF ReadLine, Reading
    <2>2. /\ msg' \in HandleEvent(msg)
          /\ UNCHANGED <<pc, phase, aborted, attemptVars, failure, finished, pauses, sent, shown>>
          /\ lines' = lines + 1 /\ UNCHANGED usage
      BY <1>2, <2>1 DEF ReadLine
    <2>3. Sound(msg') /\ Grows(msg, msg')
      BY <1>1, <2>2, HandleEventSound
    <2>4. TypeOK'
      BY <1>1, <2>2, <2>3 DEF Inv, TypeOK, Sound, attemptVars
    <2>5. Len(msg'.content) \in Nat /\ Len(msg.content) <= Len(msg'.content)
      BY <2>3 DEF Sound, Grows, Message
    <2>6. Control'
      BY <1>1, <2>1, <2>2, <2>5 DEF Inv, TypeOK, Control, attemptVars, InAttempt
    <2> QED BY <2>3, <2>4, <2>6 DEF Inv, Sound
  <1>3. CASE ReadFinish
    <2>1. Grows(msg, msg)
      BY <1>1 DEF Grows
    <2> QED BY <1>1, <1>3, <2>1, LegEndsInv DEF ReadFinish, Reading
  <1>4. CASE ReadFails \/ ReadAborts
    BY <1>1, <1>4, AwaitInv DEF ReadFails, ReadAborts, Reading, StreamFails, InAttempt
  <1>5. CASE CancelFailedEnds
    <2>1. CASE Fail(TRUE) \/ Fail(FALSE)
      BY <1>5, <2>1, FailInv DEF CancelFailedEnds
    <2>2. CASE ~Fail(TRUE) /\ ~Fail(FALSE)
      <3>1. /\ pc = "cancelFailed" /\ CanRetry
            /\ msg' = [msg EXCEPT !.content = <<>>, !.text = 0, !.thinking = 0]
            /\ finished' = FALSE /\ UNCHANGED <<failure, pauses, usage>>
            /\ IF timedOut THEN BeginAttempt(attempt + 1, FALSE)
               ELSE Await("backoff") /\ UNCHANGED ok
        BY <1>5, <2>2 DEF CancelFailedEnds
      <3>2. msg.content = <<>> /\ msg.text = 0 /\ msg.thinking = 0
        BY <1>1, <3>1 DEF CanRetry, Sound, Indexed, PointsTo
      <3>3. msg' = msg
        BY <1>1, <3>1, <3>2 DEF Sound, Message
      <3>4. Len(msg.content) = 0 /\ shown \in Nat /\ shown <= Len(msg.content)
        BY <3>2 DEF Inv, TypeOK, Control
      <3>5. finished \in BOOLEAN /\ finished' = finished
        BY <3>1 DEF Inv, TypeOK, Control
      <3>6. UNCHANGED turnVars /\ attempt < MaxRetries /\ shown = Len(msg.content)
        BY <3>1, <3>3, <3>4, <3>5 DEF turnVars, CanRetry
      <3>7. CASE timedOut
        BY <1>1, <3>1, <3>6, <3>7, RetryInv DEF Retry, InAttempt
      <3>8. CASE ~timedOut
        BY <1>1, <3>1, <3>6, <3>8, AwaitInv DEF InAttempt, Inv, TypeOK
      <3> QED BY <3>7, <3>8
    <2> QED BY <2>1, <2>2
  <1>6. CASE CancelPausedEnds
    BY <1>6, LegBeginsInv DEF CancelPausedEnds
  <1> QED BY <1>2, <1>3, <1>4, <1>5, <1>6

\* The invariant is inductive.
LEMMA InvNext == Inv /\ [Next]_vars => Inv'
  <1> SUFFICES ASSUME Inv, [Next]_vars PROVE Inv'
    OBVIOUS
  <1>1. CASE UNCHANGED vars
    <2>1. msg' = msg /\ TypeOK'
      BY <1>1 DEF Inv, TypeOK, vars, attemptVars, turnVars, historyVars
    <2>2. Control'
      BY <1>1 DEF Inv, Control, vars, attemptVars, turnVars, historyVars
    <2> QED BY <2>1, <2>2 DEF Inv
  <1>2. CASE Ended
    BY <1>1, <1>2 DEF Ended
  <1> QED BY <1>1, <1>2, BeginsInv, AttemptInv, ReadInv DEF Next

-----------------------------------------------------------------------------
(***************************************************************************)
(* The properties of the run stream_core.                                  *)
(***************************************************************************)
\* The invariant holds throughout.
LEMMA InvHolds == Spec => []Inv
  BY InvInit, InvNext, PTL DEF Spec

\* Type correctness (TypeOK): the indices textBlock, thinkingIdx and streamingToolCalls
\* of the closure point to blocks of their kind after any retries and continuations.
THEOREM StreamTypeCorrect == Spec => []TypeOK
  <1>1. Inv => TypeOK
    BY DEF Inv
  <1> QED BY <1>1, InvHolds, PTL

\* RetryBudget: throttling, timeouts and stream errors together send at most
\* maxRetries + 1 requests in a leg.
THEOREM BudgetRespected == Spec => []RetryBudget
  <1>1. Inv => RetryBudget
    BY DEF Inv, TypeOK, Control, RetryBudget, InAttempt
  <1> QED BY <1>1, InvHolds, PTL

\* DoneIsComplete: a done message had a finish event in each of its legs.
THEOREM DoneOnlyIfComplete == Spec => []DoneIsComplete
  <1>1. Inv => DoneIsComplete
    BY DEF Inv, Control, DoneIsComplete
  <1> QED BY <1>1, InvHolds, PTL

\* NoRetryAfterContent: a leg that has shown content to the consumer is not sent again.
THEOREM ContentNotRepeated == Spec => NoRetryAfterContent
  <1> DEFINE A == /\ pc \notin {"payload", "backoff", "cancelPaused"}
                  /\ pc' \in {"fetch", "backoff"}
                  /\ pc' # pc
                  => Len(msg.content) = shown
  <1>1. Inv /\ [Next]_vars => [A]_vars
    <2> SUFFICES ASSUME Inv, Next, pc \notin {"payload", "backoff", "cancelPaused"},
                        pc' \in {"fetch", "backoff"}, pc' # pc
                 PROVE  Len(msg.content) = shown
      OBVIOUS
    <2>1. CASE pc \notin {"read", "cancelFailed", "ended"}
      BY <2>1 DEF Inv, Control
    <2>2. CASE pc = "cancelFailed"
      <3>1. CancelFailedEnds
        BY <2>2 DEF Next, Abort, AttemptTimesOut, BeginWithoutKey, Begin, PayloadFails,
             PayloadReady, FetchFails, FetchAnswers, FetchThrottled, DrainEnds,
             BackoffElapses, BackoffAborted, OnResponseFails, OnResponseEnds, ErrorBodyEnds,
             ReadLine, ReadFinish, ReadFails, ReadAborts, Reading, CancelPausedEnds, Ended
      <3>2. msg.content = <<>>
        BY <3>1 DEF CancelFailedEnds, CanRetry, Fail
      <3> QED BY <3>2 DEF Inv, TypeOK, Control
    <2>3. CASE pc \in {"read", "ended"}
      BY <2>3 DEF Next, Abort, AttemptTimesOut, BeginWithoutKey, Begin, PayloadFails,
             PayloadReady, FetchFails, FetchAnswers, FetchThrottled, DrainEnds,
             BackoffElapses, BackoffAborted, OnResponseFails, OnResponseEnds, ErrorBodyEnds,
             ReadLine, ReadFinish, ReadFails, ReadAborts, Reading, CancelFailedEnds,
             CancelPausedEnds, Ended, LegEnds, StreamFails, Await, vars
    <2> QED BY <2>1, <2>2, <2>3
  <1> QED BY <1>1, InvHolds, PTL DEF Spec, NoRetryAfterContent
-----------------------------------------------------------------------------
(***************************************************************************)
(* The refinement: every step of streamCommandCode is a step of EventStream*)
(* or changes nothing the consumer sees.                                   *)
(***************************************************************************)
\* The consumer's view of a message.
LEMMA BlocksShape ==
    ASSUME NEW m, Sound(m)
    PROVE  /\ BlocksOf(m) \in Seq(Consumer!Block)
           /\ Len(BlocksOf(m)) = Len(m.content) /\ Len(m.content) \in Nat
           /\ \A i \in 1..Len(m.content) :
                 /\ BlocksOf(m)[i].kind = m.content[i]
                 /\ BlocksOf(m)[i].open <=> OpenAt(m, i)
                 /\ BlocksOf(m)[i] = [kind |-> m.content[i], open |-> OpenAt(m, i)]
  <1>1. /\ m.content \in Seq(BlockKind) /\ Len(m.content) \in Nat
        /\ \A i \in 1..Len(m.content) : m.content[i] \in BlockKind
    BY DEF Sound, Message
  <1>2. \A i \in 1..Len(m.content) : OpenAt(m, i) \in BOOLEAN
    BY DEF OpenAt
  <1>3. \A i \in 1..Len(m.content) :
           [kind |-> m.content[i], open |-> OpenAt(m, i)] \in Consumer!Block
    BY <1>1, <1>2 DEF Consumer!Block, Consumer!Kinds, BlockKind
  <1> QED BY <1>1, <1>3 DEF BlocksOf

\* Growth of a sound message is a legal extension of the consumer's blocks.
LEMMA GrowthIsEmitted ==
    ASSUME NEW m, Sound(m), NEW n, Sound(n), Grows(m, n)
    PROVE  Consumer!Extends(BlocksOf(m), BlocksOf(n)) /\ Consumer!Tidy(BlocksOf(n))
  <1>1. Consumer!Extends(BlocksOf(m), BlocksOf(n))
    <2>1. /\ Len(BlocksOf(m)) = Len(m.content) /\ Len(BlocksOf(n)) = Len(n.content)
          /\ Len(m.content) \in Nat /\ Len(n.content) \in Nat
          /\ Len(m.content) <= Len(n.content)
      BY BlocksShape DEF Grows
    <2>2. ASSUME NEW i \in 1..Len(m.content)
          PROVE  /\ BlocksOf(n)[i].kind = BlocksOf(m)[i].kind
                 /\ BlocksOf(n)[i].open => BlocksOf(m)[i].open
      <3>1. i \in 1..Len(n.content)
        BY <2>1
      <3>2. n.content[i] = m.content[i] /\ (OpenAt(n, i) => OpenAt(m, i))
        BY DEF Grows
      <3>3. BlocksOf(n)[i].kind = n.content[i] /\ (BlocksOf(n)[i].open <=> OpenAt(n, i))
        BY <3>1, BlocksShape
      <3>4. BlocksOf(m)[i].kind = m.content[i] /\ (BlocksOf(m)[i].open <=> OpenAt(m, i))
        BY BlocksShape
      <3> QED BY <3>2, <3>3, <3>4
    <2> QED BY <2>1, <2>2 DEF Consumer!Extends
  <1>2. ASSUME NEW i \in 1..Len(n.content), OpenAt(n, i)
        PROVE  i = Len(n.content) \/ n.content[i] = "toolCall"
    BY <1>2 DEF OpenAt, Sound, Current, Indexed, PointsTo
  <1>3. Consumer!Tidy(BlocksOf(n))
    <2>1. Len(BlocksOf(n)) = Len(n.content)
      BY BlocksShape
    <2>2. ASSUME NEW i \in 1..Len(n.content), BlocksOf(n)[i].open
          PROVE  i = Len(n.content) \/ BlocksOf(n)[i].kind = "toolCall"
      <3>1. BlocksOf(n)[i].kind = n.content[i] /\ (BlocksOf(n)[i].open <=> OpenAt(n, i))
        BY BlocksShape
      <3> QED BY <1>2, <2>2, <3>1
    <2> QED BY <2>1, <2>2 DEF Consumer!Tidy
  <1> QED BY <1>1, <1>3

\* The end of a leg closes the block that is not a tool call.
LEMMA EndCloses ==
    ASSUME NEW m, Sound(m)
    PROVE  BlocksOf(EndThinking(EndTextBlock(m))) =
             [i \in 1..Len(BlocksOf(m)) |->
                [BlocksOf(m)[i] EXCEPT !.open = @ /\ BlocksOf(m)[i].kind = "toolCall"]]
  <1> DEFINE n == EndThinking(EndTextBlock(m))
  <1>1. /\ Sound(n) /\ n.content = m.content
        /\ n.text = 0 /\ n.thinking = 0 /\ n.calls = m.calls
    BY EndBothSound
  <1> HIDE DEF n
  <1>2. ASSUME NEW i \in 1..Len(m.content)
        PROVE  OpenAt(n, i) <=> OpenAt(m, i) /\ m.content[i] = "toolCall"
    BY <1>1, <1>2 DEF OpenAt, Sound, Indexed, PointsTo
  <1>3. ASSUME NEW i \in 1..Len(m.content)
        PROVE  [kind |-> n.content[i], open |-> OpenAt(n, i)] =
               [BlocksOf(m)[i] EXCEPT !.open = @ /\ BlocksOf(m)[i].kind = "toolCall"]
    <2>1. OpenAt(n, i) = (OpenAt(m, i) /\ m.content[i] = "toolCall")
      BY <1>2 DEF OpenAt
    <2>2. BlocksOf(m)[i] = [kind |-> m.content[i], open |-> OpenAt(m, i)]
      BY BlocksShape
    <2>3. [BlocksOf(m)[i] EXCEPT !.open = @ /\ BlocksOf(m)[i].kind = "toolCall"] =
          [kind |-> m.content[i], open |-> OpenAt(m, i) /\ m.content[i] = "toolCall"]
      BY <2>2
    <2> QED BY <1>1, <2>1, <2>3
  <1>4. BlocksOf(n) = [i \in 1..Len(m.content) |->
                         [BlocksOf(m)[i] EXCEPT !.open = @ /\ BlocksOf(m)[i].kind = "toolCall"]]
    BY <1>1, <1>3 DEF BlocksOf
  <1> QED BY <1>4, BlocksShape DEF n

\* The outer catch is the stream's failure; no block is closed.
LEMMA FailMaps ==
    ASSUME Inv, pc \notin {"begin", "ended"}, NEW isAbort \in BOOLEAN, Fail(isAbort)
    PROVE  Consumer!Fail
  <1>1. phase = "streaming" /\ phase' \in {"error", "aborted"}
    BY DEF Inv, TypeOK, Control, Phase, Fail
  <1>2. Blocks' = Blocks /\ Sound(msg)
    BY MessageFacts DEF Fail, turnVars, Blocks
  <1>3. Blocks = [i \in 1..Len(Blocks) |-> [Blocks[i] EXCEPT !.open = @ /\ i \notin {}]]
    <2>1. Len(Blocks) = Len(msg.content)
      BY <1>2, BlocksShape DEF Blocks
    <2>2. ASSUME NEW i \in 1..Len(Blocks)
          PROVE  [kind |-> msg.content[i], open |-> OpenAt(msg, i)] =
                 [Blocks[i] EXCEPT !.open = @ /\ i \notin {}]
      <3>1. OpenAt(msg, i) = (OpenAt(msg, i) /\ i \notin {})
        BY DEF OpenAt
      <3> QED BY <1>2, <2>1, <3>1, BlocksShape DEF Blocks
    <2>3. Blocks = [i \in 1..Len(Blocks) |-> [kind |-> msg.content[i], open |-> OpenAt(msg, i)]]
      BY <2>1 DEF Blocks, BlocksOf
    <2> QED BY <2>2, <2>3
  <1>4. Blocks' = [i \in 1..Len(Blocks) |-> [Blocks[i] EXCEPT !.open = @ /\ i \notin {}]]
    BY <1>2, <1>3
  <1>5. {} \in SUBSET (1..Len(Blocks))
    OBVIOUS
  <1> QED BY <1>1, <1>4, <1>5, Zenon DEF Consumer!Fail

\* The end of a leg: the next one follows, or the message is done, or it is given up.
LEMMA LegEndsMaps ==
    ASSUME Inv, pc = "read", NEW paused \in BOOLEAN, LegEnds(msg, paused)
    PROVE  Consumer!Emit \/ Consumer!Done \/ Consumer!Fail
  <1>1. /\ phase = "streaming" /\ Sound(msg)
        /\ msg' = EndThinking(EndTextBlock(msg)) /\ Sound(msg') /\ Grows(msg, msg')
    BY MessageFacts, EndBothSound DEF Inv, TypeOK, Control, Phase, LegEnds
  <1>2. Blocks' = [i \in 1..Len(Blocks) |->
                     [Blocks[i] EXCEPT !.open = @ /\ Blocks[i].kind = "toolCall"]]
    BY <1>1, EndCloses DEF Blocks
  <1>3. CASE phase' = "streaming"
    BY <1>1, <1>3, GrowthIsEmitted, BlocksShape DEF Consumer!Emit, Blocks
  <1>4. CASE phase' = "done"
    BY <1>1, <1>2, <1>4 DEF Consumer!Done
  <1>5. CASE phase' = "error"
    <2> DEFINE closed == {i \in 1..Len(Blocks) : Blocks[i].kind # "toolCall"}
    <2>1. \A i \in 1..Len(Blocks) : Blocks[i].kind = "toolCall" <=> i \notin closed
      OBVIOUS
    <2> HIDE DEF closed
    <2>2. \A i \in 1..Len(Blocks) : (Blocks[i].kind = "toolCall") = (i \notin closed)
      BY <2>1
    <2>3. Blocks' = [i \in 1..Len(Blocks) |->
                       [Blocks[i] EXCEPT !.open = @ /\ i \notin closed]]
      BY <1>2, <2>2
    <2>4. closed \in SUBSET (1..Len(Blocks))
      BY DEF closed
    <2> QED BY <1>1, <1>5, <2>3, <2>4 DEF Consumer!Fail
  <1> QED BY <1>1, <1>3, <1>4, <1>5 DEF LegEnds

\* Every step is one of the protocol or is invisible.
LEMMA StepMaps ==
    ASSUME Inv, [Next]_vars
    PROVE  [Consumer!Next]_<<phase, Blocks>>
  <1>1. Sound(msg) /\ (pc = "read" => ~finished)
    BY MessageFacts DEF Inv, Control
  <1>2. CASE /\ phase' = phase /\ msg' = msg
    BY <1>2 DEF Blocks
  <1>3. CASE \E isAbort \in BOOLEAN : pc \notin {"begin", "ended"} /\ Fail(isAbort)
    BY <1>3, FailMaps DEF Consumer!Next
  <1>4. CASE BeginWithoutKey \/ Begin
    <2>1. phase = "new" /\ Blocks' = Blocks
      BY <1>4 DEF Inv, Control, BeginWithoutKey, Begin, turnVars, Blocks
    <2> QED BY <1>4, <2>1 DEF BeginWithoutKey, Begin, Consumer!Next, Consumer!Start, Consumer!Refuse
  <1>5. CASE ReadLine
    <2>1. /\ msg' \in HandleEvent(msg) /\ phase' = phase /\ pc = "read"
      BY <1>1, <1>5 DEF ReadLine, Reading
    <2>2. phase = "streaming" /\ Sound(msg') /\ Grows(msg, msg')
      BY <1>1, <2>1, HandleEventSound DEF Inv, TypeOK, Control, Phase
    <2>3. Consumer!Emit
      BY <1>1, <2>1, <2>2, GrowthIsEmitted, BlocksShape DEF Consumer!Emit, Blocks
    <2> QED BY <2>3 DEF Consumer!Next
  <1>6. CASE ReadFinish
    BY <1>6, LegEndsMaps DEF ReadFinish, Reading, Consumer!Next
  <1>7. CASE CancelFailedEnds
    <2>1. CASE Fail(TRUE) \/ Fail(FALSE)
      BY <1>3, <1>7, <2>1 DEF CancelFailedEnds
    <2>2. CASE ~Fail(TRUE) /\ ~Fail(FALSE)
      <3>1. /\ CanRetry /\ phase' = phase
            /\ msg' = [msg EXCEPT !.content = <<>>, !.text = 0, !.thinking = 0]
        BY <1>7, <2>2 DEF CancelFailedEnds, BeginAttempt, Await
      <3>2. msg.content = <<>> /\ msg.text = 0 /\ msg.thinking = 0
        BY <1>1, <3>1 DEF CanRetry, Sound, Indexed, PointsTo
      <3>3. msg' = msg
        BY <1>1, <3>1, <3>2 DEF Sound, Message
      <3> QED BY <1>2, <3>1, <3>3
    <2> QED BY <2>1, <2>2
  <1>8. CASE \/ Abort \/ AttemptTimesOut \/ PayloadReady \/ FetchAnswers \/ BackoffElapses
             \/ DrainEnds \/ ReadFails \/ ReadAborts \/ CancelPausedEnds \/ Ended
             \/ UNCHANGED vars
    BY <1>2, <1>8 DEF Abort, AttemptTimesOut, PayloadReady, FetchAnswers, BackoffElapses,
         DrainEnds, ReadFails, ReadAborts, CancelPausedEnds, Ended, Retry, BeginAttempt,
         Await, StreamFails, turnVars, vars
  <1>9. CASE \/ PayloadFails \/ FetchFails \/ FetchThrottled \/ BackoffAborted
             \/ OnResponseFails \/ OnResponseEnds \/ ErrorBodyEnds
    BY <1>2, <1>3, <1>9 DEF PayloadFails, FetchFails, FetchThrottled, BackoffAborted,
         OnResponseFails, OnResponseEnds, ErrorBodyEnds, Retry, BeginAttempt, Await, turnVars
  <1> QED BY <1>4, <1>5, <1>6, <1>7, <1>8, <1>9 DEF Next

\* ConsumerProtocol: streamCommandCode implements EventStream.  Whatever upstream sends
\* and however often it is asked, the consumer sees one start, blocks that only grow and
\* close, and one end.
THEOREM StreamImplementsProtocol == Spec => ConsumerProtocol
  <1>1. Init => Consumer!Init
    <2> SUFFICES ASSUME Init PROVE Consumer!Init
      OBVIOUS
    <2>1. phase = "new" /\ Len(msg.content) = 0
      BY DEF Init
    <2>2. Blocks = <<>>
      BY <2>1, EmptySeq DEF Blocks, BlocksOf
    <2> QED BY <2>1, <2>2 DEF Consumer!Init
  <1>2. Inv /\ [Next]_vars => [Consumer!Next]_<<phase, Blocks>>
    BY StepMaps
  <1> QED BY <1>1, <1>2, InvHolds, PTL DEF Spec, ConsumerProtocol, Consumer!Spec
=============================================================================
