---------------------------- MODULE Conversation ----------------------------
(***************************************************************************)
(* messagesToCC() of src/converters.ts: a host's transcript as the         *)
(* messages of /alpha/generate.  The transcript grows by one message at a  *)
(* time and is converted before every request, so it is converted with     *)
(* tool calls unanswered, with results of calls that were compacted away,  *)
(* and with images for models that read none.  Text is left out: a message *)
(* is told from the others by its place.                                   *)
(***************************************************************************)
EXTENDS Integers, Sequences, FiniteSets, Subsequences

CONSTANTS
    CallIds,      \* ids of tool calls
    LostIds,      \* those whose call is no longer in the transcript
    MaxMessages,  \* bound: messages of a transcript
    MaxParts      \* bound: parts of an assistant's message

NoId == "no id"
ASSUME ConversationAssumption ==
    /\ LostIds \subseteq CallIds /\ {NoId, "text"} \cap CallIds = {}
    /\ MaxMessages \in Nat /\ MaxParts \in Nat

VARIABLE transcript

ContentLists == UNION {[1..n -> {"text"} \cup CallIds \cup {NoId}] : n \in 0..MaxParts}

\* What a host may append: a tool call has an id of its own or, broken, none.
Messages ==
    [role : {"user", "developer"}, image : BOOLEAN]
        \cup [role : {"assistant"}, content : ContentLists]
        \cup [role : {"toolResult"}, id : CallIds \cup {NoId}, image : BOOLEAN]

CallsOf(m) == IF m.role = "assistant" THEN {m.content[k] : k \in DOMAIN m.content} \cap CallIds
              ELSE {}

\* toolCallState()
Called == UNION {CallsOf(transcript[i]) : i \in DOMAIN transcript}
ResultIds ==
    {transcript[i].id : i \in {j \in DOMAIN transcript : transcript[j].role = "toolResult"}}

ConversationInit == transcript = <<>>

\* A call is made once; a result follows its call, if the call is there at all.
Say(m) ==
    /\ Len(transcript) < MaxMessages
    /\ CallsOf(m) \cap (Called \cup LostIds) = {}
    /\ m.role = "assistant" => \A j, k \in DOMAIN m.content :
                                  m.content[j] = m.content[k] /\ m.content[j] \in CallIds => j = k
    /\ m.role = "toolResult" => m.id \in Called \cup LostIds \cup {NoId}
    /\ transcript' = Append(transcript, m)

ConversationNext == \E m \in Messages : Say(m)
ConversationSpec == ConversationInit /\ [][ConversationNext]_transcript

-----------------------------------------------------------------------------
\* A converted message: its role, the calls it makes, the ids it answers, whether it
\* carries images, and the place of the message it comes from.
Out(role, calls, results, image, i) ==
    [role |-> role, calls |-> calls, results |-> results, image |-> image, from |-> i]

\* Mutant: one result is taken for all of a message.
UnansweredAtAll(ids) == IF ids \cap ResultIds = {} THEN ids ELSE {}

Unanswered(ids) == ids \ ResultIds

\* A message of the transcript makes the loop push at most two messages.  The first: what
\* the user or the developer said; the text and the calls, without those that have no id;
\* the result, unless its call is gone.
FirstPush(i) ==
    LET m == transcript[i] IN
    CASE m.role \in {"user", "developer"} -> Out("user", {}, {}, m.image, i)
      [] m.role = "assistant"  -> Out("assistant", CallsOf(m), {}, FALSE, i)
      [] m.role = "toolResult" -> Out("tool", {}, {m.id}, FALSE, i)

PushesFirst(m) ==
    \/ m.role \in {"user", "developer"}
    \/ m.role = "assistant" /\ \E k \in DOMAIN m.content : m.content[k] # NoId
    \/ m.role = "toolResult" /\ m.id \in Called

\* The second: error results for the calls that have none, or the images of a result.
SecondPush(i) ==
    LET m == transcript[i] IN
    IF m.role = "assistant" THEN Out("tool", {}, Unanswered(CallsOf(m)), FALSE, i)
    ELSE Out("user", {}, {}, TRUE, i)

PushesSecond(m, allowImages) ==
    \/ m.role = "assistant" /\ Unanswered(CallsOf(m)) # {}
    \/ m.role = "toolResult" /\ m.id \in Called /\ m.image /\ allowImages

\* assertTextOnlyMessages()
Refused(allowImages) ==
    ~allowImages /\ \E i \in DOMAIN transcript :
        transcript[i].role \in {"user", "developer"} /\ transcript[i].image

\* The places of the output: two for each message, of which the pushed ones are taken.
Pushes == 1 .. 2 * Len(transcript)
Candidates ==
    [n \in Pushes |-> IF n % 2 = 1 THEN FirstPush((n + 1) \div 2) ELSE SecondPush(n \div 2)]

messagesToCC(allowImages) ==
    PickAt(Candidates,
           {n \in Pushes : IF n % 2 = 1 THEN PushesFirst(transcript[(n + 1) \div 2])
                           ELSE PushesSecond(transcript[n \div 2], allowImages)})

-----------------------------------------------------------------------------
\* What /alpha/generate requires of a conversation, stated on the converted messages
\* alone: every call is answered after it was made, whatever was interrupted or lost;
\* no result comes without its call; the messages keep their order, and nothing the
\* user or the developer said is missing; no image reaches a model that reads none.
ConversationPaired ==
    \A allowImages \in BOOLEAN :
        LET out == messagesToCC(allowImages) IN
        Refused(allowImages) \/
            /\ \A k \in DOMAIN out : \A id \in out[k].calls :
                  \E l \in DOMAIN out : l > k /\ id \in out[l].results
            /\ \A l \in DOMAIN out : \A id \in out[l].results :
                  \E k \in DOMAIN out : k < l /\ id \in out[k].calls
            /\ \A k, l \in DOMAIN out : k < l => out[k].from <= out[l].from
            /\ \A i \in DOMAIN transcript : transcript[i].role \in {"user", "developer"} =>
                  \E k \in DOMAIN out : out[k].role = "user" /\ out[k].from = i
            /\ allowImages \/ \A k \in DOMAIN out : ~out[k].image
=============================================================================
