---------------------------- MODULE ServiceProofs ----------------------------
(***************************************************************************)
(* The conversion of a transcript, the quota command and the login.  For   *)
(* transcripts of any length: what messagesToCC() makes of one is what     *)
(* the endpoint requires.  For any number of places a key may come from,   *)
(* and whatever the requests return: the quota command asks with the key   *)
(* it should and tells what happened.  For any number of connections and   *)
(* ports, and any keys: whatever way a login takes, its server is closed,  *)
(* its credential was vouched for, and no member token went to             *)
(* CommandCode.                                                            *)
(***************************************************************************)
EXTENDS Login, QuotaFetch, Conversation, SubsequencesProofs, WellFoundedInduction, TLAPS

(* The conversion of a transcript *)

\* A call belongs to one message and is not among the lost ones; a result follows its call,
\* unless that is lost.
Coherent ==
    /\ transcript \in Seq(Messages)
    /\ \A i \in 1..Len(transcript) : CallsOf(transcript[i]) \cap LostIds = {}
    /\ \A i, j \in 1..Len(transcript) :
          i # j => CallsOf(transcript[i]) \cap CallsOf(transcript[j]) = {}
    /\ \A j \in 1..Len(transcript) : transcript[j].role = "toolResult" =>
          \/ transcript[j].id \in LostIds \cup {NoId}
          \/ \E i \in 1..j - 1 : transcript[j].id \in CallsOf(transcript[i])

\* A transcript begins empty.
LEMMA CoherentInit == ConversationInit => Coherent
  BY DEF ConversationInit, Coherent

\* The message that is appended keeps it.
LEMMA CoherentNext ==
    ASSUME Coherent, [ConversationNext]_transcript
    PROVE  Coherent'
  <1>1. CASE UNCHANGED transcript
    BY <1>1 DEF Coherent
  <1>2. ASSUME NEW m \in Messages, Say(m) PROVE Coherent'
    <2> DEFINE n == Len(transcript)
    <2>1. /\ transcript \in Seq(Messages) /\ n \in Nat
          /\ transcript' = Append(transcript, m)
          /\ CallsOf(m) \cap (Called \cup LostIds) = {}
          /\ m.role = "toolResult" => m.id \in Called \cup LostIds \cup {NoId}
      BY <1>2 DEF Coherent, Say
    <2>2. /\ transcript' \in Seq(Messages) /\ Len(transcript') = n + 1
          /\ transcript'[n + 1] = m
          /\ \A i \in 1..n : transcript'[i] = transcript[i]
      BY <2>1
    <2>3. \A id : id \in Called <=> \E i \in 1..n : id \in CallsOf(transcript[i])
      BY <2>1 DEF Called
    <2> HIDE DEF n
    <2>4. \A i \in 1..n + 1 : i = n + 1 \/ i \in 1..n
      BY <2>1
    <2>5. \A i \in 1..n + 1 : CallsOf(transcript'[i]) \cap LostIds = {}
      BY <2>1, <2>2, <2>4 DEF Coherent, n
    <2>6. \A i, j \in 1..n + 1 : i # j => CallsOf(transcript'[i]) \cap CallsOf(transcript'[j]) = {}
      BY <2>1, <2>2, <2>3, <2>4 DEF Coherent, n
    <2>7. ASSUME NEW j \in 1..n + 1, transcript'[j].role = "toolResult"
          PROVE  \/ transcript'[j].id \in LostIds \cup {NoId}
                 \/ \E i \in 1..j - 1 : transcript'[j].id \in CallsOf(transcript'[i])
      <3>1. CASE j = n + 1
        <4>1. j - 1 = n
          BY <2>1, <3>1
        <4> QED BY <2>1, <2>2, <2>3, <2>7, <3>1, <4>1
      <3>2. CASE j \in 1..n
        <4>1. transcript'[j] = transcript[j] /\ \A i \in 1..j - 1 : i \in 1..n
          BY <2>1, <2>2, <3>2
        <4> QED BY <2>2, <2>7, <3>2, <4>1 DEF Coherent, n
      <3> QED BY <2>4, <3>1, <3>2
    <2> QED BY <2>2, <2>5, <2>6, <2>7 DEF Coherent
  <1> QED BY <1>1, <1>2 DEF ConversationNext

\* The places of the output that are taken.
Taken(allowImages) ==
    {n \in Pushes : IF n % 2 = 1 THEN PushesFirst(transcript[(n + 1) \div 2])
                    ELSE PushesSecond(transcript[n \div 2], allowImages)}

\* The two places of a message, and what they hold.
LEMMA PlacesOfMessage ==
    ASSUME NEW i \in 1..Len(transcript), NEW allowImages, transcript \in Seq(Messages)
    PROVE  /\ 2 * i - 1 \in Pushes /\ Candidates[2 * i - 1] = FirstPush(i)
           /\ 2 * i - 1 \in Taken(allowImages) <=> PushesFirst(transcript[i])
           /\ 2 * i \in Pushes /\ Candidates[2 * i] = SecondPush(i)
           /\ 2 * i \in Taken(allowImages) <=> PushesSecond(transcript[i], allowImages)
  <1>1. /\ 2 * i - 1 \in Pushes /\ (2 * i - 1) % 2 = 1 /\ ((2 * i - 1) + 1) \div 2 = i
        /\ 2 * i \in Pushes /\ (2 * i) % 2 # 1 /\ (2 * i) \div 2 = i
    BY DEF Pushes
  <1> QED BY <1>1 DEF Candidates, Taken

\* Each place belongs to a message.
LEMMA MessageOfPlace ==
    ASSUME NEW n \in Pushes, transcript \in Seq(Messages)
    PROVE  \E i \in 1..Len(transcript) : n = 2 * i - 1 \/ n = 2 * i
  <1>1. n \in Nat /\ 1 <= n /\ n <= 2 * Len(transcript) /\ Len(transcript) \in Nat
    BY DEF Pushes
  <1>2. CASE n % 2 = 1
    <2>1. (n + 1) \div 2 \in 1..Len(transcript) /\ n = 2 * ((n + 1) \div 2) - 1
      BY <1>1, <1>2
    <2> QED BY <2>1
  <1>3. CASE n % 2 # 1
    <2>1. n \div 2 \in 1..Len(transcript) /\ n = 2 * (n \div 2)
      BY <1>1, <1>3
    <2> QED BY <2>1
  <1> QED BY <1>2, <1>3

\* `out` takes the places in their order, each that is taken once.
Reads(out, at, allowImages) ==
    /\ at \in [DOMAIN out -> Taken(allowImages)]
    /\ DOMAIN out \subseteq Int
    /\ \A k \in DOMAIN out : out[k] = Candidates[at[k]]
    /\ \A k, l \in DOMAIN out : at[k] < at[l] <=> k < l
    /\ \A n \in Taken(allowImages) : \E k \in DOMAIN out : at[k] = n

\* The output is read off the places that way.
LEMMA OutputReads ==
    ASSUME NEW allowImages, transcript \in Seq(Messages)
    PROVE  \E at : Reads(messagesToCC(allowImages), at, allowImages)
  <1> DEFINE P == Taken(allowImages)
             S == {Candidates[n] : n \in Pushes}
  <1>1. /\ Candidates \in Seq(S) /\ Len(Candidates) = 2 * Len(transcript)
        /\ P \in SUBSET (1..Len(Candidates))
    BY DEF Candidates, Pushes, Taken
  <1>2. messagesToCC(allowImages) = PickAt(Candidates, P)
    BY DEF messagesToCC, Taken
  <1> HIDE DEF P, S
  <1>3. PICK at : /\ Picks(Candidates, P, at)
                  /\ PickAt(Candidates, P) \in Seq(S)
                  /\ Len(PickAt(Candidates, P)) = Cardinality(P) /\ Cardinality(P) \in Nat
    BY <1>1, PickAtPositions
  <1>4. DOMAIN PickAt(Candidates, P) = 1..Cardinality(P)
    BY <1>3
  <1>5. P \subseteq Int
    BY <1>1
  <1>6. \A k, l \in 1..Cardinality(P) : at[k] < at[l] <=> k < l
    <2> SUFFICES ASSUME NEW k \in 1..Cardinality(P), NEW l \in 1..Cardinality(P)
                 PROVE  at[k] < at[l] <=> k < l
      OBVIOUS
    <2>1. at[k] \in Int /\ at[l] \in Int
      BY <1>3, <1>5 DEF Picks
    <2>2. (k < l => at[k] < at[l]) /\ (l < k => at[l] < at[k])
      BY <1>3 DEF Picks
    <2> QED BY <2>1, <2>2
  <1>7. Reads(PickAt(Candidates, P), at, allowImages)
    BY <1>3, <1>4, <1>6 DEF Reads, Picks, P
  <1> QED BY <1>2, <1>7

\* What the invariant of the transcript means for what is made of it.
LEMMA CoherentPaired == Coherent => ConversationPaired
  <1> SUFFICES ASSUME Coherent, NEW allowImages \in BOOLEAN, ~Refused(allowImages)
               PROVE  LET out == messagesToCC(allowImages) IN
                      /\ \A k \in DOMAIN out : \A id \in out[k].calls :
                            \E l \in DOMAIN out : l > k /\ id \in out[l].results
                      /\ \A l \in DOMAIN out : \A id \in out[l].results :
                            \E k \in DOMAIN out : k < l /\ id \in out[k].calls
                      /\ \A k, l \in DOMAIN out : k < l => out[k].from <= out[l].from
                      /\ \A i \in DOMAIN transcript :
                            transcript[i].role \in {"user", "developer"} =>
                            \E k \in DOMAIN out : out[k].role = "user" /\ out[k].from = i
                      /\ allowImages \/ \A k \in DOMAIN out : ~out[k].image
    BY DEF ConversationPaired
  <1>1. transcript \in Seq(Messages) /\ DOMAIN transcript = 1..Len(transcript)
        /\ Len(transcript) \in Nat
    BY DEF Coherent
  <1>2. PICK at : Reads(messagesToCC(allowImages), at, allowImages)
    BY <1>1, OutputReads
  <1>3. PICK out : out = messagesToCC(allowImages)
    OBVIOUS
  <1>4. Reads(out, at, allowImages)
    BY <1>2, <1>3
  \* What a converted message says, and the message it comes from.
  <1>5. ASSUME NEW k \in DOMAIN out
        PROVE  \E i \in 1..Len(transcript) :
                 \/ /\ at[k] = 2 * i - 1 /\ PushesFirst(transcript[i]) /\ out[k] = FirstPush(i)
                 \/ /\ at[k] = 2 * i /\ PushesSecond(transcript[i], allowImages)
                    /\ out[k] = SecondPush(i)
    <2>1. at[k] \in Taken(allowImages) /\ out[k] = Candidates[at[k]]
      BY <1>4 DEF Reads
    <2>2. at[k] \in Pushes
      BY <2>1 DEF Taken
    <2>3. PICK i \in 1..Len(transcript) : at[k] = 2 * i - 1 \/ at[k] = 2 * i
      BY <1>1, <2>2, MessageOfPlace
    <2> QED BY <1>1, <2>1, <2>3, PlacesOfMessage
  <1>6. ASSUME NEW i \in 1..Len(transcript), PushesFirst(transcript[i])
        PROVE  \E k \in DOMAIN out : at[k] = 2 * i - 1 /\ out[k] = FirstPush(i)
    <2>1. 2 * i - 1 \in Taken(allowImages) /\ Candidates[2 * i - 1] = FirstPush(i)
      BY <1>1, <1>6, PlacesOfMessage
    <2> QED BY <1>4, <2>1 DEF Reads
  <1>7. ASSUME NEW i \in 1..Len(transcript), PushesSecond(transcript[i], allowImages)
        PROVE  \E k \in DOMAIN out : at[k] = 2 * i /\ out[k] = SecondPush(i)
    <2>1. 2 * i \in Taken(allowImages) /\ Candidates[2 * i] = SecondPush(i)
      BY <1>1, <1>7, PlacesOfMessage
    <2> QED BY <1>4, <2>1 DEF Reads
  <1>8. /\ DOMAIN out \subseteq Int
        /\ \A k, l \in DOMAIN out : at[k] < at[l] <=> k < l
    BY <1>4 DEF Reads
  \* What each kind of message pushes.
  <1>9. ASSUME NEW i \in 1..Len(transcript)
        PROVE  /\ transcript[i].role \in {"user", "developer", "assistant", "toolResult"}
               /\ FirstPush(i).from = i /\ SecondPush(i).from = i /\ SecondPush(i).calls = {}
               /\ FirstPush(i).calls = CallsOf(transcript[i])
               /\ transcript[i].role = "assistant" =>
                     /\ FirstPush(i).results = {}
                     /\ SecondPush(i).results = Unanswered(CallsOf(transcript[i]))
               /\ transcript[i].role = "toolResult" =>
                     FirstPush(i).results = {transcript[i].id} /\ SecondPush(i).results = {}
               /\ transcript[i].role \in {"user", "developer"} =>
                     /\ FirstPush(i).results = {} /\ FirstPush(i).role = "user"
                     /\ FirstPush(i).image = transcript[i].image
               /\ transcript[i].role \notin {"user", "developer"} => ~FirstPush(i).image
    <2>1. transcript[i] \in Messages
      BY <1>1
    <2>2. transcript[i].role \in {"user", "developer", "assistant", "toolResult"}
      BY <2>1 DEF Messages
    <2> QED BY <2>2 DEF FirstPush, SecondPush, Out, CallsOf
  <1>10. ASSUME NEW i \in 1..Len(transcript), NEW id \in CallsOf(transcript[i])
         PROVE  /\ transcript[i].role = "assistant" /\ PushesFirst(transcript[i])
                /\ id \in CallIds \ LostIds /\ id # NoId /\ id \in Called
    <2>1. transcript[i].role = "assistant" /\ id \in CallIds
          /\ \E k \in DOMAIN transcript[i].content : transcript[i].content[k] = id
      BY <1>10 DEF CallsOf
    <2>2. id # NoId
      BY <2>1, ConversationAssumption
    <2>3. id \notin LostIds
      BY <1>10 DEF Coherent
    <2>4. id \in Called
      BY <1>1, <1>10 DEF Called
    <2> QED BY <2>1, <2>2, <2>3, <2>4 DEF PushesFirst
  <1>11. ASSUME NEW k \in DOMAIN out, NEW id \in out[k].calls
         PROVE  \E l \in DOMAIN out : l > k /\ id \in out[l].results
    <2>1. PICK i \in 1..Len(transcript) :
              at[k] = 2 * i - 1 /\ id \in CallsOf(transcript[i])
      BY <1>5, <1>9, <1>11
    <2>2. CASE id \in ResultIds
      <3>1. PICK j \in 1..Len(transcript) :
                transcript[j].role = "toolResult" /\ transcript[j].id = id
        BY <1>1, <2>2 DEF ResultIds
      <3>2. PICK h \in 1..j - 1 : id \in CallsOf(transcript[h])
        BY <1>10, <2>1, <3>1 DEF Coherent
      <3>3. h \in 1..Len(transcript) /\ h < j
        BY <1>1
      <3>4. h = i
        BY <2>1, <3>2, <3>3 DEF Coherent
      <3>5. PushesFirst(transcript[j])
        BY <1>10, <2>1, <3>1 DEF PushesFirst
      <3>6. PICK l \in DOMAIN out : at[l] = 2 * j - 1 /\ out[l] = FirstPush(j)
        BY <1>6, <3>5
      <3>7. at[k] < at[l]
        BY <2>1, <3>3, <3>4, <3>6
      <3>8. k < l /\ k \in Int /\ l \in Int
        BY <1>8, <3>7
      <3> QED BY <1>9, <3>1, <3>6, <3>8
    <2>3. CASE id \notin ResultIds
      <3>1. id \in Unanswered(CallsOf(transcript[i])) /\ transcript[i].role = "assistant"
        BY <1>10, <2>1, <2>3 DEF Unanswered
      <3>2. PICK l \in DOMAIN out : at[l] = 2 * i /\ out[l] = SecondPush(i)
        BY <1>7, <3>1 DEF PushesSecond
      <3>3. at[k] < at[l]
        BY <2>1, <3>2
      <3>4. k < l /\ k \in Int /\ l \in Int
        BY <1>8, <3>3
      <3> QED BY <1>9, <3>1, <3>2, <3>4
    <2> QED BY <2>2, <2>3
  <1>12. ASSUME NEW l \in DOMAIN out, NEW id \in out[l].results
         PROVE  \E k \in DOMAIN out : k < l /\ id \in out[k].calls
    <2>1. PICK j \in 1..Len(transcript) :
              \/ /\ at[l] = 2 * j - 1 /\ PushesFirst(transcript[j]) /\ out[l] = FirstPush(j)
              \/ /\ at[l] = 2 * j /\ PushesSecond(transcript[j], allowImages)
                 /\ out[l] = SecondPush(j)
      BY <1>5
    <2>2. \E i \in 1..j : /\ id \in CallsOf(transcript[i])
                          /\ 2 * i - 1 < at[l]
      <3>1. CASE at[l] = 2 * j
        <4>1. id \in CallsOf(transcript[j])
          BY <1>9, <1>12, <2>1, <3>1 DEF PushesSecond, Unanswered
        <4> QED BY <3>1, <4>1
      <3>2. CASE at[l] = 2 * j - 1
        <4>1. out[l] = FirstPush(j) /\ PushesFirst(transcript[j])
          BY <2>1, <3>2
        <4>2. transcript[j].role = "toolResult" /\ transcript[j].id = id /\ id \in Called
          BY <1>9, <1>12, <4>1 DEF PushesFirst
        <4>3. PICK g \in 1..Len(transcript) : id \in CallsOf(transcript[g])
          BY <1>1, <4>2 DEF Called
        <4>4. id \notin LostIds \cup {NoId}
          BY <1>10, <4>3
        <4>5. PICK i \in 1..j - 1 : id \in CallsOf(transcript[i])
          BY <4>2, <4>4 DEF Coherent
        <4> QED BY <3>2, <4>5
      <3> QED BY <2>1, <3>1, <3>2
    <2>3. PICK i \in 1..Len(transcript) : id \in CallsOf(transcript[i]) /\ 2 * i - 1 < at[l]
      BY <1>1, <2>2
    <2>4. PICK k \in DOMAIN out : at[k] = 2 * i - 1 /\ out[k] = FirstPush(i)
      BY <1>6, <1>10, <2>3
    <2>5. k < l
      BY <1>8, <2>3, <2>4
    <2> QED BY <1>9, <2>3, <2>4, <2>5
  <1>13. ASSUME NEW k \in DOMAIN out, NEW l \in DOMAIN out, k < l
         PROVE  out[k].from <= out[l].from
    <2>1. PICK i \in 1..Len(transcript) :
              (at[k] = 2 * i - 1 \/ at[k] = 2 * i) /\ out[k].from = i
      BY <1>5, <1>9
    <2>2. PICK j \in 1..Len(transcript) :
              (at[l] = 2 * j - 1 \/ at[l] = 2 * j) /\ out[l].from = j
      BY <1>5, <1>9
    <2>3. at[k] < at[l]
      BY <1>8, <1>13
    <2> QED BY <2>1, <2>2, <2>3
  <1>14. ASSUME NEW i \in DOMAIN transcript, transcript[i].role \in {"user", "developer"}
         PROVE  \E k \in DOMAIN out : out[k].role = "user" /\ out[k].from = i
    <2>1. i \in 1..Len(transcript) /\ PushesFirst(transcript[i])
      BY <1>1, <1>14 DEF PushesFirst
    <2> QED BY <1>6, <1>9, <1>14, <2>1
  <1>15. ASSUME NEW k \in DOMAIN out, ~allowImages PROVE ~out[k].image
    <2>1. PICK i \in 1..Len(transcript) :
              \/ out[k] = FirstPush(i)
              \/ PushesSecond(transcript[i], allowImages) /\ out[k] = SecondPush(i)
      BY <1>5
    <2>2. ASSUME transcript[i].role \in {"user", "developer"} PROVE ~transcript[i].image
      BY <1>1, <1>15, <2>2 DEF Refused
    <2>3. CASE out[k] = FirstPush(i)
      BY <1>9, <2>2, <2>3
    <2>4. CASE PushesSecond(transcript[i], allowImages) /\ out[k] = SecondPush(i)
      BY <1>15, <2>4 DEF PushesSecond, SecondPush, Out
    <2> QED BY <2>1, <2>3, <2>4
  <1> QED BY <1>3, <1>11, <1>12, <1>13, <1>14, <1>15

\* Whatever was interrupted or compacted away, every call is answered after it was made,
\* no result comes without its call, nothing is reordered, and no image slips through.
THEOREM EveryConversationPaired == ConversationSpec => []ConversationPaired
  BY CoherentInit, CoherentNext, CoherentPaired, PTL DEF ConversationSpec

-----------------------------------------------------------------------------
(* The quota command *)

\* A set of natural numbers has a least element.
LEMMA LeastNatural ==
    ASSUME NEW S \in SUBSET Nat, S # {}
    PROVE  Min(S) \in S /\ \A y \in S : Min(S) <= y
  <1> DEFINE below == {p \in Nat \X Nat : p[1] < p[2]}
  <1>1. IsWellFoundedOn(below, Nat)
    <2>1. OpToRel(<, Nat) = below
      BY DEF OpToRel
    <2> QED BY <2>1, NatLessThanWellFounded
  <1>2. PICK x \in S : \A y \in S : ~ (<<y, x>> \in below)
    BY <1>1, WFMin
  <1>3. ASSUME NEW y \in S PROVE x <= y
    <2>1. ~ (y < x)
      BY <1>2
    <2> QED BY <2>1
  <1> QED BY <1>3 DEF Min

\* What the code asks with: the registry's key, or the first place that holds anything;
\* of these the first that is usable.
LEMMA PickedIsFirst ==
    ASSUME NEW keys \in [1 .. Places + 1 -> KeyValues]
    PROVE  /\ Picked(keys) \in 0 .. Places + 1
           /\ Picked(keys) # 0 => keys[Picked(keys)] \in {"member", "plain"}
           /\ \A i \in 1 .. Places + 1 : keys[i] \in {"member", "plain"} =>
                 \/ Picked(keys) \in 1 .. i
                 \/ /\ Picked(keys) = 0
                    /\ \E j \in 2 .. i - 1 : keys[j] \in {"blank", "placeholder"}
  <1> DEFINE given == {i \in 2 .. Places + 1 : keys[i] # "absent"}
             c == Configured(keys)
  <1>0. Places \in Nat
    BY PlacesAssumption
  <1>1. given # {} => c \in given /\ \A i \in given : c <= i
    <2>1. given \in SUBSET Nat
      BY <1>0
    <2> QED BY <2>1, LeastNatural DEF Configured
  <1>2. given = {} => c = 0
    BY DEF Configured
  <1>3. \A i \in 2 .. Places + 1 : keys[i] # "absent" <=> i \in given
    OBVIOUS
  <1>4. \A i \in given : i \in 2 .. Places + 1 /\ i # 0
    BY <1>0
  <1> HIDE DEF given, c
  <1>5. CASE Usable(keys[1])
    <2>1. Picked(keys) = 1
      BY <1>5 DEF Picked
    <2> QED BY <1>0, <1>5, <2>1 DEF Usable
  <1>6. CASE ~Usable(keys[1]) /\ c # 0 /\ Usable(keys[c])
    <2>1. Picked(keys) = c /\ c \in given
      BY <1>1, <1>2, <1>6 DEF Picked, c
    <2>2. c \in 2 .. Places + 1
      BY <1>4, <2>1
    <2>3. ASSUME NEW i \in 1 .. Places + 1, keys[i] \in {"member", "plain"} PROVE c \in 1 .. i
      <3>1. i # 1
        BY <1>6, <2>3 DEF Usable
      <3>2. i \in given
        BY <1>0, <1>3, <2>3, <3>1
      <3> QED BY <1>0, <1>1, <2>1, <2>2, <3>2
    <2> QED BY <1>0, <1>6, <2>1, <2>2, <2>3 DEF Usable
  <1>7. CASE ~Usable(keys[1]) /\ ~(c # 0 /\ Usable(keys[c]))
    <2>1. Picked(keys) = 0
      BY <1>7 DEF Picked, c
    <2>2. ASSUME NEW i \in 1 .. Places + 1, keys[i] \in {"member", "plain"}
          PROVE  \E j \in 2 .. i - 1 : keys[j] \in {"blank", "placeholder"}
      <3>1. i # 1
        BY <1>7, <2>2 DEF Usable
      <3>2. i \in given
        BY <1>0, <1>3, <2>2, <3>1
      <3>3. c \in given /\ c <= i /\ c \in 2 .. Places + 1 /\ c # 0
        BY <1>1, <1>4, <3>2
      <3>4. ~Usable(keys[c]) /\ c # i /\ keys[c] # "absent"
        BY <1>3, <1>7, <2>2, <3>3 DEF Usable
      <3>5. keys[c] \in {"blank", "placeholder"}
        BY <3>3, <3>4 DEF Usable, KeyValues
      <3> QED BY <1>0, <3>3, <3>4, <3>5
    <2> QED BY <1>0, <2>1, <2>2
  <1> QED BY <1>5, <1>6, <1>7

\* Where the command stands tells which replies are in; the key was picked once.
Asked ==
    /\ qphase = "idle" => hostKeys = <<>> /\ asked = 0
    /\ qphase # "idle" => /\ hostKeys \in [1 .. Places + 1 -> KeyValues]
                          /\ asked = Picked(hostKeys)
    /\ reply["whoami"] # "none" => asked # 0 /\ hostKeys[asked] = "plain"

\* What has been asked for so far, and that a request is sent only when the ones before
\* it let it.
Requests == Sections \cup {"whoami"}

Progress ==
    /\ reply \in [Requests -> Replies \cup {"none", "sent"}]
    /\ qphase = "idle" => \A s \in Requests : reply[s] = "none"
    /\ qphase \in {"whoami", "sections", "usage"} => reply["whoami"] # "none"
    /\ qphase \in {"sections", "usage"} => reply["whoami"] = "recognised"
    /\ qphase = "usage" =>
          {reply["credits"], reply["subscription"]} \subseteq Replies \ {"blocking"}

\* What the user is told is what the replies say.
Told ==
    /\ qphase \in {"idle", "whoami", "sections", "usage", "done"}
    /\ (qphase = "done") <=> (outcome.kind # "none")
    /\ outcome.kind = "ok" =>
          /\ \A s \in Requests : reply[s] \in Replies \ {"blocking"}
          /\ outcome.unavailable = {s \in Sections : reply[s] # "recognised"}
          /\ outcome.unavailable # Sections
    /\ outcome.kind = "timeout" => expired
    /\ outcome.kind \in {"no_key", "member_page"} => \A s \in Requests : reply[s] = "none"

QuotaInv == Asked /\ Progress /\ Told

\* The invariant says what is to be shown.
LEMMA QuotaInvTruthful == QuotaInv => QuotaTruthful
  <1> SUFFICES ASSUME QuotaInv PROVE QuotaTruthful
    OBVIOUS
  <1>1. DOMAIN reply = Requests
    BY DEF QuotaInv, Progress
  <1>2. ASSUME NEW i \in DOMAIN hostKeys, hostKeys[i] \in {"member", "plain"}
        PROVE  \/ asked \in 1 .. i
               \/ asked = 0 /\ \E j \in 2 .. i - 1 : hostKeys[j] \in {"blank", "placeholder"}
    <2>1. CASE qphase = "idle"
      BY <1>2, <2>1 DEF QuotaInv, Asked
    <2>2. CASE qphase # "idle"
      BY <1>2, <2>2, PickedIsFirst DEF QuotaInv, Asked
    <2> QED BY <2>1, <2>2
  <1> QED BY <1>1, <1>2 DEF QuotaInv, Asked, Told, QuotaTruthful

\* It holds at the start.
LEMMA QuotaInitSound == QuotaInit => QuotaInv
  BY DEF QuotaInit, QuotaInv, Asked, Progress, Told, Requests, NoOutcome

\* Every step keeps it.
LEMMA QuotaStepSound ==
    ASSUME QuotaInv, [QuotaNext]_quotaVars
    PROVE  QuotaInv'
  <1>1. ASSUME NEW keys \in [1 .. Places + 1 -> KeyValues], QuotaCommand(keys) PROVE QuotaInv'
    <2>1. Picked(keys) # 0 => keys[Picked(keys)] \in {"member", "plain"}
      BY PickedIsFirst
    <2>2. /\ qphase = "idle" /\ hostKeys' = keys /\ asked' = Picked(keys) /\ UNCHANGED expired
          /\ \/ asked' = 0 /\ Fails("no_key") /\ UNCHANGED reply
             \/ asked' # 0 /\ keys[asked'] = "member" /\ Fails("member_page") /\ UNCHANGED reply
             \/ /\ asked' # 0 /\ keys[asked'] # "member"
                /\ qphase' = "whoami" /\ Sends({"whoami"}) /\ UNCHANGED outcome
      BY <1>1 DEF QuotaCommand
    <2>3. Asked'
      BY <2>1, <2>2 DEF QuotaInv, Asked, Progress, Fails, Sends, Requests
    <2>4. Progress'
      BY <2>2 DEF QuotaInv, Progress, Fails, Sends, Requests, Replies
    <2>5. Told'
      BY <2>2 DEF QuotaInv, Progress, Told, Fails, Sends, Requests
    <2> QED BY <2>3, <2>4, <2>5 DEF QuotaInv
  <1>2. ASSUME NEW s \in Requests, Returns(s) PROVE QuotaInv'
    <2>1. PICK answer \in Replies : reply' = [reply EXCEPT ![s] = answer]
      BY <1>2 DEF Returns, Possible, Replies
    <2>2. reply[s] = "sent" /\ UNCHANGED <<hostKeys, asked, qphase, expired, outcome>>
      BY <1>2 DEF Returns
    <2>3. Asked'
      BY <2>1, <2>2 DEF QuotaInv, Asked, Progress, Requests, Replies
    <2>4. Progress'
      BY <2>1, <2>2 DEF QuotaInv, Progress, Requests, Replies, Sections
    <2>5. Told'
      BY <2>1, <2>2 DEF QuotaInv, Progress, Told, Requests, Replies
    <2> QED BY <2>3, <2>4, <2>5 DEF QuotaInv
  <1>3. CASE TimerEnds
    BY <1>3 DEF TimerEnds, QuotaInv, Asked, Progress, Told
  <1>4. CASE WhoamiIn
    <2>1. Asked'
      BY <1>4 DEF WhoamiIn, QuotaInv, Asked, Progress, Fails, Sends, Requests, Returned
    <2>2. Progress'
      BY <1>4 DEF WhoamiIn, QuotaInv, Progress, Fails, Sends, Requests, Sections, Replies
    <2>3. Told'
      BY <1>4 DEF WhoamiIn, QuotaInv, Progress, Told, Fails, Sends
    <2> QED BY <2>1, <2>2, <2>3 DEF QuotaInv
  <1>5. CASE SectionsIn
    <2>1. Asked'
      BY <1>5 DEF SectionsIn, QuotaInv, Asked, Progress, Fails, Sends, Requests
    <2>2. Progress'
      BY <1>5 DEF SectionsIn, QuotaInv, Progress, Fails, Sends, Requests, Sections, Replies,
                  Returned, Blocked
    <2>3. Told'
      BY <1>5 DEF SectionsIn, QuotaInv, Progress, Told, Fails, Sends
    <2> QED BY <2>1, <2>2, <2>3 DEF QuotaInv
  <1>6. CASE UsageIn
    <2>1. Asked' /\ Progress'
      BY <1>6 DEF UsageIn, QuotaInv, Asked, Progress, Fails
    <2>2. Told'
      BY <1>6 DEF UsageIn, QuotaInv, Progress, Told, Fails, Requests, Sections, Replies,
                  Returned, Blocked, Unavailable
    <2> QED BY <2>1, <2>2 DEF QuotaInv
  <1>7. CASE UNCHANGED quotaVars
    BY <1>7 DEF quotaVars, QuotaInv, Asked, Progress, Told
  <1> QED BY <1>1, <1>2, <1>3, <1>4, <1>5, <1>6, <1>7 DEF QuotaNext, Requests

\* The quota command tells what happened, and asks with the right key.
THEOREM QuotaIsTruthful == QuotaSpec => []QuotaTruthful
  BY QuotaInitSound, QuotaStepSound, QuotaInvTruthful, PTL DEF QuotaSpec

-----------------------------------------------------------------------------
(* The login *)

\* Before the browser flow has a server nobody can have connected to it or settled the
\* callback; while login() waits, the server listens until the callback is settled.
ServerFits ==
    /\ loginStage = "choosing" => server = "off"
    /\ loginStage = "starting" <=> server = "trying"
    /\ loginStage \in {"choosing", "starting"} =>
           callback = "pending" /\ \A c \in Connections : conn[c].phase = "idle"
    /\ loginStage = "waiting" =>
           server = IF callback = "pending" THEN "listening" ELSE "closed"
    /\ server = "listening" => loginStage = "waiting"

\* The callback resolves to a key that the website posted for this login.
CallbackVouched ==
    /\ callback \in {"pending", "rejected"} \cup vouched
    /\ vouched \subseteq PastedKeys

\* A connection's record; one that reports a key holds it.
ConnectionsFit ==
    /\ conn \in [Connections -> [phase : {"idle", "receiving", "ok", "refused", "cut"},
                                body : Bodies, key : PastedKeys \cup {NoKey}]]
    /\ \A c \in Connections : conn[c].body \in {"foreign", "key"} => conn[c].key \in PastedKeys

LoginInv ==
    /\ LoginTypeOK /\ ConnectionsFit
    /\ ServerFits /\ CallbackVouched
    /\ loginStage = "validating" => prompted \in PastedKeys
    /\ LoginSettlesCleanly

USE LoginAssumption DEF NoKey, servers

\* The search for a port starts in its range and stays there.
LEMMA PortsInRange ==
    ASSUME NEW n \in Int, n = 0 \/ \E m \in 0..PortRange : m < PortRange /\ n = m + 1
    PROVE  n \in 0..PortRange
<1>1. PortRange \in Nat
  BY LoginAssumption
<1> QED BY ONLY <1>1, n \in Int, n = 0 \/ \E m \in 0..PortRange : m < PortRange /\ n = m + 1

\* The invariant holds at the start.
LEMMA LoginInitSound == LoginInit => LoginInv
<1> SUFFICES ASSUME LoginInit PROVE LoginInv
  OBVIOUS
<1>1. ConnectionsFit
  BY DEF LoginInit, ConnectionsFit, Bodies
<1>2. offset \in 0..PortRange
  <2>1. offset = 0
    BY DEF LoginInit
  <2> QED BY ONLY <2>1, PortsInRange
<1>3. LoginTypeOK
  BY <1>1, <1>2 DEF LoginInit, LoginTypeOK, ConnectionsFit
<1>4. ServerFits /\ CallbackVouched /\ LoginSettlesCleanly
  BY DEF LoginInit, ServerFits, CallbackVouched, LoginSettlesCleanly
<1> QED BY <1>1, <1>3, <1>4 DEF LoginInit, LoginInv

\* The prompts.
LEMMA PromptsSound ==
    ASSUME LoginInv, Choose \/ Pastes \/ Validates
    PROVE  LoginInv'
<1>1. CASE Choose
  BY <1>1 DEF Choose, LoginInv, LoginTypeOK, ConnectionsFit, ServerFits, CallbackVouched,
              LoginSettlesCleanly
<1>2. CASE Pastes
  BY <1>2 DEF Pastes, LoginInv, LoginTypeOK, ConnectionsFit, ServerFits, CallbackVouched,
              LoginSettlesCleanly
<1>3. CASE Validates
  <2>1. LoginTypeOK'
    BY <1>3 DEF Validates, ValidatedLocally, LoginInv, LoginTypeOK, ConnectionsFit, ServerFits
  <2>2. ConnectionsFit'
    BY <1>3 DEF Validates, ValidatedLocally, LoginInv, ConnectionsFit, Bodies
  <2>3. ServerFits'
    BY <1>3 DEF Validates, ValidatedLocally, LoginInv, ServerFits, ConnectionsFit, CallbackVouched
  <2>4. CallbackVouched'
    BY <1>3 DEF Validates, ValidatedLocally, LoginInv, CallbackVouched, ConnectionsFit
  <2>5. LoginSettlesCleanly' /\ (loginStage' = "validating" => prompted' \in PastedKeys)
    BY <1>3 DEF Validates, ValidatedLocally, LoginInv, LoginSettlesCleanly, ServerFits,
                CallbackVouched
  <2> QED BY <2>1, <2>2, <2>3, <2>4, <2>5 DEF LoginInv
<1> QED BY <1>1, <1>2, <1>3

\* The search for a port and the two ends of the race.
LEMMA BrowserSound ==
    ASSUME LoginInv, PortTaken \/ Listens \/ ListenFails \/ TimesOut \/ CallbackTaken
    PROVE  LoginInv'
<1>1. CASE PortTaken
  <2>1. LoginTypeOK'
    <3>1. offset' \in 0..PortRange
      <4>1. offset \in 0..PortRange /\ offset < PortRange /\ offset' = offset + 1
        BY <1>1 DEF PortTaken, LoginInv, LoginTypeOK
      <4> QED BY ONLY <4>1, PortsInRange
    <3> QED BY <1>1, <3>1 DEF PortTaken, LoginInv, LoginTypeOK
  <2>2. ConnectionsFit'
    BY <1>1 DEF PortTaken, LoginInv, ConnectionsFit, Bodies
  <2>3. ServerFits'
    BY <1>1 DEF PortTaken, LoginInv, ServerFits, ConnectionsFit, CallbackVouched
  <2>4. CallbackVouched'
    BY <1>1 DEF PortTaken, LoginInv, CallbackVouched, ConnectionsFit
  <2>5. LoginSettlesCleanly' /\ (loginStage' = "validating" => prompted' \in PastedKeys)
    BY <1>1 DEF PortTaken, LoginInv, LoginSettlesCleanly, ServerFits, CallbackVouched
  <2> QED BY <2>1, <2>2, <2>3, <2>4, <2>5 DEF LoginInv
<1>2. CASE Listens
  <2>1. LoginTypeOK'
    BY <1>2 DEF Listens, LoginInv, LoginTypeOK, ConnectionsFit, ServerFits
  <2>2. ConnectionsFit'
    BY <1>2 DEF Listens, LoginInv, ConnectionsFit, Bodies
  <2>3. ServerFits'
    BY <1>2 DEF Listens, LoginInv, ServerFits, ConnectionsFit, CallbackVouched
  <2>4. CallbackVouched'
    BY <1>2 DEF Listens, LoginInv, CallbackVouched, ConnectionsFit
  <2>5. LoginSettlesCleanly' /\ (loginStage' = "validating" => prompted' \in PastedKeys)
    BY <1>2 DEF Listens, LoginInv, LoginSettlesCleanly, ServerFits, CallbackVouched
  <2> QED BY <2>1, <2>2, <2>3, <2>4, <2>5 DEF LoginInv
<1>3. CASE ListenFails
  BY <1>3 DEF ListenFails, LoginInv, LoginTypeOK, ConnectionsFit, ServerFits, CallbackVouched,
              LoginSettlesCleanly
<1>4. CASE TimesOut
  BY <1>4 DEF TimesOut, StopsListening, LoginInv, LoginTypeOK, ConnectionsFit, ServerFits,
              CallbackVouched, LoginSettlesCleanly
<1>5. CASE CallbackTaken
  BY <1>5 DEF CallbackTaken, StopsListening, LoginInv, LoginTypeOK, ConnectionsFit, ServerFits,
              CallbackVouched, LoginSettlesCleanly
<1> QED BY <1>1, <1>2, <1>3, <1>4, <1>5

\* A connection changes its own record; it settles the callback and closes the server
\* in one step, and after the first settlement it changes nothing else.
LEMMA ConnectionSound ==
    ASSUME LoginInv, NEW c \in Connections, Connects(c) \/ Received(c) \/ Drops(c)
    PROVE  LoginInv'
<1>1. CASE Connects(c)
  <2>1. PICK body \in Bodies, key \in PastedKeys \cup {NoKey} :
            /\ conn' = [conn EXCEPT ![c] = [phase |-> "receiving", body |-> body, key |-> key]]
            /\ body \in {"foreign", "key"} => key \in PastedKeys
    BY <1>1 DEF Connects
  <2>2. /\ ConnectionsFit'
        /\ \A d \in Connections :
              /\ conn'[d].phase \in {"idle", "receiving", "ok", "refused", "cut"}
              /\ conn'[d].body \in Bodies /\ conn'[d].key \in PastedKeys \cup {NoKey}
    BY <2>1 DEF LoginInv, ConnectionsFit
  <2>3. LoginTypeOK'
    BY <1>1, <2>2 DEF Connects, LoginInv, LoginTypeOK
  <2>4. ServerFits' /\ CallbackVouched' /\ LoginSettlesCleanly'
    BY <1>1 DEF Connects, LoginInv, ServerFits, CallbackVouched, LoginSettlesCleanly
  <2> QED BY <1>1, <2>2, <2>3, <2>4 DEF Connects, LoginInv
<1>2. CASE Received(c)
  <2>1. LoginTypeOK'
    BY <1>2 DEF Received, Accepts, Settles, StopsListening, LoginInv, LoginTypeOK, ConnectionsFit,
                ServerFits
  <2>2. ConnectionsFit'
    BY <1>2 DEF Received, Accepts, Settles, StopsListening, LoginInv, ConnectionsFit, Bodies
  <2>3. ServerFits'
    BY <1>2 DEF Received, Accepts, Settles, StopsListening, LoginInv, ServerFits, ConnectionsFit,
                CallbackVouched
  <2>4. CallbackVouched'
    BY <1>2 DEF Received, Accepts, Settles, StopsListening, LoginInv, CallbackVouched,
                ConnectionsFit
  <2>5. LoginSettlesCleanly' /\ (loginStage' = "validating" => prompted' \in PastedKeys)
    BY <1>2 DEF Received, Accepts, Settles, StopsListening, LoginInv, LoginSettlesCleanly,
                ServerFits, CallbackVouched
  <2> QED BY <2>1, <2>2, <2>3, <2>4, <2>5 DEF LoginInv
<1>3. CASE Drops(c)
  <2>1. ConnectionsFit'
    BY <1>3 DEF Drops, LoginInv, ConnectionsFit, Bodies
  <2>2. /\ conn[c].phase = "receiving"
        /\ \A d \in Connections :
              /\ conn'[d].phase \in {conn[d].phase, "cut"}
              /\ conn'[d].body = conn[d].body /\ conn'[d].key = conn[d].key
    BY <1>3 DEF Drops, LoginInv, ConnectionsFit
  <2>3. LoginTypeOK'
    BY <1>3, <2>2 DEF Drops, LoginInv, LoginTypeOK
  <2>4. ServerFits' /\ CallbackVouched' /\ LoginSettlesCleanly'
    BY <1>3, <2>2 DEF Drops, LoginInv, ServerFits, CallbackVouched, LoginSettlesCleanly
  <2> QED BY <1>3, <2>1, <2>3, <2>4 DEF Drops, LoginInv
<1> QED BY <1>1, <1>2, <1>3

\* Every step of a login keeps the invariant.
LEMMA LoginStepSound ==
    ASSUME LoginInv, [LoginNext]_loginVars
    PROVE  LoginInv'
<1>1. CASE LoginNext
  BY <1>1, PromptsSound, BrowserSound, ConnectionSound DEF LoginNext
<1>2. CASE UNCHANGED loginVars
  BY <1>2 DEF loginVars, LoginInv, LoginTypeOK, ConnectionsFit, ServerFits, CallbackVouched,
              LoginSettlesCleanly
<1> QED BY <1>1, <1>2

\* However the callback, the timeout and the pasted key race, login() leaves no server
\* behind, returns a credential somebody vouched for, and sends no member token away.
THEOREM LoginIsClean == LoginSpec => []LoginSettlesCleanly
<1>1. LoginInv => LoginSettlesCleanly
  BY DEF LoginInv
<1> QED BY <1>1, LoginInitSound, LoginStepSound, PTL DEF LoginSpec

\* Types; while a browser login waits, and only then, its server listens, until the first
\* settlement of the callback closes it.
THEOREM TypesOfLogin == LoginSpec => []LoginTypeOK
<1>1. LoginInv => LoginTypeOK
  BY DEF LoginInv
<1> QED BY <1>1, LoginInitSound, LoginStepSound, PTL DEF LoginSpec
=============================================================================
