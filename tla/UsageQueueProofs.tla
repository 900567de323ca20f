-------------------------- MODULE UsageQueueProofs --------------------------
(***************************************************************************)
(* Proofs about UsageQueue, for every set of events, sizes and budgets.    *)
(***************************************************************************)
EXTENDS UsageQueue, SubsequencesProofs, SequenceTheorems

-----------------------------------------------------------------------------
(***************************************************************************)
(* Sequences of events in which nothing occurs twice, and their elements.  *)
(***************************************************************************)
Distinct(s) == \A i, j \in 1..Len(s) : s[i] = s[j] => i = j
Line == {s \in Seq(Events) : Distinct(s)}

\* A line has as many places as elements.
LEMMA LineLength ==
    ASSUME NEW s \in Line
    PROVE  /\ Len(s) = Cardinality(Elements(s))
           /\ IsFiniteSet(Elements(s))
           /\ Elements(s) \subseteq Events
           /\ s = <<>> <=> Elements(s) = {}
  <1> DEFINE at == [i \in 1..Len(s) |-> s[i]]
  <1>1. Len(s) \in Nat /\ \A i \in 1..Len(s) : s[i] \in Events
    BY DEF Line
  <1>2. at \in Surjection(1..Len(s), Elements(s))
    BY DEF Surjection, Elements
  <1>3. at \in Injection(1..Len(s), Elements(s))
    BY DEF Line, Distinct, Injection, IsInjective, Elements
  <1>4. IsFiniteSet(1..Len(s)) /\ Cardinality(1..Len(s)) = Len(s)
    <2>1. /\ IsFiniteSet(1..Len(s))
          /\ Cardinality(1..Len(s)) = IF 1 > Len(s) THEN 0 ELSE Len(s) - 1 + 1
      BY <1>1, FS_Interval
    <2> QED BY <1>1, <2>1
  <1> HIDE DEF at
  <1>5. IsFiniteSet(Elements(s)) /\ Cardinality(Elements(s)) = Cardinality(1..Len(s))
    BY <1>2, <1>3, <1>4, FS_Surjection
  <1>6. s = <<>> <=> Elements(s) = {}
    <2>1. s # <<>> => 1 \in 1..Len(s)
      BY <1>1 DEF Line
    <2>2. s = <<>> => 1..Len(s) = {}
      BY <1>1
    <2> QED BY <2>1, <2>2 DEF Elements
  <1> QED BY <1>1, <1>4, <1>5, <1>6 DEF Elements

\* The empty line.
LEMMA EmptyLine == <<>> \in Line /\ Elements(<<>>) = {}
  BY DEF Line, Distinct, Elements

\* Appending an event that is not yet in the line.
LEMMA AppendLine ==
    ASSUME NEW s \in Line, NEW e \in Events, e \notin Elements(s)
    PROVE  Append(s, e) \in Line /\ Elements(Append(s, e)) = Elements(s) \cup {e}
  <1> DEFINE u == Append(s, e)
  <1>1. /\ s \in Seq(Events) /\ u \in Seq(Events) /\ Len(s) \in Nat /\ Len(u) = Len(s) + 1
        /\ \A i \in 1..Len(s) : u[i] = s[i]
        /\ u[Len(s) + 1] = e
    BY DEF Line
  <1> HIDE DEF u
  <1>2. \A i \in 1..Len(u) : i \in 1..Len(s) \/ i = Len(s) + 1
    BY <1>1
  <1>3. \A i \in 1..Len(s) : s[i] # e
    BY DEF Elements
  <1>4. Distinct(u)
    BY <1>1, <1>2, <1>3 DEF Distinct, Line
  <1>5. Len(s) + 1 \in 1..Len(u) /\ \A i \in 1..Len(s) : i \in 1..Len(u)
    BY <1>1
  <1>6. Elements(u) = Elements(s) \cup {e}
    BY <1>1, <1>2, <1>5 DEF Elements
  <1> QED BY <1>1, <1>4, <1>6 DEF Line, u

\* Two lines without a common event, one after the other.
LEMMA ConcatLine ==
    ASSUME NEW s \in Line, NEW t \in Line, Elements(s) \cap Elements(t) = {}
    PROVE  s \o t \in Line /\ Elements(s \o t) = Elements(s) \cup Elements(t)
  <1> DEFINE u == s \o t
  <1>1. /\ s \in Seq(Events) /\ t \in Seq(Events) /\ Len(s) \in Nat /\ Len(t) \in Nat
        /\ u \in Seq(Events) /\ Len(u) = Len(s) + Len(t)
        /\ \A i \in 1..Len(u) : u[i] = IF i <= Len(s) THEN s[i] ELSE t[i - Len(s)]
    BY DEF Line
  <1> HIDE DEF u
  <1>2. \A i \in 1..Len(u) : \/ i \in 1..Len(s) /\ u[i] = s[i]
                             \/ i - Len(s) \in 1..Len(t) /\ u[i] = t[i - Len(s)]
    BY <1>1
  <1>3. \A i \in 1..Len(s), j \in 1..Len(t) : s[i] # t[j]
    BY DEF Elements
  <1>4. ASSUME NEW i \in 1..Len(u), NEW j \in 1..Len(u), u[i] = u[j] PROVE i = j
    <2>1. CASE i \in 1..Len(s) /\ u[i] = s[i] /\ j \in 1..Len(s) /\ u[j] = s[j]
      BY <1>4, <2>1 DEF Line, Distinct
    <2>2. CASE /\ i - Len(s) \in 1..Len(t) /\ u[i] = t[i - Len(s)]
               /\ j - Len(s) \in 1..Len(t) /\ u[j] = t[j - Len(s)]
      <3>1. i - Len(s) = j - Len(s)
        BY <1>4, <2>2 DEF Line, Distinct
      <3> QED BY <1>1, <3>1
    <2> QED BY <1>2, <1>3, <1>4, <2>1, <2>2
  <1>5. Elements(u) = Elements(s) \cup Elements(t)
    <2>1. \A i \in 1..Len(s) : i \in 1..Len(u) /\ u[i] = s[i]
      BY <1>1
    <2>2. \A j \in 1..Len(t) : j + Len(s) \in 1..Len(u) /\ u[j + Len(s)] = t[j]
      BY <1>1
    <2>3. \A x \in Elements(u) : x \in Elements(s) \cup Elements(t)
      BY <1>2 DEF Elements
    <2>4. \A x \in Elements(s) \cup Elements(t) : x \in Elements(u)
      BY <2>1, <2>2 DEF Elements
    <2> QED BY <2>3, <2>4
  <1> QED BY <1>1, <1>4, <1>5 DEF Line, Distinct, u

\* Picking places out of a line.
LEMMA PickLine ==
    ASSUME NEW s \in Line, NEW P \in SUBSET (1..Len(s))
    PROVE  PickAt(s, P) \in Line /\ Elements(PickAt(s, P)) = {s[i] : i \in P}
  <1> DEFINE C == Cardinality(P)
             u == PickAt(s, P)
  <1>1. /\ s \in Seq(Events) /\ Distinct(s) /\ P \subseteq Int
    BY DEF Line
  <1>2. u \in Seq(Events) /\ Len(u) = C /\ C \in Nat
    BY <1>1, PickAtPositions
  <1>8. PICK at : Picks(s, P, at)
    BY <1>1, PickAtPositions
  <1>3. /\ at \in [1..C -> P]
        /\ \A m \in 1..C : u[m] = s[at[m]]
        /\ \A l, m \in 1..C : l < m => at[l] < at[m]
        /\ \A i \in P : \E m \in 1..C : at[m] = i
    BY <1>8 DEF Picks
  <1> HIDE DEF u, C
  <1>4. ASSUME NEW l \in 1..C, NEW m \in 1..C, u[l] = u[m] PROVE l = m
    <2>1. at[l] = at[m] /\ at[l] \in Int
      BY <1>1, <1>3, <1>4 DEF Distinct
    <2>2. l \in Int /\ m \in Int
      BY <1>2
    <2> QED BY <1>3, <2>1, <2>2
  <1>5. Elements(u) = {s[i] : i \in P}
    <2>1. \A m \in 1..C : at[m] \in P /\ u[m] = s[at[m]]
      BY <1>3
    <2>2. \A i \in P : \E m \in 1..C : u[m] = s[i]
      BY <1>3
    <2>3. Elements(u) = {u[m] : m \in 1..C}
      BY <1>2 DEF Elements
    <2>4. ASSUME NEW x \in Elements(u) PROVE x \in {s[i] : i \in P}
      <3>1. PICK m \in 1..C : x = u[m]
        BY <2>3
      <3>2. PICK i \in P : i = at[m]
        BY <2>1
      <3> QED BY <2>1, <3>1, <3>2
    <2>5. \A x \in {s[i] : i \in P} : x \in Elements(u)
      BY <2>2, <2>3
    <2> QED BY <2>4, <2>5
  <1> QED BY <1>2, <1>4, <1>5 DEF Line, Distinct, u

\* Without removes exactly the given events.
LEMMA WithoutLine ==
    ASSUME NEW s \in Line, NEW S
    PROVE  Without(s, S) \in Line /\ Elements(Without(s, S)) = Elements(s) \ S
  <1> DEFINE P == {i \in 1..Len(s) : s[i] \notin S}
  <1>1. P \in SUBSET (1..Len(s)) /\ Without(s, S) = PickAt(s, P)
    BY DEF Without
  <1>2. {s[i] : i \in P} = Elements(s) \ S
    BY DEF Elements
  <1> HIDE DEF P
  <1> QED BY <1>1, <1>2, PickLine

\* flushBatch() takes at least the first event, and only events that wait.
LEMMA BatchLine ==
    ASSUME NEW s \in Line, s # <<>>
    PROVE  /\ BatchOf(s) \in Line /\ BatchOf(s) # <<>>
           /\ Elements(BatchOf(s)) \subseteq Elements(s)
  <1> DEFINE P == {i \in 1..Len(s) : TokenOf[s[i]] = TokenOf[Head(s)]}
             same == PickAt(s, P)
             n == IF Len(same) < BatchSize THEN Len(same) ELSE BatchSize
  <1>1. BatchOf(s) = SubSeq(same, 1, n)
    BY DEF BatchOf
  <1>2. 1 \in P
    BY DEF Line
  <1>3. same \in Line /\ Elements(same) = {s[i] : i \in P}
    BY PickLine
  <1>4. Elements(same) \subseteq Elements(s) /\ Elements(same) # {}
    BY <1>2, <1>3 DEF Elements
  <1>5. same \in Seq(Events) /\ Len(same) \in Nat \ {0}
    BY <1>3, <1>4, LineLength DEF Line
  <1> HIDE DEF same
  <1>6. n \in 1..Len(same)
    BY <1>5, UsageQueueAssumption
  <1> HIDE DEF n
  <1>7. /\ SubSeq(same, 1, n) \in Seq(Events) /\ Len(SubSeq(same, 1, n)) = n
        /\ \A i \in 1..n : SubSeq(same, 1, n)[i] = same[i]
    BY <1>5, <1>6
  <1> DEFINE b == SubSeq(same, 1, n)
  <1> HIDE DEF b
  <1>8. b \in Seq(Events) /\ Len(b) = n /\ \A i \in 1..n : i \in 1..Len(same) /\ b[i] = same[i]
    BY <1>6, <1>7 DEF b
  <1>9. Distinct(b) /\ Elements(b) \subseteq Elements(same)
    <2>1. \A i, j \in 1..Len(same) : same[i] = same[j] => i = j
      BY <1>3 DEF Line, Distinct
    <2>2. \A i, j \in 1..n : b[i] = b[j] => i = j
      BY <1>8, <2>1
    <2>3. \A i \in 1..n : b[i] \in Elements(same)
      BY <1>8 DEF Elements
    <2> QED BY <1>8, <2>2, <2>3 DEF Distinct, Elements
  <1>10. b # <<>>
    BY <1>6, <1>8
  <1> QED BY <1>1, <1>4, <1>8, <1>9, <1>10 DEF b, Line

-----------------------------------------------------------------------------
(***************************************************************************)
(* The bytes of sets of events.                                            *)
(***************************************************************************)
\* A set of events is finite, and so are its bytes.
LEMMA SizeType ==
    ASSUME NEW S \in SUBSET Events
    PROVE  IsFiniteSet(S) /\ IsFiniteSet(BytesIn(S)) /\ Size(S) \in Nat
  <1> DEFINE bytesOf == [e \in S |-> {e} \X (1..BytesOf[e])]
             parts == {{e} \X (1..BytesOf[e]) : e \in S}
  <1>1. IsFiniteSet(S)
    BY UsageQueueAssumption, FS_Subset
  <1>2. bytesOf \in Surjection(S, parts)
    BY DEF Surjection
  <1>3. IsFiniteSet(parts)
    BY <1>1, <1>2, FS_Surjection
  <1>4. ASSUME NEW part \in parts PROVE IsFiniteSet(part)
    <2>1. PICK e \in S : part = {e} \X (1..BytesOf[e])
      OBVIOUS
    <2>2. IsFiniteSet(1..BytesOf[e])
      BY UsageQueueAssumption, FS_Interval
    <2> QED BY <2>1, <2>2, FS_Singleton, FS_Product
  <1>5. IsFiniteSet(UNION parts)
    <2> HIDE DEF parts
    <2> QED BY <1>3, <1>4, FS_UNION
  <1> QED BY <1>1, <1>5, FS_CardinalityType DEF BytesIn, Size

\* Sizes add up.
LEMMA SizeUnion ==
    ASSUME NEW S \in SUBSET Events, NEW T \in SUBSET Events, S \cap T = {}
    PROVE  Size(S \cup T) = Size(S) + Size(T)
  <1>1. BytesIn(S \cup T) = BytesIn(S) \cup BytesIn(T)
    BY DEF BytesIn
  <1>2. BytesIn(S) \cap BytesIn(T) = {}
    BY DEF BytesIn
  <1>3. /\ IsFiniteSet(BytesIn(S)) /\ IsFiniteSet(BytesIn(T))
        /\ Size(S) \in Nat /\ Size(T) \in Nat
    BY SizeType
  <1>4. Cardinality(BytesIn(S) \cup BytesIn(T))
           = Cardinality(BytesIn(S)) + Cardinality(BytesIn(T))
                - Cardinality(BytesIn(S) \cap BytesIn(T))
    BY <1>3, FS_Union
  <1>5. Cardinality(BytesIn(S) \cap BytesIn(T)) = 0
    BY <1>2, FS_EmptySet
  <1>6. Size(S \cup T) = Cardinality(BytesIn(S) \cup BytesIn(T))
    BY <1>1 DEF Size
  <1>7. Size(S) = Cardinality(BytesIn(S)) /\ Size(T) = Cardinality(BytesIn(T))
    BY DEF Size
  <1> QED BY ONLY <1>3, <1>4, <1>5, <1>6, <1>7

\* The size of one event, and of none.
LEMMA SizeSmall ==
    Size({}) = 0 /\ \A e \in Events : Size({e}) = BytesOf[e]
  <1>1. Size({}) = 0
    BY FS_EmptySet DEF Size, BytesIn
  <1>2. ASSUME NEW e \in Events PROVE Size({e}) = BytesOf[e]
    <2> DEFINE n == BytesOf[e]
               pair == [i \in 1..n |-> <<e, i>>]
    <2>1. n \in Nat
      BY UsageQueueAssumption
    <2>2. BytesIn({e}) = {e} \X (1..n)
      BY DEF BytesIn
    <2>3. pair \in Surjection(1..n, {e} \X (1..n)) /\ pair \in Injection(1..n, {e} \X (1..n))
      BY DEF Surjection, Injection, IsInjective
    <2>4. IsFiniteSet(1..n) /\ Cardinality(1..n) = n
      <3>1. IsFiniteSet(1..n) /\ Cardinality(1..n) = IF 1 > n THEN 0 ELSE n - 1 + 1
        BY <2>1, FS_Interval
      <3> QED BY <2>1, <3>1
    <2> HIDE DEF pair, n
    <2>5. Cardinality({e} \X (1..n)) = n
      BY <2>3, <2>4, FS_Surjection
    <2> QED BY <2>2, <2>5 DEF Size, n
  <1> QED BY <1>1, <1>2

\* Taking events away takes their bytes away.
LEMMA SizeDifference ==
    ASSUME NEW S \in SUBSET Events, NEW T \in SUBSET S
    PROVE  Size(S \ T) = Size(S) - Size(T) /\ Size(T) <= Size(S)
  <1>1. S \ T \in SUBSET Events /\ T \in SUBSET Events /\ (S \ T) \cap T = {}
        /\ (S \ T) \cup T = S
    OBVIOUS
  <1>2. Size(S) = Size(S \ T) + Size(T)
    BY <1>1, SizeUnion
  <1>3. Size(S) \in Nat /\ Size(T) \in Nat /\ Size(S \ T) \in Nat
    BY <1>1, SizeType
  <1> QED BY <1>2, <1>3

\* So do cardinalities.
LEMMA CountDifference ==
    ASSUME NEW S \in SUBSET Events, NEW T \in SUBSET S
    PROVE  /\ Cardinality(S \ T) = Cardinality(S) - Cardinality(T)
           /\ Cardinality(S) \in Nat /\ Cardinality(T) \in Nat /\ Cardinality(S \ T) \in Nat
  <1>1. IsFiniteSet(S) /\ IsFiniteSet(T) /\ IsFiniteSet(S \ T) /\ S \cap T = T
    BY SizeType
  <1>2. Cardinality(S \ T) = Cardinality(S) - Cardinality(S \cap T)
    BY <1>1, FS_Difference
  <1> QED BY <1>1, <1>2, FS_CardinalityType

\* Disjoint sets of events are counted separately.
LEMMA CountUnion ==
    ASSUME NEW S \in SUBSET Events, NEW T \in SUBSET Events, S \cap T = {}
    PROVE  /\ Cardinality(S \cup T) = Cardinality(S) + Cardinality(T)
           /\ Cardinality(S) \in Nat /\ Cardinality(T) \in Nat
  <1>1. (S \cup T) \in SUBSET Events /\ S \in SUBSET (S \cup T) /\ (S \cup T) \ S = T
    OBVIOUS
  <1>2. /\ Cardinality((S \cup T) \ S) = Cardinality(S \cup T) - Cardinality(S)
        /\ Cardinality(S \cup T) \in Nat /\ Cardinality(S) \in Nat
    BY <1>1, CountDifference
  <1>3. Cardinality(T) \in Nat
    BY SizeType, FS_CardinalityType
  <1>4. Cardinality((S \cup T) \ S) = Cardinality(T)
    BY <1>1
  <1> QED BY ONLY <1>2, <1>3, <1>4

-----------------------------------------------------------------------------
(***************************************************************************)
(* The inductive invariant.  The byte count can only stay a count because  *)
(* no event is in the queue twice, and the budget only holds because the   *)
(* uploads of an event and the retries granted to it are counted apart.    *)
(***************************************************************************)
\* Nothing is buffered twice, or buffered and in the upload, or never offered.
Lines ==
    /\ items \in Line /\ batch \in Line
    /\ Elements(items) \cap Elements(batch) = {}
    /\ Pending \subseteq offered

\* An event that was never offered was never uploaded.
Fresh == \A e \in Events \ offered : uploads[e] = 0 /\ attempts[e] = 0

IInv ==
    /\ TypeOK /\ Lines /\ Fresh
    /\ BytesAccounted /\ EveryEventAccounted /\ AttemptBudget
    /\ NoLostWakeup /\ ShutIsFinal

\* The queue starts empty.
LEMMA IInvInit == Init => IInv
  <1> SUFFICES ASSUME Init PROVE IInv
    OBVIOUS
  <1>1. /\ items = <<>> /\ batch = <<>> /\ offered = {} /\ bytes = 0 /\ sent = 0 /\ dropped = 0
        /\ Elements(items) = {} /\ Elements(batch) = {} /\ Pending = {}
    BY EmptyLine DEF Init, Pending
  <1>2. MaxRetries \in Nat /\ MaxBytes \in Nat
    BY UsageQueueAssumption
  <1>3. TypeOK
    <2>1. /\ attempts \in [Events -> 0..MaxRetries]
          /\ uploads \in [Events -> 0..MaxRetries + 1]
          /\ bytes \in 0..MaxBytes
      BY <1>1, <1>2 DEF Init
    <2>2. items \in Seq(Events) /\ batch \in Seq(Events) /\ sent \in Nat /\ dropped \in Nat
      BY <1>1
    <2>3. /\ uploading = FALSE /\ timer = FALSE /\ backoff = FALSE /\ stopping = FALSE
          /\ closed = FALSE /\ expired = {}
      BY DEF Init
    <2> QED BY <1>1, <2>1, <2>2, <2>3 DEF TypeOK
  <1>4. Lines /\ Fresh
    BY <1>1, EmptyLine DEF Init, Lines, Fresh
  <1>5. BytesAccounted
    BY <1>1, <1>2, SizeSmall DEF BytesAccounted
  <1>6. EveryEventAccounted
    <2>1. Len(items) = 0 /\ Len(batch) = 0 /\ Cardinality(offered) = 0 /\ Cardinality(Pending) = 0
      BY <1>1, FS_EmptySet
    <2> QED BY <1>1, <2>1 DEF EveryEventAccounted
  <1>7. AttemptBudget
    BY <1>1, <1>2 DEF AttemptBudget, Init
  <1>8. NoLostWakeup /\ ShutIsFinal
    BY <1>1 DEF NoLostWakeup, ShutIsFinal, Init
  <1> QED BY <1>3, <1>4, <1>5, <1>6, <1>7, <1>8 DEF IInv

\* What leaves the queue leaves the byte count and enters the statistics.
LEMMA AccountsKept ==
    ASSUME IInv, offered' = offered, NEW Gone \in SUBSET Pending,
           items' \in Line, batch' \in Line,
           Elements(items') \cap Elements(batch') = {},
           Elements(items') \cup Elements(batch') = Pending \ Gone,
           bytes' = bytes - Size(Gone),
           sent' \in Nat, dropped' \in Nat,
           sent' + dropped' = sent + dropped + Cardinality(Gone)
    PROVE  /\ Lines' /\ BytesAccounted' /\ EveryEventAccounted'
           /\ bytes' \in 0..MaxBytes /\ items' \in Seq(Events) /\ batch' \in Seq(Events)
  <1>1. /\ Pending \subseteq offered /\ offered \subseteq Events
        /\ Pending' = Pending \ Gone /\ Pending \in SUBSET Events
        /\ MaxBytes \in Nat /\ sent \in Nat /\ dropped \in Nat
    BY UsageQueueAssumption DEF IInv, Lines, TypeOK, Pending
  <1>2. Lines'
    BY <1>1 DEF Lines
  <1>3. bytes = Size(Pending) /\ bytes <= MaxBytes
    BY DEF IInv, BytesAccounted
  <1>4. /\ Size(Pending \ Gone) = Size(Pending) - Size(Gone)
        /\ Size(Pending) \in Nat /\ Size(Gone) \in Nat /\ Size(Pending \ Gone) \in Nat
    <2>1. Pending \in SUBSET Events /\ Gone \in SUBSET Events /\ Pending \ Gone \in SUBSET Events
      BY <1>1
    <2>2. Size(Pending \ Gone) = Size(Pending) - Size(Gone)
      BY <2>1, SizeDifference
    <2> QED BY <2>1, <2>2, SizeType
  <1>5. Size(Pending') = Size(Pending \ Gone)
    BY <1>1
  <1>6. bytes' = Size(Pending') /\ bytes' <= MaxBytes /\ bytes' \in 0..MaxBytes
    BY <1>1, <1>3, <1>4, <1>5
  <1>7. BytesAccounted'
    BY <1>6 DEF BytesAccounted
  <1>8. /\ Cardinality(Pending \ Gone) = Cardinality(Pending) - Cardinality(Gone)
        /\ Cardinality(Pending) \in Nat /\ Cardinality(Gone) \in Nat
    BY <1>1, CountDifference
  <1>9. /\ Len(items') = Cardinality(Elements(items'))
        /\ Len(batch') = Cardinality(Elements(batch'))
        /\ Elements(items') \in SUBSET Events /\ Elements(batch') \in SUBSET Events
    BY LineLength
  <1>10. /\ Cardinality(Elements(items') \cup Elements(batch')) = Len(items') + Len(batch')
         /\ Len(items') \in Nat /\ Len(batch') \in Nat
    BY <1>9, CountUnion
  <1>11. Cardinality(Pending') = Cardinality(Pending \ Gone)
         /\ Cardinality(Pending') = Len(items') + Len(batch')
    BY <1>1, <1>10 DEF Pending
  <1>12. /\ Cardinality(offered) = Len(items) + Len(batch) + sent + dropped
         /\ Cardinality(Pending) = Len(items) + Len(batch)
    BY DEF IInv, EveryEventAccounted
  <1>13. Len(items) \in Nat /\ Len(batch) \in Nat
    BY DEF IInv, TypeOK
  <1>14. Cardinality(offered) = Len(items') + Len(batch') + sent' + dropped'
    <2>1. PICK left \in Nat : left = Cardinality(Gone)
      BY <1>8
    <2>2. PICK waited \in Nat : waited = Len(items) + Len(batch)
      BY <1>13
    <2>3. PICK waiting \in Nat : waiting = Len(items') + Len(batch')
      BY <1>10
    <2>4. waiting + left = waited
      BY ONLY <1>8, <1>11, <1>12, <2>1, <2>2, <2>3
    <2>5. sent' + dropped' = sent + dropped + left
      BY <2>1
    <2>6. Cardinality(offered) = waited + sent + dropped
      BY ONLY <1>12, <2>2, <1>1
    <2>7. Cardinality(offered) = waiting + sent' + dropped'
      <3>1. PICK a \in Nat, b \in Nat : a = sent /\ b = dropped
        BY <1>1
      <3>2. PICK c \in Nat, d \in Nat : c = sent' /\ d = dropped'
        OBVIOUS
      <3>3. c + d = a + b + left
        BY ONLY <2>5, <3>1, <3>2
      <3>4. waited + a + b = waiting + c + d
        BY ONLY <2>4, <3>3, waiting \in Nat, left \in Nat, waited \in Nat,
                a \in Nat, b \in Nat, c \in Nat, d \in Nat
      <3> QED BY ONLY <2>6, <3>1, <3>2, <3>4
    <2> QED BY <2>3, <2>7
  <1>15. EveryEventAccounted'
    BY <1>11, <1>14 DEF EveryEventAccounted
  <1> QED BY <1>2, <1>6, <1>7, <1>15 DEF Line

-----------------------------------------------------------------------------
(***************************************************************************)
(* One lemma per kind of step.                                             *)
(***************************************************************************)
\* Steps that leave the queue and the statistics alone.
LEMMA QuietKeeps ==
    ASSUME IInv, UNCHANGED <<queueVars, statVars, offered, uploads>>,
           timer' \in BOOLEAN, backoff' \in BOOLEAN, expired' \in SUBSET offered,
           stopping' \in BOOLEAN, closed' = closed, stopping => stopping',
           items # <<>> /\ ~uploading => timer' \/ stopping',
           closed => ~timer'
    PROVE  IInv'
  <1> USE DEF queueVars, statVars
  <1>1. Lines' /\ Fresh' /\ Pending' = Pending
    BY DEF IInv, Lines, Fresh, Pending
  <1>2. TypeOK'
    BY DEF IInv, TypeOK
  <1>3. BytesAccounted' /\ EveryEventAccounted'
    BY <1>1 DEF IInv, BytesAccounted, EveryEventAccounted
  <1>4. AttemptBudget'
    BY DEF IInv, AttemptBudget
  <1>5. NoLostWakeup' /\ ShutIsFinal'
    BY DEF IInv, NoLostWakeup, ShutIsFinal
  <1> QED BY <1>1, <1>2, <1>3, <1>4, <1>5 DEF IInv

\* enqueue() counts the event it refuses.
LEMMA RefusalKeeps ==
    ASSUME IInv, NEW e \in Events, Enqueue(e), dropped' = dropped + 1,
           UNCHANGED <<items, bytes, timer>>
    PROVE  IInv'
  <1>1. /\ e \notin offered /\ offered' = offered \cup {e}
        /\ UNCHANGED <<batch, uploading, attempts, backoff, expired, stopping, closed, sent, uploads>>
    BY DEF Enqueue, shutVars
  <1>2. Lines' /\ Fresh' /\ Pending' = Pending
    BY <1>1 DEF IInv, Lines, Fresh, Pending
  <1>3. TypeOK'
    BY <1>1 DEF IInv, TypeOK
  <1>4. BytesAccounted'
    BY <1>1, <1>2 DEF IInv, BytesAccounted
  <1>5. EveryEventAccounted'
    <2>1. /\ Cardinality(offered) = Len(items) + Len(batch) + sent + dropped
          /\ Cardinality(Pending) = Len(items) + Len(batch)
          /\ Len(items) \in Nat /\ Len(batch) \in Nat /\ sent \in Nat /\ dropped \in Nat
      BY DEF IInv, EveryEventAccounted, TypeOK
    <2>2. Cardinality(offered') = Cardinality(offered) + 1
      <3>1. IsFiniteSet(offered)
        BY SizeType DEF IInv, TypeOK
      <3> QED BY <1>1, <3>1, FS_AddElement
    <2>3. Len(items') = Len(items) /\ Len(batch') = Len(batch) /\ sent' = sent
      BY <1>1
    <2>4. Cardinality(offered') = Len(items') + Len(batch') + sent' + dropped'
      BY <2>1, <2>2, <2>3
    <2> QED BY <1>1, <1>2, <2>1, <2>4 DEF EveryEventAccounted
  <1>6. AttemptBudget'
    BY <1>1 DEF IInv, AttemptBudget
  <1>7. NoLostWakeup' /\ ShutIsFinal'
    BY <1>1 DEF IInv, NoLostWakeup, ShutIsFinal
  <1> QED BY <1>2, <1>3, <1>4, <1>5, <1>6, <1>7 DEF IInv

\* enqueue() buffers an event that fits.
LEMMA BufferingKeeps ==
    ASSUME IInv, NEW e \in Events, Enqueue(e), ~stopping, Fits(e),
           items' = Append(items, e), bytes' = bytes + BytesOf[e],
           Schedule(~uploading), UNCHANGED dropped
    PROVE  IInv'
  <1>1. /\ e \notin offered /\ offered' = offered \cup {e}
        /\ UNCHANGED <<batch, uploading, attempts, backoff, expired, stopping, closed, sent, uploads>>
    BY DEF Enqueue, shutVars
  <1>2. /\ items \in Line /\ batch \in Line /\ Elements(items) \cap Elements(batch) = {}
        /\ Pending \subseteq offered /\ offered \subseteq Events /\ Pending \in SUBSET Events
        /\ e \notin Elements(items) /\ e \notin Pending
    BY <1>1 DEF IInv, Lines, TypeOK, Pending
  <1>3. items' \in Line /\ Elements(items') = Elements(items) \cup {e}
    BY <1>2, AppendLine
  <1>4. Elements(batch') = Elements(batch) /\ Pending' = Pending \cup {e} /\ {e} \in SUBSET Events
    BY <1>1, <1>3 DEF Pending
  <1>5. Lines'
    BY <1>1, <1>2, <1>3, <1>4 DEF Lines, Pending
  <1>6. Fresh'
    BY <1>1 DEF IInv, Fresh
  <1>7. BytesAccounted' /\ bytes' \in 0..MaxBytes
    <2>1. bytes = Size(Pending) /\ bytes' = bytes + BytesOf[e] /\ bytes' <= MaxBytes
      BY DEF IInv, BytesAccounted, Fits
    <2>2. Size(Pending \cup {e}) = Size(Pending) + Size({e}) /\ Size({e}) = BytesOf[e]
      BY <1>2, <1>4, SizeUnion, SizeSmall
    <2>3. bytes' = Size(Pending')
      BY <1>4, <2>1, <2>2
    <2>4. bytes' \in Nat
      <3>1. bytes \in Nat /\ BytesOf[e] \in Nat
        BY UsageQueueAssumption DEF IInv, TypeOK
      <3> QED BY <2>1, <3>1
    <2> QED BY <2>1, <2>3, <2>4, UsageQueueAssumption DEF BytesAccounted
  <1>8. EveryEventAccounted'
    <2>1. /\ Cardinality(offered) = Len(items) + Len(batch) + sent + dropped
          /\ Cardinality(Pending) = Len(items) + Len(batch)
          /\ Len(items) \in Nat /\ Len(batch) \in Nat /\ sent \in Nat /\ dropped \in Nat
      BY DEF IInv, EveryEventAccounted, TypeOK
    <2>2. /\ Cardinality(offered \cup {e}) = Cardinality(offered) + 1
          /\ Cardinality(Pending \cup {e}) = Cardinality(Pending) + 1
      <3>1. IsFiniteSet(offered) /\ IsFiniteSet(Pending)
        BY <1>2, SizeType
      <3> QED BY <1>1, <1>2, <3>1, FS_AddElement
    <2>3. Cardinality(offered') = Cardinality(offered) + 1
          /\ Cardinality(Pending') = Cardinality(Pending) + 1
      BY <1>1, <1>4, <2>2
    <2>4. Len(items') = Len(items) + 1 /\ Len(batch') = Len(batch) /\ sent' = sent
      BY <1>1 DEF IInv, TypeOK
    <2>5. PICK n \in Nat : n = Len(items)
      BY <2>1
    <2>6. PICK m \in Nat : m = Len(batch)
      BY <2>1
    <2>7. Cardinality(Pending') = (n + 1) + m
      BY ONLY <2>1, <2>3, <2>5, <2>6
    <2>8. Cardinality(offered') = (n + 1) + m + sent + dropped
      BY ONLY <2>1, <2>3, <2>5, <2>6
    <2> QED BY <2>4, <2>5, <2>6, <2>7, <2>8 DEF EveryEventAccounted
  <1>9. TypeOK'
    <2>1. timer' \in BOOLEAN
      BY DEF Schedule
    <2>2. uploading' \in BOOLEAN /\ (uploading' <=> batch' # <<>>) /\ backoff' \in BOOLEAN
          /\ stopping' \in BOOLEAN /\ closed' \in BOOLEAN /\ (closed' => stopping')
      BY <1>1 DEF IInv, TypeOK
    <2>3. /\ attempts' \in [Events -> 0..MaxRetries] /\ uploads' \in [Events -> 0..MaxRetries + 1]
          /\ sent' \in Nat /\ dropped' \in Nat
      BY <1>1 DEF IInv, TypeOK
    <2>4. expired' \subseteq offered' /\ offered' \subseteq Events
      BY <1>1 DEF IInv, TypeOK
    <2> QED BY <1>1, <1>2, <1>3, <1>7, <2>1, <2>2, <2>3, <2>4 DEF TypeOK, Line
  <1>10. AttemptBudget'
    <2>1. uploads[e] = attempts[e]
      BY <1>1 DEF IInv, Fresh
    <2> QED BY <1>1, <1>3, <1>4, <2>1 DEF IInv, AttemptBudget
  <1>11. NoLostWakeup' /\ ShutIsFinal'
    <2>1. ~closed
      BY DEF IInv, TypeOK
    <2> QED BY <1>1, <2>1 DEF NoLostWakeup, ShutIsFinal, Schedule
  <1> QED BY <1>5, <1>6, <1>7, <1>8, <1>9, <1>10, <1>11 DEF IInv

\* A flush drops the expired events and may start an upload of waiting ones.
LEMMA FlushKeeps ==
    ASSUME IInv, NEW due \in BOOLEAN, FlushWith(due)
    PROVE  IInv'
  <1> DEFINE old == Elements(items) \cap expired
  <1>1. /\ ~uploading /\ ~closed
        /\ dropped' = dropped + Cardinality(old) /\ bytes' = bytes - Size(old)
        /\ UNCHANGED <<attempts, backoff, expired, stopping, closed, sent, offered>>
    BY DEF FlushWith, shutVars
  <1>2. /\ items \in Line /\ batch = <<>> /\ Elements(batch) = {} /\ Pending = Elements(items)
        /\ Elements(items) \subseteq offered /\ offered \subseteq Events
    BY <1>1, EmptyLine DEF IInv, Lines, TypeOK, Pending
  <1>3. /\ Without(items, old) \in Line
        /\ Elements(Without(items, old)) = Elements(items) \ old
    BY <1>2, WithoutLine
  <1> DEFINE live == Without(items, old)
  <1>4. \/ /\ live = <<>>
           /\ items' = live
           /\ UNCHANGED <<batch, uploading, uploads>>
           /\ timer' = due
        \/ /\ live # <<>>
           /\ items' = live
           /\ timer' = (due \/ ~stopping)
           /\ UNCHANGED <<batch, uploading, uploads>>
        \/ /\ live # <<>>
           /\ batch' = BatchOf(live)
           /\ items' = Without(live, Elements(batch'))
           /\ timer' = FALSE
           /\ uploading' = TRUE
           /\ uploads' = [e \in Events |-> IF e \in Elements(batch')
                                           THEN uploads[e] + 1 ELSE uploads[e]]
    BY DEF FlushWith
  <1> HIDE DEF live
  <1>5. live \in Line /\ Elements(live) = Elements(items) \ old
    BY <1>3 DEF live
  <1>6. /\ items' \in Line /\ batch' \in Line
        /\ Elements(items') \cap Elements(batch') = {}
        /\ Elements(items') \cup Elements(batch') = Pending \ old
        /\ (uploading' <=> batch' # <<>>) /\ uploading' \in BOOLEAN
    <2>1. CASE items' = live /\ UNCHANGED <<batch, uploading>>
      <3>1. batch' = <<>> /\ Elements(batch') = {} /\ batch' \in Line
        BY <1>2, <2>1, EmptyLine
      <3>2. uploading' = FALSE
        BY <1>1, <2>1 DEF IInv, TypeOK
      <3> QED BY <1>2, <1>5, <2>1, <3>1, <3>2
    <2>2. CASE /\ live # <<>> /\ batch' = BatchOf(live) /\ uploading' = TRUE
               /\ items' = Without(live, Elements(batch'))
      <3>1. batch' \in Line /\ batch' # <<>> /\ Elements(batch') \subseteq Elements(live)
        BY <1>5, <2>2, BatchLine
      <3>2. items' \in Line /\ Elements(items') = Elements(live) \ Elements(batch')
        BY <1>5, <2>2, WithoutLine
      <3> QED BY <1>2, <1>5, <2>2, <3>1, <3>2
    <2> QED BY <1>4, <2>1, <2>2
  <1>7. /\ Lines' /\ BytesAccounted' /\ EveryEventAccounted'
        /\ bytes' \in 0..MaxBytes /\ items' \in Seq(Events) /\ batch' \in Seq(Events)
        /\ sent' \in Nat /\ dropped' \in Nat
    <2>1. old \in SUBSET Pending /\ old \in SUBSET Events
      BY <1>2
    <2> HIDE DEF old
    <2>2. Cardinality(old) \in Nat /\ sent \in Nat /\ dropped \in Nat
      BY <2>1, SizeType, FS_CardinalityType DEF IInv, TypeOK
    <2>3. /\ sent' \in Nat /\ dropped' \in Nat
          /\ sent' + dropped' = sent + dropped + Cardinality(old)
      BY <1>1, <2>2
    <2> QED BY <1>1, <1>6, <2>1, <2>3, AccountsKept
  <1>8. /\ \A e \in Events \ Elements(batch') : uploads'[e] = uploads[e]
        /\ \A e \in Elements(batch') : uploads'[e] = uploads[e] + 1
        /\ DOMAIN uploads' = Events
    <2>1. Elements(batch') \subseteq Events /\ DOMAIN uploads = Events
      BY <1>2, <1>6 DEF IInv, TypeOK
    <2> QED BY <1>2, <1>4, <2>1
  <1>9. /\ Elements(items') \subseteq Elements(items) /\ Elements(batch') \subseteq Elements(items)
        /\ Elements(items') \cap Elements(batch') = {}
    BY <1>2, <1>6
  <1>10. \A e \in Elements(items) : e \in Events /\ uploads[e] = attempts[e]
    BY <1>2 DEF IInv, AttemptBudget
  <1>11. /\ attempts \in [Events -> 0..MaxRetries] /\ uploads \in [Events -> 0..MaxRetries + 1]
         /\ MaxRetries \in Nat
    BY UsageQueueAssumption DEF IInv, TypeOK
  <1>12. uploads' \in [Events -> 0..MaxRetries + 1]
    <2>1. ASSUME NEW e \in Events PROVE uploads'[e] \in 0..MaxRetries + 1
      <3>1. CASE e \in Elements(batch')
        BY <1>8, <1>9, <1>10, <1>11, <3>1
      <3>2. CASE e \notin Elements(batch')
        BY <1>8, <1>11, <3>2
      <3> QED BY <3>1, <3>2
    <2>2. uploads' = [e \in Events |-> uploads'[e]]
      BY <1>4, <1>11
    <2> QED BY <2>1, <2>2
  <1>13. AttemptBudget'
    <2>1. ASSUME NEW e \in Events
          PROVE  /\ uploads'[e] <= MaxRetries + 1
                 /\ e \in Elements(items') => uploads'[e] = attempts'[e]
                 /\ e \in Elements(batch') => uploads'[e] = attempts'[e] + 1
      <3>1. uploads'[e] <= MaxRetries + 1
        BY <1>11, <1>12
      <3>2. attempts'[e] = attempts[e]
        BY <1>1
      <3> QED BY <1>8, <1>9, <1>10, <3>1, <3>2
    <2> QED BY <2>1 DEF AttemptBudget
  <1>14. Fresh'
    BY <1>1, <1>2, <1>8, <1>9 DEF IInv, Fresh
  <1>15. TypeOK'
    <2>1. timer' \in BOOLEAN
      BY <1>4
    <2>2. /\ backoff' \in BOOLEAN /\ stopping' \in BOOLEAN /\ closed' \in BOOLEAN
          /\ (closed' => stopping') /\ attempts' \in [Events -> 0..MaxRetries]
          /\ expired' \subseteq offered' /\ offered' \subseteq Events
      BY <1>1 DEF IInv, TypeOK
    <2> QED BY <1>6, <1>7, <1>12, <2>1, <2>2 DEF TypeOK
  <1>16. NoLostWakeup' /\ ShutIsFinal'
    BY <1>1, <1>4 DEF NoLostWakeup, ShutIsFinal
  <1> QED BY <1>7, <1>13, <1>14, <1>15, <1>16 DEF IInv

\* The end of an upload keeps what may be retried and settles the rest.
LEMMA EndUploadKeeps ==
    ASSUME IInv, uploading, NEW kept \in SUBSET Retryable, EndUpload(kept),
           sent' \in Nat, dropped' \in Nat,
           sent' + dropped' = sent + dropped + Cardinality(Elements(batch) \ kept),
           UNCHANGED <<expired, shutVars, offered, uploads>>
    PROVE  IInv'
  <1> DEFINE gone == Elements(batch) \ kept
  <1>1. /\ kept \subseteq Elements(batch) /\ gone \in SUBSET Pending
        /\ kept # {} => ~closed
        /\ \A e \in kept : attempts[e] < MaxRetries
    BY DEF Retryable, Pending
  <1>2. /\ items \in Line /\ batch \in Line /\ Elements(items) \cap Elements(batch) = {}
        /\ Elements(batch) \subseteq Events /\ Elements(items) \subseteq Events
        /\ Pending \subseteq offered
    BY DEF IInv, Lines, TypeOK, Pending
  <1>3. /\ items' = Without(batch, gone) \o items /\ bytes' = bytes - Size(gone)
        /\ attempts' = [e \in Events |-> IF e \in kept THEN attempts[e] + 1 ELSE attempts[e]]
        /\ backoff' \in BOOLEAN /\ batch' = <<>> /\ uploading' = FALSE
        /\ \/ items' # <<>> /\ timer' = (timer \/ ~stopping)
           \/ items' = <<>> /\ UNCHANGED timer
        /\ UNCHANGED <<expired, stopping, closed, offered, uploads>>
    BY DEF EndUpload, Schedule, shutVars
  <1>4. /\ Without(batch, gone) \in Line /\ Elements(Without(batch, gone)) = kept
    <2>1. Elements(batch) \ gone = kept
      BY <1>1
    <2> HIDE DEF gone
    <2> QED BY <1>2, <2>1, WithoutLine
  <1>5. items' \in Line /\ Elements(items') = kept \cup Elements(items)
    <2> HIDE DEF gone
    <2>1. kept \cap Elements(items) = {}
      BY <1>1, <1>2
    <2> QED BY <1>2, <1>3, <1>4, <2>1, ConcatLine
  <1>6. batch' \in Line /\ Elements(batch') = {}
    BY <1>3, EmptyLine
  <1>7. Elements(items') \cup Elements(batch') = Pending \ gone
    BY <1>1, <1>2, <1>5, <1>6 DEF Pending
  <1>8. /\ Lines' /\ BytesAccounted' /\ EveryEventAccounted'
        /\ bytes' \in 0..MaxBytes /\ items' \in Seq(Events) /\ batch' \in Seq(Events)
    <2> HIDE DEF gone
    <2>1. Elements(items') \cap Elements(batch') = {}
      BY <1>6
    <2>2. sent' + dropped' = sent + dropped + Cardinality(gone)
      BY DEF gone
    <2> QED BY <1>1, <1>3, <1>5, <1>6, <1>7, <2>1, <2>2, AccountsKept
  <1> HIDE DEF gone
  <1>9. /\ attempts \in [Events -> 0..MaxRetries] /\ uploads \in [Events -> 0..MaxRetries + 1]
        /\ MaxRetries \in Nat
    BY UsageQueueAssumption DEF IInv, TypeOK
  <1>10. attempts' \in [Events -> 0..MaxRetries]
    BY <1>1, <1>3, <1>9
  <1>11. TypeOK'
    <2>1. timer' \in BOOLEAN
      BY <1>3 DEF IInv, TypeOK
    <2>2. /\ stopping' \in BOOLEAN /\ closed' \in BOOLEAN
          /\ (closed' => stopping') /\ uploads' \in [Events -> 0..MaxRetries + 1]
          /\ expired' \subseteq offered' /\ offered' \subseteq Events
      BY <1>3 DEF IInv, TypeOK
    <2>3. uploading' \in BOOLEAN /\ (uploading' <=> batch' # <<>>)
      BY <1>3
    <2> QED BY <1>3, <1>8, <1>10, <2>1, <2>2, <2>3 DEF TypeOK
  <1>12. Fresh'
    <2>1. \A e \in Events \ offered : e \notin kept
      BY <1>1, <1>2 DEF Pending
    <2> QED BY <1>3, <2>1 DEF IInv, Fresh
  <1>13. AttemptBudget'
    <2>1. ASSUME NEW e \in Events
          PROVE  /\ uploads'[e] <= MaxRetries + 1
                 /\ e \in Elements(items') => uploads'[e] = attempts'[e]
                 /\ e \in Elements(batch') => uploads'[e] = attempts'[e] + 1
      <3>1. /\ uploads[e] <= MaxRetries + 1
            /\ e \in Elements(items) => uploads[e] = attempts[e]
            /\ e \in Elements(batch) => uploads[e] = attempts[e] + 1
        BY DEF IInv, AttemptBudget
      <3>2. CASE e \in kept
        BY <1>1, <1>3, <1>6, <3>1, <3>2
      <3>3. CASE e \notin kept
        BY <1>3, <1>5, <1>6, <3>1, <3>3
      <3> QED BY <3>2, <3>3
    <2> QED BY <2>1 DEF AttemptBudget
  <1>14. NoLostWakeup'
    BY <1>3 DEF NoLostWakeup
  <1>15. ShutIsFinal'
    <2>1. SUFFICES ASSUME closed' PROVE items' = <<>> /\ ~timer'
      BY DEF ShutIsFinal
    <2>2. items = <<>> /\ ~timer /\ kept = {}
      BY <1>1, <1>3, <2>1 DEF IInv, ShutIsFinal
    <2>3. items' = <<>>
      BY <1>5, <2>2, EmptyLine, LineLength
    <2> QED BY <1>3, <2>2, <2>3
  <1> QED BY <1>8, <1>11, <1>12, <1>13, <1>14, <1>15 DEF IInv

\* The end of shutdown drops what is still buffered.
LEMMA DrainEndsKeeps ==
    ASSUME IInv, NEW late \in BOOLEAN, DrainEnds(late)
    PROVE  IInv'
  <1>1. /\ stopping /\ closed' = TRUE /\ items' = <<>> /\ timer' = FALSE
        /\ bytes' = bytes - Size(Elements(items)) /\ dropped' = dropped + Len(items)
        /\ UNCHANGED <<batch, uploading, attempts, backoff, expired, stopping, sent, offered,
                       uploads>>
    BY DEF DrainEnds
  <1>2. /\ items \in Line /\ batch \in Line /\ Elements(items) \cap Elements(batch) = {}
        /\ Elements(items) \in SUBSET Pending
    BY DEF IInv, Lines, Pending
  <1>3. items' \in Line /\ Elements(items') = {}
    BY <1>1, EmptyLine
  <1>4. /\ Elements(batch') = Elements(batch) /\ batch' \in Line
        /\ Elements(items') \cap Elements(batch') = {}
        /\ Elements(items') \cup Elements(batch') = Pending \ Elements(items)
    BY <1>1, <1>2, <1>3 DEF Pending
  <1>5. /\ sent' \in Nat /\ dropped' \in Nat
        /\ sent' + dropped' = sent + dropped + Cardinality(Elements(items))
    <2>1. sent \in Nat /\ dropped \in Nat /\ Len(items) \in Nat
      BY DEF IInv, TypeOK
    <2>2. Len(items) = Cardinality(Elements(items))
      BY <1>2, LineLength
    <2> QED BY <1>1, <2>1, <2>2
  <1>6. /\ Lines' /\ BytesAccounted' /\ EveryEventAccounted'
        /\ bytes' \in 0..MaxBytes /\ items' \in Seq(Events) /\ batch' \in Seq(Events)
    BY <1>1, <1>2, <1>3, <1>4, <1>5, AccountsKept
  <1>7. TypeOK'
    <2>1. uploading' \in BOOLEAN /\ (uploading' <=> batch' # <<>>) /\ stopping'
      BY <1>1 DEF IInv, TypeOK
    <2>2. /\ backoff' \in BOOLEAN /\ attempts' \in [Events -> 0..MaxRetries]
          /\ uploads' \in [Events -> 0..MaxRetries + 1] /\ stopping' \in BOOLEAN
          /\ expired' \subseteq offered' /\ offered' \subseteq Events
      BY <1>1 DEF IInv, TypeOK
    <2> QED BY <1>1, <1>5, <1>6, <2>1, <2>2 DEF TypeOK
  <1>8. Fresh' /\ AttemptBudget'
    BY <1>1, <1>3 DEF IInv, Fresh, AttemptBudget, Elements
  <1>9. NoLostWakeup' /\ ShutIsFinal'
    BY <1>1 DEF NoLostWakeup, ShutIsFinal
  <1> QED BY <1>6, <1>7, <1>8, <1>9 DEF IInv

-----------------------------------------------------------------------------
(***************************************************************************)
(* The induction.                                                          *)
(***************************************************************************)
\* Every step keeps the inductive invariant.
LEMMA IInvNext == IInv /\ [Next]_vars => IInv'
  <1> SUFFICES ASSUME IInv, [Next]_vars PROVE IInv'
    OBVIOUS
  <1>1. ASSUME NEW e \in Events, Enqueue(e) PROVE IInv'
    <2>1. CASE dropped' = dropped + 1 /\ UNCHANGED <<items, bytes, timer>>
      BY <1>1, <2>1, RefusalKeeps
    <2>2. CASE /\ ~stopping /\ Fits(e) /\ items' = Append(items, e)
               /\ bytes' = bytes + BytesOf[e] /\ Schedule(~uploading) /\ UNCHANGED dropped
      BY <1>1, <2>2, BufferingKeeps
    <2> QED BY <1>1, <2>1, <2>2 DEF Enqueue
  <1>2. ASSUME NEW e \in Events, Expire(e) PROVE IInv'
    <2>1. expired' \in SUBSET offered
      BY <1>2 DEF Expire, IInv, Lines, TypeOK, Pending
    <2> QED BY <1>2, <2>1, QuietKeeps
         DEF Expire, shutVars, IInv, TypeOK, NoLostWakeup, ShutIsFinal
  <1>3. ASSUME NEW due \in BOOLEAN, FlushWith(due) PROVE IInv'
    BY <1>3, FlushKeeps
  <1>4. CASE TimerFires
    <2>1. CASE FlushWith(FALSE)
      BY <1>3, <2>1
    <2>2. CASE /\ uploading \/ closed \/ items = <<>>
               /\ timer' = FALSE
               /\ UNCHANGED <<queueVars, backoff, expired, shutVars, statVars, offered, uploads>>
      <3>1. items # <<>> /\ ~uploading => stopping'
        BY <2>2 DEF IInv, TypeOK, shutVars
      <3> QED BY <2>2, <3>1, QuietKeeps DEF IInv, TypeOK, shutVars
    <2> QED BY <1>4, <2>1, <2>2 DEF TimerFires
  <1>5. CASE Flush \/ DrainFlush
    BY <1>3, <1>5 DEF Flush, DrainFlush, IInv, TypeOK
  <1>6. CASE BackoffElapses
    BY <1>6, QuietKeeps DEF BackoffElapses, shutVars, IInv, TypeOK, NoLostWakeup, ShutIsFinal
  <1>7. ASSUME NEW S \in SUBSET Elements(batch) 
        PROVE  /\ Cardinality(Elements(batch) \ S) = Cardinality(Elements(batch)) - Cardinality(S)
               /\ Cardinality(Elements(batch)) \in Nat /\ Cardinality(S) \in Nat
               /\ Cardinality(Elements(batch) \ S) \in Nat
               /\ sent \in Nat /\ dropped \in Nat
    <2>1. Elements(batch) \in SUBSET Events
      BY LineLength DEF IInv, Lines
    <2> QED BY <2>1, CountDifference DEF IInv, TypeOK
  <1>8. CASE UploadAccepted
    <2>1. PICK rejected \in SUBSET Elements(batch) :
             /\ sent' = sent + Cardinality(Elements(batch) \ rejected)
             /\ dropped' = dropped + Cardinality(rejected)
      BY <1>8 DEF UploadAccepted
    <2>2. Cardinality(Elements(batch) \ {}) = Cardinality(Elements(batch))
      <3>1. Elements(batch) \ {} = Elements(batch)
        OBVIOUS
      <3> QED BY <3>1
    <2>3. /\ sent' \in Nat /\ dropped' \in Nat
          /\ sent' + dropped' = sent + dropped + Cardinality(Elements(batch) \ {})
      BY <1>7, <2>1, <2>2
    <2> QED BY <1>8, <2>3, EndUploadKeeps DEF UploadAccepted
  <1>9. CASE UploadRefused
    <2>1. Cardinality(Elements(batch) \ {}) = Cardinality(Elements(batch))
      <3>1. Elements(batch) \ {} = Elements(batch)
        OBVIOUS
      <3> QED BY <3>1
    <2>2. Len(batch) = Cardinality(Elements(batch))
      BY LineLength DEF IInv, Lines
    <2>3. /\ sent' \in Nat /\ dropped' \in Nat
          /\ sent' + dropped' = sent + dropped + Cardinality(Elements(batch) \ {})
      <3>1. dropped' = dropped + Cardinality(Elements(batch)) /\ sent' = sent
        BY <1>9, <2>2 DEF UploadRefused
      <3>2. /\ Cardinality(Elements(batch)) \in Nat /\ sent \in Nat /\ dropped \in Nat
        BY <1>7
      <3> QED BY <2>1, <3>1, <3>2
    <2> QED BY <1>9, <2>3, EndUploadKeeps DEF UploadRefused
  <1>10. CASE UploadFailed
    <2>1. PICK kept \in SUBSET Retryable :
             /\ dropped' = dropped + Cardinality(Elements(batch) \ kept)
             /\ EndUpload(kept)
      BY <1>10 DEF UploadFailed
    <2>2. kept \in SUBSET Elements(batch)
      BY DEF Retryable
    <2>3. /\ sent' \in Nat /\ dropped' \in Nat
          /\ sent' + dropped' = sent + dropped + Cardinality(Elements(batch) \ kept)
      BY <1>7, <1>10, <2>1, <2>2 DEF UploadFailed
    <2> QED BY <1>10, <2>1, <2>3, EndUploadKeeps DEF UploadFailed
  <1>11. CASE Shutdown
    BY <1>11, QuietKeeps DEF Shutdown, IInv, TypeOK
  <1>12. CASE DrainEnds(TRUE) \/ DrainEnds(FALSE)
    BY <1>12, DrainEndsKeeps
  <1>13. CASE UNCHANGED vars
    <2>1. /\ UNCHANGED <<queueVars, statVars, offered, uploads>>
          /\ UNCHANGED <<timer, backoff, expired, stopping, closed>>
      BY <1>13 DEF vars, clockVars, shutVars
    <2>2. /\ timer \in BOOLEAN /\ backoff \in BOOLEAN /\ stopping \in BOOLEAN
          /\ expired \in SUBSET offered
      BY DEF IInv, TypeOK
    <2>3. (items # <<>> /\ ~uploading => timer \/ stopping) /\ (closed => ~timer)
      BY DEF IInv, NoLostWakeup, ShutIsFinal
    <2> QED BY <2>1, <2>2, <2>3, QuietKeeps
  <1> QED BY <1>1, <1>2, <1>4, <1>5, <1>6, <1>8, <1>9, <1>10, <1>11, <1>12, <1>13
       DEF Next, Finished

\* The inductive invariant holds in every reachable state.
LEMMA IInvAlways == Spec => []IInv
  BY IInvInit, IInvNext, PTL DEF Spec

\* Type correctness: an upload runs exactly while it has a batch, and the byte count
\* never leaves its range, so that `bytes - size` in flushBatch() cannot go negative.
THEOREM TypesHold == Spec => []TypeOK
  <1>1. IInv => TypeOK
    BY DEF IInv
  <1> QED BY <1>1, IInvAlways, PTL

\* The byte count that enqueue() compares with the cap is that of the buffered and the
\* in-flight events together, whatever expires, is sent, retained or dropped meanwhile.
THEOREM BytesStayAccounted == Spec => []BytesAccounted
  <1>1. IInv => BytesAccounted
    BY DEF IInv
  <1> QED BY <1>1, IInvAlways, PTL

\* Every event offered to enqueue() is buffered, in flight, or counted exactly once as
\* sent or as dropped.
THEOREM NoEventLost == Spec => []EveryEventAccounted
  <1>1. IInv => EveryEventAccounted
    BY DEF IInv
  <1> QED BY <1>1, IInvAlways, PTL

\* An event is uploaded at most once more than it may be retried.
THEOREM AttemptsBounded == Spec => []AttemptBudget
  <1>1. IInv => AttemptBudget
    BY DEF IInv
  <1> QED BY <1>1, IInvAlways, PTL

\* schedule() declines to set the timer during an upload, and no wake-up is lost by it.
THEOREM WakeupsKept == Spec => []NoLostWakeup
  <1>1. IInv => NoLostWakeup
    BY DEF IInv
  <1> QED BY <1>1, IInvAlways, PTL

\* After shutdown() has dropped the buffer, the end of the aborted upload neither
\* refills it nor sets the timer again.
THEOREM ShutdownIsFinal == Spec => []ShutIsFinal
  <1>1. IInv => ShutIsFinal
    BY DEF IInv
  <1> QED BY <1>1, IInvAlways, PTL
=============================================================================
