------------------------- MODULE SubsequencesProofs -------------------------
(***************************************************************************)
(* What PickAt returns, for every sequence and every set of positions.     *)
(***************************************************************************)
EXTENDS Subsequences, FiniteSetTheorems, TLAPS

\* A position has fewer picked positions before it than a later one.
LEMMA PrecedingMonotonic ==
    ASSUME NEW n \in Nat, NEW P \in SUBSET (1..n), NEW i \in P, NEW j \in P, i < j
    PROVE  Preceding(P, i) < Preceding(P, j)
  <1> DEFINE A == {k \in P : k < i}
             B == {k \in P : k < j}
  <1>1. IsFiniteSet(B)
    <2>1. IsFiniteSet(1..n)
      BY FS_Interval
    <2>2. B \in SUBSET (1..n)
      OBVIOUS
    <2> QED BY <2>1, <2>2, FS_Subset
  <1>2. A \in SUBSET B /\ A # B
    <2>1. i \in B /\ i \notin A
      OBVIOUS
    <2>2. \A k \in A : k \in B
      OBVIOUS
    <2> QED BY <2>1, <2>2
  <1> HIDE DEF A, B
  <1>3. Cardinality(A) <= Cardinality(B) /\ Cardinality(A) # Cardinality(B)
    BY <1>1, <1>2, FS_Subset
  <1>4. Cardinality(A) \in Nat /\ Cardinality(B) \in Nat
    BY <1>1, <1>2, FS_Subset, FS_CardinalityType
  <1> QED BY <1>3, <1>4 DEF Preceding, A, B

\* The positions of P, counted from 0 in increasing order, are 0..Cardinality(P) - 1.
LEMMA PrecedingBijective ==
    ASSUME NEW n \in Nat, NEW P \in SUBSET (1..n)
    PROVE  /\ Cardinality(P) \in Nat
           /\ \A i \in P : Preceding(P, i) \in 0..(Cardinality(P) - 1)
           /\ \A m \in 0..(Cardinality(P) - 1) : \E i \in P : Preceding(P, i) = m
  <1> DEFINE C == Cardinality(P)
             rank == [i \in P |-> Preceding(P, i)]
  <1>1. IsFiniteSet(P) /\ C \in Nat
    <2>1. IsFiniteSet(1..n)
      BY FS_Interval
    <2> QED BY <2>1, FS_Subset, FS_CardinalityType
  <1>2. ASSUME NEW i \in P PROVE Preceding(P, i) \in 0..(C - 1)
    <2> DEFINE A == {k \in P : k < i}
    <2>1. A \in SUBSET P /\ A # P
      <3>1. i \notin A
        OBVIOUS
      <3> QED BY <3>1
    <2> HIDE DEF A
    <2>2. Cardinality(A) <= C /\ Cardinality(A) # C /\ Cardinality(A) \in Nat
      BY <1>1, <2>1, FS_Subset, FS_CardinalityType
    <2> QED BY <1>1, <2>2 DEF Preceding, A
  <1>3. rank \in Injection(P, 0..(C - 1))
    <2>1. rank \in [P -> 0..(C - 1)]
      BY <1>2
    <2>2. ASSUME NEW i \in P, NEW j \in P, rank[i] = rank[j] PROVE i = j
      <3>1. i < j => Preceding(P, i) < Preceding(P, j)
        BY PrecedingMonotonic
      <3>2. j < i => Preceding(P, j) < Preceding(P, i)
        BY PrecedingMonotonic
      <3>3. Preceding(P, i) = Preceding(P, j) /\ Preceding(P, i) \in Nat
        BY <1>2, <2>2
      <3> QED BY <3>1, <3>2, <3>3
    <2> QED BY <2>1, <2>2 DEF Injection, IsInjective
  <1>4. IsFiniteSet(0..(C - 1)) /\ Cardinality(0..(C - 1)) = C
    <2>1. /\ IsFiniteSet(0..(C - 1))
          /\ Cardinality(0..(C - 1)) = IF 0 > C - 1 THEN 0 ELSE (C - 1) - 0 + 1
      BY <1>1, FS_Interval
    <2> QED BY <1>1, <2>1
  <1> HIDE DEF C, rank
  <1>5. rank \in Surjection(P, 0..(C - 1))
    BY <1>3, <1>4, FS_Injection DEF C
  <1>6. \A m \in 0..(C - 1) : \E i \in P : rank[i] = m
    BY <1>5 DEF Surjection
  <1> QED BY <1>1, <1>2, <1>6 DEF C, rank

\* `at` tells which position of s each element of PickAt(s, P) comes from: the positions
\* P, each once and in order.
Picks(s, P, at) ==
    /\ at \in [1..Cardinality(P) -> P]
    /\ \A m \in 1..Cardinality(P) : PickAt(s, P)[m] = s[at[m]]
    /\ \A l, m \in 1..Cardinality(P) : l < m => at[l] < at[m]
    /\ \A i \in P : \E m \in 1..Cardinality(P) : at[m] = i

\* PickAt takes the elements at the positions P, each once and in order.
LEMMA PickAtPositions ==
    ASSUME NEW S, NEW s \in Seq(S), NEW P \in SUBSET (1..Len(s))
    PROVE  /\ PickAt(s, P) \in Seq(S)
           /\ Len(PickAt(s, P)) = Cardinality(P)
           /\ Cardinality(P) \in Nat
           /\ \E at : Picks(s, P, at)
  <1> DEFINE C == Cardinality(P)
             picked(m) == CHOOSE i \in P : Preceding(P, i) = m - 1
             at == [m \in 1..C |-> picked(m)]
  <1>0. Len(s) \in Nat /\ P \subseteq Int
    OBVIOUS
  <1>1. /\ C \in Nat
        /\ \A i \in P : Preceding(P, i) \in 0..(C - 1)
        /\ \A m \in 0..(C - 1) : \E i \in P : Preceding(P, i) = m
    BY <1>0, PrecedingBijective
  <1>2. ASSUME NEW m \in 1..C
        PROVE  picked(m) \in P /\ Preceding(P, picked(m)) = m - 1
    <2>1. m - 1 \in 0..(C - 1)
      BY <1>1
    <2>2. \E i \in P : Preceding(P, i) = m - 1
      BY <1>1, <2>1
    <2> QED BY <2>2
  <1>3. PickAt(s, P) = [m \in 1..C |-> s[picked(m)]]
    BY DEF PickAt
  <1> HIDE DEF C, picked
  <1>4. at \in [1..C -> P] /\ \A m \in 1..C : PickAt(s, P)[m] = s[at[m]]
    BY <1>2, <1>3
  <1>5. PickAt(s, P) \in [1..C -> S]
    <2>1. \A i \in P : s[i] \in S
      OBVIOUS
    <2> QED BY <1>2, <1>3, <2>1
  <1>6. PickAt(s, P) \in Seq(S) /\ Len(PickAt(s, P)) = C
    BY <1>1, <1>5
  <1>7. ASSUME NEW l \in 1..C, NEW m \in 1..C, l < m PROVE at[l] < at[m]
    <2>1. /\ at[l] \in P /\ at[m] \in P
          /\ Preceding(P, at[l]) = l - 1 /\ Preceding(P, at[m]) = m - 1
      BY <1>2
    <2>2. at[l] \in Int /\ at[m] \in Int
      BY <1>0, <2>1
    <2> HIDE DEF at
    <2>3. at[m] < at[l] => Preceding(P, at[m]) < Preceding(P, at[l])
      BY <1>0, <2>1, PrecedingMonotonic
    <2>4. at[l] # at[m] /\ ~(at[m] < at[l])
      BY <1>1, <1>7, <2>1, <2>3
    <2> QED BY <2>2, <2>4
  <1>8. ASSUME NEW i \in P PROVE \E m \in 1..C : at[m] = i
    <2>1. Preceding(P, i) + 1 \in 1..C /\ i \in Int
      BY <1>1
    <2>2. PICK m \in 1..C : m = Preceding(P, i) + 1
      BY <2>1
    <2>3. at[m] \in P /\ Preceding(P, at[m]) = Preceding(P, i)
      BY <1>1, <1>2, <2>2
    <2>4. at[m] \in Int
      BY <1>0, <2>3
    <2> HIDE DEF at
    <2>5. i < at[m] => Preceding(P, i) < Preceding(P, at[m])
      BY <1>0, <2>3, PrecedingMonotonic
    <2>6. at[m] < i => Preceding(P, at[m]) < Preceding(P, i)
      BY <1>0, <2>3, PrecedingMonotonic
    <2>7. Preceding(P, i) \in Int
      BY <1>1
    <2> QED BY <2>1, <2>3, <2>4, <2>5, <2>6, <2>7
  <1>9. Picks(s, P, at)
    BY <1>4, <1>7, <1>8 DEF Picks, C
  <1> QED BY <1>1, <1>6, <1>9 DEF C
=============================================================================
