---------------------------- MODULE Subsequences ----------------------------
(***************************************************************************)
(* Subsequences picked by position.  What the source writes with           *)
(* Array.prototype.filter and what SelectSeq computes by recursion is      *)
(* stated here without one, so that it can be reasoned about: the n-th     *)
(* element picked is the one with n - 1 picked elements before it.         *)
(***************************************************************************)
EXTENDS Integers, Sequences, FiniteSets

\* The number of positions of P before i.
Preceding(P, i) == Cardinality({j \in P : j < i})

\* The subsequence of s at the positions P.
PickAt(s, P) ==
    [n \in 1..Cardinality(P) |-> s[CHOOSE i \in P : Preceding(P, i) = n - 1]]
=============================================================================
