---------------------------- MODULE MCKeyLease ----------------------------
(* KeyLease on two sessions (two requests share the first, the third uses the *)
(* second, so that a cache of one entry evicts) or on one.                    *)
EXTENDS KeyLease, TLC

CONSTANTS k1, k2, r1, r2, r3, a1, a2, a3, none, t1

MCKeyOf == r1 :> k1 @@ r2 :> k1 @@ r3 :> k2
MCKeyOfOne == r1 :> k1 @@ r2 :> k1

\* The code compares accounts and never orders them.
AccountSymmetry == Permutations(Accounts)
=============================================================================
