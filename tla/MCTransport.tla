----------------------------- MODULE MCTransport -----------------------------
(* Two streams, each of a key without Provider API access or of one with it. *)
EXTENDS Transport, TLC

CONSTANTS s1, s2, go, pro, own, none

\* A fallback takes a second attempt, a retry of it a third.
MCMaxAttempts == s1 :> 3 @@ s2 :> 2
=============================================================================
