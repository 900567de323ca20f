---------------------------- MODULE MCUsageQueue ----------------------------
(* Three events of one credential fill the byte cap and overfill a batch;    *)
(* e2, of another credential, is refused or splits the queue in two batches. *)
EXTENDS UsageQueue, TLC

CONSTANTS e1, e2, e3, e4, tokenA, tokenB

MCTokenOf == [e \in Events |-> IF e = e2 THEN tokenB ELSE tokenA]
MCBytesOf == [e \in Events |-> IF e = e3 THEN 2 ELSE 1]
=============================================================================
