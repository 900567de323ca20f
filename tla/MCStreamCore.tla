---------------------------- MODULE MCStreamCore ----------------------------
(* StreamCore with upstreams that send at most MaxLines lines before they     *)
(* finish, fail or hang.                                                      *)
EXTENDS StreamCore, TLC

CONSTANTS c1, c2
=============================================================================
