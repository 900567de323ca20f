---------------------------- MODULE AtomicStore ----------------------------
(***************************************************************************)
(* What a data file promises to those that update it (the quota board:     *)
(* "Data writes are serialized, atomic", src/quota-board/README.md): every *)
(* change of the data is one whole update applied to the data as it was,   *)
(* each update is applied at most once, and an update that was             *)
(* acknowledged has been applied.                                          *)
(***************************************************************************)
CONSTANTS
    Effect(_, _)   \* the data an update may produce from the data it finds

VARIABLES
    data,
    stored,        \* the updates applied so far
    acknowledged   \* the updates whose caller was told of success

Init == stored = {} /\ acknowledged = {}

Apply(u) ==
    /\ u \notin stored
    /\ data' \in Effect(u, data)
    /\ stored' = stored \cup {u}

Next ==
    /\ \/ \E u \in stored' : Apply(u)
       \/ UNCHANGED <<data, stored>>
    /\ acknowledged \subseteq acknowledged'
    /\ acknowledged' \subseteq stored'

Spec == Init /\ [][Next]_<<data, stored, acknowledged>>
=============================================================================
