----------------------------- MODULE MCServices -----------------------------
(***************************************************************************)
(* The services around the streams, which share no state: the quota board, *)
(* the model catalog, the login, the conversion of a transcript and the    *)
(* quota command.  A behaviour is one of one service (`part`); the others  *)
(* stand still, so the states of the run are the sum of theirs.            *)
(***************************************************************************)
EXTENDS QuotaBoard, Catalog, Login, Conversation, QuotaFetch, TLC

CONSTANTS
    a1, a2, a3, k1, k2, k3, r1, r2, s1,      \* quota board
    h1, h2,                                  \* catalog
    plain, member, broken,                   \* login
    lost                                     \* conversation

\* A handler that updates an account while another one removes or leases it.
MCKindsOf ==
    r1 :> {"refreshAll", "refresh", "usage", "create", "telemetry", "lease"}
        @@ r2 :> {"delete", "lease", "rotate"}

MCNewIdOf == r1 :> a3

\* Two accounts, the second exhausted or not, and a lease of an earlier run or none.
Database(room, leases) ==
    [accounts  |-> a1 :> [key |-> k1, healthy |-> TRUE] @@ a2 :> [key |-> k2, healthy |-> TRUE],
     snapshots |-> a1 :> <<1>> @@ a2 :> <<room>>,
     leases    |-> leases,
     telemetry |-> <<>>]

OldLease == [session |-> s1, account |-> a1, active |-> TRUE]
MCInitialFiles == {Database(0, <<>>), Database(1, <<OldLease>>)}

\* Hosts share the cache file only: one of them has commands that join a refresh.
MCMaxCommands == h1 :> 1 @@ h2 :> 0

VARIABLE part

vars == <<part, boardVars, catalogVars, loginVars, transcript, quotaVars>>

Init ==
    /\ part \in {"board", "catalog", "login", "conversation", "quota"}
    /\ BoardInit /\ CatalogInit /\ LoginInit /\ ConversationInit /\ QuotaInit
    /\ part = "board" \/ file = Database(0, <<>>)
    /\ part = "catalog" \/ cache = Missing

Next ==
    /\ UNCHANGED part
    /\ \/ /\ part = "board" /\ BoardNext
          /\ UNCHANGED <<catalogVars, loginVars, transcript, quotaVars>>
       \/ /\ part = "catalog" /\ CatalogNext
          /\ UNCHANGED <<boardVars, loginVars, transcript, quotaVars>>
       \/ /\ part = "login" /\ LoginNext
          /\ UNCHANGED <<boardVars, catalogVars, transcript, quotaVars>>
       \/ /\ part = "conversation" /\ ConversationNext
          /\ UNCHANGED <<boardVars, catalogVars, loginVars, quotaVars>>
       \/ /\ part = "quota" /\ QuotaNext
          /\ UNCHANGED <<boardVars, catalogVars, loginVars, transcript>>

Spec == Init /\ [][Next]_vars /\ BoardFairness /\ CatalogFairness
=============================================================================
