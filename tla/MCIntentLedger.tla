--------------------------- MODULE MCIntentLedger ---------------------------
(* Constants for the runs of the intent ledger: two threads of one process   *)
(* that share a ledger object, and a process of its own, each with an agent. *)
EXTENDS IntentLedgerProperties, TLC

CONSTANTS w1, w2, w3, k1, k2

Threads == {w1, w2, w3}
Processes == {k1, k2}
SharedAndAlone == w1 :> k1 @@ w2 :> k1 @@ w3 :> k2
OwnAgents == w1 :> "a" @@ w2 :> "b" @@ w3 :> "c"

\* Every worker in a process of its own.
CONSTANT k3
ThreeProcesses == {k1, k2, k3}
AllAlone == w1 :> k1 @@ w2 :> k2 @@ w3 :> k3
=============================================================================
