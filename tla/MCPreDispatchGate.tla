------------------------- MODULE MCPreDispatchGate -------------------------
(* Constants for the runs of the gate: two threads of one process that share *)
(* the gate, and another process, over two approvals.                        *)
EXTENDS PreDispatchGateProperties, TLC

CONSTANTS w1, w2, w3, k1, k2, n1, n2

Threads == {w1, w2, w3}
Processes == {k1, k2}
SharedAndAlone == w1 :> k1 @@ w2 :> k1 @@ w3 :> k2

\* The threads use the gate's default agent_id, the other process its own.
DefaultAndOwn == w1 :> "default" @@ w2 :> "default" @@ w3 :> "own"

\* The statuses resolve_intent is called with.
ResolvedStatuses == {ResolvedAs(a) : a \in Answers}

TwoApprovals == {n1, n2}
=============================================================================
