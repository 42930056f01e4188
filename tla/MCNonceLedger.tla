--------------------------- MODULE MCNonceLedger ---------------------------
(* Constants for the runs of the nonce ledger: two clients, one nonce.       *)
EXTENDS NonceLedgerProperties

\* Two approvals that may be recorded under the nonce; both lapse after the
\* second they were recorded in.
TwoGrants == {[approval |-> "a1", payload |-> "p1", scope |-> "s1", ttl |-> 0],
              [approval |-> "a2", payload |-> "p2", scope |-> "s1", ttl |-> 0]}

\* The approved call of the first, and the same call with another payload or in
\* another scope.  None of them names the second approval.
ThreeCalls == {[approval |-> "a1", payload |-> "p1", scope |-> "s1"],
               [approval |-> "a1", payload |-> "p2", scope |-> "s1"],
               [approval |-> "a1", payload |-> "p1", scope |-> "s2"]}
=============================================================================
