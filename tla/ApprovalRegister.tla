-------------------------- MODULE ApprovalRegister --------------------------
(***************************************************************************)
(* What the approval nonce ledger promises, without SQLite: a human        *)
(* approval is granted once, then either spent once or expired, and both   *)
(* are final.  The one exception is a power loss of the host: the ledger   *)
(* runs WAL with synchronous = NORMAL, so a loss may take recent commits   *)
(* back, and an approval may then be found in a state it had before.       *)
(***************************************************************************)
EXTENDS Naturals

CONSTANTS Nonces,     \* the nonces approvals are issued under
          MaxLosses   \* how many power losses are considered

VARIABLES status,     \* status[n]: what the register says of nonce n
          spends,     \* spends[n]: how many executions n has authorised so far
          losses      \* power losses so far

vars == <<status, spends, losses>>

States == {"absent", "PENDING", "CONSUMED", "EXPIRED"}

\* The states an approval may have had before it reached state s, s included.
Earlier(s) == CASE s = "absent"  -> {"absent"}
                [] s = "PENDING" -> {"absent", "PENDING"}
                [] OTHER         -> {"absent", "PENDING", s}

Init == /\ status = [n \in Nonces |-> "absent"]
        /\ spends = [n \in Nonces |-> 0]
        /\ losses = 0

Move(n, from, to) == /\ status[n] = from
                     /\ status' = [status EXCEPT ![n] = to]

Grant(n) == Move(n, "absent", "PENDING") /\ UNCHANGED <<spends, losses>>

Spend(n) == /\ Move(n, "PENDING", "CONSUMED")
            /\ spends' = [spends EXCEPT ![n] = @ + 1]
            /\ UNCHANGED losses

Expire(n) == Move(n, "PENDING", "EXPIRED") /\ UNCHANGED <<spends, losses>>

\* A power loss: every approval is back in its own state or in an earlier one,
\* while the executions it authorised have left the host and stay counted.
Forget == /\ losses < MaxLosses
          /\ losses' = losses + 1
          /\ status' \in [Nonces -> States]
          /\ \A n \in Nonces : status'[n] \in Earlier(status[n])
          /\ UNCHANGED spends

Next == Forget \/ \E n \in Nonces : Grant(n) \/ Spend(n) \/ Expire(n)

Spec == Init /\ [][Next]_vars
=============================================================================
