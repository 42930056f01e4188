----------------------- MODULE NonceLedgerProperties -----------------------
(***************************************************************************)
(* What the approval nonce ledger guarantees.                              *)
(***************************************************************************)
EXTENDS NonceLedger

Request == [nonce: Nonces, ask: Grants \cup Calls] \cup {NoRequest}

\* Type correctness of the ledger, the clients' locals and the history.
TypeOK ==
    /\ ledger \in [Nonces -> Row \cup {NoRow}]
    /\ stable \in [Nonces -> Row \cup {NoRow}]
    /\ draft \in [Clients -> Row \cup {NoRow}]
    /\ writer \in Clients \cup {Nobody}
    /\ clock \in Times
    /\ pc \in [Clients -> {"idle"} \cup Waiting \cup InTxn]
    /\ req \in [Clients -> Request]
    /\ now \in [Clients -> Times]
    /\ row \in [Clients -> Row \cup {NoRow}]
    /\ spends \in [Nonces -> Nat]
    /\ losses \in 0..MaxLosses

StatusOf(r) == IF r = NoRow THEN "absent" ELSE r.status

Register == INSTANCE ApprovalRegister
                WITH status <- [n \in Nonces |-> StatusOf(ledger[n])]

\* The ledger implements the register: a nonce is granted once, spent or
\* expired once, and only a power loss takes a commit back.
ImplementsRegister == Register!Spec

\* A nonce authorises at most one execution, plus one for every power loss that
\* may have taken its consumption back.
BoundedReuse == \A n \in Nonces : spends[n] <= 1 + losses

\* Single use, as the module's title states it: "enforcing single-use human
\* authorizations".  It does not survive a power loss.
SingleUse == \A n \in Nonces : spends[n] <= 1

Presents(k, g) == k.approval = g.approval /\ k.payload = g.payload /\ k.scope = g.scope

\* A consumption commits only against the row as it is committed at that
\* moment, not as some client once read it: still PENDING, approved for exactly
\* the approval, payload and scope presented, and in its window at the reading
\* the call took.  (No replay, no changed payload, no widened scope.)
ConsumesWhatWasApproved ==
    [][\A n \in Nonces : spends'[n] # spends[n] =>
          /\ StatusOf(ledger[n]) = "PENDING"
          /\ \E c \in Clients : /\ pc[c] = "commit"
                                /\ req[c].nonce = n
                                /\ Presents(req[c].ask, ledger[n].grant)
                                /\ now[c] - ledger[n].created <= ledger[n].grant.ttl
      ]_vars

\* What was approved under a nonce never changes: recording another approval
\* under a custom nonce cannot re-arm it or replace what it authorises.
GrantsAreFinal ==
    [][losses' = losses =>
          \A n \in Nonces : ledger[n] # NoRow =>
              /\ ledger'[n] # NoRow
              /\ ledger'[n].grant = ledger[n].grant
              /\ ledger'[n].created = ledger[n].created]_vars

\* Every transaction ends: no exception of consume_nonce or record_approval
\* leaves the write lock taken, which would time out every later call.
TransactionsEnd == \A c \in Clients : (writer = c) ~> (writer # c)

\* Every call comes back, with a result or an exception, however the other
\* clients compete for the lock.
CallsReturn == \A c \in Clients : (pc[c] # "idle") ~> (pc[c] = "idle")

-----------------------------------------------------------------------------
(* The inductive invariant. *)

\* The client that holds the write lock is the one that is in a transaction.
LockInv == \A c \in Clients : writer = c <=> pc[c] \in InTxn

\* A client in a call works on a nonce; its ask is a grant or a call.
RequestInv ==
    \A c \in Clients :
        /\ pc[c] \in {"wait_record", "insert"} =>
               req[c].nonce \in Nonces /\ req[c].ask \in Grants
        /\ pc[c] \in {"wait_consume", "select", "check"} =>
               req[c].nonce \in Nonces /\ req[c].ask \in Calls
        /\ pc[c] = "commit" => req[c].nonce \in Nonces

\* What the SELECT returned is still what the table holds at the UPDATE.
RowInv ==
    \A c \in Clients :
        pc[c] = "check" => row[c] = Lookup(req[c].nonce, req[c].ask.approval)

\* What is about to be committed is a new approval under a free nonce, or the
\* end of a pending one, and a consumption is one the checks allowed.
DraftInv ==
    \A c \in Clients : pc[c] = "commit" =>
        LET old == ledger[req[c].nonce]
            new == draft[c]
        IN
        /\ new # NoRow
        /\ old = NoRow => new.status = "PENDING"
        /\ old # NoRow =>
              /\ old.status = "PENDING"
              /\ new.status \in {"CONSUMED", "EXPIRED"}
              /\ new.grant = old.grant /\ new.created = old.created
        /\ new.status = "CONSUMED" =>
              /\ Presents(req[c].ask, old.grant)
              /\ now[c] - old.created <= old.grant.ttl

\* What is on the disk is an earlier state of what is committed.
StableInv ==
    \A n \in Nonces : StatusOf(stable[n]) \in Register!Earlier(StatusOf(ledger[n]))

\* A nonce that is not consumed has been spent at most once per power loss.
SpendInv ==
    \A n \in Nonces :
        spends[n] <= losses + (IF StatusOf(ledger[n]) = "CONSUMED" THEN 1 ELSE 0)

\* The inductive invariant behind the theorems: who holds the lock, what it has
\* read and written, and how far the disk is behind.
LedgerInv ==
    TypeOK /\ LockInv /\ RequestInv /\ RowInv /\ DraftInv /\ StableInv /\ SpendInv
=============================================================================
