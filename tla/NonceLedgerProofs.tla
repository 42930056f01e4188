------------------------- MODULE NonceLedgerProofs -------------------------
(***************************************************************************)
(* Proofs about the approval nonce ledger, for every set of clients,       *)
(* nonces, grants and calls and every bound on the clock and the losses.   *)
(***************************************************************************)
EXTENDS NonceLedgerProperties, TLAPS

USE DEF Times, Never, Waiting, InTxn

(* Ending a pending row, as the two UPDATEs of consume_nonce do, gives a row *)
(* with the same grant.                                                      *)
LEMMA EndedRow ==
    ASSUME NEW r \in Row, NEW t \in Times
    PROVE  LET e == [r EXCEPT !.status = "EXPIRED"]
               u == [r EXCEPT !.status = "CONSUMED", !.consumed = t]
           IN  /\ e \in Row /\ e.status = "EXPIRED"
               /\ e.grant = r.grant /\ e.created = r.created
               /\ u \in Row /\ u.status = "CONSUMED"
               /\ u.grant = r.grant /\ u.created = r.created
    BY DEF Row

(* A call that gets past the status check works on the committed row of its *)
(* nonce, which is pending and carries the approval it presents.            *)
LEMMA CheckedRow ==
    ASSUME TypeOK, RequestInv, RowInv, NEW c \in Clients, pc[c] = "check",
           VerdictOf(c) \in {"expired", "authorised"}
    PROVE  /\ req[c].nonce \in Nonces
           /\ row[c] = ledger[req[c].nonce]
           /\ ledger[req[c].nonce] \in Row
           /\ ledger[req[c].nonce] # NoRow
           /\ ledger[req[c].nonce].status = "PENDING"
           /\ ledger[req[c].nonce].grant.approval = req[c].ask.approval
<1>1. req[c].nonce \in Nonces
    BY DEF RequestInv
<1>2. row[c] = Lookup(req[c].nonce, req[c].ask.approval)
    BY DEF RowInv
<1>3. row[c] # NoRow /\ row[c].status = "PENDING"
    BY DEF VerdictOf, Verdict
<1>4. /\ row[c] = ledger[req[c].nonce]
      /\ ledger[req[c].nonce].grant.approval = req[c].ask.approval
    BY <1>2, <1>3 DEF Lookup
<1>5. ledger[req[c].nonce] \in Row
    BY <1>1, <1>3, <1>4 DEF TypeOK
<1> QED
    BY <1>1, <1>3, <1>4, <1>5

LEMMA TypeStep ==
    ASSUME TypeOK, RequestInv, RowInv, DraftInv, [Next]_vars PROVE TypeOK'
<1> USE LedgerAssumption
<1>1. ASSUME NEW c \in Clients, RecordApproval(c) PROVE TypeOK'
    BY <1>1 DEF TypeOK, Request, RecordApproval, Call, Goto, others
<1>2. ASSUME NEW c \in Clients, ConsumeNonce(c) PROVE TypeOK'
    BY <1>2 DEF TypeOK, Request, ConsumeNonce, Call, Goto, others
<1>3. ASSUME NEW c \in Clients, Begin(c) PROVE TypeOK'
    BY <1>3 DEF TypeOK, Begin, Goto, locals, others
<1>4. ASSUME NEW c \in Clients, LockTimeout(c) PROVE TypeOK'
    BY <1>4 DEF TypeOK, LockTimeout, Leave, Goto, others, Request
<1>5. ASSUME NEW c \in Clients, Insert(c) PROVE TypeOK'
  <2>1. Approved(c) \in Row
    BY <1>5 DEF TypeOK, RequestInv, Insert, Approved, Row
  <2> QED
    BY <1>5, <2>1 DEF TypeOK, Insert, Write, Goto, others
<1>6. ASSUME NEW c \in Clients, InsertFails(c) PROVE TypeOK'
    BY <1>6 DEF TypeOK, InsertFails, Rollback, Leave, Goto, others, Request
<1>7. ASSUME NEW c \in Clients, Select(c) PROVE TypeOK'
    BY <1>7 DEF TypeOK, Select, Lookup, Goto, others, RequestInv
<1>8. ASSUME NEW c \in Clients, Reject(c) PROVE TypeOK'
    BY <1>8 DEF TypeOK, Reject, Rollback, Leave, Goto, others, Request
<1>9. ASSUME NEW c \in Clients, Expire(c) PROVE TypeOK'
  <2>1. [ledger[req[c].nonce] EXCEPT !.status = "EXPIRED"] \in Row
    BY <1>9, CheckedRow, EndedRow DEF Expire, TypeOK
  <2> QED
    BY <1>9, <2>1 DEF TypeOK, Expire, Write, Goto, others
<1>10. ASSUME NEW c \in Clients, Consume(c) PROVE TypeOK'
  <2>1. [ledger[req[c].nonce] EXCEPT !.status = "CONSUMED", !.consumed = now[c]] \in Row
    BY <1>10, CheckedRow, EndedRow DEF Consume, TypeOK
  <2> QED
    BY <1>10, <2>1 DEF TypeOK, Consume, Write, Goto, others
<1>11. ASSUME NEW c \in Clients, Commit(c) PROVE TypeOK'
    BY <1>11 DEF TypeOK, Commit, Leave, Goto, Request, DraftInv, RequestInv
<1>12. ASSUME NEW c \in Clients, Crash(c) PROVE TypeOK'
    BY <1>12 DEF TypeOK, Crash, Leave, Goto, others, Request
<1>13. ASSUME Sync PROVE TypeOK'
    BY <1>13 DEF TypeOK, Sync, locals
<1>14. ASSUME PowerLoss PROVE TypeOK'
    BY <1>14 DEF TypeOK, PowerLoss, Request
<1>15. ASSUME ClockMoves PROVE TypeOK'
    BY <1>15 DEF TypeOK, ClockMoves, locals
<1>16. CASE UNCHANGED vars
    BY <1>16 DEF TypeOK, vars
<1> QED
    BY <1>1, <1>2, <1>3, <1>4, <1>5, <1>6, <1>7, <1>8, <1>9, <1>10, <1>11, <1>12,
       <1>13, <1>14, <1>15, <1>16 DEF Next, Step

LEMMA LockStep ==
    ASSUME TypeOK, LockInv, [Next]_vars PROVE LockInv'
<1> USE LedgerAssumption DEF TypeOK, LockInv
<1>1. ASSUME NEW c \in Clients, RecordApproval(c) \/ ConsumeNonce(c) PROVE LockInv'
    BY <1>1 DEF RecordApproval, ConsumeNonce, Call, Goto
<1>2. ASSUME NEW c \in Clients, Begin(c) PROVE LockInv'
    BY <1>2 DEF Begin, Goto
<1>3. ASSUME NEW c \in Clients, LockTimeout(c) PROVE LockInv'
    BY <1>3 DEF LockTimeout, Leave, Goto
<1>4. ASSUME NEW c \in Clients, Insert(c) \/ Expire(c) \/ Consume(c) PROVE LockInv'
    BY <1>4 DEF Insert, Expire, Consume, Write, Goto
<1>5. ASSUME NEW c \in Clients, InsertFails(c) \/ Reject(c) PROVE LockInv'
    BY <1>5 DEF InsertFails, Reject, Rollback, Leave, Goto
<1>6. ASSUME NEW c \in Clients, Select(c) PROVE LockInv'
    BY <1>6 DEF Select, Goto
<1>7. ASSUME NEW c \in Clients, Commit(c) PROVE LockInv'
    BY <1>7 DEF Commit, Leave, Goto
<1>8. ASSUME NEW c \in Clients, Crash(c) PROVE LockInv'
    BY <1>8 DEF Crash, Leave, Goto
<1>9. ASSUME Sync \/ ClockMoves \/ UNCHANGED vars PROVE LockInv'
    BY <1>9 DEF Sync, ClockMoves, vars
<1>10. ASSUME PowerLoss PROVE LockInv'
    BY <1>10 DEF PowerLoss
<1> QED
    BY <1>1, <1>2, <1>3, <1>4, <1>5, <1>6, <1>7, <1>8, <1>9, <1>10 DEF Next, Step

LEMMA RequestStep ==
    ASSUME TypeOK, RequestInv, [Next]_vars PROVE RequestInv'
<1> USE DEF TypeOK, RequestInv
<1>1. ASSUME NEW c \in Clients, RecordApproval(c) \/ ConsumeNonce(c) PROVE RequestInv'
    BY <1>1 DEF RecordApproval, ConsumeNonce, Call, Goto
<1>2. ASSUME NEW c \in Clients, Begin(c) PROVE RequestInv'
    BY <1>2 DEF Begin, Goto, locals
<1>3. ASSUME NEW c \in Clients,
             LockTimeout(c) \/ InsertFails(c) \/ Reject(c) \/ Commit(c) \/ Crash(c)
      PROVE RequestInv'
    BY <1>3 DEF LockTimeout, InsertFails, Reject, Rollback, Commit, Crash, Leave, Goto
<1>4. ASSUME NEW c \in Clients, Insert(c) \/ Expire(c) \/ Consume(c) PROVE RequestInv'
    BY <1>4 DEF Insert, Expire, Consume, Write, Goto
<1>5. ASSUME NEW c \in Clients, Select(c) PROVE RequestInv'
    BY <1>5 DEF Select, Goto
<1>6. ASSUME Sync \/ ClockMoves \/ UNCHANGED vars PROVE RequestInv'
    BY <1>6 DEF Sync, ClockMoves, locals, vars
<1>7. ASSUME PowerLoss PROVE RequestInv'
    BY <1>7 DEF PowerLoss
<1> QED
    BY <1>1, <1>2, <1>3, <1>4, <1>5, <1>6, <1>7 DEF Next, Step

(* While a client is in a transaction, no other client's step commits. *)
LEMMA RowStep ==
    ASSUME TypeOK, LockInv, RequestInv, RowInv, [Next]_vars PROVE RowInv'
<1> USE LedgerAssumption DEF TypeOK, RowInv, Lookup
<1>1. ASSUME NEW c \in Clients, RecordApproval(c) \/ ConsumeNonce(c) PROVE RowInv'
    BY <1>1 DEF RecordApproval, ConsumeNonce, Call, Goto
<1>2. ASSUME NEW c \in Clients, Begin(c) PROVE RowInv'
    BY <1>2 DEF Begin, Goto, locals
<1>3. ASSUME NEW c \in Clients,
             LockTimeout(c) \/ InsertFails(c) \/ Reject(c) \/ Crash(c)
      PROVE RowInv'
    BY <1>3 DEF LockTimeout, InsertFails, Reject, Rollback, Crash, Leave, Goto
<1>4. ASSUME NEW c \in Clients, Insert(c) \/ Expire(c) \/ Consume(c) PROVE RowInv'
    BY <1>4 DEF Insert, Expire, Consume, Write, Goto
<1>5. ASSUME NEW c \in Clients, Select(c) PROVE RowInv'
    BY <1>5 DEF Select, Goto
<1>6. ASSUME NEW c \in Clients, Commit(c) PROVE RowInv'
  <2>1. \A d \in Clients : pc'[d] # "check"
    BY <1>6 DEF Commit, Leave, Goto, LockInv
  <2> QED
    BY <2>1
<1>7. ASSUME Sync \/ ClockMoves \/ UNCHANGED vars PROVE RowInv'
    BY <1>7 DEF Sync, ClockMoves, locals, vars
<1>8. ASSUME PowerLoss PROVE RowInv'
    BY <1>8 DEF PowerLoss
<1> QED
    BY <1>1, <1>2, <1>3, <1>4, <1>5, <1>6, <1>7, <1>8 DEF Next, Step

LEMMA DraftStep ==
    ASSUME TypeOK, LockInv, RequestInv, RowInv, DraftInv, [Next]_vars PROVE DraftInv'
<1> USE LedgerAssumption
<1>1. ASSUME NEW c \in Clients, RecordApproval(c) \/ ConsumeNonce(c) PROVE DraftInv'
    BY <1>1 DEF TypeOK, DraftInv, RecordApproval, ConsumeNonce, Call, Goto
<1>2. ASSUME NEW c \in Clients, Begin(c) PROVE DraftInv'
    BY <1>2 DEF TypeOK, DraftInv, Begin, Goto, locals
<1>3. ASSUME NEW c \in Clients,
             LockTimeout(c) \/ InsertFails(c) \/ Reject(c) \/ Crash(c)
      PROVE DraftInv'
    BY <1>3 DEF TypeOK, DraftInv, LockTimeout, InsertFails, Reject, Rollback, Crash, Leave,
                Goto
<1>4. ASSUME NEW c \in Clients, Insert(c) PROVE DraftInv'
  <2>1. Approved(c) \in Row /\ Approved(c).status = "PENDING"
    BY <1>4 DEF TypeOK, RequestInv, Insert, Approved, Row
  <2> QED
    BY <1>4, <2>1 DEF TypeOK, DraftInv, Insert, Write, Goto
<1>5. ASSUME NEW c \in Clients, Expire(c) PROVE DraftInv'
  <2> DEFINE old == ledger[req[c].nonce]
             new == [old EXCEPT !.status = "EXPIRED"]
  <2>1. old \in Row /\ old # NoRow /\ old.status = "PENDING"
    BY <1>5, CheckedRow DEF Expire
  <2>2. new \in Row /\ new.status = "EXPIRED" /\ new.grant = old.grant
        /\ new.created = old.created
    BY <2>1 DEF Row
  <2>3. /\ pc' = [pc EXCEPT ![c] = "commit"] /\ draft' = [draft EXCEPT ![c] = new]
        /\ UNCHANGED <<ledger, req, now>>
    BY <1>5 DEF Expire, Write, Goto
  <2>4. draft'[c] = new /\ pc'[c] = "commit"
        /\ \A d \in Clients \ {c} : draft'[d] = draft[d] /\ pc'[d] = pc[d]
    BY <2>3 DEF TypeOK
  <2> HIDE DEF new
  <2> QED
    BY <2>1, <2>2, <2>3, <2>4 DEF TypeOK, DraftInv
<1>6. ASSUME NEW c \in Clients, Consume(c) PROVE DraftInv'
  <2> DEFINE old == ledger[req[c].nonce]
             new == [old EXCEPT !.status = "CONSUMED", !.consumed = now[c]]
  <2>1. /\ old \in Row /\ old # NoRow /\ old.status = "PENDING" /\ row[c] = old
        /\ old.grant.approval = req[c].ask.approval
    BY <1>6, CheckedRow DEF Consume
  <2>2. new \in Row /\ new.status = "CONSUMED" /\ new.grant = old.grant
        /\ new.created = old.created
    <3>1. now[c] \in Times
      BY DEF TypeOK
    <3> QED
      BY <2>1, <3>1 DEF Row
  <2>3. Presents(req[c].ask, old.grant) /\ now[c] - old.created <= old.grant.ttl
    <3>1. old.grant.ttl \in Int /\ old.created \in Int /\ now[c] \in Int
      BY <2>1 DEF TypeOK, Row
    <3> QED
      BY <1>6, <2>1, <3>1 DEF Consume, VerdictOf, Verdict, Presents
  <2>4. /\ pc' = [pc EXCEPT ![c] = "commit"] /\ draft' = [draft EXCEPT ![c] = new]
        /\ UNCHANGED <<ledger, req, now>>
    BY <1>6 DEF Consume, Write, Goto
  <2>5. draft'[c] = new /\ pc'[c] = "commit"
        /\ \A d \in Clients \ {c} : draft'[d] = draft[d] /\ pc'[d] = pc[d]
    BY <2>4 DEF TypeOK
  <2> HIDE DEF new
  <2> QED
    BY <2>1, <2>2, <2>3, <2>4, <2>5 DEF TypeOK, DraftInv
<1>7. ASSUME NEW c \in Clients, Select(c) PROVE DraftInv'
    BY <1>7 DEF TypeOK, DraftInv, Select, Goto
<1>8. ASSUME NEW c \in Clients, Commit(c) PROVE DraftInv'
  <2>1. \A d \in Clients : pc'[d] # "commit"
    BY <1>8 DEF TypeOK, Commit, Leave, Goto, LockInv
  <2> QED
    BY <2>1 DEF DraftInv
<1>9. ASSUME Sync \/ ClockMoves \/ UNCHANGED vars PROVE DraftInv'
    BY <1>9 DEF DraftInv, Sync, ClockMoves, locals, vars
<1>10. ASSUME PowerLoss PROVE DraftInv'
    BY <1>10 DEF DraftInv, PowerLoss
<1> QED
    BY <1>1, <1>2, <1>3, <1>4, <1>5, <1>6, <1>7, <1>8, <1>9, <1>10 DEF Next, Step

(* A commit moves its nonce forward; every other nonce stays. *)
LEMMA CommitMoves ==
    ASSUME TypeOK, RequestInv, DraftInv, NEW c \in Clients, Commit(c)
    PROVE  LET n == req[c].nonce IN
           /\ n \in Nonces
           /\ draft[c] \in Row /\ draft[c] # NoRow
           /\ ledger' = [ledger EXCEPT ![n] = draft[c]]
           /\ \/ StatusOf(ledger[n]) = "absent" /\ draft[c].status = "PENDING"
              \/ StatusOf(ledger[n]) = "PENDING" /\ draft[c].status \in {"CONSUMED", "EXPIRED"}
    BY DEF TypeOK, RequestInv, DraftInv, Commit, StatusOf

LEMMA StableStep ==
    ASSUME TypeOK, RequestInv, DraftInv, StableInv, [Next]_vars PROVE StableInv'
<1>1. ASSUME NEW c \in Clients, Commit(c) PROVE StableInv'
  <2> DEFINE n == req[c].nonce
  <2>1. /\ n \in Nonces /\ draft[c] # NoRow
        /\ ledger' = [ledger EXCEPT ![n] = draft[c]]
        /\ \/ StatusOf(ledger[n]) = "absent" /\ draft[c].status = "PENDING"
           \/ StatusOf(ledger[n]) = "PENDING" /\ draft[c].status \in {"CONSUMED", "EXPIRED"}
    BY <1>1, CommitMoves
  <2>2. stable' = stable
    BY <1>1 DEF Commit
  <2>3. StatusOf(ledger'[n]) = draft[c].status
    BY <2>1 DEF TypeOK, StatusOf
  <2>4. StatusOf(stable[n]) \in Register!Earlier(StatusOf(ledger'[n]))
    BY <2>1, <2>3 DEF StableInv, Register!Earlier
  <2> QED
    BY <2>1, <2>2, <2>4 DEF TypeOK, StableInv
<1>2. ASSUME Sync \/ PowerLoss PROVE StableInv'
  <2>1. stable' = ledger'
    BY <1>2 DEF Sync, PowerLoss
  <2>2. \A n \in Nonces : ledger'[n] \in Row \cup {NoRow}
    BY <1>2 DEF Sync, PowerLoss, TypeOK
  <2>3. \A n \in Nonces : StatusOf(ledger'[n]) \in {"absent", "PENDING", "CONSUMED", "EXPIRED"}
    BY <2>2 DEF StatusOf, Row
  <2> QED
    BY <2>1, <2>3 DEF StableInv, Register!Earlier
<1>3. ASSUME UNCHANGED <<ledger, stable>> PROVE StableInv'
    BY <1>3 DEF StableInv
<1>4. ASSUME NEW c \in Clients, RecordApproval(c) \/ ConsumeNonce(c) \/ Crash(c)
      PROVE UNCHANGED <<ledger, stable>>
    BY <1>4 DEF RecordApproval, ConsumeNonce, Call, Crash, others
<1>5. ASSUME NEW c \in Clients, Step(c), ~Commit(c) PROVE UNCHANGED <<ledger, stable>>
    BY <1>5 DEF Step, Begin, LockTimeout, Insert, InsertFails, Select, Reject, Expire,
                Consume, Rollback, Write, others
<1> QED
    BY <1>1, <1>2, <1>3, <1>4, <1>5 DEF Next, ClockMoves, vars

LEMMA SpendStep ==
    ASSUME TypeOK, RequestInv, DraftInv, StableInv, SpendInv, [Next]_vars PROVE SpendInv'
<1> USE LedgerAssumption
<1>1. ASSUME NEW c \in Clients, Commit(c) PROVE SpendInv'
  <2> DEFINE n == req[c].nonce
  <2>1. /\ n \in Nonces /\ draft[c] # NoRow
        /\ ledger' = [ledger EXCEPT ![n] = draft[c]]
        /\ \/ StatusOf(ledger[n]) = "absent" /\ draft[c].status = "PENDING"
           \/ StatusOf(ledger[n]) = "PENDING" /\ draft[c].status \in {"CONSUMED", "EXPIRED"}
    BY <1>1, CommitMoves
  <2>2. StatusOf(ledger'[n]) = draft[c].status
    BY <2>1 DEF TypeOK, StatusOf
  <2>3. spends[n] \in Nat /\ losses \in Nat /\ losses' = losses
    BY <1>1, <2>1 DEF TypeOK, Commit
  <2>4. spends'[n] <= losses' + (IF StatusOf(ledger'[n]) = "CONSUMED" THEN 1 ELSE 0)
    BY <1>1, <2>1, <2>2, <2>3 DEF TypeOK, SpendInv, Commit
  <2>5. \A m \in Nonces \ {n} : spends'[m] = spends[m] /\ ledger'[m] = ledger[m]
    BY <1>1, <2>1 DEF TypeOK, Commit
  <2> QED
    BY <2>3, <2>4, <2>5 DEF SpendInv
<1>2. ASSUME PowerLoss PROVE SpendInv'
  <2>1. \A n \in Nonces : spends[n] <= losses + 1
    BY DEF TypeOK, SpendInv
  <2> QED
    BY <1>2, <2>1 DEF PowerLoss, TypeOK, SpendInv
<1>3. ASSUME UNCHANGED <<ledger, spends, losses>> PROVE SpendInv'
    BY <1>3 DEF SpendInv
<1>4. ASSUME NEW c \in Clients, RecordApproval(c) \/ ConsumeNonce(c) \/ Crash(c)
      PROVE UNCHANGED <<ledger, spends, losses>>
    BY <1>4 DEF RecordApproval, ConsumeNonce, Call, Crash, others
<1>5. ASSUME NEW c \in Clients, Step(c), ~Commit(c)
      PROVE UNCHANGED <<ledger, spends, losses>>
    BY <1>5 DEF Step, Begin, LockTimeout, Insert, InsertFails, Select, Reject, Expire,
                Consume, Rollback, Write, others
<1> QED
    BY <1>1, <1>2, <1>3, <1>4, <1>5 DEF Next, Sync, ClockMoves, vars

-----------------------------------------------------------------------------
LEMMA LedgerInit == Init => LedgerInv
<1> SUFFICES ASSUME Init PROVE LedgerInv
    OBVIOUS
<1> USE LedgerAssumption
<1>1. TypeOK
    BY DEF Init, TypeOK, Request
<1>2. LockInv /\ RequestInv /\ RowInv /\ DraftInv
    BY DEF Init, LockInv, RequestInv, RowInv, DraftInv
<1>3. StableInv
    BY DEF Init, StableInv, StatusOf, Register!Earlier
<1>4. SpendInv
    BY DEF Init, SpendInv, StatusOf
<1> QED
    BY <1>1, <1>2, <1>3, <1>4 DEF LedgerInv

LEMMA LedgerStep == LedgerInv /\ [Next]_vars => LedgerInv'
    BY TypeStep, LockStep, RequestStep, RowStep, DraftStep, StableStep, SpendStep
       DEF LedgerInv

(* Every behaviour of the ledger keeps the inductive invariant: one client in  *)
(* a transaction, what it read still current, what it wrote an allowed step of *)
(* its nonce, and the disk never ahead of the committed table.                 *)
THEOREM LedgerInvariant == Spec => []LedgerInv
    BY LedgerInit, LedgerStep, PTL DEF Spec

(* A nonce authorises at most one execution more than there were power losses, *)
(* whatever the interleaving of consume_nonce and record_approval.             *)
THEOREM ReuseIsBounded == Spec => []BoundedReuse
<1>1. LedgerInv => BoundedReuse
    BY LedgerAssumption DEF LedgerInv, TypeOK, SpendInv, BoundedReuse
<1> QED
    BY <1>1, LedgerInvariant, PTL

(* Without a power loss an approval is single-use, as the ledger promises:     *)
(* crashes of clients and the wall clock cannot make consume_nonce return True *)
(* twice for one nonce.                                                        *)
THEOREM SingleUseWithoutLosses == ASSUME MaxLosses = 0 PROVE Spec => []SingleUse
<1>1. LedgerInv => SingleUse
    BY LedgerAssumption DEF LedgerInv, TypeOK, SpendInv, SingleUse
<1> QED
    BY <1>1, LedgerInvariant, PTL

-----------------------------------------------------------------------------
(* The steps that are not a commit or a power loss leave the table and the     *)
(* count of consumptions as they are.                                          *)
LEMMA OnlyCommitsMove ==
    ASSUME [Next]_vars, ~PowerLoss, \A c \in Clients : ~Commit(c)
    PROVE  UNCHANGED <<ledger, spends, losses>>
<1>1. ASSUME NEW c \in Clients, RecordApproval(c) \/ ConsumeNonce(c) \/ Crash(c)
      PROVE UNCHANGED <<ledger, spends, losses>>
    BY <1>1 DEF RecordApproval, ConsumeNonce, Call, Crash, others
<1>2. ASSUME NEW c \in Clients, Step(c) PROVE UNCHANGED <<ledger, spends, losses>>
    BY <1>2 DEF Step, Begin, LockTimeout, Insert, InsertFails, Select, Reject, Expire,
                Consume, Rollback, Write, others
<1> QED
    BY <1>1, <1>2 DEF Next, Sync, ClockMoves, vars

(* A consumption commits only for the call the human approved, on a row that   *)
(* is still PENDING and in its window at the call's reading of the clock.      *)
THEOREM ConsumptionIsApproved == Spec => ConsumesWhatWasApproved
<1> DEFINE Approves(n) ==
               /\ StatusOf(ledger[n]) = "PENDING"
               /\ \E c \in Clients : /\ pc[c] = "commit"
                                     /\ req[c].nonce = n
                                     /\ Presents(req[c].ask, ledger[n].grant)
                                     /\ now[c] - ledger[n].created <= ledger[n].grant.ttl
<1>1. ASSUME LedgerInv, [Next]_vars, NEW n \in Nonces, spends'[n] # spends[n]
      PROVE Approves(n)
  <2>1. PICK c \in Clients : Commit(c)
    BY <1>1, OnlyCommitsMove DEF PowerLoss
  <2>2. pc[c] = "commit" /\ draft[c].status = "CONSUMED" /\ req[c].nonce = n
    BY <1>1, <2>1 DEF Commit, LedgerInv, TypeOK
  <2>3. /\ ledger[n] # NoRow /\ ledger[n].status = "PENDING"
        /\ Presents(req[c].ask, ledger[n].grant)
        /\ now[c] - ledger[n].created <= ledger[n].grant.ttl
    BY <1>1, <2>2 DEF LedgerInv, DraftInv
  <2> QED
    BY <2>2, <2>3 DEF StatusOf
<1>2. LedgerInv /\ [Next]_vars =>
          [\A n \in Nonces : spends'[n] # spends[n] => Approves(n)]_vars
    BY <1>1
<1> QED
    BY <1>2, LedgerInvariant, PTL DEF Spec, ConsumesWhatWasApproved

(* Nothing but a power loss changes or removes what was approved under a nonce. *)
THEOREM GrantsStay == Spec => GrantsAreFinal
<1> DEFINE Stays(n) == ledger[n] # NoRow =>
                           /\ ledger'[n] # NoRow
                           /\ ledger'[n].grant = ledger[n].grant
                           /\ ledger'[n].created = ledger[n].created
<1>1. ASSUME LedgerInv, NEW c \in Clients, Commit(c), NEW n \in Nonces PROVE Stays(n)
  <2>1. ledger' = [ledger EXCEPT ![req[c].nonce] = draft[c]] /\ pc[c] = "commit"
    BY <1>1 DEF Commit
  <2>2. CASE n = req[c].nonce
    BY <1>1, <2>1, <2>2 DEF LedgerInv, TypeOK, DraftInv
  <2>3. CASE n # req[c].nonce
    BY <1>1, <2>1, <2>3 DEF LedgerInv, TypeOK
  <2> QED
    BY <2>2, <2>3
<1>2. ASSUME LedgerInv, [Next]_vars, losses' = losses, NEW n \in Nonces PROVE Stays(n)
  <2>1. ~PowerLoss
    BY <1>2, LedgerAssumption DEF PowerLoss, LedgerInv, TypeOK
  <2> QED
    BY <1>1, <1>2, <2>1, OnlyCommitsMove
<1>3. LedgerInv /\ [Next]_vars => [losses' = losses => \A n \in Nonces : Stays(n)]_vars
    BY <1>2
<1> QED
    BY <1>3, LedgerInvariant, PTL DEF Spec, GrantsAreFinal

-----------------------------------------------------------------------------
(* The refinement. *)

LEMMA RegisterInit == Init => Register!Init
    BY DEF Init, Register!Init, StatusOf

(* A commit is a Grant, a Spend or an Expire of its nonce. *)
LEMMA CommitIsRegistered ==
    ASSUME LedgerInv, NEW c \in Clients, Commit(c) PROVE Register!Next
<1> DEFINE n == req[c].nonce
           status == [m \in Nonces |-> StatusOf(ledger[m])]
<1>1. /\ n \in Nonces /\ draft[c] # NoRow
      /\ ledger' = [ledger EXCEPT ![n] = draft[c]]
      /\ \/ StatusOf(ledger[n]) = "absent" /\ draft[c].status = "PENDING"
         \/ StatusOf(ledger[n]) = "PENDING" /\ draft[c].status \in {"CONSUMED", "EXPIRED"}
    BY CommitMoves DEF LedgerInv
<1>2. status' = [status EXCEPT ![n] = draft[c].status]
    BY <1>1 DEF LedgerInv, TypeOK, StatusOf
<1>3. UNCHANGED losses
      /\ spends' = IF draft[c].status = "CONSUMED" THEN [spends EXCEPT ![n] = @ + 1]
                   ELSE spends
    BY DEF Commit
<1>4. CASE draft[c].status = "PENDING"
    BY <1>1, <1>2, <1>3, <1>4 DEF Register!Next, Register!Grant, Register!Move
<1>5. CASE draft[c].status = "CONSUMED"
    BY <1>1, <1>2, <1>3, <1>5 DEF Register!Next, Register!Spend, Register!Move
<1>6. CASE draft[c].status = "EXPIRED"
    BY <1>1, <1>2, <1>3, <1>6 DEF Register!Next, Register!Expire, Register!Move
<1> QED
    BY <1>1, <1>4, <1>5, <1>6

(* A power loss is a Forget: the disk holds an earlier state of every nonce. *)
LEMMA LossIsRegistered ==
    ASSUME LedgerInv, PowerLoss PROVE Register!Next
<1> DEFINE status == [m \in Nonces |-> StatusOf(ledger[m])]
<1>1. status' = [m \in Nonces |-> StatusOf(stable[m])]
    BY DEF PowerLoss
<1>2. status' \in [Nonces -> Register!States]
    BY <1>1 DEF LedgerInv, TypeOK, StatusOf, Row, Register!States
<1>3. \A m \in Nonces : status'[m] \in Register!Earlier(status[m])
    BY <1>1 DEF LedgerInv, StableInv
<1> QED
    BY <1>2, <1>3 DEF PowerLoss, Register!Next, Register!Forget

(* The SQLite ledger implements the abstract register: every commit is one     *)
(* grant, spend or expiry, a power loss forgets, and nothing else is visible.  *)
THEOREM LedgerImplementsRegister == Spec => ImplementsRegister
<1>1. LedgerInv /\ [Next]_vars => [Register!Next]_(Register!vars)
    BY CommitIsRegistered, LossIsRegistered, OnlyCommitsMove DEF Register!vars
<1> QED
    BY <1>1, RegisterInit, LedgerInvariant, PTL
       DEF Spec, ImplementsRegister, Register!Spec
=============================================================================
