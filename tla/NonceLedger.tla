---------------------------- MODULE NonceLedger ----------------------------
(***************************************************************************)
(* The approval nonce ledger of src/nonce_ledger.py: clients (threads or   *)
(* processes) that record human approvals and consume them, each call on a *)
(* connection of its own, over one SQLite database.                        *)
(*                                                                         *)
(* A call reads the wall clock first and only then asks for SQLite's write *)
(* lock (BEGIN IMMEDIATE), so the reading may be old when it is used.  The *)
(* statements of a transaction are separate steps; what it wrote is in     *)
(* `draft' until it commits, and a crash of the client drops it.           *)
(*                                                                         *)
(* SQLite is external: one writer at a time, a bounded wait for the lock,  *)
(* rollback when a client dies, and, with WAL and synchronous = NORMAL,    *)
(* commits that a power loss may take back in the reverse of their order.  *)
(***************************************************************************)
EXTENDS Integers

CONSTANTS Clients,     \* threads and processes that use the ledger
          Nonces,      \* nonces, fresh or chosen by the caller (custom_nonce)
          Grants,      \* what a human approved: approval, payload, scope, ttl
          Calls,       \* what a caller presents: approval, payload, scope
          MaxClock,    \* bound: the clock reads 0..MaxClock seconds
          MaxLosses,   \* bound: power losses of the host
          Nobody,      \* no client holds the write lock
          NoRow        \* no such row

Times == 0..MaxClock
Never == -1            \* consumed_at IS NULL

Row == [grant: Grants, created: Times, consumed: Times \cup {Never},
        status: {"PENDING", "CONSUMED", "EXPIRED"}]

ASSUME LedgerAssumption ==
    /\ MaxClock \in Nat
    /\ MaxLosses \in Nat
    /\ Nobody \notin Clients
    /\ NoRow \notin Row
    /\ \A g \in Grants : g.ttl \in Int

VARIABLES ledger,      \* the committed table: a row or NoRow for each nonce
          stable,      \* the part of the commits that has reached the disk
          draft,       \* the row each client has written and not yet committed
          writer,      \* the client that holds the write lock, or Nobody
          clock,       \* the wall clock, time.time()
          pc,          \* where each client is in its call
          req,         \* the nonce and the grant or call each client works on
          now,         \* the clock reading each client took at the start
          row,         \* the row each client's SELECT returned
          spends,      \* how many consumptions of each nonce were committed
          losses       \* power losses so far

vars == <<ledger, stable, writer, clock, pc, req, now, row, draft, spends, losses>>
locals == <<req, now, row, draft>>
others == <<stable, clock, spends, losses>>

Waiting == {"wait_record", "wait_consume"}
InTxn == {"insert", "select", "check", "commit"}

NoRequest == [nonce |-> NoRow, ask |-> NoRow]

Init == /\ ledger = [n \in Nonces |-> NoRow]
        /\ stable = [n \in Nonces |-> NoRow]
        /\ writer = Nobody
        /\ clock = 0
        /\ pc = [c \in Clients |-> "idle"]
        /\ req = [c \in Clients |-> NoRequest]
        /\ now = [c \in Clients |-> 0]
        /\ row = [c \in Clients |-> NoRow]
        /\ draft = [c \in Clients |-> NoRow]
        /\ spends = [n \in Nonces |-> 0]
        /\ losses = 0

-----------------------------------------------------------------------------
Goto(c, label) == pc' = [pc EXCEPT ![c] = label]

\* The call is over, by return, exception or death, and its locals are gone.
Leave(c) == /\ Goto(c, "idle")
            /\ req' = [req EXCEPT ![c] = NoRequest]
            /\ now' = [now EXCEPT ![c] = 0]
            /\ row' = [row EXCEPT ![c] = NoRow]
            /\ draft' = [draft EXCEPT ![c] = NoRow]

\* A call begins by reading the clock: created_at, or now.
Call(c, label, n, ask) ==
    /\ pc[c] = "idle"
    /\ Goto(c, label)
    /\ req' = [req EXCEPT ![c] = [nonce |-> n, ask |-> ask]]
    /\ now' = [now EXCEPT ![c] = clock]
    /\ UNCHANGED <<ledger, writer, row, draft, others>>

RecordApproval(c) == \E n \in Nonces, g \in Grants : Call(c, "wait_record", n, g)

ConsumeNonce(c) == \E n \in Nonces, k \in Calls : Call(c, "wait_consume", n, k)

\* Mutant: a plain BEGIN, which takes no lock before the SELECT.
BeginDeferred(c) ==
    /\ pc[c] \in Waiting
    /\ writer' = c
    /\ Goto(c, IF pc[c] = "wait_record" THEN "insert" ELSE "select")
    /\ UNCHANGED <<ledger, locals, others>>

\* BEGIN IMMEDIATE.
Begin(c) ==
    /\ pc[c] \in Waiting
    /\ writer = Nobody
    /\ writer' = c
    /\ Goto(c, IF pc[c] = "wait_record" THEN "insert" ELSE "select")
    /\ UNCHANGED <<ledger, locals, others>>

\* Mutant: a connection that waits for the lock without a timeout.
WaitForever(c) == c \notin Clients

\* The lock was not free within timeout=30.0: "database is locked".
LockTimeout(c) ==
    /\ pc[c] \in Waiting
    /\ writer # Nobody
    /\ Leave(c)
    /\ UNCHANGED <<ledger, writer, others>>

\* Mutant: the exception escapes with the transaction still open.
RollbackForgotten(c) ==
    /\ Leave(c)
    /\ UNCHANGED <<ledger, writer, others>>

\* An exception inside `with conn': the transaction is rolled back.
Rollback(c) ==
    /\ Leave(c)
    /\ writer' = Nobody
    /\ UNCHANGED <<ledger, others>>

Write(c, r) ==
    /\ draft' = [draft EXCEPT ![c] = r]
    /\ Goto(c, "commit")
    /\ UNCHANGED <<ledger, writer, req, now, row, others>>

Approved(c) == [grant |-> req[c].ask, created |-> now[c], consumed |-> Never,
                status |-> "PENDING"]

\* Mutant: INSERT OR REPLACE.
InsertOrReplace(c) ==
    /\ pc[c] = "insert"
    /\ Write(c, Approved(c))

Insert(c) ==
    /\ pc[c] = "insert"
    /\ ledger[req[c].nonce] = NoRow
    /\ Write(c, Approved(c))

\* PRIMARY KEY (nonce): IntegrityError, whatever the old row's status.
InsertFails(c) ==
    /\ pc[c] = "insert"
    /\ ledger[req[c].nonce] # NoRow
    /\ Rollback(c)

\* Mutant: SELECT ... WHERE nonce = ?
LookupByNonce(n, approval) == ledger[n]

\* SELECT ... WHERE nonce = ? AND approval_id = ?
Lookup(n, approval) ==
    IF ledger[n] # NoRow /\ ledger[n].grant.approval = approval
    THEN ledger[n] ELSE NoRow

Select(c) ==
    /\ pc[c] = "select"
    /\ row' = [row EXCEPT ![c] = Lookup(req[c].nonce, req[c].ask.approval)]
    /\ Goto(c, "check")
    /\ UNCHANGED <<ledger, writer, req, now, draft, others>>

\* Mutant: the window is checked before the status.
VerdictWindowFirst(r, k, t) ==
    IF r = NoRow THEN "replay"
    ELSE IF t - r.created > r.grant.ttl THEN "expired"
    ELSE IF r.status # "PENDING" THEN "replay"
    ELSE IF r.grant.scope # k.scope THEN "scope"
    ELSE IF r.grant.payload # k.payload THEN "tamper"
    ELSE "authorised"

\* Mutant: the payload hash is not compared.
VerdictUnbound(r, k, t) ==
    IF r = NoRow \/ r.status # "PENDING" THEN "replay"
    ELSE IF t - r.created > r.grant.ttl THEN "expired"
    ELSE IF r.grant.scope # k.scope THEN "scope"
    ELSE "authorised"

\* The checks of consume_nonce in their order, on the row the SELECT returned.
Verdict(r, k, t) ==
    IF r = NoRow \/ r.status # "PENDING" THEN "replay"
    ELSE IF t - r.created > r.grant.ttl THEN "expired"
    ELSE IF r.grant.scope # k.scope THEN "scope"
    ELSE IF r.grant.payload # k.payload THEN "tamper"
    ELSE "authorised"

VerdictOf(c) == Verdict(row[c], req[c].ask, now[c])

\* UPDATE ... WHERE status = 'PENDING' matched no row: rowcount is not 1.
RaceLost(c) == VerdictOf(c) = "authorised" /\ ledger[req[c].nonce].status # "PENDING"

\* ReplayAttackViolation, ScopeViolation and PayloadTamperViolation.
Reject(c) ==
    /\ pc[c] = "check"
    /\ VerdictOf(c) \notin {"expired", "authorised"} \/ RaceLost(c)
    /\ Rollback(c)

\* The expiry is written and committed before ApprovalExpiredViolation is raised.
Expire(c) ==
    /\ pc[c] = "check"
    /\ VerdictOf(c) = "expired"
    /\ Write(c, [ledger[req[c].nonce] EXCEPT !.status = "EXPIRED"])

Consume(c) ==
    /\ pc[c] = "check"
    /\ VerdictOf(c) = "authorised"
    /\ ~RaceLost(c)
    /\ Write(c, [ledger[req[c].nonce] EXCEPT !.status = "CONSUMED", !.consumed = now[c]])

Commit(c) ==
    /\ pc[c] = "commit"
    /\ ledger' = [ledger EXCEPT ![req[c].nonce] = draft[c]]
    /\ spends' = IF draft[c].status = "CONSUMED"
                 THEN [spends EXCEPT ![req[c].nonce] = @ + 1] ELSE spends
    /\ writer' = Nobody
    /\ Leave(c)
    /\ UNCHANGED <<stable, clock, losses>>

-----------------------------------------------------------------------------
\* The client dies; SQLite drops its lock and what it had not committed.
Crash(c) ==
    /\ pc[c] # "idle"
    /\ Leave(c)
    /\ writer' = IF writer = c THEN Nobody ELSE writer
    /\ UNCHANGED <<ledger, others>>

\* A checkpoint or the operating system writes the log out.
Sync ==
    /\ stable # ledger
    /\ stable' = ledger
    /\ UNCHANGED <<ledger, writer, clock, pc, locals, spends, losses>>

\* The host stops; commits that had not reached the disk are gone.
PowerLoss ==
    /\ losses < MaxLosses
    /\ losses' = losses + 1
    /\ ledger' = stable
    /\ pc' = [c \in Clients |-> "idle"]
    /\ req' = [c \in Clients |-> NoRequest]
    /\ now' = [c \in Clients |-> 0]
    /\ row' = [c \in Clients |-> NoRow]
    /\ draft' = [c \in Clients |-> NoRow]
    /\ writer' = Nobody
    /\ UNCHANGED <<stable, clock, spends>>

\* time.time() is the wall clock: it advances, and it may be set back.
ClockMoves ==
    /\ clock' \in Times \ {clock}
    /\ UNCHANGED <<ledger, stable, writer, pc, locals, spends, losses>>

\* The steps of a call once it has begun.
Step(c) ==
    \/ Begin(c) \/ LockTimeout(c)
    \/ Insert(c) \/ InsertFails(c)
    \/ Select(c) \/ Reject(c) \/ Expire(c) \/ Consume(c)
    \/ Commit(c)

Next ==
    \/ \E c \in Clients : RecordApproval(c) \/ ConsumeNonce(c) \/ Step(c) \/ Crash(c)
    \/ Sync \/ PowerLoss \/ ClockMoves

Spec == Init /\ [][Next]_vars

\* A call that has begun keeps running; nothing says when calls begin, clients
\* die, the clock moves or the log reaches the disk.
FairSpec == Spec /\ \A c \in Clients : WF_vars(Step(c))
=============================================================================
