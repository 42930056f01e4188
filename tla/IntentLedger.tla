---------------------------- MODULE IntentLedger ----------------------------
(***************************************************************************)
(* The intent ledger of src/intent_ledger.py: an agent declares what it is *)
(* about to touch, is refused while another agent's intent on the same     *)
(* target is PENDING, and resolves its intent when it knows the outcome.   *)
(*                                                                         *)
(* One ledger object holds ONE connection and ONE cursor (the code passes  *)
(* check_same_thread=False), which all threads that share the object use;  *)
(* another process has an object, a connection and a cursor of its own.    *)
(* Every execute, fetchone and commit is a step.                           *)
(*                                                                         *)
(* SQLite and the sqlite3 module are external: the module opens a deferred *)
(* transaction before an INSERT or UPDATE and none before a SELECT; the    *)
(* transaction STAYS open when that statement fails for the lock; the next *)
(* SELECT in it fixes the snapshot that all later reads of the connection  *)
(* see until a commit; and a write from a snapshot that is no longer       *)
(* current fails at once.                                                  *)
(***************************************************************************)
EXTENDS Naturals, FiniteSetsExt

CONSTANTS Workers,       \* threads that declare and resolve intents
          Conns,         \* ledger objects, one for each process
          ConnOf,        \* ConnOf[w]: the ledger object worker w uses
          AgentOf,       \* AgentOf[w]: the agent_id worker w declares under
          Targets,       \* target_api values
          Finals,        \* the statuses resolve_intent is called with
          MaxDeclares,   \* bound: calls of declare_intent
          NoIntent,      \* no such row
          NoView         \* the connection has no snapshot

Ids == 1..MaxDeclares    \* intent ids, in the order of the rows
Agents == {AgentOf[w] : w \in Workers}
Intent == [agent: Agents, target: Targets, status: {"PENDING"} \cup Finals]
Table == [Ids -> Intent \cup {NoIntent}]

ASSUME IntentAssumption ==
    /\ MaxDeclares \in Nat
    /\ Targets # {}
    /\ ConnOf \in [Workers -> Conns]
    /\ "PENDING" \notin Finals
    /\ NoIntent \notin Intent
    /\ NoView \notin Table

VARIABLES intents,    \* the committed table
          mode,       \* each connection's transaction: none, begun, reading, writing
          view,       \* what a connection in a transaction with a snapshot sees
          cursor,     \* rows the connection's last SELECT has not handed out yet,
                      \* which it does in their order
          at,         \* where each worker is in its call
          target,     \* the target each worker declares
          mine,       \* the id each worker generated, 0 if none
          basis,      \* history: ids committed and PENDING on the target when the
                      \* worker's SELECT ran, which may have read an older snapshot
          joined,     \* history: basis of each inserted intent
          orphans,    \* history: ids whose worker left without resolving them
          declared    \* calls of declare_intent so far

connvars == <<mode, view, cursor>>
callvars == <<target, mine, basis>>
ledgervars == <<intents, mode, view, cursor, at, target, mine, basis, joined, orphans,
                declared>>

InitLedger ==
    /\ intents = [i \in Ids |-> NoIntent]
    /\ mode = [k \in Conns |-> "none"]
    /\ view = [k \in Conns |-> NoView]
    /\ cursor = [k \in Conns |-> {}]
    /\ at = [w \in Workers |-> "idle"]
    /\ target = [w \in Workers |-> CHOOSE t \in Targets : TRUE]
    /\ mine = [w \in Workers |-> 0]
    /\ basis = [w \in Workers |-> {}]
    /\ joined = [i \in Ids |-> {}]
    /\ orphans = {}
    /\ declared = 0

-----------------------------------------------------------------------------
Goto(w, label) == at' = [at EXCEPT ![w] = label]

\* The table a statement on connection k reads.
Visible(k) == IF view[k] = NoView THEN intents ELSE view[k]

PendingOn(db, t) ==
    {i \in Ids : db[i] # NoIntent /\ db[i].target = t /\ db[i].status = "PENDING"}

OtherWriter(k) == \E j \in Conns \ {k} : mode[j] = "writing"

\* The write lock is free or already held by k, and k's snapshot is current.
CanWrite(k) ==
    \/ mode[k] = "writing"
    \/ ~OtherWriter(k) /\ Visible(k) = intents

\* An INSERT or UPDATE that leaves the connection seeing db.
Writes(k, db) ==
    /\ CanWrite(k)
    /\ mode' = [mode EXCEPT ![k] = "writing"]
    /\ view' = [view EXCEPT ![k] = db]
    /\ cursor' = [cursor EXCEPT ![k] = {}]

\* "database is locked", after 30 s or at once; the BEGIN before it stands.
WriteFails(k) ==
    /\ ~CanWrite(k)
    /\ mode' = [mode EXCEPT ![k] = IF @ = "none" THEN "begun" ELSE @]
    /\ cursor' = [cursor EXCEPT ![k] = {}]
    /\ UNCHANGED view

\* conn.commit(): whatever the connection has written, by whichever thread.
Commits(k) ==
    /\ intents' = IF mode[k] = "writing" THEN view[k] ELSE intents
    /\ mode' = [mode EXCEPT ![k] = "none"]
    /\ view' = [view EXCEPT ![k] = NoView]
    /\ UNCHANGED cursor

\* Mutant: the id outlives the call it was generated in.
ForgetsButId(w) ==
    /\ target' = [target EXCEPT ![w] = CHOOSE t \in Targets : TRUE]
    /\ basis' = [basis EXCEPT ![w] = {}]
    /\ UNCHANGED mine

\* The call is over and its locals are gone.
Forgets(w) ==
    /\ target' = [target EXCEPT ![w] = CHOOSE t \in Targets : TRUE]
    /\ mine' = [mine EXCEPT ![w] = 0]
    /\ basis' = [basis EXCEPT ![w] = {}]

-----------------------------------------------------------------------------
(* declare_intent *)

Declare(w, t) ==
    /\ at[w] = "idle"
    /\ declared < MaxDeclares
    /\ declared' = declared + 1
    /\ target' = [target EXCEPT ![w] = t]
    /\ Goto(w, "select")
    /\ UNCHANGED <<intents, connvars, mine, basis, joined, orphans>>

Select(w) ==
    LET k == ConnOf[w]
        found == PendingOn(Visible(k), target[w])
    IN
    /\ at[w] = "select"
    /\ cursor' = [cursor EXCEPT ![k] = found]
    /\ mode' = [mode EXCEPT ![k] = IF @ = "begun" THEN "reading" ELSE @]
    /\ view' = [view EXCEPT ![k] = IF mode[k] = "begun" THEN intents ELSE @]
    /\ basis' = [basis EXCEPT ![w] = PendingOn(intents, target[w])]
    /\ Goto(w, "fetch")
    /\ UNCHANGED <<intents, target, mine, joined, orphans, declared>>

\* Mutant: the SELECT hands out the newest row first.
TakenByNewest(w) ==
    LET rows == cursor[ConnOf[w]] IN
    rows # {} /\ Visible(ConnOf[w])[Max(rows)].agent # AgentOf[w]

\* fetchone() on the shared cursor: the first row that is left, if any, is
\* another agent's.
Taken(w) ==
    LET rows == cursor[ConnOf[w]] IN
    rows # {} /\ Visible(ConnOf[w])[Min(rows)].agent # AgentOf[w]

Fetched(w) ==
    cursor' = [cursor EXCEPT ![ConnOf[w]] = {i \in @ : i # Min(@)}]

\* IntentCollisionError.
Collide(w) ==
    /\ at[w] = "fetch"
    /\ Taken(w)
    /\ Fetched(w)
    /\ Goto(w, "idle")
    /\ Forgets(w)
    /\ UNCHANGED <<intents, mode, view, joined, orphans, declared>>

Pass(w) ==
    /\ at[w] = "fetch"
    /\ ~Taken(w)
    /\ Fetched(w)
    /\ Goto(w, "insert")
    /\ UNCHANGED <<intents, mode, view, callvars, joined, orphans, declared>>

\* Mutant: INSERT OR REPLACE under an id made of the agent and the target.
InsertUnderOldId(w) ==
    LET k == ConnOf[w]
        db == Visible(k)
        old == {i \in Ids : db[i] # NoIntent /\ db[i].agent = AgentOf[w]
                                             /\ db[i].target = target[w]}
        id == Min(IF old # {} THEN old ELSE {i \in Ids : db[i] = NoIntent})
    IN
    /\ at[w] = "insert"
    /\ Writes(k, [db EXCEPT ![id] = [agent |-> AgentOf[w], target |-> target[w],
                                     status |-> "PENDING"]])
    /\ mine' = [mine EXCEPT ![w] = id]
    /\ joined' = [joined EXCEPT ![id] = basis[w]]
    /\ Goto(w, "commit")
    /\ UNCHANGED <<intents, target, basis, orphans, declared>>

Insert(w) ==
    LET k == ConnOf[w]
        db == Visible(k)
        id == Min({i \in Ids : db[i] = NoIntent})
    IN
    /\ at[w] = "insert"
    /\ Writes(k, [db EXCEPT ![id] = [agent |-> AgentOf[w], target |-> target[w],
                                     status |-> "PENDING"]])
    /\ mine' = [mine EXCEPT ![w] = id]
    /\ joined' = [joined EXCEPT ![id] = basis[w]]
    /\ Goto(w, "commit")
    /\ UNCHANGED <<intents, target, basis, orphans, declared>>

\* Mutant: the failed INSERT is retried until it succeeds.
InsertRetried(w) ==
    /\ at[w] = "insert"
    /\ WriteFails(ConnOf[w])
    /\ UNCHANGED <<intents, at, callvars, joined, orphans, declared>>

InsertFails(w) ==
    /\ at[w] = "insert"
    /\ WriteFails(ConnOf[w])
    /\ Goto(w, "idle")
    /\ Forgets(w)
    /\ UNCHANGED <<intents, joined, orphans, declared>>

\* Mutant: declare_intent returns without the commit.
ReturnUncommitted(w) ==
    /\ at[w] = "commit"
    /\ Goto(w, "held")
    /\ UNCHANGED <<intents, connvars, callvars, joined, orphans, declared>>

CommitDeclare(w) ==
    /\ at[w] = "commit"
    /\ Commits(ConnOf[w])
    /\ Goto(w, "held")
    /\ UNCHANGED <<callvars, joined, orphans, declared>>

-----------------------------------------------------------------------------
(* resolve_intent *)

Resolve(w, final) ==
    /\ at[w] = "held"
    /\ Writes(ConnOf[w], [Visible(ConnOf[w]) EXCEPT ![mine[w]].status = final])
    /\ Goto(w, "resolve")
    /\ UNCHANGED <<intents, callvars, joined, orphans, declared>>

\* The exception leaves the intent PENDING and nobody to resolve it.
Abandon(w) ==
    /\ Goto(w, "idle")
    /\ Forgets(w)
    /\ orphans' = orphans \cup ({mine[w]} \ {0})

ResolveFails(w) ==
    /\ at[w] = "held"
    /\ WriteFails(ConnOf[w])
    /\ Abandon(w)
    /\ UNCHANGED <<intents, joined, declared>>

\* Mutant: resolve_intent returns without the commit.
ResolveUncommitted(w) ==
    /\ at[w] = "resolve"
    /\ Goto(w, "idle")
    /\ Forgets(w)
    /\ UNCHANGED <<intents, connvars, joined, orphans, declared>>

CommitResolve(w) ==
    /\ at[w] = "resolve"
    /\ Commits(ConnOf[w])
    /\ Goto(w, "idle")
    /\ Forgets(w)
    /\ UNCHANGED <<joined, orphans, declared>>

-----------------------------------------------------------------------------
\* Two threads inside the cursor at once: ProgrammingError in the second.
UsesCursor(w) == at[w] \in {"select", "fetch", "insert", "held"}

CursorBusy(w) ==
    /\ UsesCursor(w)
    /\ \E v \in Workers \ {w} : ConnOf[v] = ConnOf[w] /\ UsesCursor(v)
    /\ Abandon(w)
    /\ UNCHANGED <<intents, connvars, joined, declared>>

\* The process dies with every thread in it; what it had not committed is gone.
Crash(k) ==
    LET dead == {w \in Workers : ConnOf[w] = k} IN
    /\ \E w \in dead : at[w] # "idle"
    /\ at' = [w \in Workers |-> IF w \in dead THEN "idle" ELSE at[w]]
    /\ target' = [w \in Workers |->
                      IF w \in dead THEN CHOOSE t \in Targets : TRUE ELSE target[w]]
    /\ mine' = [w \in Workers |-> IF w \in dead THEN 0 ELSE mine[w]]
    /\ basis' = [w \in Workers |-> IF w \in dead THEN {} ELSE basis[w]]
    /\ orphans' = orphans \cup {i \in {mine[w] : w \in dead} \ {0} : intents[i] # NoIntent}
    /\ mode' = [mode EXCEPT ![k] = "none"]
    /\ view' = [view EXCEPT ![k] = NoView]
    /\ cursor' = [cursor EXCEPT ![k] = {}]
    /\ UNCHANGED <<intents, joined, declared>>

\* The steps of a call once it has begun.
LedgerStep(w) ==
    \/ Select(w) \/ Collide(w) \/ Pass(w)
    \/ Insert(w) \/ InsertFails(w) \/ CommitDeclare(w)
    \/ CommitResolve(w)

NextLedger ==
    \/ \E w \in Workers :
          \/ \E t \in Targets : Declare(w, t)
          \/ \E f \in Finals : Resolve(w, f)
          \/ ResolveFails(w) \/ CursorBusy(w) \/ LedgerStep(w)
    \/ \E k \in Conns : Crash(k)

Spec == InitLedger /\ [][NextLedger]_ledgervars

\* A call that has begun keeps running.  Nothing makes an agent declare, finish
\* what it does under its intent, or resolve it.
FairSpec == Spec /\ \A w \in Workers : WF_ledgervars(LedgerStep(w))
=============================================================================
