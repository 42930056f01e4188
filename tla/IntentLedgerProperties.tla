----------------------- MODULE IntentLedgerProperties -----------------------
(***************************************************************************)
(* What the intent ledger guarantees, and what it does not.                *)
(***************************************************************************)
EXTENDS IntentLedger, FiniteSets

\* Type correctness, and what a connection and a worker hold at each point: a
\* snapshot only inside a transaction that has read or written, one writer, and
\* an id from the INSERT until the intent is resolved or abandoned.
TypeOK ==
    /\ intents \in Table
    /\ mode \in [Conns -> {"none", "begun", "reading", "writing"}]
    /\ view \in [Conns -> Table \cup {NoView}]
    /\ cursor \in [Conns -> SUBSET Ids]
    /\ \A k \in Conns :
          /\ view[k] # NoView <=> mode[k] \in {"reading", "writing"}
          /\ mode[k] = "writing" => ~OtherWriter(k)
    /\ at \in [Workers -> {"idle", "select", "fetch", "insert", "commit", "held", "resolve"}]
    /\ target \in [Workers -> Targets]
    /\ mine \in [Workers -> {0} \cup Ids]
    /\ \A w \in Workers : mine[w] # 0 <=> at[w] \in {"commit", "held", "resolve"}
    /\ basis \in [Workers -> SUBSET Ids]
    /\ joined \in [Ids -> SUBSET Ids]
    /\ orphans \subseteq Ids
    /\ declared \in 0..MaxDeclares

\* A worker whose process runs no other thread on the ledger.
Alone(w) == \A v \in Workers \ {w} : ConnOf[v] # ConnOf[w]

\* An agent alone on its connection gets a target that another agent holds only if
\* it has held it since before that agent did.  "Holds" is what the committed table
\* says when the check runs, not what the check reads: a SELECT in a transaction that
\* a failed write left open may read a snapshot without the other's row, but no INSERT
\* gets through from there.  So of two agents on one target neither saw the other's
\* intent committed before it checked, or one had been there already.
RespectsEarlierHolders ==
    \A i, j \in Ids :
        (/\ intents[i] # NoIntent
         /\ \A w \in Workers : AgentOf[w] = intents[i].agent => Alone(w)
         /\ j \in joined[i]
         /\ intents[j].agent # intents[i].agent)
        => \E k \in joined[i] : k < j /\ intents[k].agent = intents[i].agent

\* While a worker acts under its intent, the intent is committed and PENDING,
\* where every other process sees it: whichever thread of the process committed
\* it, whatever failed in between.
HeldIsCommitted ==
    \A w \in Workers : at[w] = "held" =>
        intents[mine[w]] # NoIntent /\ intents[mine[w]].status = "PENDING"

\* A PENDING intent belongs to a worker that will still resolve it, or is one
\* that a crash or a failed resolve_intent left behind.  Nothing else leaks a
\* lock; and nothing in the module ever frees one that leaked.
NoSilentLeak ==
    \A t \in Targets : \A i \in PendingOn(intents, t) :
        i \in orphans \/ \E w \in Workers : mine[w] = i

\* A resolved intent stays resolved: no connection brings a target's lock back
\* from a snapshot or a transaction that was open when it was resolved.
ResolvedIsFinal ==
    [][\A i \in Ids : intents[i] # NoIntent /\ intents[i].status # "PENDING" =>
           intents'[i] = intents[i]]_ledgervars

\* Every call of declare_intent comes back with an id or an exception, and a
\* resolve_intent that wrote commits, however the connections compete.
CallsReturn ==
    \A w \in Workers : (at[w] \notin {"idle", "held"}) ~> (at[w] \in {"idle", "held"})

-----------------------------------------------------------------------------
(* The inductive invariant. *)

\* The table as connection k would leave it by a commit.
Newest(k) == IF mode[k] = "writing" THEN view[k] ELSE intents

Rows(db) == {i \in Ids : db[i] # NoIntent}

\* Rows are never deleted and keep their agent and target.
Grows(db, later) ==
    \A i \in Rows(db) :
        i \in Rows(later) /\ later[i].agent = db[i].agent /\ later[i].target = db[i].target

\* A call that will still insert its row finds an id that is free.
Inserting == {w \in Workers : at[w] \in {"select", "fetch", "insert"}}

CountInv ==
    /\ IsFiniteSet(Inserting)
    /\ Cardinality(Rows(intents)) + Cardinality(Inserting) <= declared
    /\ \A k \in Conns : Cardinality(Rows(Visible(k))) + Cardinality(Inserting) <= declared

\* A snapshot is an earlier state of the table.  A writer's is the latest one, but
\* for rows it added and rows its own threads have resolved.
ViewInv ==
    \A k \in Conns :
        /\ mode[k] = "reading" => Grows(view[k], intents)
        /\ mode[k] = "writing" =>
              /\ Grows(intents, view[k])
              /\ \A i \in Rows(intents) : view[k][i] # intents[i] =>
                    /\ intents[i].status = "PENDING"
                    /\ \E w \in Workers : ConnOf[w] = k /\ at[w] = "resolve" /\ mine[w] = i

Own(w) == [agent |-> AgentOf[w], target |-> target[w], status |-> "PENDING"]

\* The row of a call is its own, and stands as the call left it, whichever thread of
\* the process commits it.
HolderInv ==
    \A w \in Workers :
        /\ at[w] = "commit" => Newest(ConnOf[w])[mine[w]] = Own(w)
        /\ at[w] = "held" => intents[mine[w]] = Own(w)
        /\ at[w] = "resolve" => /\ mine[w] \in Rows(Newest(ConnOf[w]))
                               /\ Newest(ConnOf[w])[mine[w]].status # "PENDING"
        /\ \A v \in Workers \ {w} : mine[w] # 0 => mine[v] # mine[w]

Accounted(db) ==
    \A i \in Rows(db) : db[i].status = "PENDING" =>
        i \in orphans \/ \E w \in Workers : mine[w] = i

LeakInv == Accounted(intents) /\ \A k \in Conns : Accounted(Newest(k))

\* Of two states of the table, the earlier one: rows are only added, and a row that
\* changes is resolved by that.
Precedes(db, later) ==
    \A i \in Rows(db) :
        /\ i \in Rows(later)
        /\ later[i] # db[i] => db[i].status = "PENDING" /\ later[i].status # "PENDING"

SnapshotInv == \A k \in Conns : mode[k] = "reading" => Precedes(view[k], intents)

\* What stood was nothing, or the agent's own intent before the others.
Respects(db, found, agent) ==
    found = {} \/ (Min(found) \in Rows(db) /\ db[Min(found)].agent = agent)

JoinedAs(db) ==
    \A i \in Rows(db) :
        (\A w \in Workers : AgentOf[w] = db[i].agent => Alone(w)) =>
            Respects(intents, joined[i], db[i].agent)

\* A worker alone on its connection finds no uncommitted rows there.  It fetches from
\* the rows that stood when its SELECT ran, unless its snapshot is out of date.
LoneCheck(w) ==
    LET k == ConnOf[w] IN
    /\ at[w] \notin {"commit", "resolve"} => mode[k] # "writing"
    /\ at[w] = "fetch" => /\ basis[w] \subseteq Rows(intents)
                          /\ Visible(k) = intents => cursor[k] = basis[w]
    /\ at[w] = "insert" /\ Visible(k) = intents => Respects(intents, basis[w], AgentOf[w])

CheckInv ==
    /\ SnapshotInv
    /\ JoinedAs(intents) /\ \A k \in Conns : JoinedAs(Newest(k))
    /\ \A w \in Workers : Alone(w) => LoneCheck(w)

\* How the threads of a process share its connection: whose row an id is, what a
\* commit will make of it, and what each check was made against (intent_ledger.py:
\* 34-63).
IntentInv == TypeOK /\ CountInv /\ ViewInv /\ HolderInv /\ LeakInv /\ CheckInv

-----------------------------------------------------------------------------
\* The docstring of declare_intent: "with atomic collision check".  No two
\* agents hold a PENDING intent on one target.
AtMostOneHolder ==
    \A t \in Targets : \A i, j \in PendingOn(intents, t) :
        intents[i].agent = intents[j].agent

\* The comment in the test of the ledger: "Resolving agent_a's intent frees the
\* resource lock".  A check does not find an intent that is resolved already.
ResolvedIsFreed ==
    [][\A w \in Workers : Select(w) =>
          \A i \in cursor'[ConnOf[w]] : intents[i].status = "PENDING"]_ledgervars
=============================================================================
