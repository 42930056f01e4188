------------------------- MODULE IntentLedgerProofs -------------------------
(***************************************************************************)
(* Proofs about the intent ledger, for any workers, however they share     *)
(* ledger objects, for any agents, targets and number of declares.         *)
(***************************************************************************)
EXTENDS IntentLedgerProperties, FiniteSetTheorems, WellFoundedInduction, TLAPS

-----------------------------------------------------------------------------
(* Rows, and the least of some. *)

LEMMA MinOfRows ==
    ASSUME NEW S, S \subseteq Ids, S # {}
    PROVE  Min(S) \in S /\ \A i \in S : Min(S) <= i
<1> DEFINE R == OpToRel(<, Nat)
<1>1. \A i, j \in Nat : i < j => <<i, j>> \in R
    BY DEF OpToRel
<1>2. IsWellFoundedOn(R, Nat)
    BY NatLessThanWellFounded
<1>3. S \subseteq Nat
    BY IntentAssumption DEF Ids
<1> HIDE DEF R
<1>4. PICK i \in S : \A j \in S : <<j, i>> \notin R
    BY <1>2, <1>3, WFMin
<1>5. ASSUME NEW j \in S PROVE i <= j
  <2>1. i \in Nat /\ j \in Nat /\ <<j, i>> \notin R
      BY <1>3, <1>4
  <2>2. ~(j < i)
      BY <1>1, <2>1
  <2>. QED
      BY <2>1, <2>2
<1>. QED
    BY <1>4, <1>5 DEF Min

LEMMA RowsAreFinite ==
    ASSUME NEW db PROVE IsFiniteSet(Rows(db)) /\ Cardinality(Rows(db)) \in Nat
<1>1. IsFiniteSet(Ids)
    BY FS_Interval, IntentAssumption DEF Ids
<1>. QED
    BY <1>1, FS_Subset, FS_CardinalityType DEF Rows

\* The bound on declares leaves an id for the row of every call.
LEMMA FreeId ==
    ASSUME TypeOK, CountInv, NEW w \in Workers, w \in Inserting
    PROVE  \E i \in Ids : Visible(ConnOf[w])[i] = NoIntent
<1> DEFINE rows == Rows(Visible(ConnOf[w]))
<1>1. Cardinality(rows) + Cardinality(Inserting) <= MaxDeclares
    BY IntentAssumption, RowsAreFinite, FS_CardinalityType DEF CountInv, TypeOK
<1>2. Cardinality(Inserting) \in Nat /\ Cardinality(Inserting) # 0
    BY FS_CardinalityType, FS_EmptySet DEF CountInv
<1>3. Cardinality(rows) \in Nat
    BY RowsAreFinite
<1>4. Cardinality(Ids) = MaxDeclares
    BY FS_Interval, IntentAssumption DEF Ids
<1>5. rows # Ids
    BY <1>1, <1>2, <1>3, <1>4, IntentAssumption
<1>. QED
    BY <1>5 DEF Rows

-----------------------------------------------------------------------------
(* The steps. *)

USE IntentAssumption

\* A worker that leaves its call with an exception, with the rows as they are.
Quits(w) ==
    /\ UsesCursor(w)
    /\ Abandon(w)
    /\ UNCHANGED <<intents, connvars, joined, declared>>

\* A step of the ledger, or of a caller that lost what it holds for another reason.
AnyStep == NextLedger \/ \E w \in Workers : Quits(w)

LEMMA LedgerCases ==
    ASSUME [AnyStep]_ledgervars
    PROVE  \/ \E w \in Workers :
                 \/ \E t \in Targets : Declare(w, t)
                 \/ Select(w) \/ Collide(w) \/ Pass(w) \/ Insert(w) \/ CommitDeclare(w)
                 \/ \E f \in Finals : Resolve(w, f)
                 \/ CommitResolve(w)
                 \/ InsertFails(w) \/ ResolveFails(w)
                 \/ Quits(w)
           \/ \E k \in Conns : Crash(k)
           \/ UNCHANGED ledgervars
BY DEF AnyStep, NextLedger, LedgerStep, CursorBusy, Quits

LEMMA WritesType ==
    ASSUME TypeOK, NEW k \in Conns, NEW db \in Table, Writes(k, db)
    PROVE  /\ mode' \in [Conns -> {"none", "begun", "reading", "writing"}]
           /\ view' \in [Conns -> Table \cup {NoView}]
           /\ cursor' \in [Conns -> SUBSET Ids]
           /\ \A j \in Conns :
                 /\ view'[j] # NoView <=> mode'[j] \in {"reading", "writing"}
                 /\ mode'[j] = "writing" => ~OtherWriter(j)'
BY DEF TypeOK, Writes, CanWrite, OtherWriter

LEMMA TypeInit == InitLedger => TypeOK
BY DEF InitLedger, TypeOK, Table, OtherWriter

\* Who can write sees the newest rows, and is the only one.
LEMMA WriterSees ==
    ASSUME TypeOK, ViewInv, NEW k \in Conns, CanWrite(k)
    PROVE  /\ Visible(k) = Newest(k)
           /\ Newest(k) \in Table
           /\ Grows(intents, Newest(k))
           /\ \A j \in Conns \ {k} : mode[j] # "writing"
BY DEF TypeOK, ViewInv, CanWrite, OtherWriter, Visible, Newest, Grows, Rows

\* What a write and a commit do to what the connections would commit.
LEMMA WriteEffect ==
    ASSUME TypeOK, ViewInv, NEW k \in Conns, NEW db \in Table, Writes(k, db), intents' = intents
    PROVE  /\ Newest(k)' = db
           /\ \A j \in Conns \ {k} : /\ Newest(j) = intents /\ Newest(j)' = intents
                                     /\ mode'[j] = mode[j] /\ view'[j] = view[j]
                                     /\ cursor'[j] = cursor[j]
           /\ mode'[k] = "writing" /\ view'[k] = db /\ cursor'[k] = {}
BY WriterSees DEF TypeOK, Writes, Newest

LEMMA CommitEffect ==
    ASSUME TypeOK, NEW k \in Conns, Commits(k)
    PROVE  /\ intents' = Newest(k)
           /\ \A j \in Conns : Newest(j)' = IF mode[k] = "writing" THEN Newest(k) ELSE Newest(j)
           /\ mode'[k] = "none" /\ view'[k] = NoView
           /\ \A j \in Conns \ {k} : mode'[j] = mode[j] /\ view'[j] = view[j]
           /\ UNCHANGED cursor
BY DEF TypeOK, Commits, Newest, OtherWriter

\* A failed write leaves the rows alone.
LEMMA FailEffect ==
    ASSUME TypeOK, NEW k \in Conns, WriteFails(k), intents' = intents
    PROVE  /\ \A j \in Conns : Newest(j)' = Newest(j) /\ Visible(j)' = Visible(j)
           /\ \A j \in Conns : mode'[j] = "writing" <=> mode[j] = "writing"
           /\ \A j \in Conns : mode'[j] = "reading" <=> mode[j] = "reading"
           /\ UNCHANGED view
           /\ \A j \in Conns \ {k} : cursor'[j] = cursor[j]
BY DEF TypeOK, WriteFails, CanWrite, Newest, Visible

\* An INSERT adds a row with a free id.
LEMMA InsertEffect ==
    ASSUME TypeOK, CountInv, ViewInv, NEW w \in Workers, Insert(w)
    PROVE  \E id \in Ids :
              /\ Newest(ConnOf[w])[id] = NoIntent
              /\ [Newest(ConnOf[w]) EXCEPT ![id] = Own(w)] \in Table
              /\ Writes(ConnOf[w], [Newest(ConnOf[w]) EXCEPT ![id] = Own(w)])
              /\ mine' = [mine EXCEPT ![w] = id]
              /\ joined' = [joined EXCEPT ![id] = basis[w]]
<1> DEFINE k == ConnOf[w]
           free == {i \in Ids : Visible(k)[i] = NoIntent}
<1>1. k \in Conns /\ at[w] = "insert"
    BY DEF Insert
<1>2. free # {} /\ free \subseteq Ids
    BY <1>1, FreeId DEF Inserting
<1>3. Min(free) \in free
    BY <1>2, MinOfRows
<1>4. Visible(k) = Newest(k) /\ Newest(k) \in Table
    BY <1>1, WriterSees DEF Insert, Writes
<1>5. Own(w) \in Intent
    BY DEF Own, Intent, Agents, TypeOK
<1>. QED
    BY <1>1, <1>3, <1>4, <1>5 DEF Insert, Own, Table

\* An UPDATE changes the status of the row of its call.
LEMMA ResolveEffect ==
    ASSUME TypeOK, ViewInv, HolderInv, NEW w \in Workers, NEW f \in Finals, Resolve(w, f)
    PROVE  LET row == [Own(w) EXCEPT !.status = f]
               db == [Newest(ConnOf[w]) EXCEPT ![mine[w]] = row]
           IN  /\ db \in Table /\ Writes(ConnOf[w], db)
               /\ mine[w] \in Ids /\ Newest(ConnOf[w])[mine[w]] = Own(w)
<1> DEFINE k == ConnOf[w]
<1>1. k \in Conns /\ at[w] = "held" /\ CanWrite(k)
    BY DEF Resolve, Writes
<1>2. Visible(k) = Newest(k) /\ Newest(k) \in Table
    BY <1>1, WriterSees
<1>3. mine[w] \in Ids /\ intents[mine[w]] = Own(w) /\ mine[w] # 0
    BY <1>1 DEF TypeOK, HolderInv
<1>4. Own(w) \in Intent /\ Own(w) # NoIntent
    BY DEF Own, Intent, Agents, TypeOK
<1>5. Newest(k)[mine[w]] = Own(w)
  <2>1. ~\E v \in Workers : at[v] = "resolve" /\ mine[v] = mine[w]
      BY <1>1, <1>3 DEF HolderInv
  <2>. QED
      BY <1>1, <1>3, <1>4, <2>1 DEF Newest, ViewInv, Rows
<1>6. [Own(w) EXCEPT !.status = f] \in Intent
    BY <1>4 DEF Own, Intent
<1>7. [Visible(k) EXCEPT ![mine[w]].status = f]
        = [Newest(k) EXCEPT ![mine[w]] = [Own(w) EXCEPT !.status = f]]
    BY <1>2, <1>3, <1>5 DEF Table
<1>. QED
    BY <1>2, <1>3, <1>5, <1>6, <1>7 DEF Resolve, Table

LEMMA TypeStep ==
    ASSUME TypeOK, CountInv, ViewInv, HolderInv, [AnyStep]_ledgervars PROVE TypeOK'
<1> USE DEF TypeOK, Goto, connvars, callvars
<1>1. ASSUME NEW w \in Workers, NEW t \in Targets, Declare(w, t) PROVE TypeOK'
    BY <1>1 DEF Declare, OtherWriter
<1>2. ASSUME NEW w \in Workers, Select(w) PROVE TypeOK'
    BY <1>2 DEF Select, OtherWriter, PendingOn, Table
<1>3. ASSUME NEW w \in Workers, Collide(w) PROVE TypeOK'
    BY <1>3 DEF Collide, Fetched, Forgets, OtherWriter
<1>4. ASSUME NEW w \in Workers, Pass(w) PROVE TypeOK'
    BY <1>4 DEF Pass, Fetched, OtherWriter
<1>5. ASSUME NEW w \in Workers, Insert(w) PROVE TypeOK'
  <2>1. PICK id \in Ids :
              /\ [Newest(ConnOf[w]) EXCEPT ![id] = Own(w)] \in Table
              /\ Writes(ConnOf[w], [Newest(ConnOf[w]) EXCEPT ![id] = Own(w)])
              /\ mine' = [mine EXCEPT ![w] = id]
              /\ joined' = [joined EXCEPT ![id] = basis[w]]
      BY <1>5, InsertEffect
  <2>2. id # 0
      BY DEF Ids
  <2>3. /\ at[w] = "insert" /\ at' = [at EXCEPT ![w] = "commit"]
        /\ UNCHANGED <<intents, target, basis, orphans, declared>>
      BY <1>5 DEF Insert
  <2>. QED
      BY <2>1, <2>2, <2>3, WritesType
<1>6. ASSUME NEW w \in Workers, NEW f \in Finals, Resolve(w, f) PROVE TypeOK'
  <2>1. PICK db \in Table : Writes(ConnOf[w], db)
      BY <1>6, ResolveEffect
  <2>. QED
      BY <1>6, <2>1, WritesType DEF Resolve
<1>7. ASSUME NEW w \in Workers, CommitDeclare(w) PROVE TypeOK'
    BY <1>7 DEF CommitDeclare, Commits, OtherWriter
<1>8. ASSUME NEW w \in Workers, CommitResolve(w) PROVE TypeOK'
    BY <1>8 DEF CommitResolve, Commits, Forgets, OtherWriter
<1>9. ASSUME NEW w \in Workers, InsertFails(w) \/ ResolveFails(w) PROVE TypeOK'
    BY <1>9 DEF InsertFails, ResolveFails, WriteFails, CanWrite, Abandon, Forgets, OtherWriter
<1>10. ASSUME NEW w \in Workers, Quits(w) PROVE TypeOK'
    BY <1>10 DEF Quits, UsesCursor, Abandon, Forgets, OtherWriter
<1>11. ASSUME NEW k \in Conns, Crash(k) PROVE TypeOK'
    BY <1>11 DEF Crash, OtherWriter
<1>12. CASE UNCHANGED ledgervars
    BY <1>12 DEF ledgervars, OtherWriter
<1>. QED
    BY <1>1, <1>2, <1>3, <1>4, <1>5, <1>6, <1>7, <1>8, <1>9, <1>10, <1>11, <1>12, LedgerCases

-----------------------------------------------------------------------------
(* The counting argument: rows and calls that will insert one. *)

LEMMA CountInit == InitLedger => CountInv
<1> SUFFICES ASSUME InitLedger PROVE CountInv
    OBVIOUS
<1>1. Inserting = {} /\ Rows(intents) = {} /\ \A k \in Conns : Rows(Visible(k)) = {}
    BY DEF InitLedger, Inserting, Rows, Visible
<1>2. IsFiniteSet(Inserting) /\ Cardinality(Inserting) = 0
    BY <1>1, FS_EmptySet
<1>3. Cardinality(Rows(intents)) = 0 /\ \A k \in Conns : Cardinality(Rows(Visible(k))) = 0
    BY <1>1, FS_EmptySet
<1>4. declared = 0
    BY DEF InitLedger
<1>. QED
    BY <1>2, <1>3, <1>4 DEF CountInv

LEMMA CountKept ==
    ASSUME TypeOK, CountInv, Inserting' \subseteq Inserting, declared' = declared,
           \/ Rows(intents)' = Rows(intents)
           \/ \E j \in Conns : Rows(intents)' = Rows(Visible(j)),
           \A k \in Conns : \/ Rows(Visible(k))' = Rows(intents)
                            \/ \E j \in Conns : Rows(Visible(k))' = Rows(Visible(j))
    PROVE  CountInv'
<1>1. IsFiniteSet(Inserting') /\ Cardinality(Inserting') <= Cardinality(Inserting)
    BY FS_Subset DEF CountInv
<1>2. Cardinality(Inserting) \in Nat /\ Cardinality(Inserting') \in Nat
    BY <1>1, FS_CardinalityType DEF CountInv
<1>3. /\ Cardinality(Rows(intents)) \in Nat
      /\ \A k \in Conns : Cardinality(Rows(Visible(k))) \in Nat
    BY RowsAreFinite
<1>4. Cardinality(Rows(intents)') + Cardinality(Inserting') <= declared'
    BY <1>1, <1>2, <1>3 DEF CountInv, TypeOK
<1>5. ASSUME NEW k \in Conns
      PROVE  Cardinality(Rows(Visible(k))') + Cardinality(Inserting') <= declared'
    BY <1>1, <1>2, <1>3 DEF CountInv, TypeOK
<1>. QED
    BY <1>1, <1>4, <1>5 DEF CountInv

LEMMA CountStep ==
    ASSUME TypeOK, CountInv, ViewInv, HolderInv, [AnyStep]_ledgervars PROVE CountInv'
<1> USE DEF Goto, connvars, callvars
<1>1. ASSUME NEW w \in Workers, NEW t \in Targets, Declare(w, t) PROVE CountInv'
  <2>1. Inserting' = Inserting \cup {w} /\ w \notin Inserting /\ declared' = declared + 1
      BY <1>1 DEF Declare, Inserting, TypeOK
  <2>2. UNCHANGED <<intents, view>>
      BY <1>1 DEF Declare
  <2>3. /\ IsFiniteSet(Inserting') /\ Cardinality(Inserting') = Cardinality(Inserting) + 1
        /\ Cardinality(Inserting) \in Nat
      BY <2>1, FS_AddElement, FS_CardinalityType DEF CountInv
  <2>4. /\ Cardinality(Rows(intents)) \in Nat
        /\ \A k \in Conns : Cardinality(Rows(Visible(k))) \in Nat
      BY RowsAreFinite
  <2>5. Cardinality(Rows(intents)') + Cardinality(Inserting') <= declared'
      BY <2>1, <2>2, <2>3, <2>4 DEF CountInv, TypeOK, Rows
  <2>6. ASSUME NEW k \in Conns
        PROVE  Cardinality(Rows(Visible(k))') + Cardinality(Inserting') <= declared'
    <3>1. Rows(Visible(k))' = Rows(Visible(k))
        BY <2>2 DEF Rows, Visible
    <3>2. Cardinality(Rows(Visible(k))) + Cardinality(Inserting) <= declared
        BY DEF CountInv
    <3>. QED
        BY <2>1, <2>3, <2>4, <3>1, <3>2 DEF TypeOK
  <2>. QED
      BY <2>3, <2>5, <2>6 DEF CountInv
<1>2. ASSUME NEW w \in Workers, Select(w) \/ Collide(w) \/ Pass(w) PROVE CountInv'
  <2>1. Inserting' \subseteq Inserting /\ declared' = declared /\ intents' = intents
      BY <1>2 DEF Select, Collide, Pass, Inserting, TypeOK
  <2>2. \A k \in Conns : view'[k] \in {view[k], intents}
      BY <1>2 DEF Select, Collide, Pass, TypeOK
  <2>3. Rows(intents)' = Rows(intents)
      BY <2>1 DEF Rows
  <2>4. \A k \in Conns : Rows(Visible(k))' = Rows(intents) \/ Rows(Visible(k))' = Rows(Visible(k))
      BY <2>1, <2>2 DEF Rows, Visible
  <2>. QED
      BY <2>1, <2>3, <2>4, CountKept
<1>3. ASSUME NEW w \in Workers, Insert(w) PROVE CountInv'
  <2> DEFINE k == ConnOf[w]
  <2>1. PICK id \in Ids :
              /\ Newest(k)[id] = NoIntent
              /\ [Newest(k) EXCEPT ![id] = Own(w)] \in Table
              /\ Writes(k, [Newest(k) EXCEPT ![id] = Own(w)])
      BY <1>3, InsertEffect
  <2>2. /\ at[w] = "insert" /\ at' = [at EXCEPT ![w] = "commit"] /\ declared' = declared
        /\ intents' = intents /\ k \in Conns /\ CanWrite(k)
      BY <1>3, <2>1 DEF Insert, Writes
  <2>3. Inserting' = Inserting \ {w} /\ w \in Inserting
      BY <2>2 DEF Inserting, TypeOK
  <2>4. /\ IsFiniteSet(Inserting') /\ Cardinality(Inserting') = Cardinality(Inserting) - 1
        /\ Cardinality(Inserting) \in Nat
      BY <2>3, FS_RemoveElement, FS_CardinalityType DEF CountInv
  <2>5. /\ Newest(k) \in Table /\ Visible(k) = Newest(k)
      BY <2>2, WriterSees
  <2>6. Visible(k)' = [Newest(k) EXCEPT ![id] = Own(w)]
      BY <2>1, <2>2, WriteEffect DEF Visible
  <2>7. Rows(Visible(k))' = Rows(Visible(k)) \cup {id} /\ id \notin Rows(Visible(k))
    <3>1. Own(w) # NoIntent
        BY DEF Own, Intent, Agents, TypeOK
    <3>. QED
        BY <2>1, <2>5, <2>6, <3>1 DEF Rows, Table
  <2>8. Cardinality(Rows(Visible(k))') = Cardinality(Rows(Visible(k))) + 1
    <3>1. IsFiniteSet(Rows(Visible(k)))
        BY RowsAreFinite
    <3>. QED
        BY <2>7, <3>1, FS_AddElement
  <2>9. Cardinality(Rows(Visible(k))') + Cardinality(Inserting') <= declared'
    <3>1. Cardinality(Rows(Visible(k))) \in Nat
        BY RowsAreFinite
    <3>2. Cardinality(Rows(Visible(k))) + Cardinality(Inserting) <= declared
        BY <2>2 DEF CountInv
    <3>. QED
        BY <2>2, <2>4, <2>8, <3>1, <3>2 DEF TypeOK
  <2>10. Cardinality(Rows(intents)') + Cardinality(Inserting') <= declared'
    <3>1. Cardinality(Rows(intents)) \in Nat /\ Rows(intents)' = Rows(intents)
        BY <2>2, RowsAreFinite DEF Rows
    <3>2. Cardinality(Rows(intents)) + Cardinality(Inserting) <= declared
        BY DEF CountInv
    <3>. QED
        BY <2>2, <2>4, <3>1, <3>2 DEF TypeOK
  <2>11. ASSUME NEW j \in Conns, j # k
         PROVE  Cardinality(Rows(Visible(j))') + Cardinality(Inserting') <= declared'
    <3>1. Rows(Visible(j))' = Rows(Visible(j))
        BY <2>1, <2>2, <2>11, WriteEffect DEF Visible, Rows
    <3>2. Cardinality(Rows(Visible(j))) \in Nat
        BY RowsAreFinite
    <3>3. Cardinality(Rows(Visible(j))) + Cardinality(Inserting) <= declared
        BY DEF CountInv
    <3>. QED
        BY <2>2, <2>4, <3>1, <3>2, <3>3 DEF TypeOK
  <2>. QED
      BY <2>4, <2>9, <2>10, <2>11 DEF CountInv
<1>4. ASSUME NEW w \in Workers, NEW f \in Finals, Resolve(w, f) PROVE CountInv'
  <2> DEFINE k == ConnOf[w]
             db == [Newest(k) EXCEPT ![mine[w]] = [Own(w) EXCEPT !.status = f]]
  <2>1. /\ db \in Table /\ Writes(k, db) /\ mine[w] \in Ids /\ Newest(k)[mine[w]] = Own(w)
        /\ k \in Conns /\ CanWrite(k)
      BY <1>4, ResolveEffect DEF Writes
  <2>2. Inserting' \subseteq Inserting /\ declared' = declared /\ intents' = intents
      BY <1>4 DEF Resolve, Inserting, TypeOK
  <2>3. Newest(k) \in Table /\ Visible(k) = Newest(k)
      BY <2>1, WriterSees
  <2>4. Own(w) # NoIntent /\ db[mine[w]] # NoIntent
      BY <2>1, <2>3 DEF Own, Intent, Agents, TypeOK, Table
  <2>5. Rows(Visible(k))' = Rows(Visible(k))
    <3>1. Visible(k)' = db
        BY <2>1, <2>2, WriteEffect DEF Visible
    <3>. QED
        BY <2>1, <2>3, <2>4, <3>1 DEF Rows, Table
  <2>6. \A j \in Conns \ {k} : Rows(Visible(j))' = Rows(Visible(j))
      BY <2>1, <2>2, WriteEffect DEF Visible, Rows
  <2>. QED
      BY <2>2, <2>5, <2>6, CountKept DEF Rows
<1>5. ASSUME NEW w \in Workers, CommitDeclare(w) \/ CommitResolve(w) PROVE CountInv'
  <2> DEFINE k == ConnOf[w]
  <2>1. Commits(k) /\ Inserting' \subseteq Inserting /\ declared' = declared
      BY <1>5 DEF CommitDeclare, CommitResolve, Inserting, TypeOK
  <2>2. k \in Conns /\ intents' \in {intents, Visible(k)}
      BY <2>1 DEF Commits, Visible, TypeOK
  <2>3. \A j \in Conns : Visible(j)' \in {intents', Visible(j)}
      BY <2>1, CommitEffect DEF Visible
  <2>4. \/ Rows(intents)' = Rows(intents)
        \/ Rows(intents)' = Rows(Visible(k))
      BY <2>2 DEF Rows
  <2>5. \A j \in Conns : \/ Rows(Visible(j))' = Rows(Visible(j))
                         \/ Rows(Visible(j))' = Rows(intents)'
      BY <2>3 DEF Rows
  <2>. QED
      BY <2>1, <2>2, <2>4, <2>5, CountKept
<1>6. ASSUME NEW w \in Workers, InsertFails(w) \/ ResolveFails(w) \/ Quits(w) PROVE CountInv'
  <2>1. Inserting' \subseteq Inserting /\ declared' = declared /\ intents' = intents
      BY <1>6 DEF InsertFails, ResolveFails, Quits, Abandon, Inserting, TypeOK
  <2>2. UNCHANGED view
      BY <1>6 DEF InsertFails, ResolveFails, Quits, WriteFails
  <2>. QED
      BY <2>1, <2>2, CountKept DEF Rows, Visible
<1>7. ASSUME NEW k \in Conns, Crash(k) PROVE CountInv'
  <2>1. Inserting' \subseteq Inserting /\ declared' = declared /\ intents' = intents
      BY <1>7 DEF Crash, Inserting, TypeOK
  <2>2. \A j \in Conns : Visible(j)' \in {intents, Visible(j)}
      BY <1>7, <2>1 DEF Crash, Visible, TypeOK
  <2>3. \A j \in Conns : Rows(Visible(j))' = Rows(Visible(j)) \/ Rows(Visible(j))' = Rows(intents)
      BY <2>2 DEF Rows
  <2>. QED
      BY <2>1, <2>3, CountKept DEF Rows
<1>8. CASE UNCHANGED ledgervars
    BY <1>8, CountKept DEF ledgervars, Rows, Visible, Inserting
<1>. QED
    BY <1>1, <1>2, <1>3, <1>4, <1>5, <1>6, <1>7, <1>8, LedgerCases

-----------------------------------------------------------------------------
(* Whose a row is, and what a snapshot shows of it. *)

\* The row of a call exists wherever somebody can write.
LEMMA MineIsRow ==
    ASSUME TypeOK, ViewInv, HolderInv, NEW k \in Conns, CanWrite(k),
           NEW v \in Workers, mine[v] # 0
    PROVE  mine[v] \in Rows(Newest(k))
<1>1. mine[v] \in Ids /\ at[v] \in {"commit", "held", "resolve"} /\ ConnOf[v] \in Conns
    BY DEF TypeOK
<1>2. Own(v) # NoIntent
    BY DEF Own, Intent, Agents, TypeOK
<1>3. mine[v] \in Rows(Newest(ConnOf[v])) \/ mine[v] \in Rows(intents)
    BY <1>1, <1>2 DEF HolderInv, Rows
<1>4. ConnOf[v] # k => Newest(ConnOf[v]) = intents
    BY <1>1, WriterSees DEF Newest
<1>. QED
    BY <1>3, <1>4, WriterSees DEF Grows

\* A connection's writes leave alone what other processes, or calls that have not
\* resolved, hold.
LEMMA HeldIsSeen ==
    ASSUME TypeOK, ViewInv, HolderInv, NEW k \in Conns, NEW v \in Workers, mine[v] \in Rows(intents),
           at[v] = "held" \/ (ConnOf[v] # k /\ mine[v] # 0)
    PROVE  Newest(k)[mine[v]] = intents[mine[v]]
<1>1. mine[v] # 0
    BY DEF TypeOK
<1>2. SUFFICES ASSUME mode[k] = "writing", view[k][mine[v]] # intents[mine[v]] PROVE FALSE
    BY DEF Newest
<1>3. PICK u \in Workers : ConnOf[u] = k /\ at[u] = "resolve" /\ mine[u] = mine[v]
    BY <1>2 DEF ViewInv
<1>. QED
    BY <1>1, <1>3 DEF HolderInv

LEMMA ViewInit == InitLedger => ViewInv
BY DEF InitLedger, ViewInv

LEMMA ViewKept ==
    ASSUME TypeOK, ViewInv, intents' = intents, view' = view,
           \A k \in Conns : mode'[k] = "writing" => mode[k] = "writing",
           \A k \in Conns : mode'[k] = "reading" => mode[k] = "reading",
           \A w \in Workers : at[w] = "resolve" => at'[w] = "resolve" /\ mine'[w] = mine[w]
    PROVE  ViewInv'
BY DEF ViewInv, Grows, Rows

LEMMA ViewWritten ==
    ASSUME ViewInv, NEW k \in Conns, intents' = intents,
           \A j \in Conns \ {k} : /\ mode[j] # "writing"
                                  /\ mode'[j] = mode[j] /\ view'[j] = view[j],
           mode'[k] = "writing", Grows(intents, view'[k]),
           \A i \in Rows(intents) : view'[k][i] # intents[i] =>
              /\ intents[i].status = "PENDING"
              /\ \E v \in Workers : ConnOf[v] = k /\ at'[v] = "resolve" /\ mine'[v] = i
    PROVE  ViewInv'
<1>1. Rows(intents') = Rows(intents)
    OBVIOUS
<1>2. ASSUME NEW j \in Conns, mode'[j] = "reading" PROVE Grows(view'[j], intents')
    BY <1>2 DEF ViewInv
<1>3. ASSUME NEW j \in Conns, mode'[j] = "writing"
      PROVE  /\ Grows(intents', view'[j])
             /\ \A i \in Rows(intents') : view'[j][i] # intents'[i] =>
                  /\ intents'[i].status = "PENDING"
                  /\ \E v \in Workers : ConnOf[v] = j /\ at'[v] = "resolve" /\ mine'[v] = i
    BY <1>1, <1>3
<1>. QED
    BY <1>2, <1>3 DEF ViewInv

LEMMA ViewStep ==
    ASSUME TypeOK, CountInv, ViewInv, HolderInv, [AnyStep]_ledgervars PROVE ViewInv'
<1> USE DEF Goto, connvars, callvars
<1>1. ASSUME NEW w \in Workers,
             (\E t \in Targets : Declare(w, t)) \/ Collide(w) \/ Pass(w) \/ Quits(w)
      PROVE  ViewInv'
  <2>1. UNCHANGED <<intents, view, mode>>
      BY <1>1 DEF Declare, Collide, Pass, Quits
  <2>2. \A v \in Workers : at[v] = "resolve" => at'[v] = "resolve" /\ mine'[v] = mine[v]
      BY <1>1 DEF Declare, Collide, Pass, Quits, UsesCursor, Abandon, Forgets, TypeOK
  <2>. QED
      BY <2>1, <2>2, ViewKept
<1>2. ASSUME NEW w \in Workers, Select(w) PROVE ViewInv'
  <2> DEFINE k == ConnOf[w]
  <2>1. /\ UNCHANGED <<intents, mine>>
        /\ \A v \in Workers : at[v] = "resolve" => at'[v] = "resolve"
      BY <1>2 DEF Select, TypeOK
  <2>2. \A j \in Conns : \/ mode'[j] = mode[j] /\ view'[j] = view[j]
                         \/ mode'[j] = "reading" /\ view'[j] = intents
      BY <1>2 DEF Select, TypeOK
  <2>. QED
      BY <2>1, <2>2 DEF ViewInv, Grows, Rows
<1>3. ASSUME NEW w \in Workers, Insert(w) PROVE ViewInv'
  <2> DEFINE k == ConnOf[w]
  <2>1. PICK id \in Ids :
              /\ Newest(k)[id] = NoIntent
              /\ [Newest(k) EXCEPT ![id] = Own(w)] \in Table
              /\ Writes(k, [Newest(k) EXCEPT ![id] = Own(w)])
              /\ mine' = [mine EXCEPT ![w] = id]
      BY <1>3, InsertEffect
  <2>2. /\ at[w] = "insert" /\ at' = [at EXCEPT ![w] = "commit"]
        /\ intents' = intents /\ k \in Conns /\ CanWrite(k)
      BY <1>3, <2>1 DEF Insert, Writes
  <2>3. /\ Newest(k) \in Table /\ Grows(intents, Newest(k))
        /\ \A j \in Conns \ {k} : mode[j] # "writing"
      BY <2>2, WriterSees
  <2>4. /\ view'[k] = [Newest(k) EXCEPT ![id] = Own(w)] /\ mode'[k] = "writing"
        /\ \A j \in Conns \ {k} : mode'[j] = mode[j] /\ view'[j] = view[j]
      BY <2>1, <2>2, WriteEffect
  <2>5. id \notin Rows(intents)
      BY <2>1, <2>3 DEF Grows, Rows
  <2>6. \A i \in Rows(intents) : view'[k][i] = Newest(k)[i]
      BY <2>3, <2>4, <2>5 DEF Table, Rows
  <2>7. Grows(intents, view'[k])
      BY <2>3, <2>6 DEF Grows, Rows
  <2>8. ASSUME NEW i \in Rows(intents), view'[k][i] # intents[i]
        PROVE  /\ intents[i].status = "PENDING"
               /\ \E v \in Workers : ConnOf[v] = k /\ at'[v] = "resolve" /\ mine'[v] = i
    <3>1. mode[k] = "writing" /\ view[k][i] # intents[i]
        BY <2>6, <2>8 DEF Newest
    <3>2. PICK v \in Workers : ConnOf[v] = k /\ at[v] = "resolve" /\ mine[v] = i
        BY <2>2, <3>1 DEF ViewInv
    <3>3. intents[i].status = "PENDING"
        BY <2>2, <3>1 DEF ViewInv
    <3>4. at'[v] = "resolve" /\ mine'[v] = i
        BY <2>1, <2>2, <3>2 DEF TypeOK
    <3>. QED
        BY <3>2, <3>3, <3>4
  <2>. QED
    <3> HIDE DEF k
    <3>1. \A i \in Rows(intents) : view'[k][i] # intents[i] =>
              /\ intents[i].status = "PENDING"
              /\ \E v \in Workers : ConnOf[v] = k /\ at'[v] = "resolve" /\ mine'[v] = i
        BY <2>8
    <3>2. k \in Conns /\ intents' = intents
        BY <2>1, <2>2
    <3>3. \A j \in Conns \ {k} : /\ mode[j] # "writing"
                                  /\ mode'[j] = mode[j] /\ view'[j] = view[j]
        BY <2>3, <2>4
    <3>4. mode'[k] = "writing" /\ Grows(intents, view'[k])
        BY <2>4, <2>7
    <3>. QED
        BY <3>1, <3>2, <3>3, <3>4, ViewWritten
<1>4. ASSUME NEW w \in Workers, NEW f \in Finals, Resolve(w, f) PROVE ViewInv'
  <2> DEFINE k == ConnOf[w]
             row == [Own(w) EXCEPT !.status = f]
             db == [Newest(k) EXCEPT ![mine[w]] = row]
  <2>1. /\ db \in Table /\ Writes(k, db) /\ mine[w] \in Ids /\ Newest(k)[mine[w]] = Own(w)
        /\ k \in Conns /\ CanWrite(k)
      BY <1>4, ResolveEffect DEF Writes
  <2>2. /\ at[w] = "held" /\ at' = [at EXCEPT ![w] = "resolve"]
        /\ UNCHANGED <<intents, mine>>
      BY <1>4 DEF Resolve
  <2>3. /\ Newest(k) \in Table /\ Grows(intents, Newest(k))
        /\ \A j \in Conns \ {k} : mode[j] # "writing"
      BY <2>1, WriterSees
  <2>4. /\ view'[k] = db /\ mode'[k] = "writing"
        /\ \A j \in Conns \ {k} : mode'[j] = mode[j] /\ view'[j] = view[j]
      BY <2>1, <2>2, WriteEffect
  <2>5. /\ intents[mine[w]] = Own(w) /\ Own(w).status = "PENDING"
        /\ row.agent = Own(w).agent /\ row.target = Own(w).target /\ row # NoIntent
      BY <2>2 DEF HolderInv, Own, Intent, Agents, TypeOK
  <2>6. /\ view'[k][mine[w]] = row
        /\ \A i \in Ids : i # mine[w] => view'[k][i] = Newest(k)[i]
      BY <2>1, <2>3, <2>4 DEF Table
  <2>7. Grows(intents, view'[k])
    <3> HIDE DEF row
    <3>. QED
        BY <2>1, <2>3, <2>5, <2>6 DEF Grows, Rows
  <2>8. ASSUME NEW i \in Rows(intents), view'[k][i] # intents[i]
        PROVE  /\ intents[i].status = "PENDING"
               /\ \E v \in Workers : ConnOf[v] = k /\ at'[v] = "resolve" /\ mine'[v] = i
    <3>1. CASE i = mine[w]
        BY <2>2, <2>5, <3>1 DEF TypeOK
    <3>2. CASE i # mine[w]
      <4>1. mode[k] = "writing" /\ view[k][i] # intents[i]
          BY <2>6, <2>8, <3>2 DEF Newest, Rows
      <4>2. PICK v \in Workers : ConnOf[v] = k /\ at[v] = "resolve" /\ mine[v] = i
          BY <2>1, <4>1 DEF ViewInv
      <4>3. intents[i].status = "PENDING" /\ at'[v] = "resolve" /\ mine'[v] = i
          BY <2>1, <2>2, <4>1, <4>2 DEF ViewInv, TypeOK
      <4>. QED
          BY <4>2, <4>3
    <3>. QED
        BY <3>1, <3>2
  <2>. QED
    <3> HIDE DEF k
    <3>1. \A i \in Rows(intents) : view'[k][i] # intents[i] =>
              /\ intents[i].status = "PENDING"
              /\ \E v \in Workers : ConnOf[v] = k /\ at'[v] = "resolve" /\ mine'[v] = i
        BY <2>8
    <3>2. k \in Conns /\ intents' = intents
        BY <2>1, <2>2
    <3>3. \A j \in Conns \ {k} : /\ mode[j] # "writing"
                                  /\ mode'[j] = mode[j] /\ view'[j] = view[j]
        BY <2>3, <2>4
    <3>4. mode'[k] = "writing" /\ Grows(intents, view'[k])
        BY <2>4, <2>7
    <3>. QED
        BY <3>1, <3>2, <3>3, <3>4, ViewWritten
<1>5. ASSUME NEW w \in Workers, CommitDeclare(w) \/ CommitResolve(w) PROVE ViewInv'
  <2> DEFINE k == ConnOf[w]
  <2>1. Commits(k) /\ k \in Conns
      BY <1>5 DEF CommitDeclare, CommitResolve
  <2>2. \A v \in Workers \ {w} : at'[v] = at[v] /\ mine'[v] = mine[v]
      BY <1>5 DEF CommitDeclare, CommitResolve, Forgets, TypeOK
  <2>3. /\ intents' = Newest(k) /\ mode'[k] = "none"
        /\ \A j \in Conns \ {k} : mode'[j] = mode[j] /\ view'[j] = view[j]
      BY <2>1, CommitEffect
  <2>4. Grows(intents, intents')
      BY <2>1, <2>3 DEF ViewInv, Newest, Grows, Rows
  <2>5. ASSUME NEW j \in Conns, mode'[j] = "reading" PROVE Grows(view'[j], intents')
    <3>1. j # k /\ view'[j] = view[j] /\ Grows(view[j], intents)
        BY <2>3, <2>5 DEF ViewInv
    <3>. QED
        BY <2>4, <3>1 DEF Grows
  <2>6. ASSUME NEW j \in Conns, mode'[j] = "writing"
        PROVE  /\ j # k /\ mode[j] = "writing" /\ view'[j] = view[j] /\ intents' = intents
      BY <2>1, <2>3, <2>6 DEF Newest, TypeOK, OtherWriter
  <2>7. ASSUME NEW j \in Conns, mode'[j] = "writing", NEW i \in Rows(intents), view[j][i] # intents[i]
        PROVE  \E v \in Workers : ConnOf[v] = j /\ at'[v] = "resolve" /\ mine'[v] = i
      BY <2>2, <2>6, <2>7 DEF ViewInv
  <2>. QED
      BY <2>5, <2>6, <2>7 DEF ViewInv, Grows, Rows
<1>6. ASSUME NEW w \in Workers, InsertFails(w) \/ ResolveFails(w) PROVE ViewInv'
  <2>1. WriteFails(ConnOf[w]) /\ ConnOf[w] \in Conns /\ intents' = intents
      BY <1>6 DEF InsertFails, ResolveFails
  <2>2. \A v \in Workers : at[v] = "resolve" => at'[v] = "resolve" /\ mine'[v] = mine[v]
      BY <1>6 DEF InsertFails, ResolveFails, Abandon, Forgets, TypeOK
  <2>. QED
      BY <2>1, <2>2, FailEffect, ViewKept
<1>7. ASSUME NEW k \in Conns, Crash(k) PROVE ViewInv'
  <2>1. /\ intents' = intents /\ mode'[k] = "none"
        /\ \A j \in Conns \ {k} : mode'[j] = mode[j] /\ view'[j] = view[j]
      BY <1>7 DEF Crash, TypeOK
  <2>2. \A v \in Workers : ConnOf[v] # k => at'[v] = at[v] /\ mine'[v] = mine[v]
      BY <1>7 DEF Crash
  <2>. QED
      BY <2>1, <2>2 DEF ViewInv, Grows, Rows
<1>8. CASE UNCHANGED ledgervars
    BY <1>8, ViewKept DEF ledgervars
<1>. QED
    BY <1>1, <1>2, <1>3, <1>4, <1>5, <1>6, <1>7, <1>8, LedgerCases

-----------------------------------------------------------------------------
(* The row of a call stands as the call left it. *)

LEMMA HolderInit == InitLedger => HolderInv
BY DEF InitLedger, HolderInv

\* Calls that go on, or end, without touching rows.
LEMMA HolderKept ==
    ASSUME TypeOK, HolderInv, intents' = intents,
           \A v \in Workers : mine'[v] \in {0, mine[v]},
           \A v \in Workers : at'[v] \in {"commit", "held", "resolve"} =>
              /\ at'[v] = at[v] /\ mine'[v] = mine[v] /\ target'[v] = target[v]
              /\ Newest(ConnOf[v])' = Newest(ConnOf[v])
    PROVE  HolderInv'
<1> SUFFICES ASSUME NEW v \in Workers
             PROVE  /\ at'[v] = "commit" => Newest(ConnOf[v])'[mine'[v]] = Own(v)'
                    /\ at'[v] = "held" => intents'[mine'[v]] = Own(v)'
                    /\ at'[v] = "resolve" =>
                          /\ mine'[v] \in Rows(Newest(ConnOf[v])')
                          /\ Newest(ConnOf[v])'[mine'[v]].status # "PENDING"
                    /\ \A u \in Workers \ {v} : mine'[v] # 0 => mine'[u] # mine'[v]
    BY DEF HolderInv
<1>1. target'[v] = target[v] => Own(v)' = Own(v)
    BY DEF Own
<1>2. \A u \in Workers \ {v} : mine'[v] # 0 => mine'[u] # mine'[v]
    BY DEF HolderInv
<1>. QED
    BY <1>1, <1>2 DEF HolderInv

\* A connection that writes leaves the other calls' rows alone.
LEMMA HolderWritten ==
    ASSUME TypeOK, ViewInv, HolderInv, NEW w \in Workers, NEW db \in Table, NEW i \in Ids,
           NEW row, db = [Newest(ConnOf[w]) EXCEPT ![i] = row], Writes(ConnOf[w], db),
           UNCHANGED <<intents, target>>, mine' = [mine EXCEPT ![w] = i],
           \A v \in Workers \ {w} : mine[v] # i,
           NEW label \in {"commit", "resolve"}, at' = [at EXCEPT ![w] = label],
           label = "commit" => row = Own(w),
           label = "resolve" => row # NoIntent /\ row.status # "PENDING"
    PROVE  HolderInv'
<1> DEFINE k == ConnOf[w]
<1>1. k \in Conns /\ CanWrite(k)
    BY DEF Writes
<1>2. Newest(k) \in Table /\ i # 0 /\ mine'[w] = i /\ at'[w] = label
    BY <1>1, WriterSees DEF Ids, TypeOK
<1>3. Newest(k)' = db
    BY <1>1, WriteEffect
<1>4. \A u \in Workers : Own(u)' = Own(u)
    BY DEF Own
<1>5. ASSUME NEW v \in Workers, v # w
      PROVE  /\ at'[v] = at[v] /\ mine'[v] = mine[v] /\ mine[v] # i
             /\ mine[v] # 0 => Newest(ConnOf[v])'[mine[v]] = Newest(ConnOf[v])[mine[v]]
  <2>1. at'[v] = at[v] /\ mine'[v] = mine[v] /\ mine[v] # i
      BY <1>5 DEF TypeOK
  <2>2. CASE ConnOf[v] = k
      BY <1>2, <1>3, <2>1, <2>2 DEF TypeOK, Table
  <2>3. CASE ConnOf[v] # k
    <3>1. Newest(ConnOf[v]) = intents /\ Newest(ConnOf[v])' = intents
        BY <1>1, <2>3, WriteEffect
    <3>. QED
        BY <2>1, <3>1
  <2>. QED
      BY <2>1, <2>2, <2>3
<1>6. db[i] = row
    BY <1>2 DEF Table
<1>7. ASSUME NEW v \in Workers, v # w
      PROVE  /\ at'[v] = "commit" => Newest(ConnOf[v])'[mine'[v]] = Own(v)'
             /\ at'[v] = "held" => intents'[mine'[v]] = Own(v)'
             /\ at'[v] = "resolve" =>
                   /\ mine'[v] \in Rows(Newest(ConnOf[v])')
                   /\ Newest(ConnOf[v])'[mine'[v]].status # "PENDING"
  <2>1. mine[v] # 0 <=> at[v] \in {"commit", "held", "resolve"}
      BY DEF TypeOK
  <2>. QED
      BY <1>4, <1>5, <1>7, <2>1 DEF HolderInv, Rows
<1>8. /\ at'[w] = "commit" => Newest(ConnOf[w])'[mine'[w]] = Own(w)'
      /\ at'[w] # "held"
      /\ at'[w] = "resolve" =>
            /\ mine'[w] \in Rows(Newest(ConnOf[w])')
            /\ Newest(ConnOf[w])'[mine'[w]].status # "PENDING"
    BY <1>2, <1>3, <1>4, <1>6 DEF Rows
<1>9. \A v \in Workers : \A u \in Workers \ {v} : mine'[v] # 0 => mine'[u] # mine'[v]
    BY <1>2, <1>5 DEF HolderInv
<1>. QED
    BY <1>7, <1>8, <1>9 DEF HolderInv

LEMMA HolderStep ==
    ASSUME TypeOK, CountInv, ViewInv, HolderInv, [AnyStep]_ledgervars PROVE HolderInv'
<1> USE DEF Goto, connvars, callvars
<1>1. ASSUME NEW w \in Workers,
             (\E t \in Targets : Declare(w, t)) \/ Select(w) \/ Collide(w) \/ Pass(w)
      PROVE  HolderInv'
  <2>1. /\ intents' = intents
        /\ \A v \in Workers : mine'[v] \in {0, mine[v]}
        /\ \A v \in Workers : at'[v] \in {"commit", "held", "resolve"} =>
              at'[v] = at[v] /\ mine'[v] = mine[v] /\ target'[v] = target[v]
      BY <1>1 DEF Declare, Select, Collide, Pass, Forgets, TypeOK
  <2>2. \A k \in Conns : Newest(k)' = Newest(k)
      BY <1>1 DEF Declare, Select, Collide, Pass, Newest, TypeOK
  <2>. QED
      BY <2>1, <2>2, HolderKept
<1>2. ASSUME NEW w \in Workers, InsertFails(w) \/ ResolveFails(w) \/ Quits(w)
      PROVE  HolderInv'
  <2>1. /\ intents' = intents
        /\ \A v \in Workers : mine'[v] \in {0, mine[v]}
        /\ \A v \in Workers : at'[v] \in {"commit", "held", "resolve"} =>
              at'[v] = at[v] /\ mine'[v] = mine[v] /\ target'[v] = target[v]
      BY <1>2 DEF InsertFails, ResolveFails, Quits, Abandon, Forgets, TypeOK
  <2>2. \A k \in Conns : Newest(k)' = Newest(k)
    <3>1. CASE Quits(w)
        BY <3>1 DEF Quits, Newest
    <3>2. CASE WriteFails(ConnOf[w])
        BY <2>1, <3>2, FailEffect
    <3>. QED
        BY <1>2, <3>1, <3>2 DEF InsertFails, ResolveFails
  <2>. QED
      BY <2>1, <2>2, HolderKept
<1>3. ASSUME NEW w \in Workers, Insert(w) PROVE HolderInv'
  <2>1. PICK id \in Ids :
              /\ Newest(ConnOf[w])[id] = NoIntent
              /\ [Newest(ConnOf[w]) EXCEPT ![id] = Own(w)] \in Table
              /\ Writes(ConnOf[w], [Newest(ConnOf[w]) EXCEPT ![id] = Own(w)])
              /\ mine' = [mine EXCEPT ![w] = id]
      BY <1>3, InsertEffect
  <2>2. at' = [at EXCEPT ![w] = "commit"] /\ UNCHANGED <<intents, target>>
      BY <1>3 DEF Insert
  <2>3. \A v \in Workers \ {w} : mine[v] # id
    <3>1. ConnOf[w] \in Conns /\ CanWrite(ConnOf[w]) /\ id # 0
        BY <2>1 DEF Writes, Ids
    <3>. QED
        BY <2>1, <3>1, MineIsRow DEF Rows
  <2>. QED
      BY <2>1, <2>2, <2>3, HolderWritten
<1>4. ASSUME NEW w \in Workers, NEW f \in Finals, Resolve(w, f) PROVE HolderInv'
  <2> DEFINE row == [Own(w) EXCEPT !.status = f]
             db == [Newest(ConnOf[w]) EXCEPT ![mine[w]] = row]
  <2>1. db \in Table /\ Writes(ConnOf[w], db) /\ mine[w] \in Ids
      BY <1>4, ResolveEffect
  <2>2. at' = [at EXCEPT ![w] = "resolve"] /\ UNCHANGED <<intents, target, mine>>
      BY <1>4 DEF Resolve
  <2>3. mine' = [mine EXCEPT ![w] = mine[w]]
      BY <2>2 DEF TypeOK
  <2>4. \A v \in Workers \ {w} : mine[v] # mine[w]
      BY <2>1 DEF HolderInv, Ids
  <2>5. row # NoIntent /\ row.status # "PENDING"
      BY DEF Own, Intent, Agents, TypeOK
  <2> HIDE DEF row
  <2>. QED
      BY <2>1, <2>2, <2>3, <2>4, <2>5, HolderWritten
<1>5. ASSUME NEW w \in Workers, CommitDeclare(w) \/ CommitResolve(w) PROVE HolderInv'
  <2> DEFINE k == ConnOf[w]
  <2>1. Commits(k) /\ k \in Conns
      BY <1>5 DEF CommitDeclare, CommitResolve
  <2>2. /\ \A v \in Workers \ {w} : at'[v] = at[v] /\ mine'[v] = mine[v] /\ target'[v] = target[v]
        /\ \/ at[w] = "commit" /\ at'[w] = "held" /\ mine'[w] = mine[w] /\ target'[w] = target[w]
           \/ at'[w] = "idle" /\ mine'[w] = 0
      BY <1>5 DEF CommitDeclare, CommitResolve, Forgets, TypeOK
  <2>3. /\ intents' = Newest(k)
        /\ \A j \in Conns : Newest(j)' = IF mode[k] = "writing" THEN Newest(k) ELSE Newest(j)
      BY <2>1, CommitEffect
  <2>4. \A v \in Workers : target'[v] = target[v] => Own(v)' = Own(v)
      BY DEF Own
  <2>5. \A v \in Workers : \A u \in Workers \ {v} : mine'[v] # 0 => mine'[u] # mine'[v]
      BY <2>2 DEF HolderInv
  <2>6. /\ at'[w] \notin {"commit", "resolve"}
        /\ at'[w] = "held" => intents'[mine'[w]] = Own(w)'
      BY <2>2, <2>3, <2>4 DEF HolderInv
  <2>7. ASSUME NEW v \in Workers, v # w
        PROVE  /\ at'[v] = "commit" => Newest(ConnOf[v])'[mine'[v]] = Own(v)'
               /\ at'[v] = "held" => intents'[mine'[v]] = Own(v)'
               /\ at'[v] = "resolve" =>
                     /\ mine'[v] \in Rows(Newest(ConnOf[v])')
                     /\ Newest(ConnOf[v])'[mine'[v]].status # "PENDING"
    <3>1. at'[v] = at[v] /\ mine'[v] = mine[v] /\ target'[v] = target[v] /\ Own(v)' = Own(v)
        BY <2>2, <2>4, <2>7
    <3>2. at[v] = "held" => intents'[mine[v]] = intents[mine[v]]
      <4>1. at[v] = "held" => mine[v] \in Rows(intents)
        <5>1. at[v] = "held" => mine[v] \in Ids /\ Own(v) # NoIntent
            BY DEF TypeOK, Own, Intent, Agents
        <5>. QED
            BY <5>1 DEF HolderInv, Rows
      <4>. QED
          BY <2>1, <2>3, <4>1, HeldIsSeen
    <3>3. at[v] \in {"commit", "resolve"} =>
              Newest(ConnOf[v])'[mine[v]] = Newest(ConnOf[v])[mine[v]]
      <4>1. CASE mode[k] # "writing" \/ ConnOf[v] = k
          BY <2>3, <4>1
      <4>2. CASE mode[k] = "writing" /\ ConnOf[v] # k /\ at[v] \in {"commit", "resolve"}
        <5>1. Newest(ConnOf[v]) = intents /\ Newest(ConnOf[v])' = Newest(k)
            BY <2>1, <2>3, <4>2 DEF Newest, TypeOK, OtherWriter
        <5>2. mine[v] # 0 /\ mine[v] \in Ids /\ Own(v) # NoIntent
            BY <4>2 DEF TypeOK, Own, Intent, Agents
        <5>3. mine[v] \in Rows(intents)
            BY <4>2, <5>1, <5>2 DEF HolderInv, Rows
        <5>. QED
            BY <2>1, <4>2, <5>1, <5>2, <5>3, HeldIsSeen
      <4>. QED
          BY <4>1, <4>2
    <3>. QED
        BY <3>1, <3>2, <3>3 DEF HolderInv, Rows
  <2>. QED
      BY <2>5, <2>6, <2>7 DEF HolderInv
<1>6. ASSUME NEW k \in Conns, Crash(k) PROVE HolderInv'
  <2>1. /\ intents' = intents
        /\ \A v \in Workers : mine'[v] \in {0, mine[v]}
        /\ \A v \in Workers : at'[v] \in {"commit", "held", "resolve"} =>
              /\ at'[v] = at[v] /\ mine'[v] = mine[v] /\ target'[v] = target[v]
              /\ ConnOf[v] # k
      BY <1>6 DEF Crash
  <2>2. \A j \in Conns \ {k} : Newest(j)' = Newest(j)
      BY <1>6 DEF Crash, Newest, TypeOK
  <2>. QED
      BY <2>1, <2>2, HolderKept
<1>7. CASE UNCHANGED ledgervars
    BY <1>7, HolderKept DEF ledgervars, Newest
<1>. QED
    BY <1>1, <1>2, <1>3, <1>4, <1>5, <1>6, <1>7, LedgerCases

-----------------------------------------------------------------------------
(* Nothing leaks but what a crash or a failed call leaves behind. *)

LEMMA LeakInit == InitLedger => LeakInv
BY DEF InitLedger, LeakInv, Accounted, Newest, Rows

\* No new rows, and no call that forgets a row that is still PENDING.
LEMMA LeakKept ==
    ASSUME LeakInv, orphans \subseteq orphans',
           intents' = intents \/ \E j \in Conns : intents' = Newest(j),
           \A k \in Conns : \/ Newest(k)' = intents
                            \/ \E j \in Conns : Newest(k)' = Newest(j),
           \A w \in Workers :
              \/ mine[w] \in {0, mine'[w]} \cup orphans'
              \/ /\ mine[w] \in Rows(intents') => intents'[mine[w]].status # "PENDING"
                 /\ \A k \in Conns : mine[w] \in Rows(Newest(k)') =>
                                        Newest(k)'[mine[w]].status # "PENDING"
    PROVE  LeakInv'
<1>1. 0 \notin Ids
    BY DEF Ids
<1>2. ASSUME NEW i \in Rows(intents'), intents'[i].status = "PENDING"
      PROVE  i \in orphans' \/ \E w \in Workers : mine'[w] = i
  <2>1. i \in orphans \/ \E w \in Workers : mine[w] = i
      BY <1>2 DEF LeakInv, Accounted
  <2>. QED
      BY <1>1, <1>2, <2>1 DEF Rows
<1>3. ASSUME NEW k \in Conns, NEW i \in Rows(Newest(k)'), Newest(k)'[i].status = "PENDING"
      PROVE  i \in orphans' \/ \E w \in Workers : mine'[w] = i
  <2>1. i \in orphans \/ \E w \in Workers : mine[w] = i
      BY <1>3 DEF LeakInv, Accounted
  <2>. QED
      BY <1>1, <1>3, <2>1 DEF Rows
<1>. QED
    BY <1>2, <1>3 DEF LeakInv, Accounted

\* A write that leaves the row it wrote to the call it belongs to.
LEMMA LeakWritten ==
    ASSUME TypeOK, ViewInv, LeakInv, NEW w \in Workers, NEW db \in Table, NEW i \in Ids,
           NEW row, db = [Newest(ConnOf[w]) EXCEPT ![i] = row], Writes(ConnOf[w], db),
           UNCHANGED <<intents, orphans>>, mine' = [mine EXCEPT ![w] = i], mine[w] \in {0, i}
    PROVE  LeakInv'
<1> DEFINE k == ConnOf[w]
<1>1. k \in Conns /\ CanWrite(k)
    BY DEF Writes
<1>2. Newest(k) \in Table
    BY <1>1, WriterSees
<1>3. Newest(k)' = db /\ \A j \in Conns \ {k} : Newest(j)' = intents
    BY <1>1, WriteEffect
<1>4. ASSUME NEW x \in Ids, x \in orphans \/ \E v \in Workers : mine[v] = x
      PROVE  x \in orphans' \/ \E v \in Workers : mine'[v] = x
    BY <1>4 DEF TypeOK, Ids
<1>5. ASSUME NEW x \in Rows(intents), intents[x].status = "PENDING"
      PROVE  x \in orphans' \/ \E v \in Workers : mine'[v] = x
    BY <1>4, <1>5 DEF LeakInv, Accounted, Rows
<1>6. ASSUME NEW x \in Rows(db), db[x].status = "PENDING"
      PROVE  x \in orphans' \/ \E v \in Workers : mine'[v] = x
  <2>1. CASE x = i
      BY <2>1 DEF TypeOK
  <2>2. CASE x # i
    <3>1. x \in Rows(Newest(k)) /\ Newest(k)[x].status = "PENDING"
        BY <1>2, <1>6, <2>2 DEF Rows, Table
    <3>. QED
        BY <1>1, <1>4, <3>1 DEF LeakInv, Accounted, Rows
  <2>. QED
      BY <2>1, <2>2
<1>7. ASSUME NEW j \in Conns, NEW x \in Rows(Newest(j)'), Newest(j)'[x].status = "PENDING"
      PROVE  x \in orphans' \/ \E v \in Workers : mine'[v] = x
    BY <1>3, <1>5, <1>6, <1>7
<1>. QED
    BY <1>5, <1>7 DEF LeakInv, Accounted

LEMMA LeakStep ==
    ASSUME TypeOK, CountInv, ViewInv, HolderInv, LeakInv, [AnyStep]_ledgervars PROVE LeakInv'
<1> USE DEF Goto, connvars, callvars
<1>1. ASSUME NEW w \in Workers,
             (\E t \in Targets : Declare(w, t)) \/ Select(w) \/ Collide(w) \/ Pass(w)
      PROVE  LeakInv'
  <2>1. /\ UNCHANGED <<intents, orphans>>
        /\ \A v \in Workers : mine[v] \in {0, mine'[v]}
      BY <1>1 DEF Declare, Select, Collide, Pass, Forgets, TypeOK
  <2>2. \A k \in Conns : Newest(k)' = Newest(k)
      BY <1>1 DEF Declare, Select, Collide, Pass, Newest, TypeOK
  <2>. QED
      BY <2>1, <2>2, LeakKept
<1>2. ASSUME NEW w \in Workers, InsertFails(w) \/ ResolveFails(w) \/ Quits(w)
      PROVE  LeakInv'
  <2>1. /\ intents' = intents /\ orphans \subseteq orphans'
        /\ \A v \in Workers : mine[v] \in {0, mine'[v]} \cup orphans'
      BY <1>2 DEF InsertFails, ResolveFails, Quits, Abandon, Forgets, TypeOK
  <2>2. \A k \in Conns : Newest(k)' = Newest(k)
    <3>1. CASE Quits(w)
        BY <3>1 DEF Quits, Newest
    <3>2. CASE WriteFails(ConnOf[w])
        BY <2>1, <3>2, FailEffect
    <3>. QED
        BY <1>2, <3>1, <3>2 DEF InsertFails, ResolveFails
  <2>. QED
      BY <2>1, <2>2, LeakKept
<1>3. ASSUME NEW w \in Workers, Insert(w) PROVE LeakInv'
  <2>1. PICK id \in Ids :
              /\ [Newest(ConnOf[w]) EXCEPT ![id] = Own(w)] \in Table
              /\ Writes(ConnOf[w], [Newest(ConnOf[w]) EXCEPT ![id] = Own(w)])
              /\ mine' = [mine EXCEPT ![w] = id]
      BY <1>3, InsertEffect
  <2>2. UNCHANGED <<intents, orphans>> /\ mine[w] = 0
      BY <1>3 DEF Insert, TypeOK
  <2>. QED
      BY <2>1, <2>2, LeakWritten
<1>4. ASSUME NEW w \in Workers, NEW f \in Finals, Resolve(w, f) PROVE LeakInv'
  <2> DEFINE row == [Own(w) EXCEPT !.status = f]
             db == [Newest(ConnOf[w]) EXCEPT ![mine[w]] = row]
  <2>1. db \in Table /\ Writes(ConnOf[w], db) /\ mine[w] \in Ids
      BY <1>4, ResolveEffect
  <2>2. UNCHANGED <<intents, orphans>> /\ mine' = [mine EXCEPT ![w] = mine[w]]
      BY <1>4 DEF Resolve, TypeOK
  <2> HIDE DEF row
  <2>. QED
      BY <2>1, <2>2, LeakWritten
<1>5. ASSUME NEW w \in Workers, CommitDeclare(w) \/ CommitResolve(w) PROVE LeakInv'
  <2> DEFINE k == ConnOf[w]
  <2>1. Commits(k) /\ k \in Conns /\ orphans' = orphans
      BY <1>5 DEF CommitDeclare, CommitResolve
  <2>2. /\ intents' = Newest(k)
        /\ \A j \in Conns : Newest(j)' = IF mode[k] = "writing" THEN Newest(k) ELSE Newest(j)
      BY <2>1, CommitEffect
  <2>3. \A v \in Workers : mine'[v] = mine[v] \/ (v = w /\ at[w] = "resolve")
      BY <1>5 DEF CommitDeclare, CommitResolve, Forgets, TypeOK
  <2>4. ASSUME at[w] = "resolve"
        PROVE  /\ intents'[mine[w]].status # "PENDING"
               /\ \A j \in Conns : Newest(j)'[mine[w]].status # "PENDING"
    <3>1. mine[w] \in Rows(Newest(k)) /\ Newest(k)[mine[w]].status # "PENDING" /\ mine[w] # 0
        BY <2>4 DEF HolderInv, TypeOK
    <3>2. ASSUME NEW j \in Conns, mode[k] # "writing", j # k
          PROVE  Newest(j)[mine[w]] = Newest(k)[mine[w]]
      <4>1. Newest(k) = intents
          BY <3>2 DEF Newest
      <4>. QED
          BY <3>1, <3>2, <4>1, HeldIsSeen
    <3>. QED
        BY <2>2, <3>1, <3>2
  <2>. QED
      BY <2>1, <2>2, <2>3, <2>4, LeakKept
<1>6. ASSUME NEW k \in Conns, Crash(k) PROVE LeakInv'
  <2>1. intents' = intents /\ orphans \subseteq orphans' /\ Newest(k)' = intents
      BY <1>6 DEF Crash, Newest, TypeOK
  <2>2. \A j \in Conns \ {k} : Newest(j)' = Newest(j)
      BY <1>6 DEF Crash, Newest, TypeOK
  <2>3. ASSUME NEW v \in Workers, mine[v] \notin {0, mine'[v]} \cup orphans'
        PROVE  /\ mine[v] \notin Rows(intents')
               /\ \A j \in Conns : mine[v] \notin Rows(Newest(j)')
    <3>1. ConnOf[v] = k /\ intents[mine[v]] = NoIntent
        BY <1>6, <2>3 DEF Crash
    <3>2. mine[v] \in Ids /\ at[v] \in {"commit", "held", "resolve"} /\ Own(v) # NoIntent
        BY <2>3 DEF TypeOK, Own, Intent, Agents
    <3>3. mine[v] \in Rows(Newest(k))
        BY <3>1, <3>2 DEF HolderInv, Rows
    <3>4. mode[k] = "writing"
        BY <3>1, <3>3 DEF Newest, Rows
    <3>5. \A j \in Conns \ {k} : Newest(j) = intents
        BY <3>4 DEF TypeOK, OtherWriter, Newest
    <3>. QED
        BY <2>1, <2>2, <3>1, <3>5 DEF Rows
  <2>. QED
      BY <2>1, <2>2, <2>3, LeakKept
<1>7. CASE UNCHANGED ledgervars
    BY <1>7, LeakKept DEF ledgervars, Newest
<1>. QED
    BY <1>1, <1>2, <1>3, <1>4, <1>5, <1>6, <1>7, LedgerCases

-----------------------------------------------------------------------------
(* What the checks of a worker alone on its connection are made against. *)

LEMMA CheckInit == InitLedger => CheckInv
BY DEF InitLedger, CheckInv, SnapshotInv, JoinedAs, LoneCheck, Newest, Rows

LEMMA RowsOnlyGrow ==
    ASSUME TypeOK, ViewInv, [AnyStep]_ledgervars PROVE Grows(intents, intents')
<1>1. ASSUME NEW w \in Workers, Commits(ConnOf[w]) PROVE Grows(intents, intents')
  <2>1. ConnOf[w] \in Conns /\ intents' = Newest(ConnOf[w])
      BY <1>1, CommitEffect
  <2>. QED
      BY <2>1 DEF ViewInv, Newest, Grows, Rows
<1>2. CASE intents' = intents
    BY <1>2 DEF Grows
<1>3. intents' = intents \/ \E w \in Workers : Commits(ConnOf[w])
    BY LedgerCases DEF Declare, Select, Collide, Pass, Insert, Resolve, CommitDeclare,
                     CommitResolve, InsertFails, ResolveFails, Quits, Crash, ledgervars
<1>. QED
    BY <1>1, <1>2, <1>3

\* A commit may resolve rows that are PENDING, and changes no other row.
LEMMA StepPrecedes ==
    ASSUME TypeOK, ViewInv, HolderInv, [AnyStep]_ledgervars PROVE Precedes(intents, intents')
<1>1. ASSUME NEW w \in Workers, Commits(ConnOf[w]), NEW i \in Rows(intents), intents'[i] # intents[i]
      PROVE  intents[i].status = "PENDING" /\ intents'[i].status # "PENDING"
  <2> DEFINE k == ConnOf[w]
  <2>1. k \in Conns /\ intents' = Newest(k)
      BY <1>1, CommitEffect
  <2>2. mode[k] = "writing" /\ view[k][i] # intents[i]
      BY <1>1, <2>1 DEF Newest
  <2>3. PICK v \in Workers : ConnOf[v] = k /\ at[v] = "resolve" /\ mine[v] = i
      BY <2>1, <2>2 DEF ViewInv
  <2>4. Newest(k)[i].status # "PENDING"
      BY <2>3 DEF HolderInv
  <2>. QED
      BY <2>1, <2>2, <2>4 DEF ViewInv
<1>2. intents' = intents \/ \E w \in Workers : Commits(ConnOf[w])
    BY LedgerCases DEF Declare, Select, Collide, Pass, Insert, Resolve, CommitDeclare,
                     CommitResolve, InsertFails, ResolveFails, Quits, Crash, ledgervars
<1>3. Grows(intents, intents')
    BY RowsOnlyGrow
<1>. QED
    BY <1>1, <1>2, <1>3 DEF Precedes, Grows

LEMMA PrecedesJoins ==
    ASSUME NEW a, NEW b, NEW c, Precedes(a, b), Precedes(b, c) PROVE Precedes(a, c)
BY DEF Precedes

LEMMA PrecedesBothWays ==
    ASSUME NEW a \in Table, NEW b \in Table, Precedes(a, b), Precedes(b, a) PROVE a = b
<1>1. \A i \in Ids : a[i] = b[i]
    BY DEF Precedes, Rows
<1>. QED
    BY <1>1 DEF Table

LEMMA SnapshotStep ==
    ASSUME TypeOK, ViewInv, HolderInv, SnapshotInv, [AnyStep]_ledgervars PROVE SnapshotInv'
<1> USE DEF connvars
<1>1. ASSUME NEW k \in Conns, mode'[k] = "reading", mode[k] # "reading" \/ view'[k] # view[k]
      PROVE  view'[k] = intents /\ intents' = intents
  <2>1. ASSUME NEW w \in Workers, InsertFails(w) \/ ResolveFails(w) PROVE FALSE
    <3>1. WriteFails(ConnOf[w])
        BY <2>1 DEF InsertFails, ResolveFails
    <3>. QED
        BY <1>1, <3>1 DEF WriteFails, TypeOK
  <2>2. ASSUME NEW w \in Workers, CommitDeclare(w) \/ CommitResolve(w) PROVE FALSE
    <3>1. Commits(ConnOf[w])
        BY <2>2 DEF CommitDeclare, CommitResolve
    <3>. QED
        BY <1>1, <3>1 DEF Commits, TypeOK
  <2>3. ASSUME NEW w \in Workers, Insert(w) \/ \E f \in Finals : Resolve(w, f) PROVE FALSE
      BY <1>1, <2>3 DEF Insert, Resolve, Writes, TypeOK
  <2>4. ASSUME NEW w \in Workers, Select(w) PROVE view'[k] = intents /\ intents' = intents
      BY <1>1, <2>4 DEF Select, TypeOK
  <2>5. ASSUME NEW j \in Conns, Crash(j) PROVE FALSE
      BY <1>1, <2>5 DEF Crash, TypeOK
  <2>6. ASSUME NEW w \in Workers,
               (\E t \in Targets : Declare(w, t)) \/ Collide(w) \/ Pass(w) \/ Quits(w)
        PROVE  FALSE
      BY <1>1, <2>6 DEF Declare, Collide, Pass, Quits
  <2>7. ~UNCHANGED ledgervars
      BY <1>1 DEF ledgervars
  <2>. QED
      BY <2>1, <2>2, <2>3, <2>4, <2>5, <2>6, <2>7, LedgerCases
<1>2. Precedes(intents, intents')
    BY StepPrecedes
<1>3. ASSUME NEW k \in Conns, mode'[k] = "reading" PROVE Precedes(view'[k], intents')
  <2>1. CASE mode[k] = "reading" /\ view'[k] = view[k]
      BY <1>2, <2>1, PrecedesJoins DEF SnapshotInv
  <2>2. CASE mode[k] # "reading" \/ view'[k] # view[k]
      BY <1>1, <1>2, <1>3, <2>2
  <2>. QED
      BY <2>1, <2>2
<1>. QED
    BY <1>3 DEF SnapshotInv

LEMMA RespectsKept ==
    ASSUME NEW found, NEW agent, Respects(intents, found, agent), Grows(intents, intents')
    PROVE  Respects(intents', found, agent)
BY DEF Respects, Grows

\* A table with the rows of one that was joined properly.
LEMMA JoinedKept ==
    ASSUME NEW old, JoinedAs(old), NEW db, Grows(intents, intents'),
           NEW i \in Rows(db), i \in Rows(old), db[i].agent = old[i].agent, joined'[i] = joined[i],
           \A w \in Workers : AgentOf[w] = db[i].agent => Alone(w)
    PROVE  Respects(intents', joined'[i], db[i].agent)
<1>1. Respects(intents, joined[i], old[i].agent)
    BY DEF JoinedAs
<1>. QED
    BY <1>1, RespectsKept

LEMMA JoinedCarried ==
    ASSUME CheckInv, joined' = joined, Grows(intents, intents'),
           intents' = intents \/ \E j \in Conns : intents' = Newest(j),
           \A k \in Conns : Newest(k)' = intents \/ \E j \in Conns : Newest(k)' = Newest(j)
    PROVE  JoinedAs(intents)' /\ \A k \in Conns : JoinedAs(Newest(k))'
<1>1. ASSUME NEW i \in Rows(intents'), \A w \in Workers : AgentOf[w] = intents'[i].agent => Alone(w)
      PROVE  Respects(intents', joined'[i], intents'[i].agent)
    BY <1>1, JoinedKept DEF CheckInv
<1>2. ASSUME NEW k \in Conns, NEW i \in Rows(Newest(k)'),
             \A w \in Workers : AgentOf[w] = Newest(k)'[i].agent => Alone(w)
      PROVE  Respects(intents', joined'[i], Newest(k)'[i].agent)
    BY <1>2, JoinedKept DEF CheckInv
<1>. QED
    BY <1>1, <1>2 DEF JoinedAs

LEMMA JoinedWritten ==
    ASSUME TypeOK, ViewInv, CheckInv, intents' = intents, NEW k \in Conns, NEW db \in Table,
           Writes(k, db),
           \A i \in Rows(intents) : joined'[i] = joined[i],
           \A i \in Rows(db) :
              \/ /\ i \in Rows(Newest(k)) /\ db[i].agent = Newest(k)[i].agent
                 /\ joined'[i] = joined[i]
              \/ (\A w \in Workers : AgentOf[w] = db[i].agent => Alone(w)) =>
                    Respects(intents, joined'[i], db[i].agent)
    PROVE  JoinedAs(intents)' /\ \A j \in Conns : JoinedAs(Newest(j))'
<1>1. Grows(intents, intents')
    BY DEF Grows
<1>2. Newest(k)' = db /\ \A j \in Conns \ {k} : Newest(j)' = intents
    BY WriteEffect
<1>3. ASSUME NEW i \in Rows(intents), \A w \in Workers : AgentOf[w] = intents[i].agent => Alone(w)
      PROVE  Respects(intents', joined'[i], intents[i].agent)
    BY <1>1, <1>3, JoinedKept DEF CheckInv
<1>4. ASSUME NEW i \in Rows(db), \A w \in Workers : AgentOf[w] = db[i].agent => Alone(w)
      PROVE  Respects(intents', joined'[i], db[i].agent)
    BY <1>1, <1>4, JoinedKept DEF CheckInv
<1>5. ASSUME NEW j \in Conns, NEW i \in Rows(Newest(j)'),
             \A w \in Workers : AgentOf[w] = Newest(j)'[i].agent => Alone(w)
      PROVE  Respects(intents', joined'[i], Newest(j)'[i].agent)
    BY <1>2, <1>3, <1>4, <1>5
<1>. QED
    BY <1>3, <1>5 DEF JoinedAs

\* No other worker's step concerns one that is alone on its connection.
LEMMA LoneKept ==
    ASSUME TypeOK, TypeOK', NEW v \in Workers, LoneCheck(v), SnapshotInv,
           Grows(intents, intents'), Precedes(intents, intents'),
           at'[v] = at[v], basis'[v] = basis[v], mode'[ConnOf[v]] = mode[ConnOf[v]],
           view'[ConnOf[v]] = view[ConnOf[v]], cursor'[ConnOf[v]] = cursor[ConnOf[v]]
    PROVE  LoneCheck(v)'
<1> DEFINE k == ConnOf[v]
<1>1. ASSUME at[v] \notin {"commit", "resolve"}, Visible(k)' = intents' PROVE Visible(k) = intents
  <2>1. CASE view[k] = NoView
      BY <2>1 DEF Visible
  <2>2. CASE view[k] # NoView
    <3>1. k \in Conns /\ mode[k] = "reading" /\ view[k] \in Table /\ intents \in Table
        BY <1>1, <2>2 DEF LoneCheck, TypeOK
    <3>2. view[k] = intents' /\ Precedes(view[k], intents)
        BY <1>1, <2>2, <3>1 DEF Visible, SnapshotInv
    <3>3. view[k] = intents
        BY <3>1, <3>2, PrecedesBothWays
    <3>. QED
        BY <2>2, <3>3 DEF Visible
  <2>. QED
      BY <2>1, <2>2
<1>2. at[v] = "insert" /\ Visible(k)' = intents' => Respects(intents', basis[v], AgentOf[v])
    BY <1>1, RespectsKept DEF LoneCheck
<1>3. at[v] = "fetch" => basis[v] \subseteq Rows(intents')
    BY DEF LoneCheck, Grows
<1>. QED
    BY <1>1, <1>2, <1>3 DEF LoneCheck

LEMMA JoinedStep ==
    ASSUME TypeOK, CountInv, ViewInv, HolderInv, CheckInv, [AnyStep]_ledgervars
    PROVE  JoinedAs(intents)' /\ \A k \in Conns : JoinedAs(Newest(k))'
<1> USE DEF Goto, connvars, callvars
<1> DEFINE Goal == JoinedAs(intents)' /\ \A k \in Conns : JoinedAs(Newest(k))'
<1>0. Grows(intents, intents')
    BY RowsOnlyGrow
<1>1. ASSUME NEW w \in Workers,
             \/ \E t \in Targets : Declare(w, t)
             \/ Select(w) \/ Collide(w) \/ Pass(w) \/ Quits(w)
      PROVE  Goal
  <2>1. UNCHANGED <<intents, joined>>
      BY <1>1 DEF Declare, Select, Collide, Pass, Quits
  <2>2. \A k \in Conns : Newest(k)' = Newest(k)
      BY <1>1 DEF Declare, Select, Collide, Pass, Quits, Newest, TypeOK
  <2>. QED
      BY <1>0, <2>1, <2>2, JoinedCarried
<1>2. ASSUME NEW w \in Workers, InsertFails(w) \/ ResolveFails(w) PROVE Goal
  <2>1. UNCHANGED <<intents, joined>> /\ WriteFails(ConnOf[w]) /\ ConnOf[w] \in Conns
      BY <1>2 DEF InsertFails, ResolveFails
  <2>2. \A k \in Conns : Newest(k)' = Newest(k)
      BY <2>1, FailEffect
  <2>. QED
      BY <1>0, <2>1, <2>2, JoinedCarried
<1>3. ASSUME NEW w \in Workers, Insert(w) PROVE Goal
  <2> DEFINE k == ConnOf[w]
  <2>1. PICK id \in Ids :
              /\ Newest(k)[id] = NoIntent
              /\ [Newest(k) EXCEPT ![id] = Own(w)] \in Table
              /\ Writes(k, [Newest(k) EXCEPT ![id] = Own(w)])
              /\ joined' = [joined EXCEPT ![id] = basis[w]]
      BY <1>3, InsertEffect
  <2>2. /\ k \in Conns /\ CanWrite(k) /\ intents' = intents /\ at[w] = "insert"
      BY <1>3, <2>1 DEF Insert, Writes
  <2>3. joined'[id] = basis[w] /\ \A i \in Ids \ {id} : joined'[i] = joined[i]
      BY <2>1 DEF TypeOK
  <2>4. Newest(k) \in Table /\ id \notin Rows(Newest(k)) /\ id \notin Rows(intents)
      BY <2>1, <2>2, WriterSees DEF Rows, Grows
  <2>5. \A i \in Rows(intents) : joined'[i] = joined[i]
      BY <2>3, <2>4 DEF Rows
  <2>6. ASSUME NEW i \in Rows([Newest(k) EXCEPT ![id] = Own(w)]), i # id
        PROVE  /\ i \in Rows(Newest(k)) /\ joined'[i] = joined[i]
               /\ [Newest(k) EXCEPT ![id] = Own(w)][i] = Newest(k)[i]
      BY <2>3, <2>4, <2>6 DEF Rows, Table
  <2>7. /\ [Newest(k) EXCEPT ![id] = Own(w)][id].agent = AgentOf[w]
        /\ Alone(w) => Respects(intents, joined'[id], AgentOf[w])
    <3>1. Alone(w) => Visible(k) = intents
        BY <2>2 DEF CheckInv, LoneCheck, CanWrite
    <3>. QED
        BY <2>3, <2>2, <2>4, <3>1 DEF CheckInv, LoneCheck, Own, Table
  <2> DEFINE db == [Newest(k) EXCEPT ![id] = Own(w)]
  <2>8. ASSUME NEW i \in Rows(db)
        PROVE  \/ /\ i \in Rows(Newest(k)) /\ db[i].agent = Newest(k)[i].agent
                  /\ joined'[i] = joined[i]
               \/ (\A v \in Workers : AgentOf[v] = db[i].agent => Alone(v)) =>
                     Respects(intents, joined'[i], db[i].agent)
      BY <2>6, <2>7
  <2>9. db \in Table /\ Writes(k, db)
      BY <2>1
  <2> HIDE DEF db, k
  <2>. QED
      BY <2>2, <2>5, <2>8, <2>9, JoinedWritten
<1>4. ASSUME NEW w \in Workers, NEW f \in Finals, Resolve(w, f) PROVE Goal
  <2> DEFINE k == ConnOf[w]
             row == [Own(w) EXCEPT !.status = f]
             db == [Newest(k) EXCEPT ![mine[w]] = row]
  <2>1. /\ db \in Table /\ Writes(k, db) /\ mine[w] \in Ids /\ Newest(k)[mine[w]] = Own(w)
        /\ k \in Conns /\ CanWrite(k)
      BY <1>4, ResolveEffect DEF Writes
  <2>2. UNCHANGED <<intents, joined>> /\ Newest(k) \in Table
      BY <1>4, <2>1, WriterSees DEF Resolve
  <2>3. Own(w) # NoIntent /\ row.agent = Own(w).agent
      BY DEF Own, Intent, Agents, TypeOK
  <2>4. \A i \in Rows(db) : i \in Rows(Newest(k)) /\ db[i].agent = Newest(k)[i].agent
    <3> HIDE DEF row
    <3>. QED
        BY <2>1, <2>2, <2>3 DEF Rows, Table
  <2>. QED
      BY <2>1, <2>2, <2>4, JoinedWritten
<1>5. ASSUME NEW w \in Workers, CommitDeclare(w) \/ CommitResolve(w) PROVE Goal
  <2>1. Commits(ConnOf[w]) /\ ConnOf[w] \in Conns /\ joined' = joined
      BY <1>5 DEF CommitDeclare, CommitResolve
  <2>. QED
      BY <1>0, <2>1, CommitEffect, JoinedCarried
<1>6. ASSUME NEW k \in Conns, Crash(k) PROVE Goal
  <2>1. UNCHANGED <<intents, joined>>
      BY <1>6 DEF Crash
  <2>2. Newest(k)' = intents /\ \A j \in Conns \ {k} : Newest(j)' = Newest(j)
      BY <1>6 DEF Crash, Newest, TypeOK
  <2>. QED
      BY <1>0, <2>1, <2>2, JoinedCarried
<1>7. CASE UNCHANGED ledgervars
    BY <1>0, <1>7, JoinedCarried DEF ledgervars, Newest
<1>. QED
    BY <1>1, <1>2, <1>3, <1>4, <1>5, <1>6, <1>7, LedgerCases

LEMMA LoneStep ==
    ASSUME TypeOK, CountInv, ViewInv, HolderInv, CheckInv, [AnyStep]_ledgervars,
           NEW v \in Workers, Alone(v)
    PROVE  LoneCheck(v)'
<1> USE DEF Goto, connvars, callvars
<1> DEFINE k == ConnOf[v]
<1>1. /\ LoneCheck(v) /\ k \in Conns /\ Grows(intents, intents')
      /\ SnapshotInv /\ Precedes(intents, intents') /\ TypeOK'
    BY RowsOnlyGrow, StepPrecedes, TypeStep DEF CheckInv
<1>2. ASSUME NEW w \in Workers, w # v,
             \/ \E t \in Targets : Declare(w, t)
             \/ Select(w) \/ Collide(w) \/ Pass(w) \/ Insert(w) \/ CommitDeclare(w)
             \/ \E f \in Finals : Resolve(w, f)
             \/ CommitResolve(w)
             \/ InsertFails(w) \/ ResolveFails(w)
             \/ Quits(w)
      PROVE  LoneCheck(v)'
  <2>1. ConnOf[w] # k
      BY <1>2 DEF Alone
  <2>2. at'[v] = at[v] /\ basis'[v] = basis[v]
      BY <1>2 DEF Declare, Select, Collide, Pass, Insert, CommitDeclare, Resolve, CommitResolve,
                  InsertFails, ResolveFails, Quits, Abandon, Forgets, TypeOK
  <2>3. mode'[k] = mode[k] /\ view'[k] = view[k] /\ cursor'[k] = cursor[k]
      BY <1>2, <2>1 DEF Declare, Select, Collide, Pass, Fetched, Insert, CommitDeclare, Resolve,
                  CommitResolve, InsertFails, ResolveFails, Quits, Writes, WriteFails,
                  Commits, TypeOK
  <2>. QED
      BY <1>1, <2>2, <2>3, LoneKept
<1>3. ASSUME \E t \in Targets : Declare(v, t) PROVE LoneCheck(v)'
    BY <1>1, <1>3 DEF Declare, LoneCheck, TypeOK
<1>4. ASSUME Select(v) PROVE LoneCheck(v)'
  <2>1. /\ at'[v] = "fetch" /\ mode'[k] # "writing" /\ intents' = intents
        /\ cursor'[k] = PendingOn(Visible(k), target[v])
      BY <1>1, <1>4 DEF Select, LoneCheck, TypeOK
  <2>2. basis'[v] = PendingOn(intents, target[v])
      BY <1>4 DEF Select, TypeOK
  <2>3. Visible(k)' = Visible(k)
      BY <1>1, <1>4 DEF Select, Visible, TypeOK
  <2>4. /\ basis'[v] \subseteq Rows(intents')
        /\ Visible(k)' = intents' => cursor'[k] = basis'[v]
      BY <2>1, <2>2, <2>3 DEF PendingOn, Rows
  <2>. QED
      BY <2>1, <2>4 DEF LoneCheck
<1>5. ASSUME Collide(v) PROVE LoneCheck(v)'
    BY <1>1, <1>5 DEF Collide, LoneCheck, TypeOK
<1>6. ASSUME Pass(v) PROVE LoneCheck(v)'
  <2>1. /\ at[v] = "fetch" /\ ~Taken(v) /\ UNCHANGED <<intents, mode, view, basis>>
        /\ at'[v] = "insert"
      BY <1>6 DEF Pass, TypeOK
  <2>2. /\ mode[k] # "writing" /\ basis[v] \subseteq Rows(intents)
        /\ Visible(k) = intents => cursor[k] = basis[v]
      BY <1>1, <2>1 DEF LoneCheck
  <2>3. Visible(k)' = Visible(k)
      BY <2>1 DEF Visible
  <2>4. ASSUME Visible(k) = intents PROVE Respects(intents, basis[v], AgentOf[v])
    <3>1. CASE basis[v] = {}
        BY <3>1 DEF Respects
    <3>2. CASE basis[v] # {}
      <4>1. Min(basis[v]) \in basis[v]
          BY <3>2, MinOfRows DEF TypeOK
      <4>2. Visible(k)[Min(basis[v])].agent = AgentOf[v]
          BY <2>1, <2>2, <2>4, <3>2 DEF Taken
      <4>. QED
          BY <2>2, <2>4, <4>1, <4>2 DEF Respects
    <3>. QED
        BY <3>1, <3>2
  <2>. QED
      BY <2>1, <2>2, <2>3, <2>4 DEF LoneCheck
<1>7. ASSUME Insert(v) \/ \E f \in Finals : Resolve(v, f) PROVE LoneCheck(v)'
    BY <1>7 DEF Insert, Resolve, LoneCheck, TypeOK
<1>8. ASSUME CommitDeclare(v) \/ CommitResolve(v) PROVE LoneCheck(v)'
    BY <1>1, <1>8 DEF CommitDeclare, CommitResolve, Commits, LoneCheck, TypeOK
<1>9. ASSUME InsertFails(v) \/ ResolveFails(v) \/ Quits(v) PROVE LoneCheck(v)'
  <2>1. at'[v] = "idle" /\ at[v] \notin {"commit", "resolve"}
      BY <1>9 DEF InsertFails, ResolveFails, Quits, UsesCursor, Abandon, TypeOK
  <2>2. mode'[k] # "writing"
      BY <1>1, <1>9, <2>1 DEF InsertFails, ResolveFails, Quits, WriteFails, LoneCheck, TypeOK
  <2>. QED
      BY <2>1, <2>2 DEF LoneCheck
<1>10. ASSUME NEW j \in Conns, Crash(j) PROVE LoneCheck(v)'
  <2>1. CASE j = k
      BY <1>1, <1>10, <2>1 DEF Crash, LoneCheck, TypeOK
  <2>2. CASE j # k
    <3>1. /\ at'[v] = at[v] /\ basis'[v] = basis[v] /\ mode'[k] = mode[k]
          /\ view'[k] = view[k] /\ cursor'[k] = cursor[k]
        BY <1>1, <1>10, <2>2 DEF Crash, TypeOK
    <3>. QED
        BY <1>1, <3>1, LoneKept
  <2>. QED
      BY <2>1, <2>2
<1>11. CASE UNCHANGED ledgervars
    BY <1>1, <1>11, LoneKept DEF ledgervars
<1>. QED
    BY <1>2, <1>3, <1>4, <1>5, <1>6, <1>7, <1>8, <1>9, <1>10, <1>11, LedgerCases

LEMMA CheckStep ==
    ASSUME TypeOK, CountInv, ViewInv, HolderInv, CheckInv, [AnyStep]_ledgervars PROVE CheckInv'
BY JoinedStep, LoneStep, SnapshotStep DEF CheckInv, Alone

-----------------------------------------------------------------------------
(* What a step may not do to rows that somebody relies on. *)

LEMMA FinalStays ==
    ASSUME TypeOK, ViewInv, [AnyStep]_ledgervars, NEW i \in Rows(intents),
           intents[i].status # "PENDING"
    PROVE  intents'[i] = intents[i]
<1>1. ASSUME NEW w \in Workers, Commits(ConnOf[w]) PROVE intents'[i] = intents[i]
  <2>1. ConnOf[w] \in Conns /\ intents' = Newest(ConnOf[w])
      BY <1>1, CommitEffect
  <2>. QED
      BY <2>1 DEF ViewInv, Newest
<1>2. intents' = intents \/ \E w \in Workers : Commits(ConnOf[w])
    BY LedgerCases DEF Declare, Select, Collide, Pass, Insert, Resolve, CommitDeclare,
                       CommitResolve, InsertFails, ResolveFails, Quits, Crash, ledgervars
<1>. QED
    BY <1>1, <1>2

\* The row of a call that is about to commit is nobody else's to write.
LEMMA RowStands ==
    ASSUME TypeOK, CountInv, ViewInv, HolderInv, [AnyStep]_ledgervars, NEW v \in Workers,
           at[v] \in {"commit", "resolve"}, at'[v] = at[v]
    PROVE  mine'[v] = mine[v] /\ Newest(ConnOf[v])'[mine[v]] = Newest(ConnOf[v])[mine[v]]
<1> USE DEF Goto, connvars, callvars
<1> DEFINE Stands == Newest(ConnOf[v])'[mine[v]] = Newest(ConnOf[v])[mine[v]]
<1>1. mine[v] # 0 /\ mine[v] \in Ids /\ ConnOf[v] \in Conns
    BY DEF TypeOK
<1>2. ASSUME NEW w \in Workers,
             \/ \E t \in Targets : Declare(w, t)
             \/ Select(w) \/ Collide(w) \/ Pass(w) \/ Quits(w)
      PROVE  mine'[v] = mine[v] /\ Stands
  <2>1. mine'[v] = mine[v]
      BY <1>2 DEF Declare, Select, Collide, Pass, Quits, UsesCursor, Abandon, Forgets, TypeOK
  <2>2. Newest(ConnOf[v])' = Newest(ConnOf[v])
      BY <1>1, <1>2 DEF Declare, Select, Collide, Pass, Quits, Newest, TypeOK
  <2>. QED
      BY <2>1, <2>2
<1>3. ASSUME NEW w \in Workers, InsertFails(w) \/ ResolveFails(w)
      PROVE  mine'[v] = mine[v] /\ Stands
  <2>1. /\ intents' = intents /\ WriteFails(ConnOf[w]) /\ ConnOf[w] \in Conns
        /\ mine'[v] = mine[v]
      BY <1>3 DEF InsertFails, ResolveFails, Abandon, Forgets, TypeOK
  <2>. QED
      BY <1>1, <2>1, FailEffect
<1>4. ASSUME NEW w \in Workers, Insert(w) PROVE mine'[v] = mine[v] /\ Stands
  <2> DEFINE k == ConnOf[w]
  <2>1. PICK id \in Ids :
              /\ Newest(k)[id] = NoIntent
              /\ [Newest(k) EXCEPT ![id] = Own(w)] \in Table
              /\ Writes(k, [Newest(k) EXCEPT ![id] = Own(w)])
              /\ mine' = [mine EXCEPT ![w] = id]
      BY <1>4, InsertEffect
  <2>2. k \in Conns /\ CanWrite(k) /\ intents' = intents /\ v # w /\ mine'[v] = mine[v]
      BY <1>4, <2>1 DEF Insert, Writes, TypeOK
  <2>3. mine[v] # id /\ Newest(k) \in Table
      BY <1>1, <2>1, <2>2, MineIsRow, WriterSees DEF Rows
  <2>4. Newest(k)' = [Newest(k) EXCEPT ![id] = Own(w)]
      BY <2>1, <2>2, WriteEffect
  <2>5. \A j \in Conns \ {k} : Newest(j)' = Newest(j)
      BY <2>1, <2>2, WriteEffect
  <2>. QED
      BY <1>1, <2>2, <2>3, <2>4, <2>5 DEF Table
<1>5. ASSUME NEW w \in Workers, NEW f \in Finals, Resolve(w, f) PROVE mine'[v] = mine[v] /\ Stands
  <2> DEFINE k == ConnOf[w]
             row == [Own(w) EXCEPT !.status = f]
             db == [Newest(k) EXCEPT ![mine[w]] = row]
  <2>1. /\ db \in Table /\ Writes(k, db) /\ mine[w] \in Ids
        /\ k \in Conns /\ CanWrite(k)
      BY <1>5, ResolveEffect DEF Writes
  <2>2. UNCHANGED <<intents, mine>> /\ v # w
      BY <1>5 DEF Resolve
  <2>3. mine[v] # mine[w] /\ Newest(k) \in Table
      BY <1>1, <2>1, <2>2, WriterSees DEF HolderInv
  <2>4. Newest(k)' = db
      BY <2>1, <2>2, WriteEffect
  <2>5. \A j \in Conns \ {k} : Newest(j)' = Newest(j)
      BY <2>1, <2>2, WriteEffect
  <2> HIDE DEF row
  <2>. QED
      BY <1>1, <2>2, <2>3, <2>4, <2>5 DEF Table
<1>6. ASSUME NEW w \in Workers, CommitDeclare(w) \/ CommitResolve(w)
      PROVE  mine'[v] = mine[v] /\ Stands
  <2> DEFINE k == ConnOf[w]
  <2>1. Commits(k) /\ k \in Conns /\ mine'[v] = mine[v]
      BY <1>6 DEF CommitDeclare, CommitResolve, Forgets, TypeOK
  <2>2. Newest(ConnOf[v])' = IF mode[k] = "writing" THEN Newest(k) ELSE Newest(ConnOf[v])
      BY <1>1, <2>1, CommitEffect
  <2>3. CASE mode[k] # "writing" \/ ConnOf[v] = k
      BY <2>1, <2>2, <2>3
  <2>4. CASE mode[k] = "writing" /\ ConnOf[v] # k
    <3>1. Newest(ConnOf[v]) = intents
        BY <1>1, <2>1, <2>4 DEF Newest, TypeOK, OtherWriter
    <3>2. Own(v) # NoIntent
        BY DEF TypeOK, Own, Intent, Agents
    <3>3. mine[v] \in Rows(intents)
        BY <1>1, <3>1, <3>2 DEF HolderInv, Rows
    <3>. QED
        BY <1>1, <2>1, <2>2, <2>4, <3>1, <3>3, HeldIsSeen
  <2>. QED
      BY <2>3, <2>4
<1>7. ASSUME NEW k \in Conns, Crash(k) PROVE mine'[v] = mine[v] /\ Stands
  <2>1. ConnOf[v] # k /\ mine'[v] = mine[v]
      BY <1>7 DEF Crash, TypeOK
  <2>. QED
      BY <1>1, <1>7, <2>1 DEF Crash, Newest, TypeOK
<1>8. CASE UNCHANGED ledgervars
    BY <1>8 DEF ledgervars, Newest
<1>. QED
    BY <1>2, <1>3, <1>4, <1>5, <1>6, <1>7, <1>8, LedgerCases

-----------------------------------------------------------------------------
(* The theorems. *)

LEMMA IntentInit == InitLedger => IntentInv
BY TypeInit, CountInit, ViewInit, HolderInit, LeakInit, CheckInit DEF IntentInv

LEMMA IntentStep == IntentInv /\ [AnyStep]_ledgervars => IntentInv'
BY TypeStep, CountStep, ViewStep, HolderStep, LeakStep, CheckStep DEF IntentInv

LEMMA HeldIsOwn ==
    ASSUME TypeOK, HolderInv, NEW w \in Workers, at[w] = "held"
    PROVE  /\ mine[w] \in Rows(intents) /\ intents[mine[w]] = Own(w)
           /\ intents[mine[w]].status = "PENDING"
<1>1. mine[w] \in Ids /\ Own(w) # NoIntent /\ Own(w).status = "PENDING"
    BY DEF TypeOK, Own, Intent, Agents
<1>. QED
    BY <1>1 DEF HolderInv, Rows

\* The inductive invariant of the ledger holds in every reachable state: each thread's
\* intent is its own row, and stands as its thread left it, whichever thread of the
\* process commits the shared connection (intent_ledger.py:34-63).
THEOREM IntentInvariant == Spec => []IntentInv
<1>1. InitLedger => IntentInv
    BY IntentInit
<1>2. IntentInv /\ [NextLedger]_ledgervars => IntentInv'
    BY IntentStep DEF AnyStep
<1>. QED
    BY <1>1, <1>2, PTL DEF Spec

\* An agent that shares its connection with no other thread gets a target that another
\* agent's committed intent held when its check ran only if an intent of its own came
\* before that one: from a snapshot without that row no INSERT gets through
\* (intent_ledger.py:34-54).
THEOREM EarlierHoldersAreRespected == Spec => []RespectsEarlierHolders
<1>1. ASSUME IntentInv PROVE RespectsEarlierHolders
  <2>1. ASSUME NEW i \in Ids, NEW j \in joined[i], intents[i] # NoIntent,
               \A w \in Workers : AgentOf[w] = intents[i].agent => Alone(w),
               intents[j].agent # intents[i].agent
        PROVE  \E k \in joined[i] : k < j /\ intents[k].agent = intents[i].agent
    <3>1. joined[i] \subseteq Ids /\ Respects(intents, joined[i], intents[i].agent)
        BY <1>1, <2>1 DEF IntentInv, CheckInv, JoinedAs, TypeOK, Rows
    <3>2. Min(joined[i]) \in joined[i] /\ Min(joined[i]) <= j
        BY <2>1, <3>1, MinOfRows
    <3>3. intents[Min(joined[i])].agent = intents[i].agent
        BY <2>1, <3>1 DEF Respects
    <3>4. Min(joined[i]) # j /\ Min(joined[i]) \in Nat /\ j \in Nat
        BY <2>1, <3>1, <3>2, <3>3 DEF Ids
    <3>5. Min(joined[i]) < j
        BY <3>2, <3>4
    <3>. QED
        BY <3>2, <3>3, <3>5
  <2>. QED
      BY <2>1 DEF RespectsEarlierHolders
<1>. QED
    BY <1>1, IntentInvariant, PTL

\* From the return of declare_intent to the call of resolve_intent, the intent is in
\* the committed table and PENDING (intent_ledger.py:44-55).
THEOREM HeldIntentIsCommitted == Spec => []HeldIsCommitted
<1>1. IntentInv => HeldIsCommitted
    BY HeldIsOwn DEF IntentInv, HeldIsCommitted, Rows
<1>. QED
    BY <1>1, IntentInvariant, PTL

\* Only a crash or an exception out of resolve_intent leaves a PENDING row that no
\* thread will resolve (intent_ledger.py:57-63).
THEOREM LeaksAreAccounted == Spec => []NoSilentLeak
<1>1. IntentInv => NoSilentLeak
    BY DEF IntentInv, LeakInv, Accounted, NoSilentLeak, PendingOn, Rows
<1>. QED
    BY <1>1, IntentInvariant, PTL

\* No snapshot and no open transaction brings a resolved intent back
\* (intent_ledger.py:57-63).
THEOREM ResolvedStays == Spec => ResolvedIsFinal
<1>1. IntentInv /\ [NextLedger]_ledgervars =>
          [\A i \in Ids : intents[i] # NoIntent /\ intents[i].status # "PENDING" =>
               intents'[i] = intents[i]]_ledgervars
    BY FinalStays DEF AnyStep, IntentInv, Rows
<1>. QED
    BY <1>1, IntentInvariant, PTL DEF Spec, ResolvedIsFinal
=============================================================================
