-------------------------- MODULE CowSandboxProofs --------------------------
(***************************************************************************)
(* Proofs about the copy-on-write state graph, for every set of ids, nodes *)
(* and values, every number of branches, and any order of the calls.       *)
(***************************************************************************)
EXTENDS CowSandboxProperties, FiniteSetTheorems, SequenceTheorems, TLAPS

USE CowAssumption

Counts(es) == [e \in Edges |-> Cardinality({i \in DOMAIN es : es[i] = e})]

LEMMA CountsAreNumbers ==
    ASSUME NEW es \in Seq(Edges) PROVE Counts(es) \in [Edges -> Nat]
<1> SUFFICES ASSUME NEW e \in Edges
             PROVE  Cardinality({i \in DOMAIN es : es[i] = e}) \in Nat
    BY DEF Counts
<1>1. IsFiniteSet(1..Len(es)) /\ DOMAIN es = 1..Len(es)
    BY FS_Interval
<1>2. IsFiniteSet({i \in DOMAIN es : es[i] = e})
    BY <1>1, FS_Subset
<1> QED
    BY <1>2, FS_CardinalityType

(* Hashes of a graph and of a delta whose data exists. *)
LEMMA RootType ==
    ASSUME NEW ns \in [NodeIds -> Cells \cup {NoNode}], NEW es \in Seq(Edges),
           heap \in [Cells -> Values \cup {None}],
           \A n \in NodeIds : ns[n] \in Cells => heap[ns[n]] # None
    PROVE  Root(ns, es) \in Roots
<1>1. \A n \in NodeIds : Content(ns[n]) \in Contents
    BY DEF Content, Contents
<1>2. Counts(es) \in [Edges -> Nat]
    BY CountsAreNumbers
<1> QED
    BY <1>1, <1>2 DEF Root, Roots, Counts

LEMMA DeltaType ==
    ASSUME DataInv, BranchInv, NEW b \in Branches, status[b] # "unborn"
    PROVE  DeltaHash(b) \in Deltas
<1>1. \A n \in NodeIds : Content(delta[b][n]) \in Contents \cup {Untouched}
    BY DEF DataInv, Content, Contents
<1>2. bid[b] \in Ids /\ base[b] \in Roots /\ added[b] \in Seq(Edges)
    BY DEF BranchInv
<1> QED
    BY <1>1, <1>2 DEF DeltaHash, Deltas

-----------------------------------------------------------------------------
LEMMA DataStep ==
    ASSUME DataInv, [Next]_vars PROVE DataInv'
<1> USE DEF DataInv, data, master, branchvars, ghosts
<1>1. ASSUME NEW b \in Branches, NEW id \in Ids, Fork(b, id) PROVE DataInv'
    BY <1>1 DEF Fork
<1>2. ASSUME NEW b \in Branches, NEW n \in NodeIds, GetNode(b, n) PROVE DataInv'
    BY <1>2 DEF GetNode
<1>3. ASSUME NEW b \in Branches, NEW n \in NodeIds, DeleteNode(b, n) PROVE DataInv'
    BY <1>3 DEF DeleteNode
<1>4. ASSUME NEW b \in Branches, NEW n \in NodeIds, NEW v \in Written, SetNode(b, n, v)
      PROVE  DataInv'
  <2> DEFINE new == CHOOSE c \in Cells : heap[c] = None
  <2>1. new \in Cells
    BY <1>4 DEF SetNode
  <2>2. /\ heap' = [heap EXCEPT ![new] = v] /\ held' = held \cup {new}
        /\ delta' = [delta EXCEPT ![b][n] = new] /\ nodes' = nodes
    BY <1>4 DEF SetNode
  <2>3. v \in Values /\ v # None
    OBVIOUS
  <2> HIDE DEF new
  <2>4. \A c \in Cells : heap'[c] = IF c = new THEN v ELSE heap[c]
    BY <2>1, <2>2
  <2>5. heap' \in [Cells -> Values \cup {None}]
    BY <2>1, <2>2, <2>3
  <2>6. \A c \in Cells : heap[c] # None \/ c = new => heap'[c] # None
    BY <2>3, <2>4
  <2>7. delta' \in [Branches -> [NodeIds -> Cells \cup {NoNode, Untouched}]]
    BY <2>1, <2>2
  <2>8. \A a \in Branches, m \in NodeIds : delta'[a][m] \in {delta[a][m], new}
    BY <2>2
  <2>9. held' \subseteq {c \in Cells : heap'[c] # None}
    BY <2>1, <2>2, <2>6
  <2>10. \A m \in NodeIds : nodes'[m] \in Cells => heap'[nodes'[m]] # None
    BY <2>2, <2>6
  <2>11. \A a \in Branches, m \in NodeIds :
             delta'[a][m] \in Cells => heap'[delta'[a][m]] # None
    BY <2>6, <2>8
  <2> QED
    BY <2>2, <2>5, <2>7, <2>9, <2>10, <2>11
<1>5. ASSUME NEW b \in Branches, NEW n \in NodeIds, NEW c \in Cells, SetSharedNode(b, n, c)
      PROVE  DataInv'
    BY <1>5 DEF SetSharedNode
<1>6. ASSUME NEW b \in Branches, NEW e \in Edges, AddEdge(b, e) PROVE DataInv'
    BY <1>6 DEF AddEdge
<1>7. ASSUME NEW b \in Branches, Notarise(b) PROVE DataInv'
    BY <1>7 DEF Notarise
<1>8. ASSUME NEW b \in Branches, NEW r \in Receipts(Hashes), Merge(b, r) PROVE DataInv'
  <2>1. nodes' = Merged(b) /\ UNCHANGED <<heap, held, delta>>
    BY <1>8 DEF Merge
  <2>2. \A n \in NodeIds : Merged(b)[n] = IF delta[b][n] = Untouched THEN nodes[n]
                                          ELSE delta[b][n]
    BY DEF Merged
  <2> QED
    BY <2>1, <2>2 DEF Merged
<1>9. ASSUME NEW b \in Branches, Discarded(b) PROVE DataInv'
    BY <1>9 DEF Discarded
<1>10. ASSUME NEW c \in Cells, NEW v \in Values, ChangeInPlace(c, v) PROVE DataInv'
    BY <1>10 DEF ChangeInPlace
<1>11. CASE UNCHANGED vars
    BY <1>11 DEF vars
<1> QED
    BY <1>1, <1>2, <1>3, <1>4, <1>5, <1>6, <1>7, <1>8, <1>9, <1>10, <1>11
    DEF Next, Reject, Discard

LEMMA BranchStep ==
    ASSUME TypeOK, [Next]_vars PROVE BranchInv'
<1> USE DEF TypeOK, BranchInv, data, master, branchvars, ghosts
<1>1. ASSUME NEW b \in Branches, NEW id \in Ids, Fork(b, id) PROVE BranchInv'
  <2>1. Root(nodes, edges) \in Roots
    BY RootType DEF DataInv
  <2> QED
    BY <1>1, <2>1 DEF Fork
<1>2. ASSUME NEW b \in Branches, NEW n \in NodeIds, GetNode(b, n) PROVE BranchInv'
    BY <1>2 DEF GetNode
<1>3. ASSUME NEW b \in Branches, NEW n \in NodeIds, DeleteNode(b, n) PROVE BranchInv'
    BY <1>3 DEF DeleteNode
<1>4. ASSUME NEW b \in Branches, NEW n \in NodeIds, NEW v \in Written, SetNode(b, n, v)
      PROVE  BranchInv'
    BY <1>4 DEF SetNode
<1>5. ASSUME NEW b \in Branches, NEW n \in NodeIds, NEW c \in Cells, SetSharedNode(b, n, c)
      PROVE  BranchInv'
    BY <1>5 DEF SetSharedNode
<1>6. ASSUME NEW b \in Branches, NEW e \in Edges, AddEdge(b, e) PROVE BranchInv'
  <2>1. Append(added[b], e) \in Seq(Edges)
    OBVIOUS
  <2> QED
    BY <1>6, <2>1 DEF AddEdge
<1>7. ASSUME NEW b \in Branches, Notarise(b) PROVE BranchInv'
  <2>1. DeltaHash(b) \in Deltas
    BY <1>7, DeltaType DEF Notarise
  <2> QED
    BY <1>7, <2>1 DEF Notarise
<1>8. ASSUME NEW b \in Branches, NEW r \in Receipts(Hashes), Merge(b, r) PROVE BranchInv'
  <2>1. r \in Receipts(Deltas \cup {NoHash})
    BY DEF Receipts, Hashes
  <2>2. status[b] = "ACTIVE" /\ bid[b] \in Ids
    BY <1>8 DEF Merge
  <2> QED
    BY <1>8, <2>1, <2>2 DEF Merge
<1>9. ASSUME NEW b \in Branches, status[b] # "unborn", Discarded(b) PROVE BranchInv'
    BY <1>9 DEF Discarded
<1>10. ASSUME NEW c \in Cells, NEW v \in Values, ChangeInPlace(c, v) PROVE BranchInv'
    BY <1>10 DEF ChangeInPlace
<1>11. CASE UNCHANGED vars
    BY <1>11 DEF vars
<1> QED
    BY <1>1, <1>2, <1>3, <1>4, <1>5, <1>6, <1>7, <1>8, <1>9, <1>10, <1>11
    DEF Next, Reject, Discard

LEMMA TypeStep ==
    ASSUME TypeOK, [Next]_vars PROVE TypeOK'
<1> DEFINE Rest == /\ edges \in Seq(Edges) /\ history \in Seq(Entries)
                   /\ writes \in 0..MaxWrites /\ changes \in 0..MaxChanges
                   /\ unaudited \in BOOLEAN
<1> SUFFICES Rest'
    BY DataStep, BranchStep DEF TypeOK
<1> USE DEF TypeOK, data, master, branchvars, ghosts
<1>1. ASSUME NEW b \in Branches, NEW id \in Ids, Fork(b, id) PROVE Rest'
    BY <1>1 DEF Fork
<1>2. ASSUME NEW b \in Branches, NEW n \in NodeIds, GetNode(b, n) PROVE Rest'
    BY <1>2 DEF GetNode
<1>3. ASSUME NEW b \in Branches, NEW n \in NodeIds, DeleteNode(b, n) PROVE Rest'
    BY <1>3 DEF DeleteNode, Writes
<1>4. ASSUME NEW b \in Branches, NEW n \in NodeIds, NEW v \in Written, SetNode(b, n, v)
      PROVE  Rest'
    BY <1>4 DEF SetNode, Writes
<1>5. ASSUME NEW b \in Branches, NEW n \in NodeIds, NEW c \in Cells, SetSharedNode(b, n, c)
      PROVE  Rest'
    BY <1>5 DEF SetSharedNode, Writes
<1>6. ASSUME NEW b \in Branches, NEW e \in Edges, AddEdge(b, e) PROVE Rest'
    BY <1>6 DEF AddEdge, Writes
<1>7. ASSUME NEW b \in Branches, Notarise(b) PROVE Rest'
    BY <1>7 DEF Notarise
<1>8. ASSUME NEW b \in Branches, NEW r \in Receipts(Hashes), Merge(b, r) PROVE Rest'
  <2>1. edges \o added[b] \in Seq(Edges)
    BY DEF BranchInv
  <2>2. Merged(b) \in [NodeIds -> Cells \cup {NoNode}]
    BY DEF DataInv, Merged
  <2>3. \A n \in NodeIds : Merged(b)[n] \in Cells => heap[Merged(b)[n]] # None
    BY DEF DataInv, Merged
  <2>4. Root(Merged(b), edges \o added[b]) \in Roots
    BY <2>1, <2>2, <2>3, RootType DEF DataInv
  <2>5. DeltaHash(b) \in Deltas /\ bid[b] \in Ids
    BY <1>8, DeltaType DEF Merge, BranchInv
  <2>6. Commit(b) \in Entries
    BY <2>4, <2>5 DEF Commit, Entries
  <2>7. Append(history, Commit(b)) \in Seq(Entries)
    BY <2>6
  <2>8. edges' \in Seq(Edges) /\ history' \in Seq(Entries) /\ unaudited' \in BOOLEAN
    BY <1>8, <2>1, <2>7 DEF Merge
  <2> QED
    BY <1>8, <2>8 DEF Merge
<1>9. ASSUME NEW b \in Branches, Discarded(b) PROVE Rest'
    BY <1>9 DEF Discarded
<1>10. ASSUME NEW c \in Cells, NEW v \in Values, ChangeInPlace(c, v) PROVE Rest'
    BY <1>10 DEF ChangeInPlace
<1>11. CASE UNCHANGED vars
    BY <1>11 DEF vars
<1> QED
    BY <1>1, <1>2, <1>3, <1>4, <1>5, <1>6, <1>7, <1>8, <1>9, <1>10, <1>11
    DEF Next, Reject, Discard

\* The types of the graph, its branches and its history, and that no node of the
\* master or of a branch ever refers to data that does not exist.
THEOREM SandboxTypes == Spec => []TypeOK
<1>1. ASSUME Init PROVE TypeOK
  <2>1. \A c \in Cells : heap[c] = IF \E n \in NodeIds : InitialNodes[n] = c
                                   THEN CHOOSE v \in Values : TRUE ELSE None
    BY <1>1 DEF Init
  <2>2. (CHOOSE v \in Values : TRUE) \in Values
    OBVIOUS
  <2>3. heap \in [Cells -> Values \cup {None}]
    BY <1>1, <2>2 DEF Init
  <2>4. \A n \in NodeIds : nodes[n] \in Cells => heap[nodes[n]] # None
    BY <1>1, <2>1, <2>2 DEF Init
  <2>5. DataInv
    BY <1>1, <2>3, <2>4 DEF Init, DataInv
  <2>6. BranchInv
    BY <1>1 DEF Init, BranchInv
  <2>7. edges \in Seq(Edges) /\ history \in Seq(Entries)
    BY <1>1 DEF Init
  <2>8. writes \in 0..MaxWrites /\ changes \in 0..MaxChanges
    BY <1>1, SMT DEF Init
  <2>9. unaudited \in BOOLEAN
    BY <1>1, Zenon DEF Init
  <2> QED
    BY <2>5, <2>6, <2>7, <2>8, <2>9 DEF TypeOK
<1>2. TypeOK /\ [Next]_vars => TypeOK'
    BY TypeStep
<1> QED
    BY <1>1, <1>2, PTL DEF Spec

-----------------------------------------------------------------------------
LEMMA RegistryStep ==
    ASSUME TypeOK, RegistryIsTrue, [Next]_vars PROVE RegistryIsTrue'
<1> USE DEF TypeOK, BranchInv, RegistryIsTrue, data, master, branchvars, ghosts
<1>1. ASSUME NEW b \in Branches, NEW id \in Ids, Fork(b, id) PROVE RegistryIsTrue'
    BY <1>1 DEF Fork
<1>2. ASSUME UNCHANGED <<active, status, bid, mergedBy>> PROVE RegistryIsTrue'
    BY <1>2
<1>3. ASSUME NEW b \in Branches, NEW r \in Receipts(Hashes), Merge(b, r)
      PROVE  RegistryIsTrue'
  <2>1. /\ status[b] = "ACTIVE" /\ bid[b] \in Ids /\ bid' = bid
        /\ \A a \in Branches : /\ status'[a] = IF a = b THEN "MERGED" ELSE status[a]
                               /\ mergedBy'[a] = IF a = b THEN r ELSE mergedBy[a]
    BY <1>3 DEF Merge
  <2>2. \A a \in Branches : status'[a] = "ACTIVE" => a # b /\ status[a] = "ACTIVE"
    BY <2>1
  <2>3. CASE r.json
    <3>1. \A id \in Ids : active'[id] = IF id = bid[b] THEN None ELSE active[id]
      BY <1>3, <2>1, <2>3 DEF Merge
    <3>2. \A id \in Ids : active'[id] # None => active'[id] = active[id] /\ active[id] # b
      BY <2>1, <3>1
    <3> QED
      BY <2>1, <2>2, <3>1, <3>2
  <2>4. CASE ~r.json
    <3>1. active' = active
      BY <1>3, <2>4 DEF Merge
    <3> QED
      BY <2>1, <2>2, <2>4, <3>1
  <2> QED
    BY <2>3, <2>4
<1>4. ASSUME NEW b \in Branches, status[b] # "unborn", Discarded(b) PROVE RegistryIsTrue'
    BY <1>4 DEF Discarded
<1>5. \/ UNCHANGED <<active, status, bid, mergedBy>>
      \/ \E b \in Branches, id \in Ids : Fork(b, id)
      \/ \E b \in Branches, r \in Receipts(Hashes) : Merge(b, r)
      \/ \E b \in Branches : status[b] # "unborn" /\ Discarded(b)
    BY DEF Next, vars, Reject, Discard, GetNode, SetNode, SetSharedNode, DeleteNode, AddEdge,
           Notarise, ChangeInPlace
<1> QED
    BY <1>1, <1>2, <1>3, <1>4, <1>5

\* active_branches names branches under their own id that have not ended, and every
\* ACTIVE branch whose id was not given twice, through any order of forks, merges,
\* rejections and discards.
THEOREM RegistryInvariant == Spec => []RegistryIsTrue
<1>1. Init => RegistryIsTrue
    BY DEF Init, RegistryIsTrue
<1>2. TypeOK /\ RegistryIsTrue /\ [Next]_vars => RegistryIsTrue'
    BY RegistryStep
<1> QED
    BY <1>1, <1>2, SandboxTypes, PTL DEF Spec

-----------------------------------------------------------------------------
(* Merging a branch is applying its hash: the nodes it does not touch keep *)
(* the content they have in the master, whatever else was merged there.    *)
LEMMA MergeAppliesDelta ==
    ASSUME TypeOK, NEW b \in Branches, NEW r \in Receipts(Hashes), Merge(b, r)
    PROVE  Graph' = Applied(Graph, DeltaHash(b))
<1>1. nodes' = Merged(b) /\ edges' = edges \o added[b] /\ heap' = heap
    BY DEF Merge, data
<1>2. \A c : Content(c)' = Content(c)
    BY <1>1 DEF Content
<1>3. \A n \in NodeIds : Content(delta[b][n]) = Untouched <=> delta[b][n] = Untouched
    BY DEF TypeOK, DataInv, Content
<1>4. \A n \in NodeIds :
         Content(nodes'[n]) = IF delta[b][n] = Untouched THEN Content(nodes[n])
                              ELSE Content(delta[b][n])
    BY <1>1 DEF Merged
<1>5. Graph'.nodes = Applied(Graph, DeltaHash(b)).nodes
    BY <1>1, <1>2, <1>3, <1>4 DEF Graph, Applied, DeltaHash, Content
<1> QED
    BY <1>1, <1>5 DEF Graph, Applied, DeltaHash

\* What merges on a receipt that names a delta is what the notary saw, tombstones
\* and edges included, however the branch, the data it shares and the master were
\* changed since.
THEOREM MergesAreNotarised == Spec => MergedAsNotarised
<1> DEFINE Step == \A b \in Branches :
                      mergedBy'[b] # mergedBy[b] /\ mergedBy'[b].hash # NoHash =>
                          Graph' = Applied(Graph, mergedBy'[b].hash)
<1>1. TypeOK /\ [Next]_vars => [Step]_vars
  <2> SUFFICES ASSUME TypeOK, Next, NEW b \in Branches, mergedBy'[b] # mergedBy[b],
                      mergedBy'[b].hash # NoHash
               PROVE  Graph' = Applied(Graph, mergedBy'[b].hash)
    OBVIOUS
  <2>1. PICK a \in Branches, r \in Receipts(Hashes) : Merge(a, r)
    BY DEF Next, Reject, Discard, Discarded, Fork, GetNode, SetNode, SetSharedNode,
           DeleteNode, AddEdge, Notarise, ChangeInPlace, ghosts
  <2>2. a = b /\ mergedBy'[b] = r
    BY <2>1 DEF Merge, TypeOK, BranchInv
  <2>3. r.hash = DeltaHash(b)
    BY <2>1, <2>2 DEF Merge, Verified
  <2> QED
    BY <2>1, <2>2, <2>3, MergeAppliesDelta
<1> QED
    BY <1>1, SandboxTypes, PTL DEF Spec, MergedAsNotarised

\* SetNode puts its data where no node of the master looks.
LEMMA NewDataIsApart ==
    ASSUME TypeOK, NEW b \in Branches, NEW n \in NodeIds, NEW v \in Written, SetNode(b, n, v)
    PROVE  Graph' = Graph
<1> USE DEF Graph, data, master
<1> DEFINE new == CHOOSE c \in Cells : heap[c] = None
<1>1. new \in Cells /\ heap[new] = None
    BY DEF SetNode
<1>2. heap' = [heap EXCEPT ![new] = v] /\ UNCHANGED <<nodes, edges>>
    BY DEF SetNode
<1> HIDE DEF new
<1>3. \A m \in NodeIds : nodes[m] # new
    BY <1>1 DEF TypeOK, DataInv
<1>4. \A m \in NodeIds : nodes[m] \in Cells => heap'[nodes[m]] = heap[nodes[m]]
    BY <1>2, <1>3 DEF TypeOK, DataInv
<1>5. \A m \in NodeIds : Content(nodes[m])' = Content(nodes[m])
    BY <1>2, <1>4 DEF Content
<1> QED
    BY <1>2, <1>5

\* Forks, reads, writes, rejections and discards leave the master's content alone:
\* a write puts its data where no node of the master looks.
THEOREM OnlyMergesWrite == Spec => OnlyMergesChange
<1> DEFINE Step == Graph' # Graph => changes' # changes \/ Merges
<1>1. TypeOK /\ [Next]_vars => [Step]_vars
  <2> SUFFICES ASSUME TypeOK, Next, changes' = changes, ~Merges
               PROVE  Graph' = Graph
    OBVIOUS
  <2> USE DEF Graph, data, master, branchvars, ghosts
  <2>1. ASSUME NEW b \in Branches, NEW n \in NodeIds, NEW v \in Written, SetNode(b, n, v)
        PROVE  Graph' = Graph
    BY <2>1, NewDataIsApart
  <2>2. ASSUME UNCHANGED <<heap, nodes, edges>> PROVE Graph' = Graph
    BY <2>2 DEF Content
  <2>3. ~(\E b \in Branches, r \in Receipts(Hashes) : Merge(b, r))
    BY DEF Merge, Merges, TypeOK, BranchInv
  <2>4. ~(\E c \in Cells, v \in Values : ChangeInPlace(c, v))
    BY DEF ChangeInPlace, TypeOK
  <2> QED
    BY <2>1, <2>2, <2>3, <2>4 DEF Next, Reject, Discard, Discarded, Fork, GetNode, DeleteNode,
       SetSharedNode, AddEdge, Notarise
<1> QED
    BY <1>1, SandboxTypes, PTL DEF Spec, OnlyMergesChange

-----------------------------------------------------------------------------
(***************************************************************************)
(* Receipts.  A delta names the id of the branch it was taken of and the   *)
(* state that was forked from, and neither changes once the branch has     *)
(* ended, so two branches merged on one delta have both in common.         *)
(***************************************************************************)

ReceiptInv ==
    \A b \in Branches :
        mergedBy[b] # None =>
            /\ status[b] # "unborn"
            /\ mergedBy[b].hash # NoHash => /\ mergedBy[b].hash.branch = bid[b]
                                           /\ mergedBy[b].hash.base = base[b]

LEMMA ReceiptStep == ASSUME TypeOK, ReceiptInv, [Next]_vars PROVE ReceiptInv'
<1> USE DEF TypeOK, BranchInv, ReceiptInv, data, master, branchvars, ghosts
<1>1. ASSUME NEW b \in Branches, NEW id \in Ids, Fork(b, id) PROVE ReceiptInv'
    BY <1>1 DEF Fork
<1>2. ASSUME UNCHANGED <<status, bid, base, mergedBy>> PROVE ReceiptInv'
    BY <1>2
<1>3. ASSUME NEW b \in Branches, Discarded(b) PROVE ReceiptInv'
    BY <1>3 DEF Discarded
<1>4. ASSUME NEW b \in Branches, NEW r \in Receipts(Hashes), Merge(b, r) PROVE ReceiptInv'
  <2>1. /\ mergedBy' = [mergedBy EXCEPT ![b] = r] /\ UNCHANGED <<bid, base>>
        /\ status' = [status EXCEPT ![b] = "MERGED"]
        /\ r.hash \in {NoHash, DeltaHash(b)}
    BY <1>4 DEF Merge, Verified
  <2>2. DeltaHash(b).branch = bid[b] /\ DeltaHash(b).base = base[b]
    BY DEF DeltaHash
  <2> QED
    BY <2>1, <2>2
<1>5. \/ UNCHANGED <<status, bid, base, mergedBy>>
      \/ \E b \in Branches, id \in Ids : Fork(b, id)
      \/ \E b \in Branches, r \in Receipts(Hashes) : Merge(b, r)
      \/ \E b \in Branches : Discarded(b)
    BY DEF Next, vars, Reject, Discard, GetNode, SetNode, SetSharedNode, DeleteNode, AddEdge,
           Notarise, ChangeInPlace
<1> QED
    BY <1>1, <1>2, <1>3, <1>4, <1>5

\* A receipt that names a delta merges one branch only, unless others were forked
\* under its id from the same state (cow_subgraph_sandbox.py:216-222).
THEOREM ReceiptsMergeOnce == Spec => []ReceiptsAreNotReplayed
<1>1. Init => ReceiptInv
    BY DEF Init, ReceiptInv
<1>2. TypeOK /\ ReceiptInv /\ [Next]_vars => ReceiptInv'
    BY ReceiptStep
<1>3. ReceiptInv => ReceiptsAreNotReplayed
    BY DEF ReceiptInv, ReceiptsAreNotReplayed
<1> QED
    BY <1>1, <1>2, <1>3, SandboxTypes, PTL DEF Spec

-----------------------------------------------------------------------------
(***************************************************************************)
(* The graph and its history.  Which sequence of graphs the deltas give is *)
(* not computed by induction on the history but along with it: as long as  *)
(* commit_history is complete there is one (ReplayExists), and any there   *)
(* is ends in the master and passes through what the entries and the       *)
(* branches were taken of (ReplaysExplain).                                *)
(***************************************************************************)

IsReplay(g) ==
    g = [k \in 0..Len(history) |->
            IF k = 0 THEN InitialGraph ELSE Applied(g[k - 1], history[k].delta)]

Explains(g) ==
    /\ Graph = g[Len(history)]
    /\ \A k \in 1..Len(history) : history[k].root = RootOf(g[k])
    /\ \A b \in Branches : status[b] # "unborn" =>
          \E k \in 0..Len(history) : base[b] = RootOf(g[k])

ReplayExists == \E g : IsReplay(g)
ReplaysExplain == \A g : IsReplay(g) => Explains(g)

HistoryInv == unaudited \/ (ReplayExists /\ ReplaysExplain)

\* The digest of a state is that of its graph.
LEMMA RootIsOfGraph == Root(nodes, edges) = RootOf(Graph)
BY DEF Root, RootOf, Graph

\* Data that no node of the master refers to may be changed in place.
LEMMA UnusedDataIsApart ==
    ASSUME TypeOK, NEW c \in Cells, NEW v \in Values, ChangeInPlace(c, v),
           \A n \in NodeIds : nodes[n] # c
    PROVE  Graph' = Graph
<1>1. heap' = [heap EXCEPT ![c] = v] /\ UNCHANGED <<nodes, edges>>
    BY DEF ChangeInPlace, master
<1>2. \A m \in NodeIds : Content(nodes[m])' = Content(nodes[m])
    BY <1>1 DEF Content, TypeOK, DataInv
<1> QED
    BY <1>1, <1>2 DEF Graph

\* What a step does to the graph and its history.
LEMMA GraphCases ==
    ASSUME TypeOK, [Next]_vars
    PROVE  \/ unaudited'
           \/ /\ Graph' = Graph /\ UNCHANGED <<history, base>>
              /\ \A b \in Branches : status'[b] # "unborn" => status[b] # "unborn"
           \/ \E b \in Branches, id \in Ids : Fork(b, id)
           \/ \E b \in Branches, r \in Receipts(Hashes) : Merge(b, r) /\ r.json
<1> USE DEF TypeOK, data, master, branchvars, ghosts
<1> DEFINE Kept == /\ Graph' = Graph /\ UNCHANGED <<history, base>>
                   /\ \A b \in Branches : status'[b] # "unborn" => status[b] # "unborn"
<1>1. ASSUME UNCHANGED <<heap, nodes, edges, history, base, status>> PROVE Kept
    BY <1>1 DEF Graph, Content
<1>2. ASSUME NEW b \in Branches, NEW n \in NodeIds, NEW v \in Written, SetNode(b, n, v) PROVE Kept
  <2>1. UNCHANGED <<history, base, status>>
    BY <1>2 DEF SetNode
  <2> QED
    BY <1>2, <2>1, NewDataIsApart
<1>3. ASSUME NEW c \in Cells, NEW v \in Values, ChangeInPlace(c, v), ~unaudited' PROVE Kept
  <2>1. UNCHANGED <<history, base, status>> /\ \A n \in NodeIds : nodes[n] # c
    BY <1>3 DEF ChangeInPlace
  <2> QED
    BY <1>3, <2>1, UnusedDataIsApart
<1>4. ASSUME NEW b \in Branches, status[b] # "unborn", Discarded(b) PROVE Kept
  <2>1. UNCHANGED <<heap, nodes, edges, history, base>>
    BY <1>4 DEF Discarded
  <2>2. \A a \in Branches : status'[a] # "unborn" => status[a] # "unborn"
    BY <1>4 DEF Discarded, BranchInv
  <2> QED
    BY <2>1, <2>2 DEF Graph, Content
<1>5. ASSUME NEW b \in Branches, NEW r \in Receipts(Hashes), Merge(b, r), ~r.json
      PROVE  unaudited'
    BY <1>5 DEF Merge
<1>6. \/ UNCHANGED <<heap, nodes, edges, history, base, status>>
      \/ \E b \in Branches, n \in NodeIds, v \in Written : SetNode(b, n, v)
      \/ \E c \in Cells, v \in Values : ChangeInPlace(c, v)
      \/ \E b \in Branches, id \in Ids : Fork(b, id)
      \/ \E b \in Branches, r \in Receipts(Hashes) : Merge(b, r)
      \/ \E b \in Branches : status[b] # "unborn" /\ Discarded(b)
    BY DEF Next, vars, Reject, Discard, GetNode, SetSharedNode, DeleteNode, AddEdge, Notarise
<1> QED
    BY <1>1, <1>2, <1>3, <1>4, <1>5, <1>6

LEMMA UnauditedStays == ASSUME TypeOK, [Next]_vars, unaudited PROVE unaudited'
BY DEF Next, vars, Fork, GetNode, SetNode, SetSharedNode, DeleteNode, AddEdge, Notarise, Merge,
       Reject, Discard, Discarded, ChangeInPlace, ghosts

\* A branch is forked from the graph as it is.
LEMMA ForkIsExplained ==
    ASSUME TypeOK, ReplayExists, ReplaysExplain, NEW b \in Branches, NEW id \in Ids, Fork(b, id)
    PROVE  ReplayExists' /\ ReplaysExplain'
<1>1. /\ UNCHANGED <<history, heap, nodes, edges>>
      /\ base' = [base EXCEPT ![b] = RootOf(Graph)]
      /\ status' = [status EXCEPT ![b] = "ACTIVE"]
    BY RootIsOfGraph DEF Fork, data, master
<1>2. Graph' = Graph
    BY <1>1 DEF Graph, Content
<1>3. \A g : IsReplay(g)' <=> IsReplay(g)
    BY <1>1 DEF IsReplay
<1>4. ASSUME NEW g, IsReplay(g) PROVE Explains(g)'
  <2>1. Explains(g)
    BY <1>4 DEF ReplaysExplain
  <2>2. \A k : RootOf(g[k])' = RootOf(g[k])
    BY DEF RootOf
  <2>3. Len(history) \in 0..Len(history)
    BY DEF TypeOK
  <2>4. \A a \in Branches : status'[a] # "unborn" =>
            \E k \in 0..Len(history) : base'[a] = RootOf(g[k])
    <3> SUFFICES ASSUME NEW a \in Branches, status'[a] # "unborn"
                 PROVE  \E k \in 0..Len(history) : base'[a] = RootOf(g[k])
      OBVIOUS
    <3>1. CASE a = b
      BY <1>1, <2>1, <2>3, <3>1 DEF Explains, TypeOK, BranchInv
    <3>2. CASE a # b
      BY <1>1, <2>1, <3>2 DEF Explains, TypeOK, BranchInv
    <3> QED
      BY <3>1, <3>2
  <2> QED
    BY <1>1, <1>2, <2>1, <2>2, <2>4 DEF Explains
<1> QED
    BY <1>3, <1>4 DEF ReplayExists, ReplaysExplain

\* A merge applies the delta its entry names, and its root is of what that gives.
LEMMA MergeIsExplained ==
    ASSUME TypeOK, ReplayExists, ReplaysExplain,
           NEW b \in Branches, NEW r \in Receipts(Hashes), Merge(b, r), r.json
    PROVE  ReplayExists' /\ ReplaysExplain'
<1> DEFINE n == Len(history)
<1>0. history' = Append(history, Commit(b))
    BY DEF Merge
<1>1. n \in Nat /\ Len(history') = n + 1 /\ \A k \in 1..n : history'[k] = history[k]
    BY <1>0 DEF TypeOK
<1>2. history'[n + 1] = Commit(b)
    BY <1>0 DEF TypeOK
<1>3. Graph' = Applied(Graph, DeltaHash(b))
    BY MergeAppliesDelta
<1>4. Commit(b).delta = DeltaHash(b) /\ Commit(b).root = RootOf(Graph')
  <2>1. nodes' = Merged(b) /\ edges' = edges \o added[b] /\ heap' = heap
    BY DEF Merge, data
  <2>2. Root(Merged(b), edges \o added[b]) = RootOf(Graph')
    BY <2>1 DEF Root, RootOf, Graph, Content
  <2> QED
    BY <2>2 DEF Commit
<1>5. base' = base /\ \A a \in Branches : status'[a] # "unborn" => status[a] # "unborn"
    BY DEF Merge, TypeOK, BranchInv
<1>6. \A k : RootOf(k)' = RootOf(k)
    BY DEF RootOf
<1>7. ASSUME NEW h, IsReplay(h)' PROVE Explains(h)'
  <2>1. PICK g : g = [k \in 0..n |-> h[k]]
    OBVIOUS
  <2>2. /\ h[0] = InitialGraph
        /\ \A k \in 1..n + 1 : h[k] = Applied(h[k - 1], history'[k].delta)
    BY <1>1, <1>7 DEF IsReplay
  <2>3. IsReplay(g)
    <3>1. \A k \in 0..n : g[k] = IF k = 0 THEN InitialGraph ELSE Applied(g[k - 1], history[k].delta)
      BY <1>1, <2>1, <2>2
    <3> QED
      BY <2>1, <3>1 DEF IsReplay
  <2>4. Explains(g)
    BY <2>3 DEF ReplaysExplain
  <2>5. h[n + 1] = Graph'
    BY <1>1, <1>2, <1>3, <1>4, <2>1, <2>2, <2>4 DEF Explains
  <2>6. \A k \in 1..n + 1 : history'[k].root = RootOf(h[k])
    <3> SUFFICES ASSUME NEW k \in 1..n + 1 PROVE history'[k].root = RootOf(h[k])
      OBVIOUS
    <3>1. CASE k = n + 1
      BY <1>2, <1>4, <2>5, <3>1
    <3>2. CASE k # n + 1
      <4>1. k \in 1..n /\ k \in 0..n
        BY <1>1, <3>2
      <4>2. history'[k] = history[k] /\ h[k] = g[k]
        BY <1>1, <2>1, <4>1
      <4>3. history[k].root = RootOf(g[k])
        BY <2>4, <4>1 DEF Explains
      <4> QED
        BY <4>2, <4>3
    <3> QED
      BY <3>1, <3>2
  <2>7. \A a \in Branches : status'[a] # "unborn" => \E k \in 0..n + 1 : base'[a] = RootOf(h[k])
    BY <1>1, <1>5, <2>1, <2>4 DEF Explains
  <2> QED
    BY <1>1, <1>6, <2>5, <2>6, <2>7 DEF Explains
<1>8. ReplayExists'
  <2>1. PICK g : IsReplay(g)
    BY DEF ReplayExists
  <2>2. PICK h : h = [k \in 0..n + 1 |-> IF k = n + 1 THEN Applied(g[n], DeltaHash(b)) ELSE g[k]]
    OBVIOUS
  <2>3. \A k \in 0..n : g[k] = IF k = 0 THEN InitialGraph ELSE Applied(g[k - 1], history[k].delta)
    BY <2>1 DEF IsReplay
  <2>4. \A k \in 0..n + 1 :
            h[k] = IF k = 0 THEN InitialGraph ELSE Applied(h[k - 1], history'[k].delta)
    <3> SUFFICES ASSUME NEW k \in 0..n + 1
                 PROVE  h[k] = IF k = 0 THEN InitialGraph
                               ELSE Applied(h[k - 1], history'[k].delta)
      OBVIOUS
    <3>1. CASE k = n + 1
      BY <1>1, <1>2, <1>4, <2>2, <3>1
    <3>2. CASE k # n + 1
      BY <1>1, <2>2, <2>3, <3>2
    <3> QED
      BY <3>1, <3>2
  <2>5. IsReplay(h)'
    BY <1>1, <2>2, <2>4 DEF IsReplay, InitialGraph, Applied
  <2> QED
    BY <2>5 DEF ReplayExists
<1> QED
    BY <1>7, <1>8 DEF ReplaysExplain

LEMMA HistoryStep == ASSUME TypeOK, HistoryInv, [Next]_vars PROVE HistoryInv'
<1>1. CASE unaudited
    BY <1>1, UnauditedStays DEF HistoryInv
<1>2. CASE ~unaudited /\ ReplayExists /\ ReplaysExplain
  <2>1. ASSUME Graph' = Graph, UNCHANGED <<history, base>>,
               \A b \in Branches : status'[b] # "unborn" => status[b] # "unborn"
        PROVE  HistoryInv'
    <3>1. \A g : IsReplay(g)' <=> IsReplay(g)
      BY <2>1 DEF IsReplay
    <3>2. \A g : Explains(g) => Explains(g)'
      BY <2>1 DEF Explains, RootOf
    <3> QED
      BY <1>2, <3>1, <3>2 DEF HistoryInv, ReplayExists, ReplaysExplain
  <2>2. ASSUME NEW b \in Branches, NEW id \in Ids, Fork(b, id) PROVE HistoryInv'
    BY <1>2, <2>2, ForkIsExplained DEF HistoryInv
  <2>3. ASSUME NEW b \in Branches, NEW r \in Receipts(Hashes), Merge(b, r), r.json
        PROVE  HistoryInv'
    BY <1>2, <2>3, MergeIsExplained DEF HistoryInv
  <2> QED
    BY <2>1, <2>2, <2>3, GraphCases DEF HistoryInv
<1> QED
    BY <1>1, <1>2 DEF HistoryInv

\* As long as nobody has changed nested data of the master in place and no merge has
\* raised before its entry: the deltas of commit_history, applied in order to the
\* initial graph, give the roots it names and the master, and every branch was forked
\* from one of these states (cow_subgraph_sandbox.py:215-300).
THEOREM HistoryIsComplete == Spec => []HistoryExplainsGraph
<1>1. Init => HistoryInv
  <2> SUFFICES ASSUME Init PROVE ReplayExists /\ ReplaysExplain
    BY DEF HistoryInv
  <2>1. Graph = InitialGraph
    <3>1. nodes = InitialNodes /\ edges = <<>>
      BY DEF Init
    <3>2. \A m \in NodeIds : Content(nodes[m]) = IF InitialNodes[m] = NoNode THEN NoNode
                                               ELSE CHOOSE v \in Values : TRUE
      BY <3>1 DEF Init, Content
    <3> QED
      BY <3>1, <3>2 DEF Graph, InitialGraph
  <2>2. history = <<>> /\ \A b \in Branches : status[b] = "unborn"
    BY DEF Init
  <2>3. \A g : IsReplay(g) <=> g = [k \in 0..0 |-> InitialGraph]
    BY <2>2 DEF IsReplay
  <2>4. ReplayExists
    BY <2>3 DEF ReplayExists
  <2>5. ReplaysExplain
    BY <2>1, <2>2, <2>3 DEF ReplaysExplain, Explains
  <2> QED
    BY <2>4, <2>5
<1>2. TypeOK /\ HistoryInv /\ [Next]_vars => HistoryInv'
    BY HistoryStep
<1>3. TypeOK /\ HistoryInv => HistoryExplainsGraph
  <2> SUFFICES ASSUME TypeOK, ReplayExists, ReplaysExplain
               PROVE  /\ Graph = Replayed[Len(history)]
                      /\ \A k \in DOMAIN history : history[k].root = RootOf(Replayed[k])
                      /\ \A b \in Branches : status[b] # "unborn" =>
                            \E k \in 0..Len(history) : base[b] = RootOf(Replayed[k])
    BY DEF HistoryInv, HistoryExplainsGraph
  <2>1. Replayed = CHOOSE g : IsReplay(g)
    BY DEF Replayed, IsReplay
  <2>2. IsReplay(Replayed)
    BY <2>1 DEF ReplayExists
  <2>3. Explains(Replayed)
    BY <2>2 DEF ReplaysExplain
  <2> QED
    BY <2>3 DEF Explains, TypeOK
<1> QED
    BY <1>1, <1>2, <1>3, SandboxTypes, PTL DEF Spec
=============================================================================
