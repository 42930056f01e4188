------------------------ MODULE CowSandboxProperties ------------------------
(***************************************************************************)
(* What the copy-on-write state graph guarantees, and what it does not.    *)
(***************************************************************************)
EXTENDS CowSandbox

Contents == Values \cup {NoNode}
Roots == [nodes: [NodeIds -> Contents], edges: [Edges -> Nat]]

Deltas == [branch: Ids, base: Roots, nodes: [NodeIds -> Contents \cup {Untouched}],
           edges: Seq(Edges)]
Entries == [branch: Ids, delta: Deltas, root: Roots]

\* Nothing refers to data that was never created.
DataInv ==
    /\ heap \in [Cells -> Values \cup {None}]
    /\ held \subseteq {c \in Cells : heap[c] # None}
    /\ nodes \in [NodeIds -> Cells \cup {NoNode}]
    /\ \A n \in NodeIds : nodes[n] \in Cells => heap[nodes[n]] # None
    /\ delta \in [Branches -> [NodeIds -> Cells \cup {NoNode, Untouched}]]
    /\ \A b \in Branches, n \in NodeIds : delta[b][n] \in Cells => heap[delta[b][n]] # None

\* A branch has an id and a base from its fork on.
BranchInv ==
    /\ active \in [Ids -> Branches \cup {None}]
    /\ status \in [Branches -> {"unborn", "ACTIVE", "MERGED", "DISCARDED"}]
    /\ bid \in [Branches -> Ids \cup {None}]
    /\ base \in [Branches -> Roots \cup {None}]
    /\ added \in [Branches -> Seq(Edges)]
    /\ notarised \in [Branches -> Deltas \cup {NoHash}]
    /\ mergedBy \in [Branches -> Receipts(Deltas \cup {NoHash}) \cup {None}]
    /\ \A b \in Branches :
          IF status[b] = "unborn" THEN bid[b] = None ELSE bid[b] \in Ids /\ base[b] \in Roots

\* Type correctness.
TypeOK ==
    /\ DataInv
    /\ BranchInv
    /\ edges \in Seq(Edges)
    /\ history \in Seq(Entries)
    /\ writes \in 0..MaxWrites
    /\ changes \in 0..MaxChanges
    /\ unaudited \in BOOLEAN

Graph == [nodes |-> [n \in NodeIds |-> Content(nodes[n])], edges |-> edges]

\* A graph with a delta applied to it.
Applied(g, d) ==
    [nodes |-> [n \in NodeIds |-> IF d.nodes[n] = Untouched THEN g.nodes[n] ELSE d.nodes[n]],
     edges |-> g.edges \o d.edges]

\* A branch merged on a receipt that names a delta changes the master by exactly
\* the delta the notary saw: its content at that time, tombstones and edges
\* included, whatever was written, shared or changed in place since.
MergedAsNotarised ==
    [][\A b \in Branches :
          mergedBy'[b] # mergedBy[b] /\ mergedBy'[b].hash # NoHash =>
              Graph' = Applied(Graph, mergedBy'[b].hash)]_vars

\* A branch is merged in this step.
Merges == \E b \in Branches : status[b] = "ACTIVE" /\ status'[b] = "MERGED"

\* No agent's call but a merge changes the master: not a fork, a write on a branch,
\* a rejection, or the discard of a branch, merged or not.  (A change in place
\* does, see ParentIsUntouched.)
OnlyMergesChange ==
    [][Graph' # Graph => changes' # changes \/ Merges]_vars

InitialGraph ==
    [nodes |-> [n \in NodeIds |-> IF InitialNodes[n] = NoNode THEN NoNode
                                  ELSE CHOOSE v \in Values : TRUE],
     edges |-> <<>>]

RootOf(g) ==
    [nodes |-> g.nodes,
     edges |-> [e \in Edges |-> Cardinality({i \in DOMAIN g.edges : g.edges[i] = e})]]

\* The graph after the first k commits, by the deltas the history names.
Replayed[k \in 0..Len(history)] ==
    IF k = 0 THEN InitialGraph ELSE Applied(Replayed[k - 1], history[k].delta)

\* The commit history explains the graph: the deltas it names, applied in its
\* order to the initial nodes, give the roots it names and in the end the master,
\* and every branch was forked from one of those states.  Nested data changed in
\* place, or a merge that raised before its entry was written, ends that.
HistoryExplainsGraph ==
    unaudited \/
        /\ Graph = Replayed[Len(history)]
        /\ \A k \in DOMAIN history : history[k].root = RootOf(Replayed[k])
        /\ \A b \in Branches : status[b] # "unborn" =>
              \E k \in 0..Len(history) : base[b] = RootOf(Replayed[k])

\* A receipt that names a delta merges no two branches, presented again or with a
\* branch it was not issued for, but such as were forked under one id from one state
\* of the master.  One that names none merges any branch, and as many as it is presented
\* with (cow_subgraph_sandbox.py:218), though the docstring (184-188) says "IF AND ONLY
\* IF [the] payload references the exact delta_hash".
ReceiptsAreNotReplayed ==
    \A a, b \in Branches :
        (/\ a # b /\ mergedBy[a] # None /\ mergedBy[b] # None
         /\ mergedBy[a].hash = mergedBy[b].hash /\ mergedBy[a].hash # NoHash)
        => bid[a] = bid[b] /\ base[a] = base[b]

\* The registry names branches under their own id, and never one that has ended,
\* except where its merge raised before it could be taken out.  And a branch that
\* is ACTIVE is in it, unless its id was reused.
RegistryIsTrue ==
    /\ \A id \in Ids : active[id] # None =>
          /\ bid[active[id]] = id
          /\ \/ status[active[id]] = "ACTIVE"
             \/ status[active[id]] = "MERGED" /\ ~mergedBy[active[id]].json
    /\ \A b \in Branches : status[b] = "ACTIVE" =>
          \/ active[bid[b]] = b
          \/ \E a \in Branches \ {b} : bid[a] = bid[b]

-----------------------------------------------------------------------------
\* get_node: "Returns deep copy of node data from main graph", and the test of the
\* sandbox: "Parent state graph is 100% UNTOUCHED".  Only a merge changes what the
\* master holds.
ParentIsUntouched == [][Graph' # Graph => Merges]_vars
=============================================================================
