----------------------------- MODULE CowSandbox -----------------------------
(***************************************************************************)
(* The copy-on-write state graph of src/cow_subgraph_sandbox.py: branches  *)
(* that read through to a master graph, keep their writes as deltas, and   *)
(* are merged on a notary's receipt or discarded.  It takes no locks and   *)
(* starts no threads: a call is a step, and the calls of several agents    *)
(* come in any order.                                                      *)
(*                                                                         *)
(* set_node and get_node copy a node's dict, not what is nested in it, so  *)
(* the nested data, here a cell of `heap', is shared by everybody who ever *)
(* wrote or read it, and any of them may change it in place.               *)
(*                                                                         *)
(* A digest is injective: the hash of a state or of a delta is the content *)
(* it was taken of.  Metadata and timestamps of an edge are left out.      *)
(***************************************************************************)
EXTENDS Naturals, SequencesExt

CONSTANTS MaxForks,      \* bound: branches
          Ids,           \* branch_id values, which a caller may give twice
          NodeIds,       \* ids of nodes
          MaxCells,      \* bound: nested data objects
          Values,        \* what a cell may hold
          Written,       \* what a cell is created with by set_node
          InitialNodes,  \* initial_nodes: a cell or NoNode for each node
          Edges,         \* edge_id values
          MaxWrites,     \* bound: writes on branches
          Dispositions,  \* the dispositions of receipts
          MaxChanges,    \* bound: changes in place
          NoNode,        \* the node does not exist; in a delta, a tombstone
          Untouched,     \* the delta says nothing of the node
          NoHash,        \* the receipt names no delta
          None           \* no branch, no id, no value, no receipt

Branches == 1..MaxForks  \* COWBranch objects, in the order they were forked
Cells == 1..MaxCells

\* What merge_if_verified looks at in a receipt: the delta hash it names, if any,
\* its disposition, whether its signature is there and verifies under the key of
\* the call, and whether the receipt as a whole can be written as JSON.
Receipts(hashes) ==
    [hash: hashes, disposition: Dispositions, verifies: BOOLEAN, json: BOOLEAN]

ASSUME CowAssumption ==
    /\ MaxForks \in Nat /\ MaxCells \in Nat /\ MaxWrites \in Nat
    /\ MaxChanges \in Nat
    /\ Values # {} /\ Written \subseteq Values
    /\ InitialNodes \in [NodeIds -> Cells \cup {NoNode}]
    /\ NoNode \notin Cells /\ NoNode # Untouched
    /\ Untouched \notin Cells /\ Untouched \notin Values
    /\ None \notin Ids /\ None \notin Values /\ None \notin Branches

VARIABLES heap,       \* what each cell holds, None before it is created
          held,       \* cells that agents have a reference to
          nodes,      \* the master graph: a cell or NoNode for each node
          edges,      \* the master graph's edges, in the order they were merged
          history,    \* commit_history
          active,     \* active_branches: a branch or None for each id
          status,     \* each branch's status, "unborn" before its fork
          bid,        \* its branch_id
          base,       \* its base_snapshot_hash
          delta,      \* its node_deltas: a cell, NoNode or Untouched for each node
          added,      \* its edge_deltas
          writes,     \* writes so far, the entries of all execution_traces
          notarised,  \* the delta hash of each branch the notary has put in receipts
          changes,    \* changes in place so far
          mergedBy,   \* history: the receipt each branch was merged by, None if it was not
          unaudited   \* history: the master changed and commit_history does not say so

branchvars == <<status, bid, base, delta, added, writes>>
master == <<nodes, edges>>
ghosts == <<changes, mergedBy, unaudited>>
data == <<heap, held>>
vars == <<data, master, history, active, branchvars, notarised, ghosts>>

Init == /\ heap = [c \in Cells |-> IF \E n \in NodeIds : InitialNodes[n] = c
                                   THEN CHOOSE v \in Values : TRUE ELSE None]
        /\ held = {}
        /\ nodes = InitialNodes
        /\ edges = <<>>
        /\ history = <<>>
        /\ active = [i \in Ids |-> None]
        /\ status = [b \in Branches |-> "unborn"]
        /\ bid = [b \in Branches |-> None]
        /\ base = [b \in Branches |-> None]
        /\ delta = [b \in Branches |-> [n \in NodeIds |-> Untouched]]
        /\ added = [b \in Branches |-> <<>>]
        /\ writes = 0
        /\ notarised = [b \in Branches |-> NoHash]
        /\ changes = 0
        /\ mergedBy = [b \in Branches |-> None]
        /\ unaudited = FALSE

-----------------------------------------------------------------------------
\* The content of a node's data.
Content(c) == IF c \in Cells THEN heap[c] ELSE c

\* merkle_root of a graph: its nodes and its edges, sorted.
Root(ns, es) ==
    [nodes |-> [n \in NodeIds |-> Content(ns[n])],
     edges |-> [e \in Edges |-> Cardinality({i \in DOMAIN es : es[i] = e})]]

\* Mutant: the hash leaves the edges out.
NodesOnlyHash(b) ==
    [branch |-> bid[b], base |-> base[b],
     nodes |-> [n \in NodeIds |-> Content(delta[b][n])], edges |-> <<>>]

\* Mutant: the hash leaves the branch and its base out.
AnonymousHash(b) ==
    [branch |-> None, base |-> None,
     nodes |-> [n \in NodeIds |-> Content(delta[b][n])], edges |-> added[b]]

\* compute_delta_hash
DeltaHash(b) ==
    [branch |-> bid[b], base |-> base[b],
     nodes |-> [n \in NodeIds |-> Content(delta[b][n])], edges |-> added[b]]

-----------------------------------------------------------------------------
\* fork: an id in use gets the new branch, and the old one leaves the registry.
Fork(b, id) ==
    /\ status[b] = "unborn"
    /\ \A a \in Branches : a < b => status[a] # "unborn"
    /\ status' = [status EXCEPT ![b] = "ACTIVE"]
    /\ bid' = [bid EXCEPT ![b] = id]
    /\ base' = [base EXCEPT ![b] = Root(nodes, edges)]
    /\ active' = [active EXCEPT ![id] = b]
    /\ UNCHANGED <<data, master, history, delta, added, writes, notarised, ghosts>>

\* What every write does: it is refused on a branch that has ended, and traced.
Writes(b) ==
    /\ status[b] = "ACTIVE"
    /\ writes < MaxWrites
    /\ writes' = writes + 1

\* get_node, which falls through to the master where the branch has no delta.  Its
\* copy of the node shares the nested data.
GetNode(b, n) ==
    LET c == IF delta[b][n] = Untouched THEN nodes[n] ELSE delta[b][n] IN
    /\ status[b] # "unborn"
    /\ c \in Cells \ held
    /\ held' = held \cup {c}
    /\ UNCHANGED <<heap, master, history, active, branchvars, notarised, ghosts>>

\* Mutant: set_node updates what is there instead of writing a delta.
SetNodeThrough(b, n, v) ==
    LET c == IF delta[b][n] = Untouched THEN nodes[n] ELSE delta[b][n] IN
    /\ Writes(b)
    /\ c \in Cells
    /\ heap' = [heap EXCEPT ![c] = v]
    /\ UNCHANGED <<held, master, history, active, status, bid, base, delta, added, notarised,
                   ghosts>>

\* set_node with data of its own.
SetNode(b, n, v) ==
    LET new == CHOOSE c \in Cells : heap[c] = None IN
    /\ Writes(b)
    /\ \E c \in Cells : heap[c] = None
    /\ heap' = [heap EXCEPT ![new] = v]
    /\ held' = held \cup {new}
    /\ delta' = [delta EXCEPT ![b][n] = new]
    /\ UNCHANGED <<master, history, active, status, bid, base, added, notarised, ghosts>>

\* set_node with data that get_node returned, on this or another branch, or that
\* was set before.
SetSharedNode(b, n, c) ==
    /\ Writes(b)
    /\ c \in held
    /\ delta' = [delta EXCEPT ![b][n] = c]
    /\ UNCHANGED <<data, master, history, active, status, bid, base, added, notarised, ghosts>>

DeleteNode(b, n) ==
    /\ Writes(b)
    /\ delta' = [delta EXCEPT ![b][n] = NoNode]
    /\ UNCHANGED <<data, master, history, active, status, bid, base, added, notarised, ghosts>>

AddEdge(b, e) ==
    /\ Writes(b)
    /\ added' = [added EXCEPT ![b] = Append(@, e)]
    /\ UNCHANGED <<data, master, history, active, status, bid, base, delta, notarised, ghosts>>

\* An agent changes nested data it holds, in place.
ChangeInPlace(c, v) ==
    /\ changes < MaxChanges
    /\ c \in held /\ heap[c] # v
    /\ heap' = [heap EXCEPT ![c] = v]
    /\ changes' = changes + 1
    /\ unaudited' = (unaudited \/ \E n \in NodeIds : nodes[n] = c)
    /\ UNCHANGED <<held, master, history, active, branchvars, notarised, mergedBy>>

-----------------------------------------------------------------------------
\* The notary takes the hash of a branch, for receipts that name it.  It does so
\* once for each branch, which may be written to before and after.
Notarise(b) ==
    /\ status[b] = "ACTIVE"
    /\ notarised[b] = NoHash
    /\ notarised' = [notarised EXCEPT ![b] = DeltaHash(b)]
    /\ UNCHANGED <<data, master, history, active, branchvars, ghosts>>

\* What a receipt may name: nothing, or a delta it was issued for, which need not
\* be that of the branch it is presented with.
Hashes == {NoHash} \cup {notarised[b] : b \in Branches}

\* The checks of merge_if_verified, all of which end in discard_branch.
Verified(b, r) ==
    /\ r.disposition \in {"CONFIRMED", "SATISFIED_CONFIRMED", "SUCCESS"}
    /\ r.hash \in {NoHash, DeltaHash(b)}
    /\ r.verifies

\* Mutant: `if delta:' for `if delta is None:'.
MergedKeepingDeleted(b) ==
    [n \in NodeIds |-> IF delta[b][n] \in {Untouched, NoNode} THEN nodes[n] ELSE delta[b][n]]

\* The master's nodes with the deltas of a branch, whose data it then shares.
Merged(b) ==
    [n \in NodeIds |-> IF delta[b][n] = Untouched THEN nodes[n] ELSE delta[b][n]]

\* The entry of commit_history.
Commit(b) ==
    [branch |-> bid[b], delta |-> DeltaHash(b), root |-> Root(Merged(b), edges \o added[b])]

\* The graph changes first.  The entry of the history needs the digest of the
\* receipt, and a receipt that is no JSON, such as one whose signature is bytes,
\* raises a TypeError there, with the graph and the status changed.
Merge(b, r) ==
    /\ status[b] = "ACTIVE"
    /\ Verified(b, r)
    /\ nodes' = Merged(b)
    /\ edges' = edges \o added[b]
    /\ status' = [status EXCEPT ![b] = "MERGED"]
    /\ IF r.json
       THEN /\ history' = Append(history, Commit(b))
            /\ active' = [active EXCEPT ![bid[b]] = None]
            /\ UNCHANGED unaudited
       ELSE /\ unaudited' = TRUE
            /\ UNCHANGED <<history, active>>
    /\ mergedBy' = [mergedBy EXCEPT ![b] = r]
    /\ UNCHANGED <<data, bid, base, delta, added, writes, notarised, changes>>

\* Mutant: a discarded branch stays in the registry.
DiscardRegistered(b) ==
    /\ status' = [status EXCEPT ![b] = "DISCARDED"]
    /\ UNCHANGED <<data, master, history, active, bid, base, delta, added, writes, notarised,
                   ghosts>>

\* discard_branch: whatever is registered under the id leaves the registry.
Discarded(b) ==
    /\ status' = [status EXCEPT ![b] = "DISCARDED"]
    /\ active' = [active EXCEPT ![bid[b]] = None]
    /\ UNCHANGED <<data, master, history, bid, base, delta, added, writes, notarised,
                   ghosts>>

\* merge_if_verified fails.
Reject(b, r) ==
    /\ status[b] = "ACTIVE"
    /\ ~Verified(b, r)
    /\ Discarded(b)

\* discard_branch called by an agent, which does not look at the status.
Discard(b) ==
    /\ status[b] # "unborn"
    /\ Discarded(b)

Next ==
    \/ \E b \in Branches :
          \/ \E id \in Ids : Fork(b, id)
          \/ \E n \in NodeIds :
                \/ GetNode(b, n) \/ DeleteNode(b, n)
                \/ \E v \in Written : SetNode(b, n, v)
                \/ \E c \in Cells : SetSharedNode(b, n, c)
          \/ \E e \in Edges : AddEdge(b, e)
          \/ Notarise(b)
          \/ \E r \in Receipts(Hashes) : Merge(b, r) \/ Reject(b, r)
          \/ Discard(b)
    \/ \E c \in Cells, v \in Values : ChangeInPlace(c, v)

Spec == Init /\ [][Next]_vars
=============================================================================
