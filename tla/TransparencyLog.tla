--------------------------- MODULE TransparencyLog ---------------------------
(***************************************************************************)
(* src/scitt_anchor.py: the Merkle tree, its audit paths, and the receipt  *)
(* an anchor service returns.  A hash is a term: two terms are equal only  *)
(* when they hash the same thing, and the domain separation of leaves and  *)
(* nodes is the length of the tuple.                                       *)
(***************************************************************************)
EXTENDS Naturals, Sequences, SequencesExt

LeafHash(leaf) == <<"leaf", leaf>>
NodeHash(l, r) == <<"node", l, r>>

\* Mutant: the last node of an odd level is paired with itself.
NextLevelDuplicating(level) ==
    [i \in 1..(Len(level) + 1) \div 2 |->
        NodeHash(level[2*i - 1], level[IF 2*i <= Len(level) THEN 2*i ELSE 2*i - 1])]

\* One level of _build_tree: pairs are hashed, an odd last node moves up as it is.
NextLevel(level) ==
    [i \in 1..(Len(level) + 1) \div 2 |->
        IF 2*i <= Len(level) THEN NodeHash(level[2*i - 1], level[2*i]) ELSE level[2*i - 1]]

\* _build_tree: the levels, from the leaf hashes to the root.
Tree(leaves) ==
    FoldLeft(LAMBDA levels, leaf : IF Len(Last(levels)) > 1 THEN Append(levels, NextLevel(Last(levels)))
                                   ELSE levels,
             <<[i \in DOMAIN leaves |-> LeafHash(leaves[i])]>>, leaves)

Root(leaves) == Last(Tree(leaves))[1]

\* get_inclusion_proof, for an index counted from 0: the sibling on each level
\* below the root, none where the node has moved up alone.
AuditPath(leaves, index) ==
    LET tree == Tree(leaves)
        step == [k \in 1..Len(tree) - 1 |->
                    LET idx == index \div (2^(k - 1))
                        sibling == IF idx % 2 = 1 THEN idx - 1 ELSE idx + 1
                    IN  IF sibling < Len(tree[k])
                        THEN <<[direction |-> IF idx % 2 = 1 THEN "left" ELSE "right",
                                hash |-> tree[k][sibling + 1]]>>
                        ELSE <<>>]
    IN  FlattenSeq(step)

\* verify_inclusion.  The index and the tree size are not looked at.
VerifyInclusion(leaf, root, path) ==
    FoldLeft(LAMBDA h, s : IF s.direction = "left" THEN NodeHash(s.hash, h) ELSE NodeHash(h, s.hash),
             LeafHash(leaf), path) = root

\* anchor_cose_envelope without the network: the entry is added to the leaves the
\* service has, and the receipt carries the path, the root and the signed head.
Anchored(key, leaves, entry) ==
    LET log == Append(leaves, entry)
    IN  [entry |-> entry, index |-> Len(leaves), size |-> Len(log), root |-> Root(log),
         path |-> AuditPath(log, Len(leaves)), signedBy |-> key,
         head |-> <<Len(log), Root(log)>>]

\* verify_receipt under a service's key.  The head's signature is checked, its
\* size and root are not compared with those of the path.
VerifyReceipt(key, receipt) ==
    /\ VerifyInclusion(receipt.entry, receipt.root, receipt.path)
    /\ receipt.signedBy = key

----------------------------------------------------------------------------
\* The largest power of two that is less than n, for n above one.
SplitPoint(n) == CHOOSE k \in {2^e : e \in 0..n} : k < n /\ n <= 2*k

\* The Merkle tree hash as RFC 6962 defines it, of the n leaves from lo+1 on: the
\* left subtree has the largest power of two of leaves that is less than n.
MTH(leaves) ==
    LET size == Len(leaves)
        mth[n \in 1..size] ==
            [lo \in 0..size - n |->
                IF n = 1 THEN LeafHash(leaves[lo + 1])
                ELSE NodeHash(mth[SplitPoint(n)][lo], mth[n - SplitPoint(n)][lo + SplitPoint(n)])]
    IN  mth[size][0]
=============================================================================
