------------------------ MODULE TransparencyLogProofs ------------------------
(***************************************************************************)
(* Proofs about the Merkle tree of src/scitt_anchor.py, for logs of any    *)
(* length: the root it computes is the hash that RFC 6962 defines, and an  *)
(* audit path proves the leaf at its index and no other.                   *)
(*                                                                         *)
(* The operators are folds and recursive functions, so the first half of   *)
(* the module shows that these are well defined and unfolds them; the      *)
(* second follows the levels of the tree, once from below for the root,    *)
(* where each node is the hash of a run of leaves, and once along a path.  *)
(***************************************************************************)
EXTENDS TransparencyLog, SequenceTheorems, FiniteSetTheorems, WellFoundedInduction, TLAPS

-----------------------------------------------------------------------------
(* Induction, and powers of two. *)

\* Induction is over sets of numbers: a set that has 0, and n + 1 with each n, has
\* every number, since the least that it lacks would follow one that it has.
LEMMA LeastOf ==
    ASSUME NEW T, T \subseteq Nat, T # {}
    PROVE  \E n \in T : \A m \in T : n <= m
<1>. DEFINE R == OpToRel(<, Nat)
<1>1. \A i, j \in Nat : i < j => <<i, j>> \in R
    BY DEF OpToRel
<1>2. IsWellFoundedOn(R, Nat)
    BY NatLessThanWellFounded
<1>. HIDE DEF R
<1>3. PICK n \in T : \A m \in T : <<m, n>> \notin R
    BY <1>2, WFMin
<1>4. ASSUME NEW m \in T PROVE n <= m
  <2>1. ~(m < n)
      BY <1>1, <1>3
  <2>. QED
      BY <2>1
<1>. QED
    BY <1>4

\* The principle that every induction below cites, with the set of the numbers
\* the claim holds for.
LEMMA InductionOn ==
    ASSUME NEW S, 0 \in S, \A n \in Nat : n \in S => n + 1 \in S
    PROVE  Nat \subseteq S
<1>. DEFINE T == Nat \ S
<1>1. SUFFICES ASSUME T # {} PROVE FALSE
    OBVIOUS
<1>2. PICK n \in T : \A m \in T : n <= m
  <2>1. T \subseteq Nat
      OBVIOUS
  <2>. QED
      BY <1>1, <2>1, LeastOf
<1>3. n # 0 /\ n - 1 \in Nat /\ n - 1 \notin T
    BY <1>2
<1>. QED
    BY <1>2, <1>3

\* A power of two is the number of subsets of an interval.
LEMMA PowersDouble ==
    ASSUME NEW n \in Nat
    PROVE  2^n \in Nat /\ 2^(n + 1) = 2 * 2^n
<1>. DEFINE A == 1..n
            Extended == {B \cup {n + 1} : B \in SUBSET A}
<1>1. /\ IsFiniteSet(A) /\ Cardinality(A) = n
      /\ IsFiniteSet(1..n+1) /\ Cardinality(1..n+1) = n + 1
  <2>1. n + 1 \in Int /\ 1 \in Int /\ n \in Int
    OBVIOUS
  <2>. QED
    BY <2>1, FS_Interval
<1>2. IsFiniteSet(SUBSET A) /\ Cardinality(SUBSET A) = 2^n
    BY <1>1, FS_SUBSET
<1>3. Cardinality(SUBSET (1..n+1)) = 2^(n + 1)
    BY <1>1, FS_SUBSET
<1>4. SUBSET (1..n+1) = (SUBSET A) \cup Extended
  <2>1. ASSUME NEW B \in SUBSET (1..n+1) PROVE B \in (SUBSET A) \cup Extended
    <3>1. CASE n + 1 \in B
      <4>1. B \ {n + 1} \in SUBSET A
          OBVIOUS
      <4>2. B = (B \ {n + 1}) \cup {n + 1}
          BY <3>1
      <4>. QED
          BY <4>1, <4>2
    <3>2. CASE n + 1 \notin B
        BY <3>2
    <3>. QED
        BY <3>1, <3>2
  <2>2. ASSUME NEW B \in (SUBSET A) \cup Extended PROVE B \in SUBSET (1..n+1)
    <3>1. A \subseteq 1..n+1 /\ n + 1 \in 1..n+1
        OBVIOUS
    <3>. QED
        BY <2>2, <3>1
  <2>. HIDE DEF Extended
  <2>. QED
      BY <2>1, <2>2
<1>5. (SUBSET A) \cap Extended = {}
  <2>1. n + 1 \notin A
      OBVIOUS
  <2>. QED
      BY <2>1
<1>6. IsFiniteSet(Extended) /\ Cardinality(Extended) = 2^n
  <2>. DEFINE f == [B \in SUBSET A |-> B \cup {n + 1}]
  <2>0. n + 1 \notin A
      OBVIOUS
  <2>1. f \in [SUBSET A -> Extended]
      OBVIOUS
  <2>2. ASSUME NEW B \in SUBSET A, NEW C \in SUBSET A, f[B] = f[C] PROVE B = C
    <3>1. B \cup {n + 1} = C \cup {n + 1}
        BY <2>2
    <3>. QED
        BY <2>0, <3>1
  <2>3. \A y \in Extended : \E B \in SUBSET A : f[B] = y
      OBVIOUS
  <2>. HIDE DEF f, Extended
  <2>4. f \in Bijection(SUBSET A, Extended)
      BY <2>1, <2>2, <2>3 DEF Bijection, Injection, IsInjective, Surjection
  <2>5. ExistsBijection(SUBSET A, Extended)
      BY <2>4 DEF ExistsBijection
  <2>. QED
      BY <1>2, <2>5, FS_Bijection
<1>. HIDE DEF Extended
<1>7. Cardinality((SUBSET A) \cup Extended) = 2^n + 2^n - Cardinality((SUBSET A) \cap Extended)
  <2>1. Cardinality((SUBSET A) \cup Extended) =
            Cardinality(SUBSET A) + Cardinality(Extended) - Cardinality((SUBSET A) \cap Extended)
      BY <1>2, <1>6, FS_Union, Zenon
  <2>. QED
      BY <1>2, <1>6, <2>1
<1>8. 2^n \in Nat /\ Cardinality({}) = 0
    BY <1>2, FS_CardinalityType, FS_EmptySet
<1>9. 2^(n + 1) = 2^n + 2^n - 0
    BY <1>3, <1>4, <1>5, <1>7, <1>8
<1>. QED
    BY <1>8, <1>9

-----------------------------------------------------------------------------
(* Folds: what FoldLeft computes, element by element. *)

\* The levels of a tree, with one more if the last has several nodes.
Grown(levels) ==
    IF Len(Last(levels)) > 1 THEN Append(levels, NextLevel(Last(levels))) ELSE levels
LeafLevel(leaves) == [i \in DOMAIN leaves |-> LeafHash(leaves[i])]
\* What a path's step makes of a hash.
Hashed(h, s) == IF s.direction = "left" THEN NodeHash(s.hash, h) ELSE NodeHash(h, s.hash)

\* The element that a fold takes last is the greatest index.
LEMMA GreatestIsTop ==
    ASSUME NEW n \in Nat, NEW s \in SUBSET (1..n), n \in s
    PROVE  Max(s) = n
<1>1. \A i \in s : n >= i
    OBVIOUS
<1>2. \A x \in s : (\A i \in s : x >= i) => x = n
  <2>1. \A x \in s : x \in 1..n
      OBVIOUS
  <2>. QED
      BY <1>1, <2>1
<1>. QED
    BY <1>1, <1>2 DEF Max

\* The steps of the two folds of the log: of the one that builds a tree, which takes
\* no notice of its leaves, and of the one that follows a path.
Step(fold, x, element) == IF fold = "tree" THEN Grown(x) ELSE Hashed(x, element)

\* What either has when it has folded the elements at a set of indices.
Folding(fold, base, seq, n, f) ==
    f = [s \in SUBSET (1..n) |-> IF s = {} THEN base
                                  ELSE Step(fold, f[s \ {Max(s)}], seq[Max(s)])]

\* There is such a function, so the one that FoldLeft chooses is one.
LEMMA FoldIsDefined ==
    ASSUME NEW N \in Nat, NEW fold, NEW base, NEW seq
    PROVE  \E f : Folding(fold, base, seq, N, f)
<1>. DEFINE Unfolds(f, n) ==
                [s \in SUBSET (1..n) |-> IF s = {} THEN base
                                         ELSE Step(fold, f[s \ {Max(s)}], seq[Max(s)])]
            S == {n \in Nat : \E f : f = Unfolds(f, n)}
<1>1. 0 \in S
  <2>. DEFINE f == [s \in SUBSET (1..0) |-> base]
  <2>1. \A s \in SUBSET (1..0) : s = {}
      OBVIOUS
  <2>2. f = Unfolds(f, 0)
      BY <2>1
  <2>. QED
      BY <2>2
<1>2. ASSUME NEW n \in Nat, n \in S PROVE n + 1 \in S
  <2>1. PICK f : f = Unfolds(f, n)
      BY <1>2
  <2>. DEFINE g == [s \in SUBSET (1..n+1) |-> IF n + 1 \in s THEN Step(fold, f[s \ {n + 1}], seq[n + 1]) ELSE f[s]]
  <2>2. \A s \in SUBSET (1..n) : f[s] = IF s = {} THEN base ELSE Step(fold, f[s \ {Max(s)}], seq[Max(s)])
      BY <2>1
  <2>3. \A s \in SUBSET (1..n+1) : n + 1 \notin s => s \in SUBSET (1..n)
    <3>1. \A i \in 1..n+1 : i # n + 1 => i \in 1..n
        OBVIOUS
    <3>. QED
        BY <3>1
  <2>4. \A s \in SUBSET (1..n) : s \in SUBSET (1..n+1) /\ n + 1 \notin s /\ g[s] = f[s]
    <3>1. 1..n \subseteq 1..n+1 /\ n + 1 \notin 1..n
        OBVIOUS
    <3>2. \A s \in SUBSET (1..n) : s \in SUBSET (1..n+1) /\ n + 1 \notin s
        BY <3>1
    <3>. QED
        BY <3>2
  <2>5. ASSUME NEW s \in SUBSET (1..n+1)
        PROVE  g[s] = IF s = {} THEN base ELSE Step(fold, g[s \ {Max(s)}], seq[Max(s)])
    <3>1. CASE n + 1 \in s
      <4>1. Max(s) = n + 1
          BY <3>1, GreatestIsTop
      <4>2. s \ {n + 1} \in SUBSET (1..n)
        <5>1. s \ {n + 1} \in SUBSET (1..n+1) /\ n + 1 \notin s \ {n + 1}
            OBVIOUS
        <5>. QED
            BY <2>3, <5>1
      <4>3. g[s] = Step(fold, f[s \ {n + 1}], seq[n + 1])
          BY <3>1
      <4>4. g[s \ {n + 1}] = f[s \ {n + 1}]
          BY <2>4, <4>2
      <4>5. s # {}
          BY <3>1
      <4>. QED
          BY <4>1, <4>3, <4>4, <4>5
    <3>2. CASE n + 1 \notin s
      <4>1. s \in SUBSET (1..n) /\ s \ {Max(s)} \in SUBSET (1..n)
          BY <2>3, <3>2
      <4>2. g[s] = f[s] /\ g[s \ {Max(s)}] = f[s \ {Max(s)}]
          BY <2>4, <4>1
      <4>. HIDE DEF g
      <4>. QED
          BY <2>2, <4>1, <4>2
    <3>. QED
        BY <3>1, <3>2
  <2>6. g = [s \in SUBSET (1..n+1) |-> g[s]]
      OBVIOUS
  <2>. HIDE DEF g
  <2>7. g = Unfolds(g, n + 1)
      BY <2>5, <2>6
  <2>8. \E h : h = Unfolds(h, n + 1)
      BY <2>7
  <2>. HIDE DEF Unfolds
  <2>. QED
      BY <2>8
<1>3. \E f : f = Unfolds(f, N)
  <2>. HIDE DEF S
  <2>1. Nat \subseteq S
      BY <1>1, <1>2, InductionOn
  <2>. QED
      BY <2>1 DEF S
<1>. QED
    BY <1>3 DEF Folding

\* It folds the elements from the first to the last.
LEMMA FoldSteps ==
    ASSUME NEW N \in Nat, NEW fold, NEW base, NEW seq, NEW f, Folding(fold, base, seq, N, f)
    PROVE  /\ f[1..0] = base
           /\ \A k \in 1..N : f[1..k] = Step(fold, f[1..(k - 1)], seq[k])
<1>1. \A s \in SUBSET (1..N) : f[s] = IF s = {} THEN base
                                      ELSE Step(fold, f[s \ {Max(s)}], seq[Max(s)])
    BY DEF Folding
<1>2. 1..0 = {} /\ {} \in SUBSET (1..N)
    OBVIOUS
<1>3. ASSUME NEW k \in 1..N PROVE f[1..k] = Step(fold, f[1..(k - 1)], seq[k])
  <2>1. 1..k \in SUBSET (1..N) /\ k \in 1..k /\ k \in Nat
      OBVIOUS
  <2>2. Max(1..k) = k
      BY <2>1, GreatestIsTop
  <2>3. (1..k) \ {k} = 1..(k - 1)
      OBVIOUS
  <2>4. 1..k # {}
      BY <2>1
  <2>. QED
      BY <1>1, <2>1, <2>2, <2>3, <2>4
<1>. QED
    BY <1>1, <1>2, <1>3

\* A tree is grown from the leaf hashes in as many rounds as there are leaves.
GrowsTree(leaves, N, grown) ==
    /\ grown[0] = <<LeafLevel(leaves)>>
    /\ \A k \in 1..N : grown[k] = Grown(grown[k - 1])
    /\ Tree(leaves) = grown[N]

\* The fold in _build_tree's model is such a growth.
LEMMA TreeFold ==
    ASSUME NEW N \in Nat, NEW leaves, DOMAIN leaves = 1..N
    PROVE  \E grown : GrowsTree(leaves, N, grown)
<1>. DEFINE base == <<LeafLevel(leaves)>>
            Unfolds(f) == [s \in SUBSET (1..N) |-> IF s = {} THEN base ELSE Grown(f[s \ {Max(s)}])]
            iter == CHOOSE f : f = Unfolds(f)
            grown == [k \in 0..N |-> iter[1..k]]
<1>1. Tree(leaves) = LET f == CHOOSE f : f = [s \in SUBSET DOMAIN leaves |->
                            IF s = {} THEN base ELSE Grown(f[s \ {Max(s)}])]
                     IN  f[DOMAIN leaves]
    BY DEF Tree, FoldLeft, MapThenFoldSet, Grown, LeafLevel
<1>2. Tree(leaves) = iter[1..N]
    BY <1>1
<1>. HIDE DEF base
<1>3. \A f : f = Unfolds(f) <=> Folding("tree", base, leaves, N, f)
    BY DEF Folding, Step
<1>4. iter = Unfolds(iter)
    BY <1>3, FoldIsDefined
<1>. HIDE DEF iter
<1>5. Folding("tree", base, leaves, N, iter)
    BY <1>3, <1>4
<1>6. grown[0] = base /\ grown[N] = iter[1..N]
    BY <1>5, FoldSteps
<1>7. ASSUME NEW k \in 1..N PROVE grown[k] = Grown(grown[k - 1])
  <2>1. iter[1..k] = Step("tree", iter[1..(k - 1)], leaves[k])
      BY <1>5, FoldSteps
  <2>. QED
      BY <2>1 DEF Step
<1>. HIDE DEF grown
<1>8. GrowsTree(leaves, N, grown)
    BY <1>2, <1>6, <1>7 DEF base, GrowsTree
<1>. QED
    BY <1>8

\* A path is verified by hashing a leaf with one step after the other.
HashesPath(leaf, path, N, hashed) ==
    /\ hashed[0] = LeafHash(leaf)
    /\ \A k \in 1..N : hashed[k] = Hashed(hashed[k - 1], path[k])
    /\ \A root : VerifyInclusion(leaf, root, path) <=> hashed[N] = root

\* The fold in verify_inclusion's model is such a hashing.
LEMMA PathFold ==
    ASSUME NEW N \in Nat, NEW path, DOMAIN path = 1..N, NEW leaf
    PROVE  \E hashed : HashesPath(leaf, path, N, hashed)
<1>. DEFINE base == LeafHash(leaf)
            Unfolds(f) == [s \in SUBSET (1..N) |-> IF s = {} THEN base
                                                   ELSE Hashed(f[s \ {Max(s)}], path[Max(s)])]
            iter == CHOOSE f : f = Unfolds(f)
            hashed == [k \in 0..N |-> iter[1..k]]
<1>1. \A root : VerifyInclusion(leaf, root, path) <=>
          (LET f == CHOOSE f : f = [s \in SUBSET DOMAIN path |->
                IF s = {} THEN base ELSE Hashed(f[s \ {Max(s)}], path[Max(s)])]
          IN  f[DOMAIN path]) = root
    BY DEF VerifyInclusion, FoldLeft, MapThenFoldSet, Hashed
<1>2. \A root : VerifyInclusion(leaf, root, path) <=> iter[1..N] = root
    BY <1>1
<1>. HIDE DEF base
<1>3. \A f : f = Unfolds(f) <=> Folding("path", base, path, N, f)
    BY DEF Folding, Step
<1>4. iter = Unfolds(iter)
    BY <1>3, FoldIsDefined
<1>. HIDE DEF iter
<1>5. Folding("path", base, path, N, iter)
    BY <1>3, <1>4
<1>6. hashed[0] = base /\ hashed[N] = iter[1..N]
    BY <1>5, FoldSteps
<1>7. ASSUME NEW k \in 1..N PROVE hashed[k] = Hashed(hashed[k - 1], path[k])
  <2>1. iter[1..k] = Step("path", iter[1..(k - 1)], path[k])
      BY <1>5, FoldSteps
  <2>. QED
      BY <2>1 DEF Step
<1>. HIDE DEF hashed
<1>8. HashesPath(leaf, path, N, hashed)
    BY <1>2, <1>6, <1>7 DEF base, HashesPath
<1>. QED
    BY <1>8

\* Powers of two grow, and faster than their exponents.
LEMMA PowersGrow ==
    ASSUME NEW a \in Nat, NEW b \in Nat, a <= b
    PROVE  2^a \in Nat /\ a < 2^a /\ 2^a <= 2^b
<1>. DEFINE S == {n \in Nat : n < 2^n}
            T == {n \in Nat : 2^a <= 2^(a + n)}
<1>1. \A n \in Nat : 2^n \in Nat /\ 2^(n + 1) = 2 * 2^n
    BY PowersDouble
<1>2. Nat \subseteq S
  <2>1. 0 \in S
      OBVIOUS
  <2>2. ASSUME NEW n \in Nat, n \in S PROVE n + 1 \in S
    <3>1. n < 2^n /\ 2^n \in Nat /\ 2^(n + 1) = 2 * 2^n
        BY <1>1, <2>2
    <3>2. n + 1 < 2^(n + 1)
        BY <3>1
    <3>. QED
        BY <3>2
  <2>. HIDE DEF S
  <2>. QED
      BY <2>1, <2>2, InductionOn
<1>3. Nat \subseteq T
  <2>1. 0 \in T
    <3>1. a + 0 = a
        OBVIOUS
    <3>. QED
        BY <1>1, <3>1
  <2>2. ASSUME NEW n \in Nat, n \in T PROVE n + 1 \in T
    <3>1. 2^a <= 2^(a + n) /\ a + n \in Nat /\ a + (n + 1) = (a + n) + 1
        BY <2>2
    <3>2. PICK k \in Nat : k = a + n
        OBVIOUS
    <3>3. 2^a \in Nat /\ 2^k \in Nat /\ 2^(k + 1) = 2 * 2^k /\ 2^a <= 2^k
        BY <1>1, <3>1, <3>2
    <3>4. 2^a <= 2^(k + 1)
        BY <3>3
    <3>. QED
        BY <3>1, <3>2, <3>4
  <2>. HIDE DEF T
  <2>. QED
      BY <2>1, <2>2, InductionOn
<1>4. PICK n \in Nat : b = a + n
  <2>1. b - a \in Nat /\ b = a + (b - a)
      OBVIOUS
  <2>. QED
      BY <2>1
<1>5. a \in S /\ n \in T
    BY <1>2, <1>3
<1>. QED
    BY <1>1, <1>4, <1>5

\* The only power of two below n that is at least half of it.
LEMMA SplitAtPower ==
    ASSUME NEW e \in Nat, NEW n \in Nat, 2^e < n, n <= 2 * 2^e
    PROVE  SplitPoint(n) = 2^e
<1>1. 2^e \in Nat /\ e < 2^e
    BY PowersGrow
<1>2. 2^e \in {2^d : d \in 0..n}
    BY <1>1
<1>3. ASSUME NEW d \in 0..n, 2^d < n, n <= 2 * 2^d PROVE 2^d = 2^e
  <2>1. 2^d \in Nat /\ 2^(d + 1) = 2 * 2^d /\ 2^(e + 1) = 2 * 2^e
      BY PowersDouble
  <2>2. CASE d < e
    <3>1. d + 1 \in Nat /\ d + 1 <= e
        BY <2>2
    <3>2. 2^(d + 1) <= 2^e
        BY <3>1, PowersGrow
    <3>. QED
        BY <1>1, <1>3, <2>1, <3>2
  <2>3. CASE e < d
    <3>1. e + 1 \in Nat /\ e + 1 <= d /\ d \in Nat
        BY <2>3
    <3>2. 2^(e + 1) <= 2^d
        BY <3>1, PowersGrow
    <3>. QED
        BY <1>1, <1>3, <2>1, <3>2
  <2>. QED
      BY <2>2, <2>3
<1>. QED
    BY <1>2, <1>3 DEF SplitPoint

\* Such a power is there: the one below the least that reaches n.
LEMMA SplitIsProper ==
    ASSUME NEW n \in Nat, n >= 2
    PROVE  SplitPoint(n) \in 1..n - 1
<1>. DEFINE T == {m \in Nat : n <= 2^m}
<1>1. PICK m \in T : \A k \in T : m <= k
  <2>1. n < 2^n
      BY PowersGrow
  <2>2. n \in T
      BY <2>1, PowersDouble
  <2>3. T \subseteq Nat /\ T # {}
      BY <2>2
  <2>. HIDE DEF T
  <2>. QED
      BY <2>3, LeastOf
<1>2. m # 0
  <2>1. SUFFICES ASSUME m = 0 PROVE FALSE
      OBVIOUS
  <2>2. n <= 2^m
      OBVIOUS
  <2>3. 2^0 = 1
      OBVIOUS
  <2>. QED
      BY <2>1, <2>2, <2>3
<1>3. PICK e \in Nat : m = e + 1
  <2>1. m - 1 \in Nat /\ m = (m - 1) + 1
      BY <1>1, <1>2
  <2>. QED
      BY <2>1
<1>4. 2^e \in Nat /\ 2^(e + 1) = 2 * 2^e /\ e < 2^e
    BY PowersDouble, PowersGrow
<1>5. e \notin T
    BY <1>1, <1>3
<1>6. 2^e < n /\ n <= 2 * 2^e
    BY <1>1, <1>3, <1>4, <1>5
<1>7. SplitPoint(n) = 2^e
    BY <1>6, SplitAtPower
<1>. QED
    BY <1>4, <1>6, <1>7

-----------------------------------------------------------------------------
(* Recursive functions: the reference hash, and the parts of a path. *)

\* The hash of every run of leaves, by its length and where it begins.
HashesRuns(leaves, N, mth) ==
    /\ MTH(leaves) = mth[N][0]
    /\ \A lo \in 0..N - 1 : mth[1][lo] = LeafHash(leaves[lo + 1])
    /\ \A n \in 2..N : \A lo \in 0..N - n :
          mth[n][lo] = NodeHash(mth[SplitPoint(n)][lo], mth[n - SplitPoint(n)][lo + SplitPoint(n)])

\* The recursion of MTH is well defined, since both parts of a run are shorter.
LEMMA MerkleHash ==
    ASSUME NEW N \in Nat \ {0}, NEW leaves, Len(leaves) = N
    PROVE  \E mth : HashesRuns(leaves, N, mth)
<1>. DEFINE Row(f, n) == [lo \in 0..N - n |->
                            IF n = 1 THEN LeafHash(leaves[lo + 1])
                            ELSE NodeHash(f[SplitPoint(n)][lo],
                                          f[n - SplitPoint(n)][lo + SplitPoint(n)])]
            Unfolds(f, m) == [n \in 1..m |-> Row(f, n)]
            S == {m \in Nat : \E f : f = Unfolds(f, m)}
            mth == CHOOSE f : f = Unfolds(f, N)
<1>1. MTH(leaves) = mth[N][0]
    BY DEF MTH
<1>2. 0 \in S
  <2>. DEFINE f == [n \in 1..0 |-> 0]
  <2>1. f = Unfolds(f, 0)
      OBVIOUS
  <2>. QED
      BY <2>1
<1>3. ASSUME NEW m \in Nat, m \in S PROVE m + 1 \in S
  <2>1. PICK f : f = Unfolds(f, m)
      BY <1>3
  <2>. DEFINE g == [n \in 1..m + 1 |-> IF n = m + 1 THEN Row(f, n) ELSE f[n]]
  <2>2. \A n \in 1..m : f[n] = Row(f, n)
      BY <2>1
  <2>3. \A n \in 1..m : g[n] = f[n]
      OBVIOUS
  <2>4. ASSUME NEW n \in 1..m + 1 PROVE g[n] = Row(f, n)
    <3>. HIDE DEF Row
    <3>1. n # m + 1 => n \in 1..m
        OBVIOUS
    <3>. QED
        BY <2>2, <3>1
  <2>5. g = [n \in 1..m + 1 |-> g[n]]
      OBVIOUS
  <2>. HIDE DEF g
  <2>6. ASSUME NEW n \in 1..m + 1 PROVE Row(f, n) = Row(g, n)
    <3>1. CASE n = 1
        BY <3>1
    <3>2. CASE n # 1
      <4>1. SplitPoint(n) \in 1..n - 1
          BY <3>2, SplitIsProper
      <4>2. SplitPoint(n) \in 1..m /\ n - SplitPoint(n) \in 1..m
          BY <4>1
      <4>3. g[SplitPoint(n)] = f[SplitPoint(n)] /\ g[n - SplitPoint(n)] = f[n - SplitPoint(n)]
          BY <2>3, <4>2
      <4>. QED
          BY <4>3
    <3>. QED
        BY <3>1, <3>2
  <2>7. \A n \in 1..m + 1 : g[n] = Row(g, n)
      BY <2>4, <2>6
  <2>. HIDE DEF Row
  <2>8. g = Unfolds(g, m + 1)
      BY <2>5, <2>7
  <2>9. \E h : h = Unfolds(h, m + 1)
      BY <2>8
  <2>. HIDE DEF Unfolds
  <2>. QED
      BY <2>9
<1>4. \E f : f = Unfolds(f, N)
  <2>. HIDE DEF S
  <2>1. Nat \subseteq S
      BY <1>2, <1>3, InductionOn
  <2>. QED
      BY <2>1 DEF S
<1>5. mth = Unfolds(mth, N)
  <2>. HIDE DEF Row
  <2>. QED
      BY <1>4
<1>. HIDE DEF mth
<1>6. \A n \in 1..N : mth[n] = Row(mth, n)
  <2>. HIDE DEF Row
  <2>. QED
      BY <1>5
<1>7. ASSUME NEW lo \in 0..N - 1 PROVE mth[1][lo] = LeafHash(leaves[lo + 1])
  <2>1. mth[1] = Row(mth, 1)
      BY <1>6
  <2>. QED
      BY <2>1
<1>8. ASSUME NEW n \in 2..N, NEW lo \in 0..N - n
      PROVE  mth[n][lo] = NodeHash(mth[SplitPoint(n)][lo],
                                   mth[n - SplitPoint(n)][lo + SplitPoint(n)])
  <2>1. mth[n] = Row(mth, n) /\ n # 1
      BY <1>6
  <2>. QED
      BY <2>1
<1>. HIDE DEF Row, Unfolds
<1>9. HashesRuns(leaves, N, mth)
    BY <1>1, <1>7, <1>8 DEF HashesRuns
<1>. QED
    BY <1>9

\* The sequences up to each, one after the other.
Flattened(seqs, d, flat) ==
    /\ FlattenSeq(seqs) = flat[d]
    /\ flat[1] = seqs[1]
    /\ \A k \in 2..d : flat[k] = flat[k - 1] \o seqs[k]

\* The recursion of FlattenSeq is well defined.
LEMMA Flattens ==
    ASSUME NEW d \in Nat \ {0}, NEW seqs, Len(seqs) = d
    PROVE  \E flat : Flattened(seqs, d, flat)
<1>. DEFINE Unfolds(f, n) == [i \in 1..n |-> IF i = 1 THEN seqs[i] ELSE f[i - 1] \o seqs[i]]
            S == {n \in Nat : \E f : f = Unfolds(f, n)}
            flat == CHOOSE f : f = Unfolds(f, d)
<1>1. FlattenSeq(seqs) = flat[d]
    BY DEF FlattenSeq
<1>2. 0 \in S
  <2>. DEFINE f == [n \in 1..0 |-> 0]
  <2>1. f = Unfolds(f, 0)
      OBVIOUS
  <2>. QED
      BY <2>1
<1>3. ASSUME NEW n \in Nat, n \in S PROVE n + 1 \in S
  <2>1. PICK f : f = Unfolds(f, n)
      BY <1>3
  <2>. DEFINE g == [i \in 1..n + 1 |-> IF i = 1 THEN seqs[i] ELSE f[i - 1] \o seqs[i]]
  <2>2. \A i \in 1..n : g[i] = f[i]
    <3>1. \A i \in 1..n : f[i] = IF i = 1 THEN seqs[i] ELSE f[i - 1] \o seqs[i]
        BY <2>1
    <3>2. \A i \in 1..n : i \in 1..n + 1
        OBVIOUS
    <3>. QED
        BY <3>1, <3>2
  <2>3. \A i \in 1..n + 1 : g[i] = IF i = 1 THEN seqs[i] ELSE f[i - 1] \o seqs[i]
      OBVIOUS
  <2>4. g = [i \in 1..n + 1 |-> g[i]]
      OBVIOUS
  <2>. HIDE DEF g
  <2>5. \A i \in 1..n + 1 : g[i] = IF i = 1 THEN seqs[i] ELSE g[i - 1] \o seqs[i]
    <3>1. \A i \in 1..n + 1 : i # 1 => i - 1 \in 1..n
        OBVIOUS
    <3>. QED
        BY <2>2, <2>3, <3>1
  <2>6. g = Unfolds(g, n + 1)
      BY <2>4, <2>5
  <2>7. \E h : h = Unfolds(h, n + 1)
      BY <2>6
  <2>. HIDE DEF Unfolds
  <2>. QED
      BY <2>7
<1>4. \E f : f = Unfolds(f, d)
  <2>. HIDE DEF S
  <2>1. Nat \subseteq S
      BY <1>2, <1>3, InductionOn
  <2>. QED
      BY <2>1 DEF S
<1>5. flat = Unfolds(flat, d)
    BY <1>4
<1>. HIDE DEF flat
<1>6. \A i \in 1..d : flat[i] = IF i = 1 THEN seqs[i] ELSE flat[i - 1] \o seqs[i]
    BY <1>5
<1>7. flat[1] = seqs[1]
    BY <1>6
<1>8. \A k \in 2..d : flat[k] = flat[k - 1] \o seqs[k]
  <2>1. \A k \in 2..d : k \in 1..d /\ k # 1
      OBVIOUS
  <2>. QED
      BY <1>6, <2>1
<1>. HIDE DEF Unfolds
<1>9. Flattened(seqs, d, flat)
    BY <1>1, <1>7, <1>8 DEF Flattened
<1>. QED
    BY <1>9

\* A concatenation begins with its first part.
LEMMA ConcatenationBegins ==
    ASSUME NEW X, NEW s \in Seq(X), NEW t \in Seq(X)
    PROVE  /\ Len(s) \in Nat /\ Len(s \o t) \in Nat /\ Len(s) <= Len(s \o t)
           /\ \A i \in 1..Len(s) : (s \o t)[i] = s[i]
OBVIOUS

\* What FlattenSeq gives is reached by adding the sequences one after the other, and
\* begins with what is there after any of them.
Parts(X, seqs, d, parts) ==
    /\ parts[0] = <<>>
    /\ FlattenSeq(seqs) = parts[d]
    /\ \A k \in 0..d : parts[k] \in Seq(X)
    /\ \A k \in 1..d : parts[k] = parts[k - 1] \o seqs[k]
    /\ \A k \in 0..d : /\ Len(parts[k]) <= Len(parts[d])
                       /\ \A i \in 1..Len(parts[k]) : parts[d][i] = parts[k][i]

LEMMA FlattenByParts ==
    ASSUME NEW X, NEW seqs \in Seq(Seq(X)), NEW d \in Nat, Len(seqs) = d
    PROVE  \E parts : Parts(X, seqs, d, parts)
<1>1. \E parts : /\ parts[0] = <<>> /\ FlattenSeq(seqs) = parts[d]
                 /\ \A k \in 1..d : parts[k] = parts[k - 1] \o seqs[k]
  <2>1. CASE d = 0
    <3>. DEFINE parts == [k \in 0..0 |-> <<>>]
    <3>1. FlattenSeq(seqs) = seqs
        BY <2>1 DEF FlattenSeq
    <3>2. seqs = <<>>
        BY <2>1
    <3>3. parts[0] = <<>> /\ FlattenSeq(seqs) = parts[0]
        BY <3>1, <3>2
    <3>4. \A k \in 1..d : FALSE
        BY <2>1
    <3>. HIDE DEF parts
    <3>. QED
        BY <2>1, <3>3, <3>4
  <2>2. CASE d # 0
    <3>0. d \in Nat \ {0}
        BY <2>2
    <3>1. PICK flat : Flattened(seqs, d, flat)
        BY <3>0, Flattens
    <3>. DEFINE parts == [k \in 0..d |-> IF k = 0 THEN <<>> ELSE flat[k]]
    <3>2. parts[0] = <<>> /\ FlattenSeq(seqs) = parts[d]
        BY <2>2, <3>1 DEF Flattened
    <3>3. ASSUME NEW k \in 1..d PROVE parts[k] = parts[k - 1] \o seqs[k]
      <4>0. seqs[k] \in Seq(X) /\ parts[k] = flat[k]
          OBVIOUS
      <4>1. CASE k = 1
        <5>1. <<>> \o seqs[1] = seqs[1]
            BY <4>0, <4>1
        <5>2. parts[1] = seqs[1] /\ parts[0] = <<>>
            BY <3>1, <3>2, <4>0, <4>1 DEF Flattened
        <5>. HIDE DEF parts
        <5>3. k - 1 = 0
            BY <4>1
        <5>. QED
            BY <4>1, <5>1, <5>2, <5>3
      <4>2. CASE k # 1
        <5>1. k \in 2..d /\ parts[k - 1] = flat[k - 1]
            BY <4>2
        <5>. HIDE DEF parts
        <5>. QED
            BY <3>1, <4>0, <5>1 DEF Flattened
      <4>. QED
          BY <4>1, <4>2
    <3>. HIDE DEF parts
    <3>. QED
        BY <3>2, <3>3
  <2>. QED
      BY <2>1, <2>2
<1>2. PICK parts : /\ parts[0] = <<>> /\ FlattenSeq(seqs) = parts[d]
                   /\ \A k \in 1..d : parts[k] = parts[k - 1] \o seqs[k]
    BY <1>1
<1>2a. \A n \in Nat : n + 1 <= d => /\ seqs[n + 1] \in Seq(X)
                                    /\ parts[n + 1] = parts[n] \o seqs[n + 1]
  <2>1. ASSUME NEW n \in Nat, n + 1 <= d
        PROVE  seqs[n + 1] \in Seq(X) /\ parts[n + 1] = parts[n] \o seqs[n + 1]
    <3>1. n + 1 \in 1..d /\ (n + 1) - 1 = n
        BY <2>1
    <3>2. seqs[n + 1] \in Seq(X)
        BY <3>1
    <3>3. parts[n + 1] = parts[(n + 1) - 1] \o seqs[n + 1]
        BY <1>2, <3>1
    <3>. QED
        BY <3>1, <3>2, <3>3
  <2>. QED
      BY <2>1
<1>3. \A k \in 0..d : parts[k] \in Seq(X)
  <2>. DEFINE S == {n \in Nat : n <= d => parts[n] \in Seq(X)}
  <2>1. 0 \in S
    <3>1. parts[0] \in Seq(X)
      <4>1. <<>> \in Seq(X)
          OBVIOUS
      <4>. QED
          BY <1>2, <4>1
    <3>. QED
        BY <3>1
  <2>2. ASSUME NEW n \in Nat, n \in S PROVE n + 1 \in S
    <3>1. SUFFICES ASSUME n + 1 <= d PROVE parts[n + 1] \in Seq(X)
        OBVIOUS
    <3>2. parts[n] \in Seq(X)
        BY <2>2, <3>1
    <3>3. seqs[n + 1] \in Seq(X) /\ parts[n + 1] = parts[n] \o seqs[n + 1]
        BY <1>2a, <3>1
    <3>. QED
        BY <3>2, <3>3
  <2>. HIDE DEF S
  <2>3. Nat \subseteq S
      BY <2>1, <2>2, InductionOn
  <2>. QED
      BY <2>3 DEF S
<1>4. ASSUME NEW k \in 0..d
      PROVE  /\ Len(parts[k]) <= Len(parts[d])
             /\ \A i \in 1..Len(parts[k]) : parts[d][i] = parts[k][i]
  <2>. DEFINE Begins(n) == /\ Len(parts[k]) <= Len(parts[n])
                           /\ \A i \in 1..Len(parts[k]) : parts[n][i] = parts[k][i]
              S == {n \in Nat : k + n <= d => Begins(k + n)}
  <2>1. 0 \in S
    <3>1. k + 0 = k /\ parts[k] \in Seq(X)
        BY <1>3
    <3>2. Begins(k)
        BY <3>1
    <3>. HIDE DEF Begins
    <3>. QED
        BY <3>1, <3>2
  <2>2. ASSUME NEW n \in Nat, n \in S PROVE n + 1 \in S
    <3>1. SUFFICES ASSUME k + (n + 1) <= d PROVE Begins(k + (n + 1))
      <4>. HIDE DEF Begins
      <4>. QED
          OBVIOUS
    <3>2. PICK m \in Nat : m = k + n
        OBVIOUS
    <3>3. Begins(m)
      <4>. HIDE DEF Begins
      <4>. QED
          BY <2>2, <3>1, <3>2
    <3>4. m \in 0..d /\ m + 1 <= d /\ k + (n + 1) = m + 1
        BY <3>1, <3>2
    <3>5. /\ parts[m] \in Seq(X) /\ parts[k] \in Seq(X)
        BY <1>3, <3>4
    <3>6. seqs[m + 1] \in Seq(X) /\ parts[m + 1] = parts[m] \o seqs[m + 1]
        BY <1>2a, <3>4
    <3>7. /\ Len(parts[m]) \in Nat /\ Len(parts[m + 1]) \in Nat
          /\ Len(parts[m]) <= Len(parts[m + 1])
          /\ \A i \in 1..Len(parts[m]) : parts[m + 1][i] = parts[m][i]
      <4>1. PICK s \in Seq(X), t \in Seq(X) : s = parts[m] /\ t = seqs[m + 1]
          BY <3>5, <3>6
      <4>2. parts[m + 1] = s \o t
          BY <3>6, <4>1
      <4>3. /\ Len(s) \in Nat /\ Len(s \o t) \in Nat /\ Len(s) <= Len(s \o t)
            /\ \A i \in 1..Len(s) : (s \o t)[i] = s[i]
          BY ConcatenationBegins
      <4>. QED
          BY <4>1, <4>2, <4>3
    <3>8. Len(parts[k]) \in Nat
        BY <3>5
    <3>9. Begins(m + 1)
      <4>1. Len(parts[k]) <= Len(parts[m + 1])
          BY <3>3, <3>7, <3>8
      <4>2. ASSUME NEW i \in 1..Len(parts[k]) PROVE parts[m + 1][i] = parts[k][i]
        <5>1. i \in 1..Len(parts[m])
            BY <3>3, <3>7, <3>8
        <5>. QED
            BY <3>3, <3>7, <5>1
      <4>. QED
          BY <4>1, <4>2
    <3>. HIDE DEF Begins
    <3>. QED
        BY <3>4, <3>9
  <2>3. Nat \subseteq S
    <3>. HIDE DEF S
    <3>. QED
      BY <2>1, <2>2, InductionOn
  <2>4. PICK n \in Nat : d = k + n
    <3>1. d - k \in Nat /\ d = k + (d - k)
        OBVIOUS
    <3>. QED
        BY <3>1
  <2>5. Begins(k + n)
    <3>. HIDE DEF Begins
    <3>1. n \in S /\ k + n <= d
        BY <2>3, <2>4
    <3>. QED
        BY <3>1
  <2>. QED
      BY <2>4, <2>5
<1>5. Parts(X, seqs, d, parts)
    BY <1>2, <1>3, <1>4 DEF Parts
<1>. QED
    BY <1>5

-----------------------------------------------------------------------------
(* The tree, level by level. *)

\* A level of a tree, or any sequence that is not empty.
IsLevel(level) == \E n \in Nat \ {0} : level = [i \in 1..n |-> level[i]]

\* The levels above the first: each has more than one node below the last.
IsTree(tree, d, first) ==
    /\ tree = [j \in 1..d + 1 |-> tree[j]]
    /\ tree[1] = first
    /\ \A j \in 1..d + 1 : IsLevel(tree[j])
    /\ \A j \in 1..d : Len(tree[j]) > 1 /\ tree[j + 1] = NextLevel(tree[j])

\* The length of a function on the first n numbers.
LEMMA LengthOfLevel ==
    ASSUME NEW n \in Nat, NEW s, s = [i \in 1..n |-> s[i]]
    PROVE  Len(s) = n /\ DOMAIN s = 1..n
OBVIOUS

\* Append, on sequences of anything.
LEMMA AppendToAny ==
    ASSUME NEW n \in Nat, NEW s, s = [i \in 1..n |-> s[i]], NEW e
    PROVE  Append(s, e) = [i \in 1..n + 1 |-> IF i <= n THEN s[i] ELSE e]
<1>. DEFINE X == {s[i] : i \in 1..n} \cup {e}
            z == Append(s, e)
            y == [i \in 1..n + 1 |-> IF i <= n THEN s[i] ELSE e]
<1>1. \A i \in 1..n : s[i] \in X
    OBVIOUS
<1>2. e \in X
    OBVIOUS
<1>. HIDE DEF X
<1>3. s \in Seq(X) /\ Len(s) = n
    BY <1>1, LengthOfLevel
<1>4. z \in Seq(X) /\ Len(z) = n + 1 /\ (\A i \in 1..n : z[i] = s[i]) /\ z[n + 1] = e
    BY <1>2, <1>3, AppendProperties
<1>5. y \in Seq(X) /\ Len(y) = n + 1
  <2>1. y = [i \in 1..n + 1 |-> y[i]] /\ \A i \in 1..n + 1 : y[i] \in X
      BY <1>1, <1>2
  <2>. HIDE DEF y
  <2>2. Len(y) = n + 1 /\ DOMAIN y = 1..n + 1
      BY <2>1, LengthOfLevel
  <2>. QED
      BY <2>1, <2>2
<1>. HIDE DEF z
<1>6. \A i \in 1..n + 1 : z[i] = y[i]
    BY <1>4
<1>. HIDE DEF y
<1>7. z = y
    BY <1>4, <1>5, <1>6, SeqEqual
<1>. QED
    BY <1>7 DEF z, y

\* A level is above each: half as long, rounded up.
LEMMA NextLevelShape ==
    ASSUME NEW level, IsLevel(level)
    PROVE  LET n == Len(level)
           IN  /\ n \in Nat \ {0}
               /\ IsLevel(NextLevel(level)) /\ Len(NextLevel(level)) = (n + 1) \div 2
               /\ \A i \in 1..(n + 1) \div 2 :
                     NextLevel(level)[i] = IF 2*i <= n THEN NodeHash(level[2*i - 1], level[2*i])
                                           ELSE level[2*i - 1]
<1>1. PICK n \in Nat \ {0} : level = [i \in 1..n |-> level[i]]
    BY DEF IsLevel
<1>2. Len(level) = n
    BY <1>1, LengthOfLevel
<1>3. (n + 1) \div 2 \in Nat \ {0}
    OBVIOUS
<1>4. PICK m \in Nat \ {0} : m = (n + 1) \div 2
    BY <1>3
<1>5. NextLevel(level) = [i \in 1..m |-> IF 2*i <= n THEN NodeHash(level[2*i - 1], level[2*i])
                                         ELSE level[2*i - 1]]
    BY <1>2, <1>4 DEF NextLevel
<1>6. PICK next : next = NextLevel(level)
    OBVIOUS
<1>7. next = [i \in 1..m |-> next[i]]
    BY <1>5, <1>6
<1>8. \A i \in 1..m : next[i] = IF 2*i <= n THEN NodeHash(level[2*i - 1], level[2*i])
                                ELSE level[2*i - 1]
    BY <1>5, <1>6
<1>9. Len(next) = m /\ IsLevel(next)
    BY <1>7, LengthOfLevel DEF IsLevel
<1>. QED
    BY <1>2, <1>4, <1>6, <1>8, <1>9

\* The rounds suffice: each that adds a level makes the last one shorter, and there
\* are as many rounds as leaves.
LEMMA TreeIsBuilt ==
    ASSUME NEW N \in Nat \ {0}, NEW leaves, DOMAIN leaves = 1..N
    PROVE  \E d \in Nat : IsTree(Tree(leaves), d, LeafLevel(leaves)) /\ Len(Tree(leaves)[d + 1]) = 1
<1>. DEFINE first == LeafLevel(leaves)
            Shrinks(t, d, k) == Len(t[d + 1]) = 1 \/ Len(t[d + 1]) + k <= N
<1>1. PICK grown : GrowsTree(leaves, N, grown)
    BY TreeFold
<1>2. IsLevel(first) /\ Len(first) = N
  <2>1. first = [i \in 1..N |-> first[i]]
      BY DEF LeafLevel
  <2>. HIDE DEF first
  <2>. QED
      BY <2>1, LengthOfLevel DEF IsLevel
<1>. HIDE DEF first
<1>. DEFINE Good(k) == \E d \in Nat : IsTree(grown[k], d, first) /\ Shrinks(grown[k], d, k)
            S == {k \in Nat : k <= N => Good(k)}
<1>3. 0 \in S
  <2>1. grown[0] = <<first>>
      BY <1>1 DEF GrowsTree, first
  <2>2. PICK t : t = <<first>>
      OBVIOUS
  <2>3. t[1] = first /\ t = [j \in 1..0 + 1 |-> t[j]]
      BY <2>2
  <2>4. IsTree(t, 0, first)
    <3>1. \A j \in 1..0 + 1 : j = 1
        OBVIOUS
    <3>2. \A j \in 1..0 : FALSE
        OBVIOUS
    <3>. QED
        BY <1>2, <2>3, <3>1, <3>2 DEF IsTree
  <2>5. Shrinks(t, 0, 0)
      BY <1>2, <2>3
  <2>. HIDE DEF Shrinks
  <2>6. Good(0)
      BY <2>1, <2>2, <2>4, <2>5
  <2>. HIDE DEF Good
  <2>. QED
      BY <2>6
<1>4. ASSUME NEW k \in Nat, k \in S PROVE k + 1 \in S
  <2>1. SUFFICES ASSUME k + 1 <= N PROVE Good(k + 1)
    <3>. HIDE DEF Good
    <3>. QED
        OBVIOUS
  <2>2. Good(k)
    <3>. HIDE DEF Good
    <3>. QED
        BY <1>4, <2>1
  <2>3. PICK d \in Nat : IsTree(grown[k], d, first) /\ Shrinks(grown[k], d, k)
    <3>. HIDE DEF Shrinks
    <3>. QED
        BY <2>2
  <2>4. grown[k + 1] = Grown(grown[k])
    <3>1. k + 1 \in 1..N /\ (k + 1) - 1 = k
        BY <2>1
    <3>2. grown[k + 1] = Grown(grown[(k + 1) - 1])
        BY <1>1, <3>1 DEF GrowsTree
    <3>. QED
        BY <3>1, <3>2
  <2>5. PICK t : t = grown[k]
      OBVIOUS
  <2>5a. IsTree(t, d, first) /\ Shrinks(t, d, k)
    <3>. HIDE DEF Shrinks
    <3>. QED
        BY <2>3, <2>5
  <2>5b. /\ t = [j \in 1..d + 1 |-> t[j]] /\ t[1] = first
         /\ \A j \in 1..d + 1 : IsLevel(t[j])
         /\ \A j \in 1..d : Len(t[j]) > 1 /\ t[j + 1] = NextLevel(t[j])
      BY <2>5a DEF IsTree
  <2>5c. d + 1 \in 1..d + 1
      OBVIOUS
  <2>6. /\ t = [j \in 1..d + 1 |-> t[j]] /\ t[1] = first /\ IsLevel(t[d + 1])
        /\ \A j \in 1..d + 1 : IsLevel(t[j])
        /\ \A j \in 1..d : Len(t[j]) > 1 /\ t[j + 1] = NextLevel(t[j])
      BY <2>5b, <2>5c
  <2>7. Last(t) = t[d + 1]
      BY <2>6, LengthOfLevel DEF Last
  <2>8. PICK n \in Nat \ {0} : n = Len(t[d + 1])
      BY <2>6, NextLevelShape
  <2>8a. n = 1 \/ n + k <= N
      BY <2>8, <2>5a
  <2>9. CASE Len(t[d + 1]) > 1
    <3>1. PICK next : next = NextLevel(t[d + 1])
        OBVIOUS
    <3>2. IsLevel(next) /\ Len(next) = (Len(t[d + 1]) + 1) \div 2
        BY <2>6, <3>1, NextLevelShape
    <3>3. PICK u : u = Append(t, next)
        OBVIOUS
    <3>4. grown[k + 1] = u
        BY <2>4, <2>5, <2>7, <2>9, <3>1, <3>3 DEF Grown
    <3>5. u = [j \in 1..d + 2 |-> IF j <= d + 1 THEN t[j] ELSE next]
      <4>1. d + 1 \in Nat /\ (d + 1) + 1 = d + 2
          OBVIOUS
      <4>. QED
          BY <2>6, <3>3, <4>1, AppendToAny
    <3>6. u = [j \in 1..(d + 1) + 1 |-> u[j]]
        BY <3>5
    <3>7. (\A j \in 1..d + 1 : u[j] = t[j]) /\ u[d + 2] = next
        BY <3>5
    <3>8. \A j \in 1..(d + 1) + 1 : j \in 1..d + 1 \/ j = d + 2
        OBVIOUS
    <3>9. IsTree(u, d + 1, first)
      <4>1. u[1] = first
          BY <2>6, <3>7
      <4>2. \A j \in 1..(d + 1) + 1 : IsLevel(u[j])
          BY <2>6, <3>2, <3>7, <3>8
      <4>3. ASSUME NEW j \in 1..d + 1 PROVE Len(u[j]) > 1 /\ u[j + 1] = NextLevel(u[j])
        <5>1. CASE j = d + 1
          <6>1. u[j] = t[d + 1] /\ u[j + 1] = next
              BY <3>7, <5>1
          <6>. QED
              BY <2>9, <3>1, <6>1
        <5>2. CASE j # d + 1
          <6>1. j \in 1..d /\ j + 1 \in 1..d + 1
              BY <5>2
          <6>2. u[j] = t[j] /\ u[j + 1] = t[j + 1]
              BY <3>7, <6>1
          <6>. QED
              BY <2>6, <6>1, <6>2
        <5>. QED
            BY <5>1, <5>2
      <4>. QED
          BY <3>6, <4>1, <4>2, <4>3 DEF IsTree
    <3>10. Shrinks(u, d + 1, k + 1)
      <4>1. u[(d + 1) + 1] = next
          BY <3>7
      <4>2. n > 1
          BY <2>8, <2>9
      <4>3. (n + 1) \div 2 + (k + 1) <= N
          BY <2>8a, <4>2
      <4>4. Len(next) + (k + 1) <= N
          BY <2>8, <3>2, <4>3
      <4>. QED
          BY <4>1, <4>4
    <3>. HIDE DEF Shrinks
    <3>. QED
        BY <3>4, <3>9, <3>10
  <2>10. CASE ~(Len(t[d + 1]) > 1)
    <3>1. grown[k + 1] = t
        BY <2>4, <2>5, <2>7, <2>10 DEF Grown
    <3>2. Shrinks(t, d, k + 1)
      <4>1. ~(n > 1)
          BY <2>8, <2>10
      <4>2. n = 1
          BY <4>1
      <4>. QED
          BY <2>8, <4>2
    <3>. HIDE DEF Shrinks
    <3>. QED
        BY <2>3, <2>5, <3>1, <3>2
  <2>. QED
      BY <2>9, <2>10
<1>5. Good(N)
  <2>. HIDE DEF S, Good
  <2>1. Nat \subseteq S
      BY <1>3, <1>4, InductionOn
  <2>. QED
      BY <2>1 DEF S
<1>6. PICK d \in Nat : IsTree(grown[N], d, first) /\ Shrinks(grown[N], d, N)
  <2>. HIDE DEF Shrinks
  <2>. QED
      BY <1>5
<1>7. Len(grown[N][d + 1]) \in Nat \ {0}
  <2>1. IsLevel(grown[N][d + 1])
      BY <1>6 DEF IsTree
  <2>. QED
      BY <2>1, NextLevelShape
<1>8. Len(grown[N][d + 1]) = 1
    BY <1>6, <1>7
<1>9. Tree(leaves) = grown[N]
    BY <1>1 DEF GrowsTree
<1>. QED
    BY <1>6, <1>8, <1>9 DEF first

-----------------------------------------------------------------------------
(* From the leaves to the root. *)

\* The nodes of a level, from left to right, are the hashes of runs of leaves: of w each,
\* but the last may have fewer.  off says where each begins, and where the last ends.
Covers(level, N, mth, w, off) ==
    LET n == Len(level)
    IN  /\ \A i \in 0..n : off[i] \in 0..N
        /\ off[0] = 0 /\ off[n] = N
        /\ \A i \in 0..n - 1 : i + 1 < n => off[i + 1] = off[i] + w
        /\ off[n - 1] < N /\ N <= off[n - 1] + w
        /\ \A i \in 0..n - 1 : level[i + 1] = mth[off[i + 1] - off[i]][off[i]]

\* The level above covers the leaves in runs twice as long: a pair is split as
\* RFC 6962 splits a run, and an odd last node takes its run along.
LEMMA LevelCovers ==
    ASSUME NEW N \in Nat \ {0}, NEW leaves, NEW mth, HashesRuns(leaves, N, mth),
           NEW level, IsLevel(level), Len(level) > 1,
           NEW e \in Nat, NEW off, Covers(level, N, mth, 2^e, off)
    PROVE  \E above : Covers(NextLevel(level), N, mth, 2^(e + 1), above)
<1>1. PICK n \in Nat \ {0} : n = Len(level)
    BY NextLevelShape
<1>2. n > 1
    BY <1>1
<1>3. PICK m \in Nat \ {0} : m = (n + 1) \div 2
    BY <1>2
<1>4. n = 2 * m \/ n = 2 * m - 1
    BY <1>3
<1>5. PICK next : next = NextLevel(level)
    OBVIOUS
<1>6. /\ Len(next) = m
      /\ \A i \in 1..m : next[i] = IF 2*i <= n THEN NodeHash(level[2*i - 1], level[2*i])
                                   ELSE level[2*i - 1]
    BY <1>1, <1>3, <1>5, NextLevelShape
<1>7. PICK w \in Nat : w = 2^e /\ 2^(e + 1) = 2 * w /\ w >= 1
    BY PowersDouble, PowersGrow
<1>8. /\ \A i \in 0..n : off[i] \in 0..N
      /\ off[0] = 0 /\ off[n] = N
      /\ \A i \in 0..n - 1 : i + 1 < n => off[i + 1] = off[i] + w
      /\ off[n - 1] < N /\ N <= off[n - 1] + w
      /\ \A i \in 0..n - 1 : level[i + 1] = mth[off[i + 1] - off[i]][off[i]]
    BY <1>1, <1>7 DEF Covers
<1>. DEFINE above == [i \in 0..m |-> off[IF 2*i <= n THEN 2*i ELSE n]]
<1>9. /\ \A i \in 0..m : 2*i <= n => above[i] = off[2*i]
      /\ \A i \in 0..m : ~(2*i <= n) => above[i] = off[n]
    OBVIOUS
<1>. HIDE DEF above
<1>10. \A i \in 0..m : above[i] \in 0..N
  <2>1. \A i \in 0..m : 2*i <= n => 2*i \in 0..n
      OBVIOUS
  <2>2. n \in 0..n
      OBVIOUS
  <2>. QED
      BY <1>8, <1>9, <2>1, <2>2
<1>11. above[0] = 0
  <2>1. 0 \in 0..m /\ 2*0 = 0 /\ 2*0 <= n
      OBVIOUS
  <2>. QED
      BY <1>8, <1>9, <2>1
<1>12. above[m] = N
  <2>1. m \in 0..m
      OBVIOUS
  <2>2. CASE 2*m <= n
    <3>1. 2*m = n
        BY <1>4, <2>2
    <3>. QED
        BY <1>8, <1>9, <2>1, <2>2, <3>1
  <2>3. CASE ~(2*m <= n)
      BY <1>8, <1>9, <2>1, <2>3
  <2>. QED
      BY <2>2, <2>3
<1>13. ASSUME NEW i \in 0..m - 1, i + 1 < m PROVE above[i + 1] = above[i] + 2 * w
  <2>1. /\ 2*i \in 0..n - 1 /\ 2*i + 1 < n /\ 2*i + 1 \in 0..n - 1 /\ (2*i + 1) + 1 < n
        /\ 2*(i + 1) = (2*i + 1) + 1 /\ 2*(i + 1) <= n /\ 2*i <= n /\ i \in 0..m /\ i + 1 \in 0..m
      BY <1>4, <1>13
  <2>2. PICK j \in 0..n - 1 : j = 2*i
      BY <2>1
  <2>3. off[j + 1] = off[j] + w /\ off[(j + 1) + 1] = off[j + 1] + w /\ off[j] \in 0..N
    <3>1. j + 1 < n /\ j + 1 \in 0..n - 1 /\ (j + 1) + 1 < n /\ j \in 0..n
        BY <2>1, <2>2
    <3>. QED
        BY <1>8, <3>1
  <2>4. above[i] = off[j] /\ above[i + 1] = off[(j + 1) + 1]
      BY <1>9, <2>1, <2>2
  <2>. QED
      BY <2>3, <2>4
<1>14. above[m - 1] < N /\ N <= above[m - 1] + 2 * w
  <2>1. m - 1 \in 0..m /\ 2*(m - 1) <= n
      BY <1>4
  <2>2. PICK j \in 0..n - 1 : j = 2*(m - 1) /\ above[m - 1] = off[j] /\ off[j] \in 0..N
    <3>1. 2*(m - 1) \in 0..n - 1 /\ 2*(m - 1) \in 0..n
        BY <1>4
    <3>. QED
        BY <1>8, <1>9, <2>1, <3>1
  <2>3. CASE n = 2 * m - 1
    <3>1. j = n - 1
        BY <2>2, <2>3
    <3>. QED
        BY <1>7, <1>8, <2>2, <3>1
  <2>4. CASE n = 2 * m
    <3>1. j + 1 = n - 1 /\ j + 1 < n
        BY <2>2, <2>4
    <3>2. PICK lo \in 0..N : lo = off[j]
        BY <2>2
    <3>3. off[n - 1] = lo + w
        BY <1>8, <3>1, <3>2
    <3>4. lo + w < N /\ N <= (lo + w) + w
        BY <1>8, <3>3
    <3>5. lo < N /\ N <= lo + 2 * w
        BY <3>4
    <3>. QED
        BY <2>2, <3>2, <3>5
  <2>. QED
      BY <1>4, <2>3, <2>4
<1>15. ASSUME NEW i \in 0..m - 1 PROVE next[i + 1] = mth[above[i + 1] - above[i]][above[i]]
  <2>1. PICK j \in 0..n - 1 : j = 2*i /\ 2*(i + 1) = j + 2 /\ 2*(i + 1) - 1 = j + 1
    <3>1. 2*i \in 0..n - 1 /\ 2*(i + 1) = 2*i + 2 /\ 2*(i + 1) - 1 = 2*i + 1
        BY <1>4
    <3>. QED
        BY <3>1
  <2>2. i \in 0..m /\ i + 1 \in 0..m /\ i + 1 \in 1..m /\ j \in 0..n /\ j <= n
      BY <2>1
  <2>3. above[i] = off[j] /\ level[j + 1] = mth[off[j + 1] - off[j]][off[j]] /\ off[j] \in 0..N
      BY <1>8, <1>9, <2>1, <2>2
  <2>4. CASE j + 2 <= n
    <3>1. next[i + 1] = NodeHash(level[j + 1], level[j + 2])
      <4>1. 2*(i + 1) <= n
          BY <2>1, <2>4
      <4>. QED
          BY <1>6, <2>1, <2>2, <4>1
    <3>2. above[i + 1] = off[j + 2]
        BY <1>9, <2>1, <2>2, <2>4
    <3>3. PICK lo \in 0..N : lo = off[j]
        BY <2>3
    <3>4. j + 1 < n /\ j + 1 \in 0..n - 1 /\ j + 2 \in 0..n /\ (j + 1) + 1 = j + 2 /\ j + 1 \in 0..n
        BY <2>4
    <3>5. off[j + 1] = lo + w /\ off[j + 1] \in 0..N
        BY <1>8, <3>3, <3>4
    <3>6. PICK hi \in 0..N : hi = off[j + 2]
        BY <1>8, <3>4
    <3>7. lo + w < hi /\ hi <= lo + 2 * w
      <4>1. CASE j + 2 < n
        <5>1. off[j + 2] = off[j + 1] + w
            BY <1>8, <3>4, <4>1
        <5>. QED
            BY <1>7, <3>5, <3>6, <5>1
      <4>2. CASE j + 2 = n
        <5>1. j + 1 = n - 1
            BY <4>2
        <5>2. off[n - 1] = lo + w /\ hi = N
            BY <1>8, <3>5, <3>6, <4>2, <5>1
        <5>. QED
            BY <1>8, <5>2
      <4>. QED
          BY <2>4, <4>1, <4>2
    <3>8. level[j + 1] = mth[w][lo]
      <4>1. (lo + w) - lo = w
          OBVIOUS
      <4>. QED
          BY <2>3, <3>3, <3>5, <4>1
    <3>9. level[j + 2] = mth[hi - (lo + w)][lo + w]
        BY <1>8, <3>4, <3>5, <3>6
    <3>10. PICK t \in 2..N : t = hi - lo /\ lo \in 0..N - t /\ hi - (lo + w) = t - w /\ w < t /\ t <= 2 * w
      <4>1. hi - lo \in 2..N /\ lo \in 0..N - (hi - lo) /\ hi - (lo + w) = (hi - lo) - w
          BY <1>7, <3>7
      <4>2. w < hi - lo /\ hi - lo <= 2 * w
          BY <3>7
      <4>. QED
          BY <4>1, <4>2
    <3>11. SplitPoint(t) = w
        BY <1>7, <3>10, SplitAtPower
    <3>12. mth[t][lo] = NodeHash(mth[w][lo], mth[t - w][lo + w])
        BY <3>10, <3>11 DEF HashesRuns
    <3>. QED
        BY <2>3, <3>1, <3>2, <3>3, <3>6, <3>8, <3>9, <3>10, <3>12
  <2>5. CASE ~(j + 2 <= n)
    <3>1. ~(2*(i + 1) <= n) /\ j + 1 = n
        BY <2>1, <2>5
    <3>2. next[i + 1] = level[j + 1] /\ above[i + 1] = off[j + 1]
        BY <1>6, <1>9, <2>1, <2>2, <3>1
    <3>. QED
        BY <2>3, <3>2
  <2>. QED
      BY <2>4, <2>5
<1>16. Covers(next, N, mth, 2 * w, above)
    BY <1>6, <1>10, <1>11, <1>12, <1>13, <1>14, <1>15 DEF Covers
<1>. QED
    BY <1>5, <1>7, <1>16

\* The top of the tree is the hash of all the leaves.
LEMMA RootIsMerkleHash ==
    ASSUME NEW N \in Nat \ {0}, NEW leaves, DOMAIN leaves = 1..N, Len(leaves) = N,
           NEW tree, NEW d \in Nat, IsTree(tree, d, LeafLevel(leaves)), Len(tree[d + 1]) = 1
    PROVE  tree[d + 1][1] = MTH(leaves)
<1>1. PICK mth : HashesRuns(leaves, N, mth)
    BY MerkleHash
<1>. DEFINE Covered(k) == \E off : Covers(tree[k + 1], N, mth, 2^k, off)
            S == {k \in Nat : k <= d => Covered(k)}
<1>2. 0 \in S
  <2>1. PICK first : first = LeafLevel(leaves)
      OBVIOUS
  <2>2. first = [i \in 1..N |-> LeafHash(leaves[i])]
      BY <2>1 DEF LeafLevel
  <2>3. first = [i \in 1..N |-> first[i]]
      BY <2>2
  <2>4. Len(first) = N
      BY <2>3, LengthOfLevel
  <2>. DEFINE off == [i \in 0..N |-> i]
  <2>5. \A i \in 0..N : off[i] = i
      OBVIOUS
  <2>. HIDE DEF off
  <2>6. ASSUME NEW i \in 0..N - 1 PROVE first[i + 1] = mth[off[i + 1] - off[i]][off[i]]
    <3>1. i \in 0..N /\ i + 1 \in 0..N /\ i + 1 \in 1..N /\ (i + 1) - i = 1
        OBVIOUS
    <3>2. first[i + 1] = LeafHash(leaves[i + 1])
        BY <2>2, <3>1
    <3>3. mth[1][i] = LeafHash(leaves[i + 1])
        BY <1>1 DEF HashesRuns
    <3>4. off[i + 1] - off[i] = 1 /\ off[i] = i
        BY <2>5, <3>1
    <3>. QED
        BY <3>2, <3>3, <3>4
  <2>7. Covers(first, N, mth, 1, off)
    <3>1. N - 1 \in 0..N /\ 0 \in 0..N /\ N \in 0..N
        OBVIOUS
    <3>2. \A i \in 0..N : off[i] \in 0..N
        BY <2>5
    <3>3. off[0] = 0 /\ off[N] = N /\ off[N - 1] < N /\ N <= off[N - 1] + 1
        BY <2>5, <3>1
    <3>4. ASSUME NEW i \in 0..N - 1, i + 1 < N PROVE off[i + 1] = off[i] + 1
      <4>1. i \in 0..N /\ i + 1 \in 0..N
          OBVIOUS
      <4>. QED
          BY <2>5, <4>1
    <3>. QED
        BY <2>4, <2>6, <3>2, <3>3, <3>4 DEF Covers
  <2>8. tree[0 + 1] = first /\ 2^0 = 1
      BY <2>1 DEF IsTree
  <2>9. Covered(0)
      BY <2>7, <2>8
  <2>. HIDE DEF Covered
  <2>. QED
      BY <2>9
<1>3. ASSUME NEW k \in Nat, k \in S PROVE k + 1 \in S
  <2>1. SUFFICES ASSUME k + 1 <= d PROVE Covered(k + 1)
    <3>. HIDE DEF Covered
    <3>. QED
        OBVIOUS
  <2>2. PICK off : Covers(tree[k + 1], N, mth, 2^k, off)
      BY <1>3, <2>1
  <2>3. k + 1 \in 1..d /\ k + 1 \in 1..d + 1
      BY <2>1
  <2>4. IsLevel(tree[k + 1]) /\ Len(tree[k + 1]) > 1 /\ tree[(k + 1) + 1] = NextLevel(tree[k + 1])
      BY <2>3 DEF IsTree
  <2>5. \E above : Covers(NextLevel(tree[k + 1]), N, mth, 2^(k + 1), above)
      BY <1>1, <2>2, <2>4, LevelCovers
  <2>. QED
      BY <2>4, <2>5
<1>4. PICK off : Covers(tree[d + 1], N, mth, 2^d, off)
  <2>1. Nat \subseteq S
    <3>. HIDE DEF S
    <3>. QED
        BY <1>2, <1>3, InductionOn
  <2>. QED
      BY <2>1
<1>5. /\ off[0] = 0 /\ off[1] = N /\ tree[d + 1][0 + 1] = mth[off[0 + 1] - off[0]][off[0]]
  <2>1. 0 \in 0..1 - 1
      OBVIOUS
  <2>. QED
      BY <1>4, <2>1 DEF Covers
<1>6. N - 0 = N
    OBVIOUS
<1>7. tree[d + 1][1] = mth[N][0]
    BY <1>5, <1>6
<1>. QED
    BY <1>1, <1>7 DEF HashesRuns

-----------------------------------------------------------------------------
(* Along a path. *)

\* Where the path of a leaf passes through the level that is k above the leaves.
Place(index, k) == index \div (2^k)

\* The sibling at the k-th level, if it has one, as a path of one step.
Sibling(tree, index, k) ==
    LET idx == Place(index, k - 1)
        sibling == IF idx % 2 = 1 THEN idx - 1 ELSE idx + 1
    IN  IF sibling < Len(tree[k])
        THEN <<[direction |-> IF idx % 2 = 1 THEN "left" ELSE "right",
                hash |-> tree[k][sibling + 1]]>>
        ELSE <<>>

\* One level up the place is halved, as get_inclusion_proof halves idx.
LEMMA PlaceMovesUp ==
    ASSUME NEW index \in Nat, NEW k \in Nat
    PROVE  /\ Place(index, 0) = index /\ Place(index, k) \in Nat
           /\ Place(index, k + 1) = Place(index, k) \div 2
<1>1. PICK w \in Nat : w = 2^k /\ 2^(k + 1) = 2 * w /\ w > 0
    BY PowersDouble, PowersGrow
<1>2. (index \div w) \div 2 = index \div (2 * w)
    BY <1>1
<1>3. index \div w \in Nat
    BY <1>1
<1>4. index \div 1 = index /\ 2^0 = 1
    OBVIOUS
<1>. QED
    BY <1>1, <1>2, <1>3, <1>4 DEF Place

\* The path never leaves the level it is in.
LEMMA PlaceIsInLevel ==
    ASSUME NEW N \in Nat \ {0}, NEW first, IsLevel(first), Len(first) = N,
           NEW tree, NEW d \in Nat, IsTree(tree, d, first), NEW index \in 0..N - 1
    PROVE  \A k \in 0..d : Place(index, k) \in Nat /\ Place(index, k) < Len(tree[k + 1])
<1>. DEFINE S == {k \in Nat : k <= d => Place(index, k) < Len(tree[k + 1])}
<1>0. index \in Nat /\ \A k \in Nat : Place(index, k) \in Nat
  <2>1. index \in Nat
      OBVIOUS
  <2>. QED
      BY <2>1, PlaceMovesUp
<1>1. 0 \in S
  <2>1. Place(index, 0) = index
      BY <1>0, PlaceMovesUp
  <2>2. tree[0 + 1] = first
      BY DEF IsTree
  <2>3. index < N
      OBVIOUS
  <2>. QED
      BY <2>1, <2>2, <2>3
<1>2. ASSUME NEW k \in Nat, k \in S PROVE k + 1 \in S
  <2>1. SUFFICES ASSUME k + 1 <= d PROVE Place(index, k + 1) < Len(tree[(k + 1) + 1])
      OBVIOUS
  <2>2. k + 1 \in 1..d /\ k + 1 \in 1..d + 1
      BY <2>1
  <2>3. IsLevel(tree[k + 1]) /\ tree[(k + 1) + 1] = NextLevel(tree[k + 1])
      BY <2>2 DEF IsTree
  <2>4. PICK n \in Nat : n = Len(tree[k + 1]) /\ Len(tree[(k + 1) + 1]) = (n + 1) \div 2
      BY <2>3, NextLevelShape
  <2>5. PICK i \in Nat : i = Place(index, k) /\ i < n
    <3>1. k <= d /\ Place(index, k) < Len(tree[k + 1])
        BY <1>2, <2>1
    <3>2. Place(index, k) \in Nat
        BY <1>0
    <3>. QED
        BY <2>4, <3>1, <3>2
  <2>6. Place(index, k + 1) = i \div 2
      BY <1>0, <2>5, PlaceMovesUp
  <2>7. i \div 2 < (n + 1) \div 2
      BY <2>5
  <2>. QED
      BY <2>4, <2>6, <2>7
<1>3. Nat \subseteq S
  <2>. HIDE DEF S
  <2>. QED
      BY <1>1, <1>2, InductionOn
<1>4. ASSUME NEW k \in 0..d PROVE Place(index, k) \in Nat /\ Place(index, k) < Len(tree[k + 1])
  <2>1. k \in Nat /\ k <= d
      OBVIOUS
  <2>2. k \in S
      BY <1>3, <2>1
  <2>. QED
      BY <1>0, <2>1, <2>2
<1>. QED
    BY <1>4

\* One step up: the node there is the hash that the step gives, of the node below and
\* of no other.
LEMMA StepUp ==
    ASSUME NEW level, IsLevel(level), NEW i \in Nat, i < Len(level), NEW h
    PROVE  LET next == NextLevel(level)
               sibling == IF i % 2 = 1 THEN i - 1 ELSE i + 1
               step == [direction |-> IF i % 2 = 1 THEN "left" ELSE "right",
                        hash |-> level[sibling + 1]]
           IN  IF sibling < Len(level) THEN Hashed(h, step) = next[i \div 2 + 1] <=> h = level[i + 1]
               ELSE next[i \div 2 + 1] = level[i + 1]
<1>1. PICK n \in Nat \ {0} : n = Len(level)
    BY NextLevelShape
<1>2. PICK next : next = NextLevel(level)
    OBVIOUS
<1>3. PICK j \in Nat : j = i \div 2
    OBVIOUS
<1>4. \A k \in 1..(n + 1) \div 2 : next[k] = IF 2*k <= n THEN NodeHash(level[2*k - 1], level[2*k])
                                           ELSE level[2*k - 1]
    BY <1>1, <1>2, NextLevelShape
<1>5. j + 1 \in 1..(n + 1) \div 2
    BY <1>1, <1>3
<1>6. \A a, b, c, e : NodeHash(a, b) = NodeHash(c, e) <=> a = c /\ b = e
    BY DEF NodeHash
<1>7. CASE i % 2 = 1
  <2>1. 2*(j + 1) = i + 1 /\ 2*(j + 1) - 1 = i /\ i + 1 <= n /\ (i - 1) + 1 = i /\ i - 1 < n
      BY <1>1, <1>3, <1>7
  <2>2. next[j + 1] = NodeHash(level[i], level[i + 1])
      BY <1>4, <1>5, <2>1
  <2>3. PICK s : s = [direction |-> "left", hash |-> level[i]]
      OBVIOUS
  <2>4. Hashed(h, s) = NodeHash(level[i], h)
      BY <2>3 DEF Hashed
  <2>5. Hashed(h, s) = next[j + 1] <=> h = level[i + 1]
      BY <1>6, <2>2, <2>4
  <2>. QED
      BY <1>1, <1>2, <1>3, <1>7, <2>1, <2>3, <2>5
<1>8. CASE i % 2 # 1
  <2>1. 2*(j + 1) = (i + 1) + 1 /\ 2*(j + 1) - 1 = i + 1
      BY <1>3, <1>8
  <2>2. CASE i + 1 < n
    <3>1. next[j + 1] = NodeHash(level[i + 1], level[(i + 1) + 1])
      <4>1. 2*(j + 1) <= n
          BY <2>1, <2>2
      <4>. QED
          BY <1>4, <1>5, <2>1, <4>1
    <3>2. PICK s : s = [direction |-> "right", hash |-> level[(i + 1) + 1]]
        OBVIOUS
    <3>3. Hashed(h, s) = NodeHash(h, level[(i + 1) + 1])
        BY <3>2 DEF Hashed
    <3>4. Hashed(h, s) = next[j + 1] <=> h = level[i + 1]
        BY <1>6, <3>1, <3>3
    <3>. QED
        BY <1>1, <1>2, <1>3, <1>8, <2>2, <3>2, <3>4
  <2>3. CASE ~(i + 1 < n)
    <3>1. ~(2*(j + 1) <= n)
        BY <2>1, <2>3
    <3>2. next[j + 1] = level[i + 1]
        BY <1>4, <1>5, <2>1, <3>1
    <3>. QED
        BY <1>1, <1>2, <1>3, <1>8, <2>3, <3>2
  <2>. QED
      BY <2>2, <2>3
<1>. QED
    BY <1>7, <1>8

\* A path with one more step.
LEMMA AddOneStep ==
    ASSUME NEW X, NEW p \in Seq(X), NEW s \in X
    PROVE  /\ <<s>> \in Seq(X) /\ Len(p) \in Nat /\ Len(p \o <<s>>) = Len(p) + 1
           /\ (p \o <<s>>)[Len(p) + 1] = s
OBVIOUS

\* The tree is the one of RFC 6962, and a path proves the leaf at its index and no other.
THEOREM LogProves ==
    ASSUME NEW N \in Nat \ {0}, NEW leaves, DOMAIN leaves = 1..N, Len(leaves) = N
    PROVE  /\ Root(leaves) = MTH(leaves)
           /\ \A index \in 0..N - 1 : \A leaf :
                 VerifyInclusion(leaf, Root(leaves), AuditPath(leaves, index))
                     <=> leaf = leaves[index + 1]
<1>1. PICK first : first = LeafLevel(leaves)
    OBVIOUS
<1>2. PICK tree : tree = Tree(leaves)
    OBVIOUS
<1>3. PICK d \in Nat : IsTree(tree, d, first) /\ Len(tree[d + 1]) = 1
    BY <1>1, <1>2, TreeIsBuilt
<1>4. Len(tree) = d + 1 /\ Last(tree) = tree[d + 1]
  <2>1. tree = [j \in 1..d + 1 |-> tree[j]] /\ d + 1 \in Nat
      BY <1>3 DEF IsTree
  <2>2. Len(tree) = d + 1
      BY <2>1, LengthOfLevel
  <2>. QED
      BY <2>2 DEF Last
<1>5. Root(leaves) = tree[d + 1][1]
    BY <1>2, <1>4 DEF Root
<1>6. Root(leaves) = MTH(leaves)
    BY <1>1, <1>3, <1>5, RootIsMerkleHash
<1>7. IsLevel(first) /\ Len(first) = N /\ \A i \in 1..N : first[i] = LeafHash(leaves[i])
  <2>1. first = [i \in 1..N |-> LeafHash(leaves[i])]
      BY <1>1 DEF LeafLevel
  <2>2. first = [i \in 1..N |-> first[i]]
      BY <2>1
  <2>3. Len(first) = N
      BY <2>2, LengthOfLevel
  <2>. QED
      BY <2>1, <2>2, <2>3 DEF IsLevel
<1>8. ASSUME NEW index \in 0..N - 1, NEW leaf
      PROVE  VerifyInclusion(leaf, Root(leaves), AuditPath(leaves, index)) <=> leaf = leaves[index + 1]
  <2>. DEFINE X == {Sibling(tree, index, k)[1] : k \in 1..d}
  <2>1. PICK steps : steps = [k \in 1..d |-> Sibling(tree, index, k)]
      OBVIOUS
  <2>2. AuditPath(leaves, index) = FlattenSeq(steps)
    <3>1. Len(tree) - 1 = d
        BY <1>4
    <3>2. AuditPath(leaves, index) = FlattenSeq([k \in 1..Len(tree) - 1 |-> Sibling(tree, index, k)])
        BY <1>2 DEF AuditPath, Sibling, Place
    <3>. QED
        BY <2>1, <3>1, <3>2
  <2>3. \A k \in 1..d : \/ Sibling(tree, index, k) = <<>>
                        \/ Sibling(tree, index, k) = <<Sibling(tree, index, k)[1]>>
    <3>1. \A x : <<x>> = <<<<x>>[1]>>
        OBVIOUS
    <3>. QED
        BY <3>1 DEF Sibling
  <2>4. \A k \in 1..d : steps[k] \in Seq(X)
    <3>1. ASSUME NEW k \in 1..d PROVE steps[k] \in Seq(X)
      <4>1. PICK s : s = Sibling(tree, index, k)[1] /\ s \in X
          OBVIOUS
      <4>. HIDE DEF X
      <4>2. <<>> \in Seq(X) /\ <<s>> \in Seq(X)
          BY <4>1
      <4>. QED
          BY <2>1, <2>3, <4>1, <4>2
    <3>. QED
        BY <3>1
  <2>. HIDE DEF X
  <2>5. steps \in Seq(Seq(X)) /\ Len(steps) = d
    <3>1. steps = [k \in 1..d |-> steps[k]]
        BY <2>1
    <3>2. Len(steps) = d /\ DOMAIN steps = 1..d
        BY <3>1, LengthOfLevel
    <3>. QED
        BY <2>4, <3>1, <3>2
  <2>6. PICK parts : Parts(X, steps, d, parts)
      BY <2>5, FlattenByParts
  <2>7. PICK path : path = parts[d]
      OBVIOUS
  <2>8. path \in Seq(X) /\ AuditPath(leaves, index) = path
      BY <2>2, <2>6, <2>7 DEF Parts
  <2>9. PICK P \in Nat : P = Len(path) /\ DOMAIN path = 1..P
      BY <2>8
  <2>10. PICK hashed : HashesPath(leaf, path, P, hashed)
      BY <2>9, PathFold
  <2>11. \A k \in 0..d : Place(index, k) \in Nat /\ Place(index, k) < Len(tree[k + 1])
      BY <1>3, <1>7, PlaceIsInLevel
  <2>. DEFINE Meets(k) == hashed[Len(parts[k])] = tree[k + 1][Place(index, k) + 1]
                              <=> leaf = leaves[index + 1]
              S == {k \in Nat : k <= d => Meets(k)}
  <2>12. 0 \in S
    <3>1. Len(parts[0]) = 0 /\ hashed[0] = LeafHash(leaf)
        BY <2>6, <2>10 DEF Parts, HashesPath
    <3>2. tree[0 + 1] = first /\ index \in Nat /\ index + 1 \in 1..N
        BY <1>3 DEF IsTree
    <3>3. Place(index, 0) = index
        BY <3>2, PlaceMovesUp
    <3>4. tree[0 + 1][Place(index, 0) + 1] = LeafHash(leaves[index + 1])
        BY <1>7, <3>2, <3>3
    <3>5. \A a, b : LeafHash(a) = LeafHash(b) <=> a = b
        BY DEF LeafHash
    <3>6. Meets(0)
        BY <3>1, <3>4, <3>5
    <3>. HIDE DEF Meets
    <3>. QED
        BY <3>6
  <2>13. ASSUME NEW k \in Nat, k \in S PROVE k + 1 \in S
    <3>1. SUFFICES ASSUME k + 1 <= d PROVE Meets(k + 1)
      <4>. HIDE DEF Meets
      <4>. QED
          OBVIOUS
    <3>2. Meets(k)
      <4>. HIDE DEF Meets
      <4>. QED
          BY <2>13, <3>1
    <3>3. k + 1 \in 1..d /\ k + 1 \in 1..d + 1 /\ k \in 0..d /\ k + 1 \in 0..d /\ (k + 1) - 1 = k
        BY <3>1
    <3>4. PICK level, next : level = tree[k + 1] /\ next = tree[(k + 1) + 1]
        OBVIOUS
    <3>5. IsLevel(level) /\ next = NextLevel(level)
        BY <1>3, <3>3, <3>4 DEF IsTree
    <3>6. PICK i \in Nat : i = Place(index, k) /\ i < Len(level)
        BY <2>11, <3>3, <3>4
    <3>7. Place(index, k + 1) = i \div 2
      <4>1. index \in Nat
          OBVIOUS
      <4>. QED
          BY <3>6, <4>1, PlaceMovesUp
    <3>8. PICK p \in Seq(X) : p = parts[k] /\ parts[k + 1] = p \o steps[k + 1]
      <4>1. parts[k] \in Seq(X)
          BY <2>6, <3>3 DEF Parts
      <4>2. parts[k + 1] = parts[(k + 1) - 1] \o steps[k + 1]
          BY <2>6, <3>3 DEF Parts
      <4>. QED
          BY <3>3, <4>1, <4>2
    <3>9. PICK h : h = hashed[Len(p)]
        OBVIOUS
    <3>10. h = level[i + 1] <=> leaf = leaves[index + 1]
        BY <3>2, <3>4, <3>6, <3>8, <3>9
    <3>11. PICK sibling : sibling = IF i % 2 = 1 THEN i - 1 ELSE i + 1
        OBVIOUS
    <3>12. PICK s : s = [direction |-> IF i % 2 = 1 THEN "left" ELSE "right",
                         hash |-> level[sibling + 1]]
        OBVIOUS
    <3>13. IF sibling < Len(level) THEN Hashed(h, s) = next[i \div 2 + 1] <=> h = level[i + 1]
           ELSE next[i \div 2 + 1] = level[i + 1]
        BY <3>5, <3>6, <3>11, <3>12, StepUp
    <3>14. steps[k + 1] = IF sibling < Len(level) THEN <<s>> ELSE <<>>
        BY <2>1, <3>3, <3>4, <3>6, <3>11, <3>12 DEF Sibling
    <3>15. CASE sibling < Len(level)
      <4>1. parts[k + 1] = p \o <<s>>
          BY <3>8, <3>14, <3>15
      <4>2. s \in X
        <5>1. Sibling(tree, index, k + 1) = <<s>>
            BY <2>1, <3>3, <3>14, <3>15
        <5>2. <<s>>[1] = s
            OBVIOUS
        <5>. QED
            BY <3>3, <5>1, <5>2 DEF X
      <4>3. PICK L \in Nat : L = Len(p) /\ Len(parts[k + 1]) = L + 1 /\ parts[k + 1][L + 1] = s
          BY <4>1, <4>2, AddOneStep
      <4>4. L + 1 <= P /\ path[L + 1] = s
        <5>1. L + 1 \in 1..Len(parts[k + 1])
            BY <4>3
        <5>2. Len(parts[k + 1]) <= P /\ path[L + 1] = parts[k + 1][L + 1]
            BY <2>6, <2>7, <2>9, <3>3, <5>1 DEF Parts
        <5>. QED
            BY <4>3, <5>2
      <4>5. hashed[L + 1] = Hashed(h, s)
        <5>1. L + 1 \in 1..P /\ (L + 1) - 1 = L
            BY <4>4
        <5>2. hashed[L + 1] = Hashed(hashed[(L + 1) - 1], path[L + 1])
            BY <2>10, <5>1 DEF HashesPath
        <5>. QED
            BY <3>9, <4>3, <4>4, <5>1, <5>2
      <4>. QED
          BY <3>4, <3>7, <3>10, <3>13, <3>15, <4>3, <4>5
    <3>16. CASE ~(sibling < Len(level))
      <4>1. parts[k + 1] = p
        <5>1. p \o <<>> = p
            OBVIOUS
        <5>. QED
            BY <3>8, <3>14, <3>16, <5>1
      <4>. QED
          BY <3>4, <3>7, <3>9, <3>10, <3>13, <3>16, <4>1
    <3>. QED
        BY <3>15, <3>16
  <2>14. Meets(d)
    <3>. HIDE DEF S, Meets
    <3>1. Nat \subseteq S
        BY <2>12, <2>13, InductionOn
    <3>. QED
        BY <3>1 DEF S
  <2>15. Place(index, d) + 1 = 1
    <3>1. Place(index, d) \in Nat /\ Place(index, d) < Len(tree[d + 1])
        BY <2>11
    <3>. QED
        BY <1>3, <3>1
  <2>16. hashed[P] = Root(leaves) <=> leaf = leaves[index + 1]
      BY <1>5, <2>7, <2>9, <2>14, <2>15
  <2>. QED
      BY <2>8, <2>10, <2>16 DEF HashesPath
<1>. QED
    BY <1>6, <1>8

\* The receipt of an entry, whatever the log held before, verifies under the key of the
\* service and under no other.
THEOREM ReceiptsVerify ==
    ASSUME NEW X, NEW leaves \in Seq(X), NEW entry \in X, NEW key
    PROVE  \A k : VerifyReceipt(k, Anchored(key, leaves, entry)) <=> k = key
<1>1. PICK log : log = Append(leaves, entry)
    OBVIOUS
<1>2. PICK L \in Nat : L = Len(leaves)
    OBVIOUS
<1>3. Len(log) = L + 1 /\ DOMAIN log = 1..L + 1 /\ log[L + 1] = entry
    BY <1>1, <1>2, AppendProperties
<1>4. PICK receipt : receipt = Anchored(key, leaves, entry)
    OBVIOUS
<1>5. /\ receipt.entry = entry /\ receipt.signedBy = key
      /\ receipt.root = Root(log) /\ receipt.path = AuditPath(log, L)
    BY <1>1, <1>2, <1>4 DEF Anchored
<1>6. VerifyInclusion(entry, Root(log), AuditPath(log, L))
  <2>1. L + 1 \in Nat \ {0} /\ L \in 0..(L + 1) - 1
      OBVIOUS
  <2>. QED
      BY <1>3, <2>1, LogProves
<1>. QED
    BY <1>4, <1>5, <1>6 DEF VerifyReceipt
=============================================================================
