-------------------------- MODULE WasmClientProofs --------------------------
(* Theorems about WasmClient, for any published sets of serials, any Depth, *)
(* any size of chunk and any sequence of calls.                             *)
EXTENDS WasmClient, MerkleTreeProofs

-----------------------------------------------------------------------------
(* What is published *)

\* The serials of a published set fit into the tree.
LEMMA PublishedFits ==
  ASSUME NEW S \in Published
  PROVE  S \in SUBSET Fits /\ IsFiniteSet(S)
<1>1. 2^Depth \in Nat
  BY DepthAssumption, Doubling
<1>2. IsFiniteSet(S) /\ S \subseteq 0..(2^Depth - 1)
  BY ClientAssumption
<1> DEFINE limit == 2^Depth
<1> HIDE DEF limit
<1>3. \A k \in 0..(limit - 1) : k \in Nat /\ ~(k >= limit)
  BY <1>1 DEF limit
<1> QED BY <1>2, <1>3 DEF Fits, Exceeds, limit

\* A finite set listed without repetition: every node or serial once.
LEMMA Listed ==
  ASSUME NEW S, IsFiniteSet(S)
  PROVE  /\ Cardinality(S) \in Nat
         /\ SetToSeq(S) \in [1..Cardinality(S) -> S] /\ IsInjective(SetToSeq(S))
         /\ \A f \in [1..Cardinality(S) -> S] :
              IsInjective(f) => \A x \in S : \E i \in 1..Cardinality(S) : f[i] = x
<1> DEFINE n == Cardinality(S)
<1>1. n \in Nat /\ ExistsBijection(1..n, S)
  BY FS_CardinalityType
<1>2. PICK f : f \in Bijection(1..n, S)
  BY <1>1 DEF ExistsBijection
<1>3. f \in [1..n -> S] /\ IsInjective(f)
  BY <1>2 DEF Bijection, Injection
<1>4. SetToSeq(S) \in [1..n -> S] /\ IsInjective(SetToSeq(S))
  BY <1>3 DEF SetToSeq
<1> HIDE DEF n
<1>5. ASSUME NEW h \in [1..n -> S], IsInjective(h), NEW x \in S
      PROVE  \E i \in 1..n : h[i] = x
  <2>1. h \in Injection(1..n, S)
    BY <1>5 DEF Injection
  <2>2. IsFiniteSet(1..n) /\ Cardinality(1..n) = n
    BY <1>1, FS_Interval
  <2>3. h \in Surjection(1..n, S)
    BY <1>1, <2>1, <2>2, FS_Injection DEF n
  <2> QED BY <2>3 DEF Surjection
<1> QED BY <1>1, <1>4, <1>5 DEF n

\* A published tree is the canonical tree of its serials: the batch that builds it
\* meets no error, whatever order it comes in.
THEOREM PublishedHolds ==
  ASSUME NEW S \in Published
  PROVE  Holds(TreeOf(S), S)
<1> DEFINE n == Cardinality(S)
           keys == SetToSeq(S)
<1>1. S \in SUBSET Fits /\ n \in Nat
  BY PublishedFits, Listed
<1>2. keys \in [1..n -> S] /\ IsInjective(keys) /\ \A x \in S : \E i \in 1..n : keys[i] = x
  BY PublishedFits, Listed
<1> HIDE DEF keys, n
<1>3. Len(keys) = n
  BY <1>1, <1>2
<1>4. First(keys, n) = S
  BY <1>2 DEF First
<1>5. \A i \in 1..n : keys[i] \in Nat /\ keys[i] \in Fits \ {}
  BY <1>1, <1>2 DEF Fits
<1>6. PICK m : /\ Gets(keys, n, m, Fits \ {})
               /\ Holds(batchAdd(NewTree, keys).tree, {} \union First(keys, m))
  BY <1>1, <1>3, <1>5, NewTreeIsEmpty, BatchAddIsCanonical
<1>7. m = n
  <2>1. m \in 0..n /\ (m < n => ~Distinct(keys, m + 1, Fits \ {}))
    BY <1>6 DEF Gets
  <2>2. ASSUME m < n PROVE Distinct(keys, m + 1, Fits \ {})
    <3>1. 1..(m + 1) \subseteq 1..n /\ \A i \in 1..(m + 1) : \A j \in 1..(i - 1) : j \in 1..n /\ j # i
      BY <1>1, <2>1, <2>2
    <3> QED BY <1>2, <1>5, <3>1 DEF Distinct, IsInjective
  <2> QED BY <1>1, <2>1, <2>2
<1> QED BY <1>4, <1>6, <1>7 DEF TreeOf, keys

\* Every published tree holds one of the published sets.
LEMMA TreesHold ==
  ASSUME NEW t \in Trees
  PROVE  \E S \in Published : t = TreeOf(S) /\ Holds(t, S)
BY PublishedHolds DEF Trees

\* A published node belongs to the tree of a published set.
LEMMA NodesHeld ==
  ASSUME NEW n \in AllNodes
  PROVE  \E S \in Published : n \in NodesOf(S)
<1>1. PICK t \in Trees : n \in t.nodes
  BY DEF AllNodes
<1> QED BY <1>1, TreesHold DEF Holds

\* So it is a branch or the leaf of a serial, and never zero.
LEMMA PublishedNodes ==
  ASSUME NEW n \in AllNodes
  PROVE  n # zero /\ (IsLeaf(n) => \E k \in Nat : n = Leaf(k))
<1>1. PICK S \in Published : n \in NodesOf(S)
  BY NodesHeld
<1>2. S \in SUBSET Fits
  BY PublishedFits
<1>3. PICK k \in S, i \in 0..Depth : n = Subtree(i, Below(S, KeyToPath(k), i))
  BY <1>1 DEF NodesOf
<1>4. n # zero /\ (IsLeaf(n) => n = Leaf(k))
  BY <1>2, <1>3, NodeKinds
<1> QED BY <1>2, <1>4 DEF Fits

-----------------------------------------------------------------------------
(* Proofs from any map *)

\* SetNodes gives a tree a map, a root and a count, and leaves nothing of what was
\* there before.
LEMMA GivenNodes ==
  ASSUME NEW t, DOMAIN t = {"nodes", "Root", "Count"}, NEW map, NEW root, NEW count
  PROVE  Finalized(t, map, root, count)
           = [nodes |-> MapOf(map), Root |-> root, Count |-> count]
<1> DEFINE m == MapOf(map)
<1> HIDE DEF m
<1> DEFINE u == [t EXCEPT !.nodes = m, !.Root = root, !.Count = count]
           v == [nodes |-> m, Root |-> root, Count |-> count]
<1>1. /\ DOMAIN u = {"nodes", "Root", "Count"} /\ u = [x \in DOMAIN u |-> u[x]]
      /\ u.nodes = m /\ u.Root = root /\ u.Count = count
  OBVIOUS
<1>2. /\ DOMAIN v = {"nodes", "Root", "Count"} /\ v = [x \in DOMAIN v |-> v[x]]
      /\ v.nodes = m /\ v.Root = root /\ v.Count = count
  OBVIOUS
<1> HIDE DEF u, v
<1>3. u = v
  BY <1>1, <1>2
<1> QED BY <1>3 DEF Finalized, m, u, v

\* A sequence of m siblings at most.
Short(siblings, m) == \E n \in 0..m : \E g : siblings = [j \in 1..n |-> g[j]]

\* The walk collects one sibling a level at most.
LEMMA WalkLength ==
  ASSUME NEW t, NEW p, NEW i \in 0..Depth
  PROVE  Short(Walk(t, p)[i].siblings, i)
<1> DEFINE walk == Walk(t, p)
           T == {m \in Nat : m <= Depth => Short(walk[m].siblings, m)}
<1>1. walk = WalkStep(walk, t, p)
  BY WalkEquation
<1> HIDE DEF walk
<1>2. 0 \in T
  <2>1. walk[0].siblings = <<>>
    <3>1. 0 \in 0..Depth
      BY DepthAssumption
    <3>2. walk[0] = [node |-> t.Root, siblings |-> <<>>]
      BY <1>1, <3>1 DEF WalkStep
    <3> QED BY <3>2
  <2> DEFINE g == [j \in {} |-> zero]
  <2>2. walk[0].siblings = [j \in 1..0 |-> g[j]]
    BY <2>1
  <2> HIDE DEF g
  <2>3. 0 \in 0..0
    OBVIOUS
  <2> QED BY <2>2, <2>3 DEF Short
<1>3. ASSUME NEW m \in Nat, m \in T PROVE m + 1 \in T
  <2> SUFFICES ASSUME m + 1 <= Depth PROVE Short(walk[m + 1].siblings, m + 1)
    OBVIOUS
  <2>1. PICK n, g : n \in 0..m /\ walk[m].siblings = [j \in 1..n |-> g[j]]
    <3>1. Short(walk[m].siblings, m)
      BY <1>3, DepthAssumption
    <3> QED BY <3>1 DEF Short
  <2>2. m + 1 \in 0..Depth /\ m + 1 # 0 /\ (m + 1) - 1 = m /\ n \in Nat
    BY <2>1
  <2> DEFINE at == walk[m]
  <2>3. walk[m + 1] = IF at.node \in t.nodes /\ ~IsLeaf(at.node)
                      THEN [node |-> at.node[p[m] + 1],
                            siblings |-> Append(at.siblings, at.node[2 - p[m]])]
                      ELSE at
    BY <1>1, <2>2 DEF WalkStep
  <2>4. CASE at.node \in t.nodes /\ ~IsLeaf(at.node)
    <3> DEFINE new == at.node[2 - p[m]]
               h == [j \in 1..(n + 1) |-> IF j = n + 1 THEN new ELSE g[j]]
    <3>1. walk[m + 1].siblings = Append(at.siblings, new)
      BY <2>3, <2>4
    <3> HIDE DEF new
    <3>2. Append([j \in 1..n |-> g[j]], new) = [j \in 1..(n + 1) |-> h[j]]
      BY <2>2
    <3>3. n + 1 \in 0..(m + 1)
      BY <2>1
    <3> HIDE DEF h, at
    <3>4. walk[m + 1].siblings = [j \in 1..(n + 1) |-> h[j]]
      BY <2>1, <3>1, <3>2 DEF at
    <3> QED BY <3>3, <3>4 DEF Short
  <2>5. CASE ~(at.node \in t.nodes /\ ~IsLeaf(at.node))
    <3>1. walk[m + 1].siblings = [j \in 1..n |-> g[j]]
      BY <2>1, <2>3, <2>5
    <3>2. n \in 0..(m + 1)
      BY <2>1
    <3> QED BY <3>1, <3>2 DEF Short
  <2> QED BY <2>4, <2>5
<1>4. i \in T
  <2> HIDE DEF T
  <2>1. Nat \subseteq T
    BY <1>2, <1>3, Upward
  <2> QED BY <2>1, DepthAssumption
<1> QED BY <1>4 DEF walk

\* Whatever map the tree has been given, CreateProof makes a well-formed proof as
\* long as the leaves in it are leaves of serials.
THEOREM AnyProofIsWellFormed ==
  ASSUME NEW t, NEW key \in Nat,
         \A n \in t.nodes : IsLeaf(n) => \E k \in Nat : n = Leaf(k)
  PROVE  WellFormed(CreateProof(t, key), key) /\ CreateProof(t, key).Root = t.Root
<1> DEFINE end == Walk(t, KeyToPath(key))[Depth]
           at == retrieveEntry(t, key)
<1>1. Depth \in 0..Depth
  BY DepthAssumption
<1>2. PICK n, g : n \in 0..Depth /\ end.siblings = [j \in 1..n |-> g[j]]
  <2>1. Short(end.siblings, Depth)
    BY <1>1, WalkLength
  <2> HIDE DEF end
  <2> QED BY <2>1 DEF Short
<1>3. Len(end.siblings) \in 0..Depth
  BY <1>2, DepthAssumption
<1> HIDE DEF end
<1>4. /\ at.siblings = end.siblings
      /\ at.found <=> end.node \in t.nodes /\ IsLeaf(end.node) /\ end.node[1] = key
      /\ at.entry = IF at.found THEN end.node ELSE <<key>>
      /\ at.matching = IF end.node \in t.nodes /\ IsLeaf(end.node) /\ ~at.found
                       THEN end.node ELSE zero
      /\ at.found \in BOOLEAN
  BY DEF retrieveEntry, end, zero
<1> HIDE DEF at
<1>5. CreateProof(t, key) = [Entry |-> at.entry, MatchingEntry |-> at.matching,
                             Siblings |-> at.siblings, Root |-> t.Root,
                             Membership |-> at.found]
  BY DEF CreateProof, at
<1>6. end.node \in t.nodes /\ IsLeaf(end.node) => \E k \in Nat : end.node = Leaf(k) /\ k = end.node[1]
  BY Shapes
<1>7. CASE at.found
  BY <1>3, <1>4, <1>5, <1>6, <1>7 DEF WellFormed
<1>8. CASE ~at.found
  BY <1>3, <1>4, <1>5, <1>6, <1>8 DEF WellFormed
<1> QED BY <1>7, <1>8

\* JSON and back gives the proof that was made, so what verifyProof is asked about is
\* what createProof answered.
LEMMA RoundTrip ==
  ASSUME NEW t, NEW key
  PROVE  jsonToProof(proofToJSON(CreateProof(t, key))) = CreateProof(t, key)
BY DEF jsonToProof, proofToJSON, CreateProof

\* In a tree that has lost nodes but not its root, the walk goes down the canonical
\* tree, over stored nodes, until one is missing or the path ends.
LEMMA WalkInside ==
  ASSUME NEW S \in SUBSET Fits, NEW p \in Bits, NEW i \in 0..Depth,
         NEW t, t.Root = Canonical(S), zero \notin t.nodes
  PROVE  \E n \in 0..i :
           /\ Walk(t, p)[i].node = Subtree(n, Below(S, p, n))
           /\ \A j \in 0..(n - 1) : Subtree(j, Below(S, p, j)) \in t.nodes
<1> DEFINE walk == Walk(t, p)
           Node(n) == Subtree(n, Below(S, p, n))
           Ends(n) == ~(Node(n) \in t.nodes /\ ~IsLeaf(Node(n)))
           Inside(m) == \E n \in 0..m : /\ walk[m].node = Node(n)
                                        /\ \A j \in 0..(n - 1) : Node(j) \in t.nodes
                                        /\ n = m \/ Ends(n)
           T == {m \in Nat : m <= Depth => Inside(m)}
<1>1. walk = WalkStep(walk, t, p) /\ Depth \in Nat
  BY WalkEquation, DepthAssumption
<1> HIDE DEF walk
<1>2. 0 \in T
  <2>1. walk[0] = [node |-> t.Root, siblings |-> <<>>]
    BY <1>1 DEF WalkStep
  <2>2. walk[0].node = Node(0)
    BY <2>1, BelowTop DEF Canonical
  <2> HIDE DEF Node, Ends
  <2>3. 0 \in 0..0 /\ 0..(0 - 1) = {}
    OBVIOUS
  <2>4. Inside(0)
    BY <2>2, <2>3
  <2> HIDE DEF Inside
  <2> QED BY <2>4
<1>3. ASSUME NEW m \in Nat, m \in T PROVE m + 1 \in T
  <2> HIDE DEF Inside
  <2> SUFFICES ASSUME m + 1 <= Depth PROVE Inside(m + 1)
    OBVIOUS
  <2> USE DEF Inside
  <2>1. /\ m + 1 \in 0..Depth /\ m + 1 # 0 /\ (m + 1) - 1 = m
        /\ m \in 0..(Depth - 1) /\ m \in 0..Depth
    BY <1>1
  <2> HIDE DEF Node, Ends
  <2>2. PICK n \in 0..m : /\ walk[m].node = Node(n)
                          /\ \A j \in 0..(n - 1) : Node(j) \in t.nodes
                          /\ n = m \/ Ends(n)
    BY <1>3, <2>1
  <2> DEFINE at == walk[m]
  <2>3. walk[m + 1] = IF at.node \in t.nodes /\ ~IsLeaf(at.node)
                      THEN [node |-> at.node[p[m] + 1],
                            siblings |-> Append(at.siblings, at.node[2 - p[m]])]
                      ELSE at
    BY <1>1, <2>1 DEF WalkStep
  <2>4. CASE Ends(n)
    <3>1. walk[m + 1] = at
      BY <2>2, <2>3, <2>4 DEF Ends
    <3>2. n \in 0..(m + 1)
      BY <2>2
    <3> QED BY <2>2, <2>4, <3>1, <3>2
  <2>5. CASE ~Ends(n)
    <3> DEFINE B == Below(S, p, m)
    <3>1. n = m /\ at.node = Node(m) /\ Node(m) \in t.nodes /\ ~IsLeaf(Node(m))
      BY <2>2, <2>5 DEF Ends
    <3>2. B \in SUBSET Fits /\ Together(B, m)
      BY <2>1, BelowType
    <3>3. B # {} /\ ~(\E k \in B : B = {k})
      BY <2>1, <3>1, <3>2, SubtreeShape DEF Node
    <3>4. Two(B)
      BY <3>3, Sizes
    <3>5. Node(m) = IF p[m] = 1 THEN Hash2(Subtree(m + 1, Beside(S, p, m)), Node(m + 1))
                    ELSE Hash2(Node(m + 1), Subtree(m + 1, Beside(S, p, m)))
      BY <2>1, <3>4, SubtreeTurns DEF Node
    <3>6. p[m] \in {0, 1}
      BY <2>1 DEF Bits
    <3>7. Node(m)[p[m] + 1] = Node(m + 1)
      <4>1. CASE p[m] = 1
        BY <4>1, <3>5, Shapes
      <4>2. CASE p[m] = 0
        BY <4>2, <3>5, Shapes
      <4> QED BY <4>1, <4>2, <3>6
    <3>8. walk[m + 1].node = Node(m + 1)
      BY <2>3, <3>1, <3>7
    <3>9. ASSUME NEW j \in 0..((m + 1) - 1) PROVE Node(j) \in t.nodes
      <4>1. j = m \/ j \in 0..(m - 1)
        OBVIOUS
      <4> QED BY <2>2, <3>1, <4>1
    <3>10. m + 1 \in 0..(m + 1)
      OBVIOUS
    <3> QED BY <3>8, <3>9, <3>10
  <2> QED BY <2>4, <2>5
<1>4. i \in T
  <2> HIDE DEF T
  <2>1. Nat \subseteq T
    BY <1>2, <1>3, Upward
  <2> QED BY <2>1, <1>1
<1>5. Inside(i)
  <2> HIDE DEF Inside
  <2> QED BY <1>4, <1>1
<1> QED BY <1>5 DEF walk

\* A lost node shows: the proof of a serial below it does not verify.
THEOREM MissingShows ==
  ASSUME NEW S \in SUBSET Fits, NEW t, t.Root = Canonical(S), t.nodes \subseteq NodesOf(S),
         \A n \in t.nodes : n # zero /\ (IsLeaf(n) => \E k \in Nat : n = Leaf(k)),
         NEW n \in NodesOf(S), n \notin t.nodes
  PROVE  \E key \in S : ~VerifyProof(CreateProof(t, key))
<1>1. PICK key \in S, i \in 0..Depth : n = Subtree(i, Below(S, KeyToPath(key), i))
  BY DEF NodesOf
<1> DEFINE p == KeyToPath(key)
           proof == CreateProof(t, key)
           end == Walk(t, p)[Depth]
<1>2. key \in Nat /\ p \in Bits /\ Depth \in 0..Depth
  BY PathType, DepthAssumption DEF Fits
<1>3. WellFormed(proof, key) /\ proof.Root = Canonical(S)
  BY <1>2, AnyProofIsWellFormed
<1> SUFFICES ASSUME VerifyProof(proof) PROVE FALSE
  OBVIOUS
<1>4. proof.Membership
  BY <1>2, <1>3, VerifiedIsTrue
<1>5. proof.Entry = Leaf(key)
  BY <1>3, <1>4 DEF WellFormed
<1> HIDE DEF end
<1>6. end.node \in t.nodes /\ end.node = Leaf(key)
  BY <1>4, <1>5 DEF CreateProof, retrieveEntry, end
<1> HIDE DEF p, proof
<1>7. PICK m \in 0..Depth : /\ end.node = Subtree(m, Below(S, p, m))
                            /\ \A j \in 0..(m - 1) : Subtree(j, Below(S, p, j)) \in t.nodes
  BY <1>2, WalkInside DEF end
<1>8. Below(S, p, m) = {key}
  <2>1. Below(S, p, m) \in SUBSET Fits /\ Together(Below(S, p, m), m)
    BY <1>2, BelowType
  <2> DEFINE B == Below(S, p, m)
  <2>2. Subtree(m, B) = Leaf(key)
    BY <1>6, <1>7
  <2> HIDE DEF B
  <2>3. Subtree(m, B) = Leaf(key) <=> B = {key}
    BY <1>2, <2>1, SubtreeShape DEF B
  <2> QED BY <2>2, <2>3 DEF B
<1>9. CASE i < m
  BY <1>1, <1>7, <1>9 DEF p
<1>10. CASE ~(i < m)
  <2>1. i \in m..Depth
    BY <1>10, DepthAssumption
  <2>2. Below(S, p, i) \subseteq {key}
    BY <1>8, <2>1, BelowShrinks
  <2>3. key \in Below(S, p, i)
    BY NodeKinds DEF p
  <2>4. n = Leaf(key)
    BY <1>1, <1>2, <2>2, <2>3, SubtreeOfOne DEF p
  <2> QED BY <1>6, <2>4
<1> QED BY <1>9, <1>10

-----------------------------------------------------------------------------
(* Files *)

\* The tree of finitely many serials has finitely many nodes.
LEMMA NodesFinite ==
  ASSUME NEW S, IsFiniteSet(S)
  PROVE  IsFiniteSet(NodesOf(S))
<1> DEFINE D == S \X (0..Depth)
           f == [x \in D |-> Subtree(x[2], Below(S, KeyToPath(x[1]), x[2]))]
<1>1. IsFiniteSet(D)
  <2>1. 0 \in Int /\ Depth \in Int
    BY DepthAssumption
  <2>2. IsFiniteSet(0..Depth)
    BY <2>1, FS_Interval
  <2> QED BY <2>2, FS_Product
<1>2. f \in [D -> NodesOf(S)]
  BY DEF NodesOf
<1>3. ASSUME NEW n \in NodesOf(S) PROVE \E x \in D : f[x] = n
  <2>1. PICK k \in S, i \in 0..Depth : n = Subtree(i, Below(S, KeyToPath(k), i))
    BY DEF NodesOf
  <2>2. <<k, i>> \in D /\ f[<<k, i>>] = n
    BY <2>1
  <2> QED BY <2>2
<1>4. f \in Surjection(D, NodesOf(S))
  <2> HIDE DEF f, D
  <2> QED BY <1>2, <1>3 DEF Surjection
<1> QED BY <1>1, <1>4, FS_Surjection

\* A part of a sequence, and what is in it.
LEMMA Part ==
  ASSUME NEW g, NEW n \in Nat, NEW s, s = [i \in 1..n |-> g[i]],
         NEW a \in 1..(n + 1), NEW b \in (a - 1)..n
  PROVE  /\ Len(s) = n
         /\ SubSeq(s, a, b) = [i \in 1..(b - a + 1) |-> g[a + i - 1]]
         /\ Len(SubSeq(s, a, b)) = b - a + 1
         /\ ToSet(SubSeq(s, a, b)) = {g[i] : i \in a..b}
<1> DEFINE part == SubSeq(s, a, b)
           V == {g[j] : j \in 1..n}
<1>1. s \in Seq(V) /\ Len(s) = n
  OBVIOUS
<1>2. \A i \in 1..n : s[i] = g[i]
  OBVIOUS
<1> HIDE DEF V
<1>3. part \in Seq(V) /\ Len(part) = b - a + 1
  BY <1>1
<1>4. \A i \in 1..(b - a + 1) : part[i] = s[a + i - 1] /\ a + i - 1 \in 1..n /\ a + i - 1 \in a..b
  BY <1>1
<1>5. DOMAIN part = 1..(b - a + 1)
  BY <1>3
<1> HIDE DEF part
<1>6. \A i \in 1..(b - a + 1) : part[i] = g[a + i - 1]
  BY <1>2, <1>4
<1>7. part = [i \in 1..(b - a + 1) |-> g[a + i - 1]]
  <2>1. part = [i \in 1..(b - a + 1) |-> part[i]]
    BY <1>3, <1>5
  <2> QED BY <1>6, <2>1
<1>8. ToSet(part) = {g[i] : i \in a..b}
  <2>1. ASSUME NEW x \in ToSet(part) PROVE x \in {g[i] : i \in a..b}
    <3>1. PICK i \in 1..(b - a + 1) : x = part[i]
      BY <1>5 DEF ToSet
    <3> QED BY <1>4, <1>6, <3>1
  <2>2. ASSUME NEW i \in a..b PROVE g[i] \in ToSet(part)
    <3>1. (i - a) + 1 \in 1..(b - a + 1) /\ a + ((i - a) + 1) - 1 = i
      OBVIOUS
    <3> DEFINE j == (i - a) + 1
    <3>2. j \in 1..(b - a + 1) /\ a + j - 1 = i
      BY <3>1
    <3> HIDE DEF j
    <3>3. part[j] = g[i]
      BY <1>6, <3>2
    <3> QED BY <1>5, <3>2, <3>3 DEF ToSet
  <2> QED BY <2>1, <2>2
<1> QED BY <1>1, <1>3, <1>7, <1>8 DEF part

\* f has the first n of the nodes of the tree that holds S, in some order.
FileOf(f, S, order, n) ==
  LET count == Cardinality(NodesOf(S))
  IN  /\ S \in Published /\ Holds(TreeOf(S), S)
      /\ count \in Nat /\ n \in 0..count
      /\ order \in [1..count -> NodesOf(S)]
      /\ \A i, j \in 1..count : i # j => order[i] # order[j]
      /\ f.nodeCount = count
      /\ f.rootHash = Canonical(S)
      /\ f.cells = [i \in 1..n |-> order[i]]
      /\ n = count => f.tail = "none"

\* Whatever a page may get is such a file: written by ExportBinary from a published
\* tree that went through JSON, whole or cut off.
THEOREM FileShape ==
  ASSUME NEW f \in Files
  PROVE  \E S, order, n : FileOf(f, S, order, n)
<1> DEFINE Whole(t) == convertJSONToBinary(Export(t, 1))
<1>0. PICK t \in Trees : \E w \in Whole(t) : f = w \/ f \in Cuts(w)
  BY DEF Files
<1>1. PICK w \in Whole(t) : f = w \/ f \in Cuts(w)
  BY <1>0
<1>2. PICK S \in Published : t = TreeOf(S) /\ Holds(t, S)
  BY TreesHold
<1>3. t.nodes = NodesOf(S) /\ t.Root = Canonical(S) /\ IsFiniteSet(S)
  BY <1>2 DEF Holds
<1> DEFINE N == NodesOf(S)
           count == Cardinality(N)
<1>4. count \in Nat
  BY <1>3, NodesFinite, FS_CardinalityType
<1>5. PICK order \in SetToSeqs(N) :
        w = [nodeCount |-> count, rootHash |-> Canonical(S), crlNumber |-> 1,
             cells |-> order, tail |-> "none"]
  BY <1>1, <1>3 DEF convertJSONToBinary, ExportBinary, Import, Export
<1>6. order \in [1..count -> N] /\ \A i, j \in 1..count : i # j => order[i] # order[j]
  BY DEF SetToSeqs
<1> HIDE DEF N
<1>7. order = [i \in 1..count |-> order[i]] /\ Len(order) = count
  BY <1>4, <1>6
<1>8. CASE f = w
  <2>1. FileOf(f, S, order, count)
    <3> HIDE DEF count
    <3>1. count \in 0..count
      BY <1>4
    <3> QED BY <1>2, <1>4, <1>5, <1>6, <1>7, <1>8, <3>1 DEF FileOf, count, N
  <2> QED BY <2>1
<1>9. CASE f \in Cuts(w)
  <2>1. PICK n \in 0..(Len(w.cells) - 1) :
          \E tail \in {"none", Type(w.cells[n + 1])} :
            f = [w EXCEPT !.cells = SubSeq(w.cells, 1, n), !.tail = tail]
    BY <1>9 DEF Cuts
  <2>2. w.cells = order
    BY <1>5
  <2>3. n \in 0..count /\ n # count /\ n \in Nat
    BY <1>4, <1>7, <2>1, <2>2
  <2> HIDE DEF count
  <2>4. SubSeq(order, 1, n) = [i \in 1..n |-> order[i]]
    <3>1. 1 \in 1..(count + 1) /\ n \in (1 - 1)..count /\ n - 1 + 1 = n
      BY <1>4, <2>3
    <3>2. SubSeq(order, 1, n) = [i \in 1..(n - 1 + 1) |-> order[1 + i - 1]]
      BY <1>4, <1>7, <3>1, Part
    <3>3. \A i \in 1..n : 1 + i - 1 = i
      OBVIOUS
    <3> QED BY <3>1, <3>2, <3>3
  <2>5. f.nodeCount = count /\ f.rootHash = Canonical(S) /\ f.cells = SubSeq(order, 1, n)
    BY <1>5, <2>1, <2>2
  <2>6. FileOf(f, S, order, n)
    BY <1>2, <1>4, <1>6, <2>3, <2>4, <2>5 DEF FileOf, count, N
  <2> QED BY <2>6
<1> QED BY <1>1, <1>8, <1>9

-----------------------------------------------------------------------------
(* The page's chunks *)

\* The loop of runBenchmark hands over one chunk after the other.
LEMMA CollectedEquation ==
  ASSUME NEW chunks, Len(chunks) \in Nat
  PROVE  \E map :
           /\ map = [k \in 0..Len(chunks) |->
                       IF k = 0 THEN {} ELSE map[k - 1] \union ToSet(chunks[k])]
           /\ collected(chunks) = map[Len(chunks)]
<1> DEFINE Body(g, i) == IF i = 0 THEN {} ELSE g[i - 1] \union ToSet(chunks[i])
           UpTo(m, g) == g = [i \in 0..m |-> Body(g, i)]
           Reached == {m \in Nat : \E g : UpTo(m, g)}
           map == CHOOSE g : UpTo(Len(chunks), g)
<1>1. 0 \in Reached
  <2> DEFINE g == [i \in 0..0 |-> {}]
  <2>1. UpTo(0, g)
    OBVIOUS
  <2> HIDE DEF UpTo, g
  <2> QED BY <2>1
<1>2. ASSUME NEW m \in Nat, m \in Reached PROVE m + 1 \in Reached
  <2>1. PICK g : UpTo(m, g)
    BY <1>2
  <2> DEFINE h == [i \in 0..(m + 1) |-> IF i = m + 1 THEN Body(g, m + 1) ELSE g[i]]
  <2> HIDE DEF Body
  <2>2. ASSUME NEW i \in 0..(m + 1) PROVE h[i] = Body(h, i)
    <3>1. i # 0 => h[i - 1] = g[i - 1]
      OBVIOUS
    <3>2. Body(h, i) = Body(g, i)
      BY <3>1 DEF Body
    <3>3. i # m + 1 => g[i] = Body(g, i)
      BY <2>1
    <3> QED BY <3>2, <3>3
  <2>3. UpTo(m + 1, h)
    BY <2>2
  <2> HIDE DEF UpTo, h
  <2> QED BY <2>3
<1>3. Len(chunks) \in Reached
  <2> HIDE DEF Reached
  <2>1. Nat \subseteq Reached
    BY <1>1, <1>2, Upward
  <2> QED BY <2>1
<1>4. UpTo(Len(chunks), map)
  <2> HIDE DEF UpTo
  <2> QED BY <1>3
<1>5. collected(chunks) = map[Len(chunks)]
  BY DEF collected, chunkAdded
<1> HIDE DEF map
<1> QED BY <1>4, <1>5

\* All chunks but the last are full, and the last is not empty.
LEMMA ChunkCount ==
  ASSUME NEW n \in Nat
  PROVE  LET count == (n + ChunkSize - 1) \div ChunkSize
         IN  /\ count \in Nat
             /\ n <= count * ChunkSize
             /\ \A k \in 0..(count - 1) : k * ChunkSize < n
<1> DEFINE c == ChunkSize
           count == (n + c - 1) \div c
<1>1. c \in Nat \ {0}
  BY ClientAssumption
<1> HIDE DEF c
<1>2. count \in Int /\ c * count <= n + c - 1 /\ n + c - 1 < c * (count + 1)
  BY <1>1
<1> HIDE DEF count
<1>3. count \in Nat
  <2> SUFFICES ASSUME count + 1 <= 0 PROVE FALSE
    BY <1>2
  <2>1. c * (count + 1) <= 0
    BY <1>1, <1>2
  <2> QED BY <1>1, <1>2, <2>1
<1>4. c * (count + 1) = count * c + c
  BY <1>1, <1>3
<1>5. ASSUME NEW k \in 0..(count - 1) PROVE k * c < n
  <2>1. k + 1 <= count /\ k \in Nat
    BY <1>3
  <2>2. c * (k + 1) <= c * count
    BY <1>1, <1>3, <2>1
  <2>3. c * (k + 1) = k * c + c
    BY <1>1, <2>1
  <2>4. k * c \in Int
    BY <1>1, <2>1
  <2>5. c * count \in Int
    BY <1>1, <1>3
  <2> DEFINE x == k * c
             y == c * count
  <2>6. x \in Int /\ y \in Int /\ x + c <= y /\ y <= n + c - 1
    BY <1>2, <2>2, <2>3, <2>4, <2>5
  <2> HIDE DEF x, y
  <2>7. x < n
    BY <1>1, <2>6
  <2> QED BY <2>7 DEF x
<1>6. n <= count * c
  <2> DEFINE y == count * c
  <2>1. y \in Int /\ n + c - 1 < y + c
    BY <1>1, <1>2, <1>3, <1>4
  <2> HIDE DEF y
  <2>2. n <= y
    BY <1>1, <2>1
  <2> QED BY <2>2 DEF y
<1> QED BY <1>3, <1>5, <1>6 DEF c, count

\* All chunks together are all the cells.
THEOREM ChunksCover ==
  ASSUME NEW g, NEW n \in Nat, NEW cells, cells = [i \in 1..n |-> g[i]]
  PROVE  collected(Chunks(cells)) = {g[i] : i \in 1..n}
<1> DEFINE c == ChunkSize
           count == (n + c - 1) \div c
           chunks == Chunks(cells)
           LastOf(k) == IF k * c <= n THEN k * c ELSE n
           UpTo(k) == {g[i] : i \in 1..LastOf(k)}
<1>1. c \in Nat \ {0}
  BY ClientAssumption
<1>2. count \in Nat /\ n <= count * c /\ \A k \in 0..(count - 1) : k * c < n
  BY ChunkCount
<1>3. Len(cells) = n
  OBVIOUS
<1>4. Len(chunks) = count
      /\ \A k \in 1..count : chunks[k] = SubSeq(cells, (k - 1) * c + 1, Min({k * c, n}))
  <2> DEFINE Chunk(k) == SubSeq(cells, (k - 1) * c + 1, Min({k * c, n}))
  <2>1. chunks = [k \in 1..count |-> Chunk(k)]
    BY <1>3 DEF Chunks
  <2> HIDE DEF c, count, chunks, Chunk
  <2>2. Len(chunks) = count /\ \A k \in 1..count : chunks[k] = Chunk(k)
    BY <1>2, <2>1
  <2> QED BY <2>2 DEF Chunk
<1> HIDE DEF c, count, chunks
<1>5. PICK map : /\ map = [k \in 0..count |->
                             IF k = 0 THEN {} ELSE map[k - 1] \union ToSet(chunks[k])]
                 /\ collected(chunks) = map[count]
  BY <1>2, <1>4, CollectedEquation
<1>6. ASSUME NEW k \in 0..(count - 1)
      PROVE  /\ LastOf(k) = k * c /\ k * c \in Nat /\ LastOf(k + 1) \in (k * c)..n
             /\ Min({(k + 1) * c, n}) = LastOf(k + 1)
  <2>1. k * c \in Nat /\ (k + 1) * c \in Nat /\ (k + 1) * c = k * c + c
    BY <1>1, <1>2
  <2>2. k * c < n
    BY <1>2
  <2> DEFINE x == k * c
             y == (k + 1) * c
  <2> HIDE DEF x, y
  <2>3. x \in Nat /\ y \in Nat /\ y = x + c /\ x < n
    BY <2>1, <2>2 DEF x, y
  <2>4. LastOf(k) = x /\ LastOf(k + 1) = IF y <= n THEN y ELSE n
    BY <2>3 DEF x, y
  <2> HIDE DEF LastOf
  <2>5. LastOf(k + 1) \in x..n
    BY <1>1, <2>3, <2>4
  <2>6. Min({y, n}) = LastOf(k + 1)
    <3>1. CASE y <= n
      <4>1. \A z \in {y, n} : (\A w \in {y, n} : z =< w) => z = y
        BY <2>3, <3>1
      <4>2. \A w \in {y, n} : y =< w
        BY <2>3, <3>1
      <4> QED BY <2>4, <3>1, <4>1, <4>2 DEF Min
    <3>2. CASE ~(y <= n)
      <4>1. \A z \in {y, n} : (\A w \in {y, n} : z =< w) => z = n
        BY <2>3, <3>2
      <4>2. \A w \in {y, n} : n =< w
        BY <2>3, <3>2
      <4> QED BY <2>4, <3>2, <4>1, <4>2 DEF Min
    <3> QED BY <3>1, <3>2
  <2> QED BY <2>3, <2>4, <2>5, <2>6 DEF x, y
<1> DEFINE T == {k \in Nat : k <= count => map[k] = UpTo(k)}
<1>7. 0 \in T
  <2>1. map[0] = {}
    BY <1>2, <1>5
  <2>2. LastOf(0) = 0
    <3>1. 0 * c = 0
      BY <1>1
    <3> QED BY <3>1
  <2> HIDE DEF LastOf
  <2>3. UpTo(0) = {}
    BY <2>2
  <2> HIDE DEF UpTo
  <2> QED BY <2>1, <2>3
<1>8. ASSUME NEW k \in Nat, k \in T PROVE k + 1 \in T
  <2> HIDE DEF UpTo, LastOf
  <2> SUFFICES ASSUME k + 1 <= count PROVE map[k + 1] = UpTo(k + 1)
    OBVIOUS
  <2>1. /\ k \in 0..(count - 1) /\ k <= count /\ k + 1 \in 1..count /\ k + 1 \in 0..count
        /\ k + 1 # 0 /\ (k + 1) - 1 = k
    BY <1>2
  <2> DEFINE a == k * c
             b == LastOf(k + 1)
  <2>2. a \in Nat /\ LastOf(k) = a /\ b \in a..n /\ Min({(k + 1) * c, n}) = b
    BY <1>6, <2>1
  <2>3. chunks[k + 1] = SubSeq(cells, a + 1, b)
    BY <1>4, <2>1, <2>2
  <2> HIDE DEF a, b
  <2>4. ToSet(chunks[k + 1]) = {g[i] : i \in (a + 1)..b}
    <3>1. a + 1 \in 1..(n + 1) /\ b \in ((a + 1) - 1)..n
      BY <2>2
    <3> DEFINE d == a + 1
    <3>2. d \in 1..(n + 1) /\ b \in (d - 1)..n
      BY <3>1
    <3> HIDE DEF d
    <3>3. ToSet(SubSeq(cells, d, b)) = {g[i] : i \in d..b}
      BY <3>2, Part
    <3> QED BY <2>3, <3>3 DEF d
  <2>5. map[k + 1] = map[k] \union ToSet(chunks[k + 1])
    BY <1>5, <2>1
  <2>6. map[k] = {g[i] : i \in 1..a}
    BY <1>8, <2>1, <2>2 DEF UpTo
  <2>7. 1..b = (1..a) \union ((a + 1)..b)
    BY <2>2
  <2>8. {g[i] : i \in 1..b} = {g[i] : i \in 1..a} \union {g[i] : i \in (a + 1)..b}
    BY <2>7
  <2> QED BY <2>4, <2>5, <2>6, <2>8 DEF UpTo, b
<1>9. map[count] = UpTo(count)
  <2> HIDE DEF T
  <2>1. Nat \subseteq T
    BY <1>7, <1>8, Upward
  <2> USE DEF T
  <2> HIDE DEF UpTo
  <2> QED BY <1>2, <2>1
<1>10. LastOf(count) = n
  <2> DEFINE x == count * c
  <2>1. x \in Nat /\ n <= x
    BY <1>1, <1>2
  <2>2. LastOf(count) = IF x <= n THEN x ELSE n
    OBVIOUS
  <2> HIDE DEF x, LastOf
  <2> QED BY <2>1, <2>2
<1> HIDE DEF LastOf
<1> QED BY <1>5, <1>9, <1>10 DEF chunks

-----------------------------------------------------------------------------
(* What is read from a file *)

\* The order of a file's cells misses no node.
LEMMA OrderCovers ==
  ASSUME NEW f, NEW S, NEW order, NEW n, FileOf(f, S, order, n)
  PROVE  LET count == Cardinality(NodesOf(S))
         IN  /\ {order[i] : i \in 1..count} = NodesOf(S)
             /\ {order[i] : i \in 1..n} \subseteq NodesOf(S)
             /\ n # count => \E x \in NodesOf(S) : x \notin {order[i] : i \in 1..n}
<1> DEFINE N == NodesOf(S)
           count == Cardinality(N)
<1>1. /\ S \in Published /\ count \in Nat /\ n \in 0..count /\ order \in [1..count -> N]
      /\ \A i, j \in 1..count : i # j => order[i] # order[j]
  BY DEF FileOf
<1>2. IsFiniteSet(N)
  BY <1>1, PublishedFits, NodesFinite
<1> HIDE DEF N
<1>3. IsInjective(order)
  BY <1>1 DEF IsInjective
<1>4. \A x \in N : \E i \in 1..count : order[i] = x
  BY <1>1, <1>2, <1>3, Listed
<1> HIDE DEF count
<1>5. {order[i] : i \in 1..count} = N
  BY <1>1, <1>4
<1>6. 1..n \subseteq 1..count
  BY <1>1
<1>7. ASSUME n # count
      PROVE  \E x \in N : x \notin {order[i] : i \in 1..n}
  <2>1. n + 1 \in 1..count /\ \A i \in 1..n : i \in 1..count /\ n + 1 # i
    BY <1>1, <1>7
  <2>2. order[n + 1] \in N /\ order[n + 1] \notin {order[i] : i \in 1..n}
    BY <1>1, <2>1
  <2> QED BY <2>2
<1> QED BY <1>1, <1>5, <1>6, <1>7 DEF N, count

\* In a complete file there are as many leaves as serials.
LEMMA LeafCount ==
  ASSUME NEW f, NEW S, NEW order, FileOf(f, S, order, Cardinality(NodesOf(S)))
  PROVE  leaves(f.cells) = Cardinality(S)
<1> DEFINE N == NodesOf(S)
           count == Cardinality(N)
           I == {i \in 1..count : IsLeaf(order[i])}
           g == [i \in I |-> order[i][1]]
<1>1. /\ S \in Published /\ count \in Nat /\ order \in [1..count -> N]
      /\ \A i, j \in 1..count : i # j => order[i] # order[j]
      /\ f.cells = [i \in 1..count |-> order[i]]
  BY DEF FileOf
<1>2. S \in SUBSET Fits /\ IsFiniteSet(S)
  BY <1>1, PublishedFits
<1>3. \A x \in N : \E i \in 1..count : order[i] = x
  BY OrderCovers
<1>4. \A x \in N : IsLeaf(x) => x[1] \in S /\ x = Leaf(x[1])
  <2> SUFFICES ASSUME NEW x \in N, IsLeaf(x) PROVE x[1] \in S /\ x = Leaf(x[1])
    OBVIOUS
  <2>1. PICK k \in S, i \in 0..Depth : x = Subtree(i, Below(S, KeyToPath(k), i))
    BY DEF NodesOf
  <2>2. x = Leaf(k)
    BY <1>2, <2>1, NodeKinds
  <2> QED BY <2>2, Shapes
<1>5. \A k \in S : Leaf(k) \in N
  BY <1>2, LeafStored
<1> HIDE DEF N
<1>6. leaves(f.cells) = Cardinality(I)
  <2>1. Len(f.cells) = count /\ \A i \in 1..count : f.cells[i] = order[i]
    <3> HIDE DEF count
    <3> QED BY <1>1
  <2>2. {i \in 1..Len(f.cells) : IsLeaf(f.cells[i])} = I
    BY <2>1
  <2> QED BY <2>2 DEF leaves
<1> HIDE DEF count
<1>7. g \in Bijection(I, S)
  <2>1. g \in [I -> S]
    BY <1>1, <1>4
  <2>2. ASSUME NEW a \in I, NEW b \in I, g[a] = g[b] PROVE a = b
    <3>1. order[a] = Leaf(order[a][1]) /\ order[b] = Leaf(order[b][1])
      BY <1>1, <1>4
    <3>2. order[a] = order[b]
      BY <2>2, <3>1
    <3> QED BY <1>1, <3>2
  <2>3. ASSUME NEW k \in S PROVE \E i \in I : g[i] = k
    <3>1. PICK i \in 1..count : order[i] = Leaf(k)
      BY <1>3, <1>5
    <3>2. i \in I /\ g[i] = k
      BY <3>1, Shapes
    <3> QED BY <3>2
  <2>4. DOMAIN g = I
    OBVIOUS
  <2> HIDE DEF g, I
  <2> QED BY <2>1, <2>2, <2>3, <2>4 DEF Bijection, Injection, Surjection, IsInjective
<1>8. IsFiniteSet(I)
  <2>1. IsFiniteSet(1..count)
    BY <1>1, FS_Interval
  <2> QED BY <2>1, FS_Subset
<1>9. Cardinality(S) = Cardinality(I)
  <2> HIDE DEF g, I
  <2>1. ExistsBijection(I, S)
    BY <1>7 DEF ExistsBijection
  <2> QED BY <1>8, <2>1, FS_Bijection
<1> QED BY <1>6, <1>9

\* ImportBinary makes the published tree of a complete file and refuses the others.
THEOREM Imported ==
  ASSUME NEW f, NEW S, NEW order, NEW n, FileOf(f, S, order, n)
  PROVE  /\ Len(f.cells) = n
         /\ ImportBinary(f).ok <=> n = f.nodeCount
         /\ n = f.nodeCount => ImportBinary(f).tree = TreeOf(S) /\ TreeOf(S).Root = f.rootHash
<1> DEFINE count == Cardinality(NodesOf(S))
<1>1. /\ count \in Nat /\ n \in 0..count /\ f.nodeCount = count /\ f.rootHash = Canonical(S)
      /\ f.cells = [i \in 1..n |-> order[i]]
      /\ TreeOf(S) = [nodes |-> NodesOf(S), Root |-> Canonical(S), Count |-> Cardinality(S)]
  BY DEF FileOf, Holds
<1> HIDE DEF count
<1>2. Len(f.cells) = n
  BY <1>1
<1>3. CASE n # count
  BY <1>1, <1>2, <1>3 DEF ImportBinary, Refused
<1>4. CASE n = count
  <2> DEFINE cells == SubSeq(f.cells, 1, f.nodeCount)
  <2>1. cells = [i \in 1..n |-> order[i]] /\ ToSet(cells) = {order[i] : i \in 1..n}
    <3>1. 1 \in 1..(n + 1) /\ n \in (1 - 1)..n /\ n \in Nat /\ n - 1 + 1 = n
      BY <1>1
    <3> DEFINE s == f.cells
    <3>2. s = [i \in 1..n |-> order[i]]
      BY <1>1
    <3> HIDE DEF s
    <3>3. SubSeq(s, 1, n) = [i \in 1..(n - 1 + 1) |-> order[1 + i - 1]]
      BY <3>1, <3>2, Part
    <3>4. ToSet(SubSeq(s, 1, n)) = {order[i] : i \in 1..n}
      BY <3>1, <3>2, Part
    <3>5. \A i \in 1..n : 1 + i - 1 = i
      OBVIOUS
    <3> QED BY <1>1, <1>4, <3>1, <3>3, <3>4, <3>5 DEF s
  <2> HIDE DEF cells
  <2>2. cells = f.cells /\ ToSet(cells) = NodesOf(S)
    <3>1. {order[i] : i \in 1..count} = NodesOf(S)
      BY OrderCovers DEF count
    <3> QED BY <1>1, <1>4, <2>1, <3>1
  <2> USE DEF cells
  <2>3. leaves(cells) = Cardinality(S)
    BY <1>4, <2>2, LeafCount DEF count
  <2>4. ~(Len(f.cells) < f.nodeCount)
    BY <1>1, <1>2, <1>4
  <2>5. ImportBinary(f) =
          [ok |-> TRUE, crlNumber |-> f.crlNumber,
           tree |-> [nodes |-> ToSet(cells), Root |-> f.rootHash, Count |-> leaves(cells)]]
    BY <2>4 DEF ImportBinary
  <2> HIDE DEF cells
  <2> QED BY <1>1, <1>2, <1>4, <2>2, <2>3, <2>5
<1> QED BY <1>1, <1>2, <1>3, <1>4

\* What the page ends up with.
Loaded(f) == Finalized(NewTree, collected(Chunks(f.cells)), f.rootHash, leafCount(f))

\* The page has the cells of the file and its root.
LEMMA PageTree ==
  ASSUME NEW f, NEW S, NEW order, NEW n, FileOf(f, S, order, n)
  PROVE  /\ Loaded(f) = [nodes |-> {order[i] : i \in 1..n}, Root |-> Canonical(S),
                         Count |-> leafCount(f)]
         /\ {order[i] : i \in 1..n} \subseteq AllNodes
         /\ Loaded(f) \in ClientTrees
<1> DEFINE N == {order[i] : i \in 1..n}
<1>1. /\ S \in Published /\ n \in Nat /\ f.rootHash = Canonical(S)
      /\ f.cells = [i \in 1..n |-> order[i]]
      /\ TreeOf(S) = [nodes |-> NodesOf(S), Root |-> Canonical(S), Count |-> Cardinality(S)]
  BY DEF FileOf, Holds
<1>2. collected(Chunks(f.cells)) = N
  BY <1>1, ChunksCover
<1>3. TreeOf(S) \in Trees /\ NodesOf(S) \subseteq AllNodes
  BY <1>1 DEF Trees, AllNodes
<1>4. N \subseteq AllNodes
  BY <1>3, OrderCovers
<1> HIDE DEF N
<1>5. MapOf(N) = N
  BY <1>4, NilAssumption DEF MapOf
<1>6. leafCount(f) \in Nat
  <2>1. Len(f.cells) \in Nat
    BY <1>1
  <2>2. IsFiniteSet(1..Len(f.cells))
    BY <2>1, FS_Interval
  <2>3. IsFiniteSet({i \in 1..Len(f.cells) : IsLeaf(f.cells[i])})
    BY <2>2, FS_Subset
  <2>4. leaves(f.cells) \in Nat
    BY <2>3, FS_CardinalityType DEF leaves
  <2> QED BY <2>4 DEF leafCount
<1>7. Loaded(f) = [nodes |-> N, Root |-> Canonical(S), Count |-> leafCount(f)]
  <2>1. Loaded(f) = [nodes |-> MapOf(collected(Chunks(f.cells))), Root |-> f.rootHash,
                     Count |-> leafCount(f)]
    <3>1. DOMAIN NewTree = {"nodes", "Root", "Count"}
      BY DEF NewTree
    <3> QED BY <3>1, GivenNodes DEF Loaded
  <2> QED BY <1>1, <1>2, <1>5, <2>1
<1>8. Canonical(S) \in {t.Root : t \in Trees}
  BY <1>1, <1>3
<1>9. Loaded(f) \in ClientTrees
  BY <1>4, <1>6, <1>7, <1>8 DEF ClientTrees
<1> QED BY <1>4, <1>7, <1>9 DEF N

-----------------------------------------------------------------------------
(* The invariant *)

\* While no script has called since, the tree is what the page made of its file.
IInv ==
  /\ TypeOK
  /\ file # nil => file \in Files /\ tree = Loaded(file)

\* No client has a tree, a map or a file before its first call.
LEMMA InitHolds == Init => IInv
BY DEF Init, IInv, TypeOK

\* initTree starts with nothing in the tree and in the map.
LEMMA InitTreeKeeps ==
  ASSUME IInv, initTree
  PROVE  IInv' /\ nodes' # nil
<1>1. tree' = NewTree /\ nodes' = {} /\ file' = nil
  BY DEF initTree
<1>2. NewTree \in ClientTrees
  BY DEF NewTree, ClientTrees
<1>3. {} \in SUBSET AllNodes
  OBVIOUS
<1>4. {} # nil
  BY <1>3, NilAssumption
<1> QED BY <1>1, <1>2, <1>4 DEF IInv, TypeOK

\* addNodeChunk puts nodes of a published tree into the map, and only whole ones.
LEMMA AddNodeChunkKeeps ==
  ASSUME IInv, NEW t \in Trees, NEW S \in SUBSET t.nodes, NEW tail,
         addNodeChunk(SetToSeq(S), tail)
  PROVE  IInv' /\ nodes' # nil
<1>1. /\ nodes # nil /\ nodes' = nodes \union ToSet(SetToSeq(S)) /\ file' = nil
      /\ tree' = tree
  BY DEF addNodeChunk, chunkAdded
<1>2. IsFiniteSet(S) /\ S \subseteq AllNodes
  <2>1. PICK P \in Published : Holds(t, P)
    BY TreesHold
  <2>2. IsFiniteSet(t.nodes)
    BY <2>1, NodesFinite DEF Holds
  <2> QED BY <2>2, FS_Subset DEF AllNodes
<1>3. ToSet(SetToSeq(S)) \subseteq S
  <2>1. SetToSeq(S) \in [1..Cardinality(S) -> S]
    BY <1>2, Listed
  <2> HIDE DEF SetToSeq
  <2> QED BY <2>1 DEF ToSet
<1>4. nodes' \in SUBSET AllNodes
  BY <1>1, <1>2, <1>3 DEF IInv, TypeOK
<1>5. nodes' # nil
  BY <1>4, NilAssumption
<1> QED BY <1>1, <1>4, <1>5 DEF IInv, TypeOK

\* finalize gives the tree the map and the root of a published tree.
LEMMA FinalizeKeeps ==
  ASSUME IInv, NEW t \in Trees, finalize(t.Root, t.Count)
  PROVE  /\ IInv'
         /\ tree' = [nodes |-> MapOf(nodes), Root |-> t.Root, Count |-> t.Count]
         /\ tree' \in ClientTrees
<1>1. /\ tree # nil /\ tree' = Finalized(tree, nodes, t.Root, t.Count) /\ nodes' = nil
      /\ file' = nil
  BY DEF finalize
<1>2. tree \in ClientTrees
  BY <1>1 DEF IInv, TypeOK
<1>3. DOMAIN tree = {"nodes", "Root", "Count"}
  BY <1>2 DEF ClientTrees
<1>4. tree' = [nodes |-> MapOf(nodes), Root |-> t.Root, Count |-> t.Count]
  BY <1>1, <1>3, GivenNodes
<1>5. MapOf(nodes) \in SUBSET AllNodes
  BY DEF MapOf, IInv, TypeOK
<1>6. t.Count \in Nat
  <2>1. PICK S \in Published : Holds(t, S)
    BY TreesHold
  <2> QED BY <2>1, FS_CardinalityType DEF Holds
<1>7. tree' \in ClientTrees
  BY <1>4, <1>5, <1>6 DEF ClientTrees
<1> QED BY <1>1, <1>4, <1>7 DEF IInv, TypeOK

\* runBenchmark ends with the tree it loaded.
LEMMA RunBenchmarkKeeps ==
  ASSUME IInv, NEW f \in Files, runBenchmark(f)
  PROVE  IInv' /\ file' # nil
<1>1. tree' = Loaded(f) /\ nodes' = nil /\ file' = f
  BY DEF runBenchmark, Loaded
<1>2. PICK S, order, n : FileOf(f, S, order, n)
  BY FileShape
<1>3. Loaded(f) \in ClientTrees
  BY <1>2, PageTree
<1>4. f # nil /\ Loaded(f) # nil
  BY <1>3, NilAssumption
<1> QED BY <1>1, <1>3, <1>4 DEF IInv, TypeOK

\* Every call keeps the invariant, and only finalize lets go of a map for good.
LEMMA StepKeeps ==
  ASSUME IInv, [Next]_vars
  PROVE  /\ IInv'
         /\ nodes # nil /\ nodes' = nil /\ file' = nil =>
              \E u \in Trees : /\ tree'.nodes = nodes /\ tree'.Root = u.Root
                               /\ tree' \in ClientTrees
<1>1. CASE initTree
  BY <1>1, InitTreeKeeps
<1>2. ASSUME NEW t \in Trees, NEW tail, NEW S \in SUBSET t.nodes,
             addNodeChunk(SetToSeq(S), tail)
      PROVE  IInv' /\ nodes' # nil
  BY <1>2, AddNodeChunkKeeps
<1>3. ASSUME NEW t \in Trees, finalize(t.Root, t.Count)
      PROVE  IInv' /\ (nodes # nil => tree'.nodes = nodes /\ tree'.Root = t.Root
                                      /\ tree' \in ClientTrees)
  BY <1>3, FinalizeKeeps DEF MapOf
<1>4. ASSUME NEW f \in Files, runBenchmark(f)
      PROVE  IInv' /\ file' # nil
  BY <1>4, RunBenchmarkKeeps
<1>5. CASE UNCHANGED vars
  BY <1>5 DEF IInv, TypeOK, vars
<1>6. ASSUME NEW t \in Trees, NEW tail,
             \E S \in UNION {kSubset(k, t.nodes) : k \in 0..ChunkSize} :
               addNodeChunk(SetToSeq(S), tail)
      PROVE  IInv' /\ nodes' # nil
  <2>1. PICK S \in UNION {kSubset(k, t.nodes) : k \in 0..ChunkSize} :
          addNodeChunk(SetToSeq(S), tail)
    BY <1>6
  <2>2. S \in SUBSET t.nodes
    BY DEF kSubset
  <2> QED BY <1>2, <2>1, <2>2
<1> QED BY <1>1, <1>3, <1>4, <1>5, <1>6 DEF Next, Script

\* The invariant holds after any sequence of calls.
THEOREM AlwaysInv == Spec => []IInv
BY InitHolds, StepKeeps, PTL DEF Spec

-----------------------------------------------------------------------------
(* What holds of every client *)

\* TypeOK: the tree and the map never hold anything but whole published nodes.
THEOREM Types == Spec => []TypeOK
<1>1. IInv => TypeOK
  BY DEF IInv
<1> QED BY <1>1, AlwaysInv, PTL

\* The leaves that a client may have are those of serials, whatever chunks it was given.
LEMMA ClientLeaves ==
  ASSUME NEW t \in ClientTrees, NEW n \in t.nodes
  PROVE  n # zero /\ (IsLeaf(n) => \E k \in Nat : n = Leaf(k))
BY PublishedNodes DEF ClientTrees

\* What createProof answers, and verifyProof says of it.
LEMMA Answer ==
  ASSUME NEW key
  PROVE  LET proof == CreateProof(tree, key)
         IN  /\ createProof(key).root = proof.Root
             /\ createProof(key).membership = proof.Membership
             /\ verifyProof(createProof(key)) = VerifyProof(proof)
<1>1. /\ createProof(key).root = CreateProof(tree, key).Root
      /\ createProof(key).membership = CreateProof(tree, key).Membership
  BY DEF createProof, proofToJSON
<1>2. jsonToProof(createProof(key)) = CreateProof(tree, key)
  BY RoundTrip DEF createProof
<1> QED BY <1>1, <1>2 DEF verifyProof

\* ProofSound: a proof that verifies against the root of a published tree tells the
\* truth about that tree, whatever the client was given.
THEOREM ProofSoundHolds == Spec => []ProofSound
<1>1. IInv => ProofSound
  <2> SUFFICES ASSUME IInv, tree # nil, NEW t \in Trees, NEW key \in Queries,
                      createProof(key).root = t.Root, verifyProof(createProof(key))
               PROVE  createProof(key).membership <=> key \in Keys(t)
    BY DEF ProofSound
  <2> DEFINE proof == CreateProof(tree, key)
  <2>1. tree \in ClientTrees
    BY DEF IInv, TypeOK
  <2>2. key \in Nat
    BY ClientAssumption
  <2>3. WellFormed(proof, key)
    BY <2>1, <2>2, ClientLeaves, AnyProofIsWellFormed
  <2>4. proof.Root = t.Root /\ VerifyProof(proof)
    BY Answer
  <2>5. PICK S \in Published : Holds(t, S)
    BY TreesHold
  <2>6. S \in SUBSET Fits /\ t.Root = Canonical(S) /\ Keys(t) = S
    BY <2>5, KeysHeld DEF Holds
  <2> HIDE DEF proof
  <2>7. proof.Membership <=> key \in S
    BY <2>2, <2>3, <2>4, <2>6, VerifiedIsTrue
  <2> QED BY <2>6, <2>7, Answer DEF proof
<1> QED BY <1>1, AlwaysInv, PTL

\* CompleteProves: once all nodes of a published tree have been handed over, whatever
\* else has been, finalizing with its root makes the proof of every key verify.
THEOREM CompleteProvesHolds == Spec => CompleteProves
<1>1. ASSUME IInv, [Next]_vars, nodes # nil, nodes' = nil, file' = nil,
             NEW t \in Trees, tree'.Root = t.Root, t.nodes \subseteq nodes,
             NEW key \in Queries
      PROVE  verifyProof(createProof(key))'
  <2>1. tree' \in ClientTrees /\ tree'.nodes = nodes
    BY <1>1, StepKeeps
  <2>2. PICK S \in Published : Holds(t, S)
    BY TreesHold
  <2>3. S \in SUBSET Fits /\ t.Root = Canonical(S) /\ t.nodes = NodesOf(S) /\ key \in Nat
    BY <2>2, ClientAssumption DEF Holds
  <2>4. zero \notin tree'.nodes
    BY <2>1, ClientLeaves
  <2>5. Stored(tree', S)
    BY <1>1, <2>1, <2>3, <2>4 DEF Stored
  <2>6. VerifyProof(CreateProof(tree', key))
    BY <2>3, <2>5, ProofIsWellFormed
  <2>7. createProof(key)' = proofToJSON(CreateProof(tree', key))
    BY DEF createProof
  <2>8. verifyProof(createProof(key))' = VerifyProof(jsonToProof(createProof(key)'))
    BY DEF verifyProof
  <2> QED BY <2>6, <2>7, <2>8, RoundTrip
<1>2. IInv /\ [Next]_vars =>
        [nodes # nil /\ nodes' = nil /\ file' = nil =>
           \A t \in Trees :
             tree'.Root = t.Root /\ t.nodes \subseteq nodes
               => \A key \in Queries : verifyProof(createProof(key))']_vars
  BY <1>1
<1> QED BY <1>2, AlwaysInv, PTL DEF Spec, CompleteProves

\* ImportExact: ImportBinary makes the published tree of every complete file, in
\* whatever order its nodes come, and refuses a file that is cut off.
THEOREM ImportExactHolds == Spec => []ImportExact
<1>1. IInv => ImportExact
  <2> SUFFICES ASSUME file \in Files
               PROVE  LET r == ImportBinary(file)
                          complete == Len(file.cells) = file.nodeCount
                      IN  /\ r.ok <=> complete
                          /\ r.ok => r.tree \in Trees /\ r.tree.Root = file.rootHash
    BY DEF IInv, ImportExact
  <2>1. PICK S, order, n : FileOf(file, S, order, n)
    BY FileShape
  <2>2. TreeOf(S) \in Trees
    BY <2>1 DEF FileOf, Trees
  <2> QED BY <2>1, <2>2, Imported
<1> QED BY <1>1, AlwaysInv, PTL

\* PageLoads: the page loads what ImportBinary would, and what it loads from a file
\* that ImportBinary refuses shows in a proof that does not verify - if somebody asks
\* for the serials that have been published.
THEOREM PageLoadsHolds == (\A S \in Published : S \subseteq Queries) => (Spec => []PageLoads)
<1> SUFFICES ASSUME \A S \in Published : S \subseteq Queries
             PROVE  Spec => []PageLoads
  OBVIOUS
<1>1. IInv => PageLoads
  <2> SUFFICES ASSUME IInv, file # nil
               PROVE  LET r == ImportBinary(file)
                      IN  IF r.ok THEN tree = r.tree
                          ELSE \E key \in Queries : ~verifyProof(createProof(key))
    BY DEF PageLoads
  <2>1. file \in Files /\ tree = Loaded(file)
    BY DEF IInv
  <2>2. PICK S, order, n : FileOf(file, S, order, n)
    BY <2>1, FileShape
  <2> DEFINE count == Cardinality(NodesOf(S))
  <2>3. /\ S \in Published /\ file.nodeCount = count
        /\ n = count => file.tail = "none"
        /\ TreeOf(S) = [nodes |-> NodesOf(S), Root |-> Canonical(S), Count |-> Cardinality(S)]
    BY <2>2 DEF FileOf, Holds
  <2>4. /\ tree = [nodes |-> {order[i] : i \in 1..n}, Root |-> Canonical(S),
                   Count |-> leafCount(file)]
        /\ tree \in ClientTrees
    BY <2>1, <2>2, PageTree
  <2>5. CASE n = count
    <3>1. ImportBinary(file).ok /\ ImportBinary(file).tree = TreeOf(S)
      BY <2>2, <2>3, <2>5, Imported
    <3>2. {order[i] : i \in 1..n} = NodesOf(S)
      BY <2>2, <2>5, OrderCovers
    <3>3. leaves(file.cells) = Cardinality(S) /\ Cardinality(S) \in Nat
      BY <2>2, <2>3, <2>5, LeafCount, PublishedFits, FS_CardinalityType
    <3>4. leafCount(file) = Cardinality(S)
      BY <2>3, <2>5, <3>3 DEF leafCount
    <3> QED BY <2>3, <2>4, <3>1, <3>2, <3>4
  <2>6. CASE n # count
    <3>1. ~ImportBinary(file).ok
      BY <2>2, <2>3, <2>6, Imported
    <3>2. tree.nodes \subseteq NodesOf(S) /\ \E x \in NodesOf(S) : x \notin tree.nodes
      BY <2>2, <2>4, <2>6, OrderCovers
    <3>3. tree.Root = Canonical(S) /\ S \in SUBSET Fits
      BY <2>3, <2>4, PublishedFits
    <3>4. \E key \in S : ~VerifyProof(CreateProof(tree, key))
      BY <2>4, <3>2, <3>3, ClientLeaves, MissingShows
    <3>5. PICK key \in S : ~verifyProof(createProof(key))
      BY <3>4, Answer
    <3> QED BY <2>3, <3>1, <3>5
  <2> QED BY <2>5, <2>6
<1> QED BY <1>1, AlwaysInv, PTL
=============================================================================
