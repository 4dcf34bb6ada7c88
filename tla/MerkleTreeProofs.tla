-------------------------- MODULE MerkleTreeProofs --------------------------
(* What the operations do to the tree of a set of keys: walk and climb in   *)
(* it, prove and verify, add and delete a key, add and delete a batch.      *)
EXTENDS SubtreeProofs

-----------------------------------------------------------------------------
(* The keys along a path *)

\* The keys of S whose path is p down to level i.
Below(S, p, i) == {k \in S : \A j \in 0..(i - 1) : KeyToPath(k)[j] = p[j]}

\* Those that part from p right there.
Beside(S, p, i) == {k \in Below(S, p, i) : KeyToPath(k)[i] # p[i]}

\* All keys are below the root.
LEMMA BelowTop == ASSUME NEW S, NEW p PROVE Below(S, p, 0) = S
BY DEF Below

\* The keys below a node share the path down to it, those beside it one bit more.
LEMMA BelowType ==
  ASSUME NEW S \in SUBSET Fits, NEW p \in Bits, NEW i \in 0..Depth
  PROVE  /\ Below(S, p, i) \in SUBSET Fits
         /\ Together(Below(S, p, i), i)
         /\ i # Depth => /\ Beside(S, p, i) \in SUBSET Fits
                         /\ Together(Beside(S, p, i), i + 1)
<1>1. Below(S, p, i) \in SUBSET Fits /\ Together(Below(S, p, i), i)
  BY DEF Below, Together
<1>2. ASSUME i # Depth
      PROVE  Beside(S, p, i) \in SUBSET Fits /\ Together(Beside(S, p, i), i + 1)
  <2>1. i \in 0..(Depth - 1) /\ p[i] \in {0, 1}
    BY <1>2, DepthAssumption DEF Bits
  <2>2. \A k \in Below(S, p, i) : KeyToPath(k)[i] \in {0, 1}
    BY <2>1, PathType DEF Below, Fits, Bits
  <2>3. Beside(S, p, i) = Half(Below(S, p, i), i, 1 - p[i])
    BY <2>1, <2>2 DEF Beside, Half
  <2>4. 1 - p[i] \in {0, 1}
    BY <2>1
  <2> QED BY <1>1, <2>1, <2>3, <2>4, Halves
<1> QED BY <1>1, <1>2

\* One level down, the keys below a node are those below its child on the path and
\* those beside that child.
LEMMA BelowNext ==
  ASSUME NEW S \in SUBSET Fits, NEW p \in Bits, NEW i \in 0..(Depth - 1)
  PROVE  /\ Below(S, p, i + 1) = Half(Below(S, p, i), i, p[i])
         /\ Beside(S, p, i) = Half(Below(S, p, i), i, 1 - p[i])
         /\ Below(S, p, i) = Below(S, p, i + 1) \union Beside(S, p, i)
<1>1. p[i] \in {0, 1} /\ \A k \in Below(S, p, i) : KeyToPath(k)[i] \in {0, 1}
  BY PathType DEF Below, Fits, Bits
<1>2. 0..((i + 1) - 1) = 0..(i - 1) \union {i}
  OBVIOUS
<1>3. Below(S, p, i + 1) = Half(Below(S, p, i), i, p[i])
  BY <1>2 DEF Below, Half
<1>4. Beside(S, p, i) = Half(Below(S, p, i), i, 1 - p[i])
  BY <1>1 DEF Beside, Half
<1>5. Below(S, p, i) = Below(S, p, i + 1) \union Beside(S, p, i)
  BY <1>3 DEF Beside, Half
<1> QED BY <1>3, <1>4, <1>5

\* The further down, the fewer keys.
LEMMA BelowShrinks ==
  ASSUME NEW S, NEW p, NEW i \in 0..Depth, NEW j \in i..Depth
  PROVE  Below(S, p, j) \subseteq Below(S, p, i)
<1>1. 0..(i - 1) \subseteq 0..(j - 1)
  BY DepthAssumption
<1> QED BY <1>1 DEF Below

\* The level at which the path p comes to its end: a leaf or nothing.
IsFork(S, p, m) ==
  /\ m \in 0..Depth
  /\ ~Two(Below(S, p, m))
  /\ \A i \in 0..(m - 1) : Two(Below(S, p, i))

\* Every path comes to its end.
LEMMA ForkExists ==
  ASSUME NEW S \in SUBSET Fits, NEW p \in Bits
  PROVE  \E m : IsFork(S, p, m)
<1> DEFINE Ends == {m \in 0..Depth : ~Two(Below(S, p, m))}
<1>1. Depth \in Ends
  <2>1. Depth \in 0..Depth
    BY DepthAssumption
  <2> QED BY <2>1, BelowType, BottomHasOne
<1>2. Ends \in SUBSET Nat
  BY DepthAssumption
<1>3. PICK m \in Ends : \A i \in Ends : m <= i
  <2> HIDE DEF Ends
  <2> QED BY <1>1, <1>2, LeastNatural
<1>4. ASSUME NEW i \in 0..(m - 1) PROVE Two(Below(S, p, i))
  <2>1. i \in 0..Depth /\ ~(m <= i)
    BY DepthAssumption
  <2> QED BY <1>3, <2>1
<1> QED BY <1>4 DEF IsFork

\* Above the end of the path there are nothing but branches, and below nothing else.
LEMMA ForkDivides ==
  ASSUME NEW S \in SUBSET Fits, NEW p \in Bits, NEW m, IsFork(S, p, m), NEW i \in 0..Depth
  PROVE  Two(Below(S, p, i)) <=> i < m
<1>1. CASE i < m
  BY <1>1, DepthAssumption DEF IsFork
<1>2. CASE ~(i < m)
  <2>1. Below(S, p, i) \subseteq Below(S, p, m)
    BY <1>2, BelowShrinks, DepthAssumption DEF IsFork
  <2> QED BY <1>2, <2>1 DEF IsFork, Two
<1> QED BY <1>1, <1>2

\* A branch on the path joins the subtree further down it and the sibling, in the
\* order that the path's bit tells.
LEMMA SubtreeTurns ==
  ASSUME NEW S \in SUBSET Fits, NEW p \in Bits, NEW i \in 0..(Depth - 1),
         Two(Below(S, p, i))
  PROVE  LET below == Subtree(i + 1, Below(S, p, i + 1))
             beside == Subtree(i + 1, Beside(S, p, i))
         IN  Subtree(i, Below(S, p, i)) =
               IF p[i] = 1 THEN Hash2(beside, below) ELSE Hash2(below, beside)
<1>1. Below(S, p, i) \in SUBSET Nat
  BY DEF Below, Fits
<1>2. p[i] \in {0, 1}
  BY DEF Bits
<1>3. p[i] = 1 => 1 - p[i] = 0
  OBVIOUS
<1>4. p[i] = 0 => 1 - p[i] = 1
  OBVIOUS
<1> QED BY <1>1, <1>2, <1>3, <1>4, BelowNext, SubtreeOfTwo

-----------------------------------------------------------------------------
(* Climbing *)

\* The siblings along p down to level n.
Sides(S, p, n) == [j \in 1..n |-> Subtree(j, Beside(S, p, j - 1))]

\* There is one sibling for each level climbed.
LEMMA SidesLength ==
  ASSUME NEW S, NEW p, NEW n \in Nat
  PROVE  Len(Sides(S, p, n)) = n
BY DEF Sides

\* Climbing from the right node with the right siblings gives the right nodes.
LEMMA ClimbIsCanonical ==
  ASSUME NEW S \in SUBSET Fits, NEW p \in Bits, NEW n \in 0..Depth,
         \A i \in 0..(n - 1) : Two(Below(S, p, i))
  PROVE  \A i \in 0..n : Climb(Subtree(n, Below(S, p, n)), p, Sides(S, p, n))[i]
                           = Subtree(i, Below(S, p, i))
<1> DEFINE climb == Climb(Subtree(n, Below(S, p, n)), p, Sides(S, p, n))
           Right == {i \in 0..n : climb[i] = Subtree(i, Below(S, p, i))}
<1>1. n \in Nat /\ Len(Sides(S, p, n)) = n
  BY SidesLength, DepthAssumption
<1>2. climb = ClimbStep(climb, Subtree(n, Below(S, p, n)), p, Sides(S, p, n))
  BY <1>1, ClimbEquation
<1> HIDE DEF climb
<1>3. n \in Right
  BY <1>1, <1>2 DEF ClimbStep
<1>4. ASSUME NEW c \in 1..n, c \in Right PROVE c - 1 \in Right
  <2> DEFINE i == c - 1
  <2>1. i \in 0..(n - 1) /\ i \in 0..(Depth - 1) /\ i \in 0..n /\ i # n /\ c = i + 1
    BY <1>1, DepthAssumption
  <2>2. climb[i] = IF p[i] = 1 THEN Hash2(Sides(S, p, n)[i + 1], climb[i + 1])
                               ELSE Hash2(climb[i + 1], Sides(S, p, n)[i + 1])
    BY <1>1, <1>2, <2>1 DEF ClimbStep
  <2>3. Sides(S, p, n)[i + 1] = Subtree(i + 1, Beside(S, p, i))
    BY <2>1 DEF Sides
  <2>4. climb[i + 1] = Subtree(i + 1, Below(S, p, i + 1))
    BY <1>4, <2>1
  <2>5. Two(Below(S, p, i))
    BY <2>1
  <2>6. climb[i] = Subtree(i, Below(S, p, i))
    BY <2>1, <2>2, <2>3, <2>4, <2>5, SubtreeTurns
  <2> QED BY <2>1, <2>6
<1>5. 0..n \subseteq Right
  <2> HIDE DEF Right
  <2> QED BY <1>1, <1>3, <1>4, Downward
<1> QED BY <1>5 DEF climb

\* Whatever the siblings: who reaches the canonical root has climbed inside the
\* canonical tree.
THEOREM ClimbStaysInside ==
  ASSUME NEW S \in SUBSET Fits, NEW p \in Bits, NEW node, NEW siblings,
         Len(siblings) \in 0..Depth, calculateRoot(node, p, siblings) = Canonical(S)
  PROVE  node = Subtree(Len(siblings), Below(S, p, Len(siblings)))
<1> DEFINE n == Len(siblings)
           climb == Climb(node, p, siblings)
           Inside == {i \in Nat : i <= n => climb[i] = Subtree(i, Below(S, p, i))}
<1>1. n \in 0..Depth /\ n \in Nat
  BY DepthAssumption
<1>2. climb = [i \in 0..n |-> IF i = n THEN node
                              ELSE IF p[i] = 1 THEN Hash2(siblings[i + 1], climb[i + 1])
                                               ELSE Hash2(climb[i + 1], siblings[i + 1])]
  BY <1>1, ClimbEquation DEF ClimbStep
<1>3. climb[0] = Subtree(0, S)
  BY DEF calculateRoot, Canonical
<1> HIDE DEF climb, n
<1>4. 0 \in Inside
  BY <1>3, BelowTop
<1>5. ASSUME NEW i \in Nat, i \in Inside PROVE i + 1 \in Inside
  <2> SUFFICES ASSUME i + 1 <= n PROVE climb[i + 1] = Subtree(i + 1, Below(S, p, i + 1))
    OBVIOUS
  <2> DEFINE B == Below(S, p, i)
  <2>1. i \in 0..n /\ i # n /\ i \in 0..(Depth - 1) /\ i \in 0..Depth
    BY <1>1, DepthAssumption
  <2>2. climb[i] = IF p[i] = 1 THEN Hash2(siblings[i + 1], climb[i + 1])
                               ELSE Hash2(climb[i + 1], siblings[i + 1])
    BY <1>2, <2>1
  <2>3. climb[i] = Subtree(i, B)
    BY <1>5, <2>1
  <2>4. B \in SUBSET Fits /\ Together(B, i)
    BY <2>1, BelowType
  <2>5. \E l, r : Subtree(i, B) = Hash2(l, r)
    BY <2>2, <2>3
  <2>6. B # {} /\ ~\E k \in B : B = {k}
    BY <2>1, <2>4, <2>5, SubtreeShape, Shapes
  <2>7. Two(B)
    BY <2>6, Sizes
  <2>8. Subtree(i, B) =
          IF p[i] = 1 THEN Hash2(Subtree(i + 1, Beside(S, p, i)), Subtree(i + 1, Below(S, p, i + 1)))
          ELSE Hash2(Subtree(i + 1, Below(S, p, i + 1)), Subtree(i + 1, Beside(S, p, i)))
    BY <2>1, <2>7, SubtreeTurns
  <2> HIDE DEF B
  <2> QED BY <2>2, <2>3, <2>8, Shapes
<1>6. Nat \subseteq Inside
  <2> HIDE DEF Inside
  <2> QED BY <1>4, <1>5, Upward
<1>7. climb[n] = Subtree(n, Below(S, p, n))
  BY <1>1, <1>6
<1>8. climb[n] = node
  BY <1>1, <1>2
<1> QED BY <1>7, <1>8 DEF n

-----------------------------------------------------------------------------
(* Walking down *)

WalkStep(walk, t, path) ==
  [i \in 0..Depth |->
     IF i = 0 THEN [node |-> t.Root, siblings |-> <<>>]
     ELSE IF walk[i - 1].node \in t.nodes /\ ~IsLeaf(walk[i - 1].node)
          THEN [node |-> walk[i - 1].node[path[i - 1] + 1],
                siblings |-> Append(walk[i - 1].siblings, walk[i - 1].node[2 - path[i - 1]])]
          ELSE walk[i - 1]]

\* Walk, the loop of retrieveEntry, goes one level down in each step.
LEMMA WalkEquation ==
  ASSUME NEW t, NEW path
  PROVE  Walk(t, path) = WalkStep(Walk(t, path), t, path)
<1> DEFINE Body(g, i) ==
             IF i = 0 THEN [node |-> t.Root, siblings |-> <<>>]
             ELSE IF g[i - 1].node \in t.nodes /\ ~IsLeaf(g[i - 1].node)
                  THEN [node |-> g[i - 1].node[path[i - 1] + 1],
                        siblings |-> Append(g[i - 1].siblings, g[i - 1].node[2 - path[i - 1]])]
                  ELSE g[i - 1]
           UpTo(m, g) == g = [i \in 0..m |-> Body(g, i)]
           Reached == {m \in Nat : \E g : UpTo(m, g)}
<1>1. 0 \in Reached
  <2> DEFINE g == [i \in 0..0 |-> [node |-> t.Root, siblings |-> <<>>]]
  <2>1. UpTo(0, g)
    OBVIOUS
  <2> HIDE DEF UpTo, g
  <2> QED BY <2>1
<1>2. ASSUME NEW m \in Nat, m \in Reached PROVE m + 1 \in Reached
  <2>1. PICK g : UpTo(m, g)
    BY <1>2
  <2> DEFINE h == [i \in 0..(m + 1) |-> IF i = m + 1 THEN Body(g, m + 1) ELSE g[i]]
  <2> HIDE DEF Body
  <2>2. ASSUME NEW i \in 0..(m + 1) PROVE h[i] = Body(h, i)
    <3>1. i # 0 => h[i - 1] = g[i - 1]
      OBVIOUS
    <3>2. Body(h, i) = Body(g, i)
      BY <3>1 DEF Body
    <3>3. i # m + 1 => g[i] = Body(g, i)
      BY <2>1
    <3> QED BY <3>2, <3>3
  <2>3. UpTo(m + 1, h)
    BY <2>2
  <2> HIDE DEF UpTo, h
  <2> QED BY <2>3
<1>3. Depth \in Reached
  <2> HIDE DEF Reached
  <2>1. Nat \subseteq Reached
    BY <1>1, <1>2, Upward
  <2> QED BY <2>1, DepthAssumption
<1>4. \E g : g = WalkStep(g, t, path)
  BY <1>3 DEF WalkStep
<1>5. Walk(t, path) = CHOOSE g : g = WalkStep(g, t, path)
  BY DEF Walk, WalkStep
<1> QED BY <1>4, <1>5

-----------------------------------------------------------------------------
(* The canonical tree *)

\* All nodes of the tree that holds S.
NodesOf(S) == {Subtree(i, Below(S, KeyToPath(k), i)) : k \in S, i \in 0..Depth}

\* The map has them all, and perhaps others.
Stored(t, S) == t.Root = Canonical(S) /\ NodesOf(S) \subseteq t.nodes /\ zero \notin t.nodes

\* Whatever is not zero on a path is a node of the tree.
LEMMA NodeOnPath ==
  ASSUME NEW S \in SUBSET Fits, NEW p \in Bits, NEW i \in 0..Depth, Below(S, p, i) # {}
  PROVE  Subtree(i, Below(S, p, i)) \in NodesOf(S)
<1>1. PICK k \in S : \A j \in 0..(i - 1) : KeyToPath(k)[j] = p[j]
  BY DEF Below
<1>2. Below(S, KeyToPath(k), i) = Below(S, p, i)
  BY <1>1 DEF Below
<1> QED BY <1>2 DEF NodesOf

\* The leaf of every key held is a node of the tree.
LEMMA LeafStored ==
  ASSUME NEW S \in SUBSET Fits, NEW k \in S
  PROVE  Leaf(k) \in NodesOf(S)
<1> DEFINE B == Below(S, KeyToPath(k), Depth)
<1>1. Depth \in 0..Depth
  BY DepthAssumption
<1>2. k \in B /\ k \in Nat /\ KeyToPath(k) \in Bits
  BY PathType DEF Below, Fits
<1>3. ~Two(B)
  BY <1>1, <1>2, BelowType, BottomHasOne
<1>4. B = {k}
  BY <1>2, <1>3 DEF Two
<1>5. Subtree(Depth, B) = Leaf(k)
  BY <1>1, <1>2, <1>4, SubtreeOfOne
<1> QED BY <1>1, <1>5 DEF NodesOf

\* One level down, one sibling more.
LEMMA SidesAppend ==
  ASSUME NEW S, NEW p, NEW i \in Nat
  PROVE  Append(Sides(S, p, i), Subtree(i + 1, Beside(S, p, i))) = Sides(S, p, i + 1)
<1>1. Len(Sides(S, p, i)) = i
  BY SidesLength
<1> QED BY <1>1 DEF Sides

\* retrieveEntry's walk ends where the path does, with the siblings along it.
LEMMA WalkIsCanonical ==
  ASSUME NEW S \in SUBSET Fits, NEW t, Stored(t, S), NEW p \in Bits, NEW m, IsFork(S, p, m)
  PROVE  Walk(t, p)[Depth] = [node |-> Subtree(m, Below(S, p, m)), siblings |-> Sides(S, p, m)]
<1> DEFINE walk == Walk(t, p)
           At(i) == [node |-> Subtree(i, Below(S, p, i)), siblings |-> Sides(S, p, i)]
           Good == {i \in Nat : i <= Depth => walk[i] = IF i <= m THEN At(i) ELSE At(m)}
<1>1. m \in 0..Depth /\ Depth \in Nat
  BY DepthAssumption DEF IsFork
<1>2. walk = WalkStep(walk, t, p)
  BY WalkEquation
<1> HIDE DEF walk
<1>3. 0 \in Good
  <2>1. walk[0] = [node |-> t.Root, siblings |-> <<>>]
    BY <1>1, <1>2 DEF WalkStep
  <2>2. t.Root = Subtree(0, Below(S, p, 0))
    BY BelowTop DEF Stored, Canonical
  <2>3. Sides(S, p, 0) = <<>>
    BY DEF Sides
  <2> QED BY <2>1, <2>2, <2>3, <1>1
<1>4. ASSUME NEW i \in Nat, i \in Good PROVE i + 1 \in Good
  <2> SUFFICES ASSUME i + 1 <= Depth
               PROVE  walk[i + 1] = IF i + 1 <= m THEN At(i + 1) ELSE At(m)
    OBVIOUS
  <2> DEFINE at == walk[i]
  <2>1. i + 1 \in 0..Depth /\ i + 1 # 0 /\ (i + 1) - 1 = i /\ i \in 0..(Depth - 1) /\ i \in 0..Depth
    BY <1>1
  <2>2. walk[i + 1] = IF at.node \in t.nodes /\ ~IsLeaf(at.node)
                      THEN [node |-> at.node[p[i] + 1],
                            siblings |-> Append(at.siblings, at.node[2 - p[i]])]
                      ELSE at
    BY <1>2, <2>1 DEF WalkStep
  <2>3. CASE i < m
    <3> DEFINE B == Below(S, p, i)
    <3>1. at = At(i)
      <4> HIDE DEF At
      <4> QED BY <1>1, <1>4, <2>1, <2>3
    <3>2. at.node = Subtree(i, B) /\ at.siblings = Sides(S, p, i)
      BY <3>1
    <3>3. Two(B) /\ B # {}
      BY <2>1, <2>3, ForkDivides DEF Two
    <3>4. Subtree(i, B) \in t.nodes
      BY <3>3, <2>1, NodeOnPath DEF Stored
    <3>5. Subtree(i, B) =
          IF p[i] = 1 THEN Hash2(Subtree(i + 1, Beside(S, p, i)), Subtree(i + 1, Below(S, p, i + 1)))
          ELSE Hash2(Subtree(i + 1, Below(S, p, i + 1)), Subtree(i + 1, Beside(S, p, i)))
      BY <2>1, <3>3, SubtreeTurns
    <3>6. p[i] \in {0, 1}
      BY <2>1 DEF Bits
    <3>7. /\ ~IsLeaf(Subtree(i, B))
          /\ Subtree(i, B)[p[i] + 1] = Subtree(i + 1, Below(S, p, i + 1))
          /\ Subtree(i, B)[2 - p[i]] = Subtree(i + 1, Beside(S, p, i))
      <4>1. CASE p[i] = 1
        BY <4>1, <3>5, Shapes
      <4>2. CASE p[i] = 0
        BY <4>2, <3>5, Shapes
      <4> QED BY <4>1, <4>2, <3>6
    <3>8. walk[i + 1] = [node |-> Subtree(i + 1, Below(S, p, i + 1)),
                         siblings |-> Append(Sides(S, p, i), Subtree(i + 1, Beside(S, p, i)))]
      BY <2>2, <3>2, <3>4, <3>7
    <3>9. walk[i + 1] = At(i + 1)
      BY <3>8, SidesAppend
    <3> QED BY <3>9, <2>3, <1>1
  <2>4. CASE ~(i < m)
    <3> DEFINE B == Below(S, p, m)
    <3>1. at = At(m)
      BY <1>4, <2>1, <2>4, <1>1
    <3>2. at.node = Subtree(m, B)
      BY <3>1
    <3>3. ~Two(B) /\ B \in SUBSET Fits /\ Together(B, m)
      BY <1>1, BelowType DEF IsFork
    <3>4. B = {} \/ \E k \in B : B = {k}
      BY <3>3, Sizes
    <3>5. Subtree(m, B) = zero \/ IsLeaf(Subtree(m, B))
      BY <3>3, <3>4, <1>1, SubtreeShape
    <3>6. walk[i + 1] = at
      BY <2>2, <3>2, <3>5 DEF Stored
    <3> QED BY <3>1, <3>6, <2>4, <1>1
  <2> QED BY <2>3, <2>4, <1>1
<1>5. Nat \subseteq Good
  <2> HIDE DEF Good
  <2> QED BY <1>3, <1>4, Upward
<1>6. walk[Depth] = IF Depth <= m THEN At(Depth) ELSE At(m)
  BY <1>1, <1>5
<1> QED BY <1>1, <1>6 DEF walk

\* What retrieveEntry finds in the tree that holds S.
THEOREM RetrieveIsCanonical ==
  ASSUME NEW S \in SUBSET Fits, NEW t, Stored(t, S), NEW key \in Nat,
         NEW m, IsFork(S, KeyToPath(key), m)
  PROVE  LET at == retrieveEntry(t, key)
             B  == Below(S, KeyToPath(key), m)
         IN  /\ at.siblings = Sides(S, KeyToPath(key), m)
             /\ at.found <=> key \in S
             /\ at.found => at.entry = Leaf(key) /\ at.matching = zero /\ B = {key}
             /\ ~at.found => at.entry = <<key>>
             /\ B = {} => ~at.found /\ at.matching = zero
             /\ ~at.found => \A k \in B : B = {k} /\ k # key /\ at.matching = Leaf(k)
<1> DEFINE p == KeyToPath(key)
           B == Below(S, p, m)
           end == Walk(t, p)[Depth]
           leaf == end.node \in t.nodes /\ IsLeaf(end.node)
           found == leaf /\ end.node[1] = key
           at == retrieveEntry(t, key)
<1>1. p \in Bits /\ m \in 0..Depth
  BY PathType DEF IsFork
<1>2. end.node = Subtree(m, B) /\ end.siblings = Sides(S, p, m)
  <2>1. end = [node |-> Subtree(m, B), siblings |-> Sides(S, p, m)]
    BY <1>1, WalkIsCanonical
  <2> QED BY <2>1
<1>3. /\ at.found = found
      /\ at.entry = IF found THEN end.node ELSE <<key>>
      /\ at.matching = IF leaf /\ ~found THEN end.node ELSE zero
      /\ at.siblings = end.siblings
  BY DEF retrieveEntry, zero
<1> HIDE DEF at, end
<1>4. ~Two(B) /\ B \in SUBSET Fits /\ Together(B, m)
  BY <1>1, BelowType DEF IsFork
<1>5. key \in S => key \in B
  BY DEF Below
<1>6. CASE B = {}
  <2>1. end.node = zero
    BY <1>1, <1>2, <1>4, <1>6, SubtreeShape
  <2>2. ~leaf
    BY <2>1, Shapes
  <2> HIDE DEF p, B, leaf
  <2> QED BY <1>2, <1>3, <1>5, <1>6, <2>2 DEF p, B, at
<1>7. CASE B # {}
  <2>1. PICK k \in B : B = {k}
    BY <1>4, <1>7, Sizes
  <2>2. k \in Nat /\ k \in S
    BY <1>4 DEF Fits, Below
  <2>3. end.node = Leaf(k)
    BY <1>1, <1>2, <1>4, <2>1, <2>2, SubtreeShape
  <2>4. Leaf(k) \in t.nodes
    BY <2>2, LeafStored DEF Stored
  <2>5. leaf /\ end.node[1] = k
    BY <2>3, <2>4, Shapes
  <2> HIDE DEF p, B, leaf
  <2> QED BY <1>2, <1>3, <1>5, <1>7, <2>1, <2>2, <2>3, <2>5 DEF p, B, at
<1> QED BY <1>6, <1>7

-----------------------------------------------------------------------------
(* Proofs *)

\* GetFirstCommonBits finds the first bit in which two paths differ.
LEMMA CommonBits ==
  ASSUME NEW a \in Bits, NEW b \in Bits
  PROVE  LET n == GetFirstCommonBits(a, b)
         IN  /\ n \in 0..Depth
             /\ \A i \in 0..(n - 1) : a[i] = b[i]
             /\ n < Depth => a[n] # b[n]
<1> DEFINE Common(n) == /\ \A i \in 0..(n - 1) : a[i] = b[i]
                        /\ n < Depth => a[n] # b[n]
           Ends == {i \in 0..Depth : i < Depth => a[i] # b[i]}
<1>1. Depth \in Ends
  BY DepthAssumption
<1>2. Ends \in SUBSET Nat
  BY DepthAssumption
<1>3. PICK n \in Ends : \A i \in Ends : n <= i
  <2> HIDE DEF Ends
  <2> QED BY <1>1, <1>2, LeastNatural
<1>4. n \in 0..Depth /\ Common(n)
  <2>1. ASSUME NEW i \in 0..(n - 1) PROVE a[i] = b[i]
    <3>1. i \in 0..Depth /\ i < Depth /\ ~(n <= i)
      BY DepthAssumption
    <3> QED BY <3>1, <1>3
  <2> QED BY <2>1
<1>5. GetFirstCommonBits(a, b) = CHOOSE l \in 0..Depth : Common(l)
  BY DEF GetFirstCommonBits
<1> HIDE DEF Common
<1>6. GetFirstCommonBits(a, b) \in 0..Depth /\ Common(GetFirstCommonBits(a, b))
  BY <1>4, <1>5
<1> QED BY <1>6 DEF Common

\* Paths that agree down to level m see the same tree down to there.
LEMMA SamePrefix ==
  ASSUME NEW S, NEW p, NEW q, NEW m \in 0..Depth, \A j \in 0..(m - 1) : p[j] = q[j]
  PROVE  /\ \A i \in 0..m : Below(S, p, i) = Below(S, q, i)
         /\ Sides(S, p, m) = Sides(S, q, m)
<1>1. ASSUME NEW i \in 0..m PROVE Below(S, p, i) = Below(S, q, i)
  <2>1. \A j \in 0..(i - 1) : p[j] = q[j]
    BY DepthAssumption
  <2> QED BY <2>1 DEF Below
<1>2. ASSUME NEW j \in 1..m PROVE Beside(S, p, j - 1) = Beside(S, q, j - 1)
  <2>1. j - 1 \in 0..m /\ j - 1 \in 0..(m - 1)
    BY DepthAssumption
  <2> QED BY <1>1, <2>1 DEF Beside
<1> QED BY <1>1, <1>2 DEF Sides

\* A proof about a key, whatever its siblings.
WellFormed(proof, key) ==
  /\ Len(proof.Siblings) \in 0..Depth
  /\ \/ proof.Membership /\ proof.Entry = Leaf(key) /\ proof.MatchingEntry = zero
     \/ /\ ~proof.Membership /\ proof.Entry = <<key>>
        /\ \/ proof.MatchingEntry = zero
           \/ \E k \in Nat : k # key /\ proof.MatchingEntry = Leaf(k)

\* What a proof says of a key and verifies against a canonical root is true.
THEOREM VerifiedIsTrue ==
  ASSUME NEW S \in SUBSET Fits, NEW key \in Nat, NEW proof, WellFormed(proof, key),
         proof.Root = Canonical(S), VerifyProof(proof)
  PROVE  proof.Membership <=> key \in S
<1> DEFINE p == KeyToPath(key)
           n == Len(proof.Siblings)
           B == Below(S, p, n)
<1>1. p \in Bits /\ n \in 0..Depth
  BY PathType DEF WellFormed
<1>2. B \in SUBSET Fits /\ Together(B, n)
  BY <1>1, BelowType
<1>3. key \in S <=> key \in B
  BY DEF Below
<1>4. CASE proof.Membership
  <2>1. proof.Entry = Leaf(key) /\ proof.MatchingEntry = zero
    BY <1>4 DEF WellFormed
  <2>2. IsLeaf(proof.Entry) /\ proof.Entry[1] = key
    BY <2>1, Shapes
  <2>3. calculateRoot(Leaf(key), p, proof.Siblings) = Canonical(S)
    BY <2>1, <2>2 DEF VerifyProof, zero
  <2>4. Leaf(key) = Subtree(n, B)
    BY <1>1, <2>3, ClimbStaysInside
  <2>5. B = {key}
    BY <1>1, <1>2, <2>4, SubtreeShape
  <2> QED BY <1>3, <1>4, <2>5
<1>5. CASE ~proof.Membership /\ proof.MatchingEntry = zero
  <2>1. proof.Entry = <<key>>
    BY <1>5 DEF WellFormed
  <2>2. ~IsLeaf(proof.Entry) /\ proof.Entry[1] = key
    BY <2>1 DEF IsLeaf
  <2>3. calculateRoot(zero, p, proof.Siblings) = Canonical(S)
    BY <1>5, <2>1, <2>2 DEF VerifyProof, zero
  <2>4. zero = Subtree(n, B)
    BY <1>1, <2>3, ClimbStaysInside
  <2>5. B = {}
    BY <1>1, <1>2, <2>4, SubtreeShape
  <2> QED BY <1>3, <1>5, <2>5
<1>6. CASE ~proof.Membership /\ proof.MatchingEntry # zero
  <2>1. PICK k \in Nat : k # key /\ proof.MatchingEntry = Leaf(k)
    BY <1>6 DEF WellFormed
  <2> DEFINE q == KeyToPath(k)
             common == GetFirstCommonBits(p, q)
  <2>2. proof.Entry = <<key>>
    BY <1>6 DEF WellFormed
  <2>3. proof.Entry[1] = key /\ proof.MatchingEntry[1] = k
    BY <2>1, <2>2, Shapes
  <2>4. calculateRoot(Leaf(k), q, proof.Siblings) = Canonical(S) /\ n <= common
    BY <1>6, <2>1, <2>3 DEF VerifyProof, zero
  <2>5. q \in Bits
    BY PathType
  <2>6. Leaf(k) = Subtree(n, Below(S, q, n))
    BY <1>1, <2>4, <2>5, ClimbStaysInside
  <2>7. common \in 0..Depth /\ \A j \in 0..(common - 1) : p[j] = q[j]
    BY <1>1, <2>5, CommonBits
  <2>8. \A j \in 0..(n - 1) : p[j] = q[j]
    <3> HIDE DEF common, n, p, q
    <3> QED BY <1>1, <2>4, <2>7, DepthAssumption
  <2>9. n \in 0..n
    BY <1>1, DepthAssumption
  <2>10. Below(S, q, n) = B
    BY <1>1, <2>8, <2>9, SamePrefix
  <2>11. B = {k}
    BY <1>1, <1>2, <2>6, <2>10, SubtreeShape
  <2> QED BY <1>3, <1>6, <2>1, <2>11
<1> QED BY <1>4, <1>5, <1>6

\* The proof of any key, made from the tree that holds S.
THEOREM ProofIsWellFormed ==
  ASSUME NEW S \in SUBSET Fits, NEW t, Stored(t, S), NEW key \in Nat
  PROVE  LET proof == CreateProof(t, key)
         IN  /\ WellFormed(proof, key)
             /\ proof.Root = Canonical(S)
             /\ proof.Membership <=> key \in S
             /\ VerifyProof(proof)
<1> DEFINE p == KeyToPath(key)
           at == retrieveEntry(t, key)
           proof == CreateProof(t, key)
<1>1. p \in Bits
  BY PathType
<1>2. PICK m : IsFork(S, p, m)
  BY <1>1, ForkExists
<1> DEFINE B == Below(S, p, m)
<1>3. /\ at.siblings = Sides(S, p, m)
      /\ at.found <=> key \in S
      /\ at.found => at.entry = Leaf(key) /\ at.matching = zero /\ B = {key}
      /\ ~at.found => at.entry = <<key>>
      /\ B = {} => ~at.found /\ at.matching = zero
      /\ ~at.found => \A k \in B : B = {k} /\ k # key /\ at.matching = Leaf(k)
  BY <1>2, RetrieveIsCanonical
<1>4. /\ proof.Entry = at.entry /\ proof.MatchingEntry = at.matching
      /\ proof.Siblings = at.siblings /\ proof.Root = t.Root /\ proof.Membership = at.found
  BY DEF CreateProof
<1> HIDE DEF at, proof
<1>5. m \in 0..Depth /\ Len(Sides(S, p, m)) = m
  BY <1>2, SidesLength, DepthAssumption DEF IsFork
<1>6. B \in SUBSET Fits /\ Together(B, m)
  BY <1>1, <1>5, BelowType
<1>7. t.Root = Canonical(S) /\ Canonical(S) = Subtree(0, Below(S, p, 0))
  BY BelowTop DEF Stored, Canonical
<1>8. \A i \in 0..(m - 1) : Two(Below(S, p, i))
  BY <1>2 DEF IsFork
<1>9. calculateRoot(Subtree(m, B), p, Sides(S, p, m)) = Canonical(S)
  <2>1. 0 \in 0..m
    BY <1>5, DepthAssumption
  <2> QED BY <1>1, <1>5, <1>7, <1>8, <2>1, ClimbIsCanonical DEF calculateRoot
<1>10. CASE at.found
  <2>1. Subtree(m, B) = Leaf(key)
    BY <1>3, <1>5, <1>10, SubtreeOfOne
  <2>2. IsLeaf(proof.Entry) /\ proof.Entry[1] = key
    BY <1>3, <1>4, <1>10, Shapes
  <2>3. VerifyProof(proof)
    BY <1>3, <1>4, <1>7, <1>9, <1>10, <2>1, <2>2 DEF VerifyProof, zero
  <2>4. WellFormed(proof, key)
    BY <1>3, <1>4, <1>5, <1>10 DEF WellFormed
  <2> QED BY <1>3, <1>4, <1>7, <2>3, <2>4 DEF proof
<1>11. CASE B = {}
  <2>1. Subtree(m, B) = zero
    BY <1>5, <1>11, SubtreeOfNone
  <2>2. ~IsLeaf(proof.Entry) /\ proof.Entry[1] = key
    BY <1>3, <1>4, <1>11 DEF IsLeaf
  <2>3. VerifyProof(proof)
    BY <1>3, <1>4, <1>7, <1>9, <1>11, <2>1, <2>2 DEF VerifyProof, zero
  <2>4. WellFormed(proof, key)
    BY <1>3, <1>4, <1>5, <1>11 DEF WellFormed
  <2> QED BY <1>3, <1>4, <1>7, <2>3, <2>4 DEF proof
<1>12. CASE ~at.found /\ B # {}
  <2>1. PICK k \in B : B = {k} /\ k # key /\ at.matching = Leaf(k)
    BY <1>3, <1>12
  <2> DEFINE q == KeyToPath(k)
             common == GetFirstCommonBits(p, q)
  <2>2. k \in Nat /\ \A j \in 0..(m - 1) : p[j] = q[j]
    BY <1>6 DEF Below, Fits
  <2>3. q \in Bits
    BY <2>2, PathType
  <2>4. Subtree(m, B) = Leaf(k)
    BY <1>5, <2>1, <2>2, SubtreeOfOne
  <2>5. /\ Sides(S, p, m) = Sides(S, q, m)
        /\ \A i \in 0..m : Below(S, p, i) = Below(S, q, i)
    BY <1>5, <2>2, SamePrefix
  <2>6. calculateRoot(Leaf(k), q, Sides(S, p, m)) = Canonical(S)
    <3>1. 0 \in 0..m /\ m \in 0..m /\ \A i \in 0..(m - 1) : i \in 0..m
      BY <1>5, DepthAssumption
    <3>2. \A i \in 0..(m - 1) : Two(Below(S, q, i))
      BY <1>8, <2>5, <3>1
    <3>3. Climb(Subtree(m, Below(S, q, m)), q, Sides(S, q, m))[0] = Subtree(0, Below(S, q, 0))
      BY <1>5, <2>3, <3>1, <3>2, ClimbIsCanonical
    <3> QED BY <1>7, <2>4, <2>5, <3>1, <3>3 DEF calculateRoot
  <2>7. m <= common
    <3>1. common \in 0..Depth /\ (common < Depth => p[common] # q[common])
      BY <1>1, <2>3, CommonBits
    <3> HIDE DEF common
    <3> QED BY <1>5, <2>2, <3>1, DepthAssumption
  <2>8. proof.Entry[1] = key /\ proof.MatchingEntry[1] = k /\ proof.MatchingEntry # zero
    BY <1>3, <1>4, <1>12, <2>1, Shapes
  <2>9. VerifyProof(proof)
    BY <1>3, <1>4, <1>5, <1>7, <2>1, <2>6, <2>7, <2>8 DEF VerifyProof, zero
  <2>10. WellFormed(proof, key)
    BY <1>3, <1>4, <1>5, <1>12, <2>1, <2>2 DEF WellFormed
  <2> QED BY <1>3, <1>4, <1>7, <2>9, <2>10 DEF proof
<1> QED BY <1>10, <1>11, <1>12

-----------------------------------------------------------------------------
(* The tree that holds S *)

Holds(t, S) ==
  /\ S \in SUBSET Fits /\ IsFiniteSet(S)
  /\ t = [nodes |-> NodesOf(S), Root |-> Canonical(S), Count |-> Cardinality(S)]

\* The nodes of S that are not on the path p.
OffPath(S, p) ==
  {n \in NodesOf(S) :
     \E k \in S, i \in 0..Depth :
       /\ n = Subtree(i, Below(S, KeyToPath(k), i))
       /\ \E j \in 0..(i - 1) : KeyToPath(k)[j] # p[j]}

\* The branches of S on the path p, above level m.
OnPath(S, p, m) == {Subtree(i, Below(S, p, i)) : i \in 0..(m - 1)}

\* zero is never in the map.
LEMMA NoZeroStored ==
  ASSUME NEW S \in SUBSET Fits
  PROVE  zero \notin NodesOf(S)
<1> SUFFICES ASSUME NEW k \in S, NEW i \in 0..Depth,
                    Subtree(i, Below(S, KeyToPath(k), i)) = zero
             PROVE  FALSE
  BY DEF NodesOf
<1> DEFINE B == Below(S, KeyToPath(k), i)
<1>1. k \in Nat /\ KeyToPath(k) \in Bits /\ k \in B
  BY PathType DEF Fits, Below
<1>2. B \in SUBSET Fits /\ Together(B, i)
  BY <1>1, BelowType
<1> HIDE DEF B
<1>3. Subtree(i, B) # zero
  BY <1>1, <1>2, SubtreeShape
<1> QED BY <1>3 DEF B

\* NewTree holds no key.
LEMMA NewTreeIsEmpty == Holds(NewTree, {})
<1>1. NodesOf({}) = {}
  BY DEF NodesOf
<1>2. Canonical({}) = zero
  <2>1. 0 \in 0..Depth
    BY DepthAssumption
  <2> QED BY <2>1, SubtreeOfNone DEF Canonical
<1>3. IsFiniteSet({}) /\ Cardinality({}) = 0
  BY FS_EmptySet
<1> QED BY <1>1, <1>2, <1>3 DEF Holds, NewTree

\* A tree that holds S stores all it needs.
LEMMA HoldsIsStored ==
  ASSUME NEW t, NEW S, Holds(t, S)
  PROVE  Stored(t, S)
BY NoZeroStored DEF Holds, Stored

\* One key, and the sets without it and with it.
LEMMA WithKey ==
  ASSUME NEW T \in SUBSET Fits, NEW key \in Fits \ T, NEW i \in 0..Depth
  PROVE  LET p == KeyToPath(key)
             S == T \union {key}
         IN  /\ p \in Bits /\ S \in SUBSET Fits
             /\ Below(S, p, i) = Below(T, p, i) \union {key}
             /\ Beside(S, p, i) = Beside(T, p, i)
             /\ Sides(S, p, i) = Sides(T, p, i)
             /\ key \notin Below(T, p, i)
<1> DEFINE p == KeyToPath(key)
           S == T \union {key}
<1>1. p \in Bits /\ S \in SUBSET Fits
  BY PathType DEF Fits
<1>2. \A j : Below(S, p, j) = Below(T, p, j) \union {key}
  BY DEF Below
<1>3. \A j : Beside(S, p, j) = Beside(T, p, j)
  BY <1>2 DEF Beside
<1>4. Sides(S, p, i) = Sides(T, p, i)
  BY <1>3 DEF Sides
<1>5. key \notin Below(T, p, i)
  BY DEF Below
<1> QED BY <1>1, <1>2, <1>3, <1>4, <1>5

\* A key changes no node that is not on its path.
LEMMA OffPathKept ==
  ASSUME NEW T \in SUBSET Fits, NEW key \in Fits \ T
  PROVE  OffPath(T \union {key}, KeyToPath(key)) = OffPath(T, KeyToPath(key))
<1> DEFINE p == KeyToPath(key)
           S == T \union {key}
           Node(U, k, i) == Subtree(i, Below(U, KeyToPath(k), i))
           Parted(k, i) == \E j \in 0..(i - 1) : KeyToPath(k)[j] # p[j]
<1>1. ASSUME NEW k, NEW i, Parted(k, i)
      PROVE  Below(S, KeyToPath(k), i) = Below(T, KeyToPath(k), i)
  BY <1>1 DEF Below
<1>2. ASSUME NEW i PROVE ~Parted(key, i)
  OBVIOUS
<1>3. ASSUME NEW n, n \in OffPath(S, p) PROVE n \in OffPath(T, p)
  <2>1. PICK k \in S, i \in 0..Depth : n = Node(S, k, i) /\ Parted(k, i)
    BY <1>3 DEF OffPath
  <2>2. k \in T /\ n = Node(T, k, i)
    BY <2>1, <1>1, <1>2
  <2>3. n \in NodesOf(T)
    BY <2>2 DEF NodesOf
  <2> QED BY <2>1, <2>2, <2>3 DEF OffPath
<1>4. ASSUME NEW n, n \in OffPath(T, p) PROVE n \in OffPath(S, p)
  <2>1. PICK k \in T, i \in 0..Depth : n = Node(T, k, i) /\ Parted(k, i)
    BY <1>4 DEF OffPath
  <2>2. k \in S /\ n = Node(S, k, i)
    BY <2>1, <1>1
  <2>3. n \in NodesOf(S)
    BY <2>2 DEF NodesOf
  <2> QED BY <2>1, <2>2, <2>3 DEF OffPath
<1> QED BY <1>3, <1>4

\* All nodes are off the path, branches on it, or the leaf at its end.
LEMMA NodesDivide ==
  ASSUME NEW S \in SUBSET Fits, NEW key \in Fits, NEW m, IsFork(S, KeyToPath(key), m)
  PROVE  LET p == KeyToPath(key)
             leaf == IF key \in S THEN {Leaf(key)} ELSE {}
         IN  /\ NodesOf(S) = OffPath(S, p) \union OnPath(S, p, m) \union leaf
             /\ OffPath(S, p) \intersect OnPath(S, p, m) = {}
             /\ Leaf(key) \notin OffPath(S, p)
<1> DEFINE p == KeyToPath(key)
           leaf == IF key \in S THEN {Leaf(key)} ELSE {}
<1>1. p \in Bits /\ key \in Nat /\ m \in 0..Depth /\ Depth \in Nat
  BY PathType, DepthAssumption DEF Fits, IsFork
<1>2. \A k \in S : k \in Nat /\ KeyToPath(k) \in Bits
  BY PathType DEF Fits
<1>3. ASSUME NEW n \in NodesOf(S), n \notin OffPath(S, p)
      PROVE  n \in OnPath(S, p, m) \union leaf
  <2>1. PICK k \in S, i \in 0..Depth : n = Subtree(i, Below(S, KeyToPath(k), i))
    BY DEF NodesOf
  <2>2. \A j \in 0..(i - 1) : KeyToPath(k)[j] = p[j]
    BY <1>3, <2>1 DEF OffPath
  <2>3. Below(S, KeyToPath(k), i) = Below(S, p, i) /\ k \in Below(S, p, i)
    BY <2>2 DEF Below
  <2>4. CASE i < m
    <3>1. i \in 0..(m - 1)
      BY <2>4, <1>1
    <3> QED BY <2>1, <2>3, <3>1 DEF OnPath
  <2>5. CASE ~(i < m)
    <3>1. ~Two(Below(S, p, i))
      BY <1>1, <2>5, ForkDivides
    <3>2. Below(S, p, i) = {k}
      BY <2>3, <3>1 DEF Two
    <3>3. n = Leaf(k)
      BY <2>1, <2>3, <3>2, <1>2, SubtreeOfOne
    <3>4. CASE key \in S
      <4>1. key \in Below(S, p, i)
        BY <3>4 DEF Below
      <4> QED BY <3>2, <3>3, <3>4, <4>1
    <3>5. CASE key \notin S
      <4>1. ~(\A j \in 0..(Depth - 1) : KeyToPath(k)[j] = p[j])
        BY <1>1, <1>2, <3>5, PathsDiffer DEF Fits
      <4>2. k \in Below(S, KeyToPath(k), Depth) /\ Depth \in 0..Depth
        BY <1>1 DEF Below
      <4>3. ~Two(Below(S, KeyToPath(k), Depth))
        BY <4>2, <1>2, BelowType, BottomHasOne
      <4>4. Below(S, KeyToPath(k), Depth) = {k}
        BY <4>2, <4>3 DEF Two
      <4>5. n = Subtree(Depth, Below(S, KeyToPath(k), Depth))
        BY <3>3, <4>2, <4>4, <1>2, SubtreeOfOne
      <4> QED BY <1>3, <4>1, <4>2, <4>5 DEF OffPath
    <3> QED BY <3>4, <3>5
  <2> QED BY <2>4, <2>5
<1>4. OffPath(S, p) \subseteq NodesOf(S)
  BY DEF OffPath
<1>5. ASSUME NEW i \in 0..(m - 1)
      PROVE  /\ Subtree(i, Below(S, p, i)) \in NodesOf(S)
             /\ Two(Below(S, p, i)) /\ i \in 0..Depth
  <2>1. i \in 0..Depth /\ Two(Below(S, p, i))
    BY <1>1 DEF IsFork
  <2>2. Below(S, p, i) # {}
    BY <2>1 DEF Two
  <2> QED BY <1>1, <2>1, <2>2, NodeOnPath
<1>6. OnPath(S, p, m) \subseteq NodesOf(S)
  BY <1>5 DEF OnPath
<1>7. leaf \subseteq NodesOf(S)
  BY LeafStored
<1>8. ASSUME NEW k \in S, NEW i \in 0..Depth,
             \E j \in 0..(i - 1) : KeyToPath(k)[j] # p[j]
      PROVE  /\ k \in Below(S, KeyToPath(k), i) /\ k \notin Below(S, p, i) /\ k # key
             /\ Below(S, KeyToPath(k), i) \in SUBSET Fits
             /\ Together(Below(S, KeyToPath(k), i), i)
  BY <1>2, <1>8, BelowType DEF Below
<1>9. ASSUME NEW n \in OffPath(S, p), n \in OnPath(S, p, m) PROVE FALSE
  <2>1. PICK k \in S, i \in 0..Depth : /\ n = Subtree(i, Below(S, KeyToPath(k), i))
                                       /\ \E j \in 0..(i - 1) : KeyToPath(k)[j] # p[j]
    BY DEF OffPath
  <2>2. PICK l \in 0..(m - 1) : n = Subtree(l, Below(S, p, l))
    BY <1>9 DEF OnPath
  <2>3. l \in 0..Depth /\ Two(Below(S, p, l))
    BY <1>5
  <2>4. Below(S, p, l) \in SUBSET Fits /\ Together(Below(S, p, l), l)
    BY <1>1, <2>3, BelowType
  <2>5. /\ k \in Below(S, KeyToPath(k), i) /\ k \notin Below(S, p, i)
        /\ Below(S, KeyToPath(k), i) \in SUBSET Fits
        /\ Together(Below(S, KeyToPath(k), i), i)
    BY <1>8, <2>1
  <2>6. Below(S, p, l) = Below(S, KeyToPath(k), i) /\ l = i
    <3> DEFINE K == Below(S, p, l)
               L == Below(S, KeyToPath(k), i)
    <3>1. Subtree(l, K) = Subtree(i, L)
      BY <2>1, <2>2
    <3>2. /\ K \in SUBSET Fits /\ Together(K, l) /\ Two(K) /\ l \in 0..Depth
          /\ L \in SUBSET Fits /\ Together(L, i) /\ i \in 0..Depth
      BY <2>1, <2>3, <2>4, <2>5
    <3> HIDE DEF K, L
    <3>3. K = L /\ l = i
      BY <3>1, <3>2, SubtreeDetermines
    <3> QED BY <3>3 DEF K, L
  <2> QED BY <2>5, <2>6
<1>10. ASSUME Leaf(key) \in OffPath(S, p) PROVE FALSE
  <2>1. PICK k \in S, i \in 0..Depth : /\ Leaf(key) = Subtree(i, Below(S, KeyToPath(k), i))
                                       /\ \E j \in 0..(i - 1) : KeyToPath(k)[j] # p[j]
    BY <1>10 DEF OffPath
  <2>2. /\ k \in Below(S, KeyToPath(k), i) /\ k # key
        /\ Below(S, KeyToPath(k), i) \in SUBSET Fits
        /\ Together(Below(S, KeyToPath(k), i), i)
    BY <1>8, <2>1
  <2>3. Below(S, KeyToPath(k), i) = {key}
    BY <1>1, <2>1, <2>2, SubtreeShape
  <2> QED BY <2>2, <2>3
<1> HIDE DEF p, leaf
<1>11. NodesOf(S) = OffPath(S, p) \union OnPath(S, p, m) \union leaf
  BY <1>3, <1>4, <1>6, <1>7
<1>12. OffPath(S, p) \intersect OnPath(S, p, m) = {}
  BY <1>9
<1> QED BY <1>10, <1>11, <1>12 DEF p, leaf

\* Climbing the tree that holds S from the end of a path meets its branches.
LEMMA BranchesOnPath ==
  ASSUME NEW S \in SUBSET Fits, NEW p \in Bits, NEW m, IsFork(S, p, m),
         NEW node, node = Subtree(m, Below(S, p, m))
  PROVE  /\ Branches(node, p, Sides(S, p, m)) = OnPath(S, p, m)
         /\ calculateRoot(node, p, Sides(S, p, m)) = Canonical(S)
<1>1. m \in 0..Depth /\ m \in Nat /\ \A i \in 0..(m - 1) : Two(Below(S, p, i))
  BY DepthAssumption DEF IsFork
<1>2. Len(Sides(S, p, m)) = m
  BY <1>1, SidesLength
<1>3. \A i \in 0..m : Climb(node, p, Sides(S, p, m))[i] = Subtree(i, Below(S, p, i))
  BY <1>1, ClimbIsCanonical
<1>4. 0 \in 0..m /\ 0..(m - 1) \subseteq 0..m
  BY <1>1
<1>5. Branches(node, p, Sides(S, p, m)) = OnPath(S, p, m)
  BY <1>2, <1>3, <1>4 DEF Branches, OnPath
<1>6. Below(S, p, 0) = S
  BY BelowTop
<1>7. calculateRoot(node, p, Sides(S, p, m)) = Canonical(S)
  BY <1>3, <1>4, <1>6 DEF calculateRoot, Canonical
<1> QED BY <1>5, <1>7

-----------------------------------------------------------------------------
(* Adding a key *)

\* The siblings under which the new leaf is put are those of the tree with it.
LEMMA AddedSides ==
  ASSUME NEW T \in SUBSET Fits, NEW key \in Fits \ T, NEW m, IsFork(T, KeyToPath(key), m)
  PROVE  LET p == KeyToPath(key)
             B == Below(T, p, m)
             S == T \union {key}
         IN  /\ B = {} => IsFork(S, p, m)
             /\ \A k \in B :
                  LET common == GetFirstCommonBits(p, KeyToPath(k))
                  IN  /\ IsFork(S, p, common + 1)
                      /\ Sides(T, p, m) \o [i \in 1..(common - m) |-> zero] \o <<Leaf(k)>>
                           = Sides(S, p, common + 1)
<1> DEFINE p == KeyToPath(key)
           B == Below(T, p, m)
           S == T \union {key}
<1>1. m \in 0..Depth /\ m \in Nat /\ Depth \in Nat /\ p \in Bits /\ key \in Nat /\ ~Exceeds(key)
  BY PathType, DepthAssumption DEF IsFork, Fits
<1>2. ~Two(B) /\ B \in SUBSET Fits
  BY <1>1, BelowType DEF IsFork
<1>3. \A i \in 0..Depth : /\ Below(S, p, i) = Below(T, p, i) \union {key}
                          /\ key \notin Below(T, p, i)
  BY WithKey
<1>4. ASSUME NEW i \in 0..(m - 1) PROVE Two(Below(S, p, i))
  <2>1. i \in 0..Depth /\ Two(Below(T, p, i))
    BY <1>1 DEF IsFork
  <2> QED BY <2>1, <1>3 DEF Two
<1>5. ASSUME B = {} PROVE IsFork(S, p, m)
  BY <1>1, <1>3, <1>4, <1>5 DEF IsFork, Two
<1>6. ASSUME NEW k \in B
      PROVE  LET common == GetFirstCommonBits(p, KeyToPath(k))
             IN  /\ IsFork(S, p, common + 1)
                 /\ Sides(T, p, m) \o [i \in 1..(common - m) |-> zero] \o <<Leaf(k)>>
                      = Sides(S, p, common + 1)
  <2> DEFINE q == KeyToPath(k)
             common == GetFirstCommonBits(p, q)
  <2>1. k \in Nat /\ ~Exceeds(k) /\ q \in Bits /\ B = {k} /\ k \in T /\ k # key
    BY <1>1, <1>2, <1>3, PathType DEF Fits, Two, Below
  <2>2. /\ common \in 0..Depth
        /\ \A i \in 0..(common - 1) : p[i] = q[i]
        /\ common < Depth => p[common] # q[common]
    BY <1>1, <2>1, CommonBits
  <2> HIDE DEF common
  <2>3. common # Depth
    BY <1>1, <2>1, <2>2, PathsDiffer
  <2>4. \A i \in 0..(m - 1) : q[i] = p[i]
    BY DEF Below
  <2>5. m <= common /\ common \in 0..(Depth - 1) /\ p[common] # q[common]
    BY <1>1, <2>2, <2>3, <2>4
  <2>6. ASSUME NEW i \in m..common PROVE Below(T, p, i) = {k}
    <3>1. i \in 0..Depth /\ m \in 0..Depth /\ i \in m..Depth
      BY <1>1, <2>5
    <3>2. Below(T, p, i) \subseteq B
      BY <3>1, BelowShrinks
    <3>3. \A j \in 0..(i - 1) : q[j] = p[j]
      BY <2>2, <2>5, <1>1
    <3>4. k \in Below(T, p, i)
      BY <2>1, <3>3 DEF Below
    <3> QED BY <2>1, <3>2, <3>4
  <2>7. Below(T, p, common + 1) = {}
    <3>1. common \in m..common /\ common \in 0..((common + 1) - 1)
      BY <1>1, <2>5
    <3>2. Below(T, p, common) = {k}
      BY <2>6, <3>1
    <3>3. common \in 0..Depth /\ common + 1 \in common..Depth
      BY <1>1, <2>5
    <3>4. Below(T, p, common + 1) \subseteq {k}
      BY <3>2, <3>3, BelowShrinks
    <3>5. k \notin Below(T, p, common + 1)
      BY <2>5, <3>1 DEF Below
    <3> QED BY <3>4, <3>5
  <2>8. IsFork(S, p, common + 1)
    <3>1. common + 1 \in 0..Depth
      BY <1>1, <2>5
    <3>2. Below(S, p, common + 1) = {key}
      BY <1>3, <2>7, <3>1
    <3>3. ASSUME NEW i \in 0..((common + 1) - 1) PROVE Two(Below(S, p, i))
      <4>1. CASE i < m
        BY <1>1, <1>4, <2>5, <4>1
      <4>2. CASE ~(i < m)
        <5>1. i \in m..common /\ i \in 0..Depth
          BY <1>1, <2>5, <4>2
        <5>2. Below(S, p, i) = {k} \union {key}
          BY <5>1, <1>3, <2>6
        <5> QED BY <5>2, <2>1 DEF Two
      <4> QED BY <4>1, <4>2
    <3> QED BY <3>1, <3>2, <3>3 DEF IsFork, Two
  <2> DEFINE zeros == [i \in 1..(common - m) |-> zero]
             made == Sides(T, p, m) \o zeros \o <<Leaf(k)>>
  <2>9. made = Sides(S, p, common + 1)
    <3>1. Sides(S, p, common + 1) = Sides(T, p, common + 1)
      <4>1. common + 1 \in 0..Depth
        BY <1>1, <2>5
      <4> QED BY <4>1, WithKey
    <3> DEFINE sides == [j \in 1..m |-> Subtree(j, Beside(T, p, j - 1))]
    <3>2. sides = Sides(T, p, m)
      BY DEF Sides
    <3>3. ASSUME NEW j \in (m + 1)..common PROVE Subtree(j, Beside(T, p, j - 1)) = zero
      <4>1. j - 1 \in m..common /\ j - 1 \in 0..(common - 1) /\ j \in 0..Depth
        BY <1>1, <2>5
      <4>2. Below(T, p, j - 1) = {k} /\ q[j - 1] = p[j - 1]
        BY <4>1, <2>2, <2>6
      <4>3. Beside(T, p, j - 1) = {}
        BY <4>2 DEF Beside
      <4> QED BY <4>1, <4>3, SubtreeOfNone
    <3>4. Subtree(common + 1, Beside(T, p, (common + 1) - 1)) = Leaf(k)
      <4>1. common \in m..common /\ (common + 1) - 1 = common /\ common + 1 \in 0..Depth
        BY <1>1, <2>5
      <4>2. Beside(T, p, common) = {k}
        BY <4>1, <2>5, <2>6 DEF Beside
      <4> QED BY <4>1, <4>2, <2>1, SubtreeOfOne
    <3>5. made = [j \in 1..(common + 1) |->
                    IF j <= m THEN Subtree(j, Beside(T, p, j - 1))
                    ELSE IF j <= common THEN zero ELSE Leaf(k)]
      <4> DEFINE s == Sides(T, p, m)
                 l == Leaf(k)
      <4>1. m \in Nat /\ common \in Nat /\ m <= common
        BY <1>1, <2>5
      <4>2. /\ s = [j \in 1..m |-> s[j]] /\ Len(s) = m /\ s \in Seq({s[j] : j \in 1..m})
            /\ \A j \in 1..m : s[j] = Subtree(j, Beside(T, p, j - 1))
        BY <4>1 DEF Sides
      <4>3. Len(zeros) = common - m /\ zeros \in Seq({zero})
        BY <4>1
      <4> HIDE DEF s, l
      <4> DEFINE A == {s[j] : j \in 1..m} \union {zero, l}
      <4>4. s \in Seq(A) /\ zeros \in Seq(A) /\ l \in A
        <5>1. {s[j] : j \in 1..m} \subseteq A
          OBVIOUS
        <5>2. s \in Seq(A)
          BY <4>2, <5>1
        <5>3. zeros \in Seq(A)
          BY <4>1
        <5> QED BY <5>2, <5>3
      <4>5. made = s \o zeros \o <<l>>
        BY DEF s, l
      <4> HIDE DEF A, made
      <4>6. /\ Len(made) = common + 1
            /\ \A j \in 1..(common + 1) :
                 made[j] = IF j <= m THEN s[j] ELSE IF j <= common THEN zero ELSE l
        <5> DEFINE u == s \o zeros
        <5>1. /\ u \in Seq(A) /\ Len(u) = common
              /\ \A j \in 1..common : u[j] = IF j <= m THEN s[j] ELSE zeros[j - m]
          <6> HIDE DEF zeros
          <6>1. u \in Seq(A) /\ Len(u) = Len(s) + Len(zeros)
            BY <4>4
          <6>2. Len(u) = common
            BY <6>1, <4>1, <4>2, <4>3
          <6>3. ASSUME NEW j \in 1..common
                PROVE  u[j] = IF j <= m THEN s[j] ELSE zeros[j - m]
            <7>1. j \in 1..(Len(s) + Len(zeros)) /\ Len(s) = m
              BY <4>1, <4>2, <4>3
            <7> QED BY <7>1, <4>4
          <6> QED BY <6>1, <6>2, <6>3
        <5>2. ASSUME NEW j \in 1..common, ~(j <= m) PROVE zeros[j - m] = zero
          <6>1. j - m \in 1..(common - m)
            BY <5>2, <4>1
          <6> QED BY <6>1
        <5> HIDE DEF u, zeros
        <5>3. <<l>> \in Seq(A) /\ Len(<<l>>) = 1 /\ <<l>>[1] = l
          BY <4>4
        <5>4. made = u \o <<l>>
          BY <4>5 DEF u
        <5>5. /\ Len(made) = common + 1
              /\ \A j \in 1..(common + 1) : made[j] = IF j <= common THEN u[j] ELSE l
          BY <5>1, <5>3, <5>4, <4>1
        <5>6. ASSUME NEW j \in 1..(common + 1)
              PROVE  made[j] = IF j <= m THEN s[j] ELSE IF j <= common THEN zero ELSE l
          <6>1. j <= common => u[j] = IF j <= m THEN s[j] ELSE zero
            BY <5>1, <5>2, <4>1
          <6>2. j <= m => j <= common
            BY <4>1
          <6> QED BY <5>5, <6>1, <6>2
        <5> QED BY <5>5, <5>6
      <4>7. made \in Seq(A)
        BY <4>4, <4>5
      <4>8. made = [j \in 1..(common + 1) |-> made[j]]
        BY <4>6, <4>7
      <4> QED BY <4>1, <4>2, <4>6, <4>8 DEF l
    <3>6. ASSUME NEW j \in 1..(common + 1)
          PROVE  (IF j <= m THEN Subtree(j, Beside(T, p, j - 1))
                  ELSE IF j <= common THEN zero ELSE Leaf(k)) = Subtree(j, Beside(T, p, j - 1))
      <4>1. CASE j <= m
        BY <4>1
      <4>2. CASE ~(j <= m) /\ j <= common
        <5>1. j \in (m + 1)..common
          BY <4>2, <1>1, <2>5
        <5> QED BY <4>2, <5>1, <3>3
      <4>3. CASE ~(j <= common)
        <5>1. j = common + 1
          BY <4>3, <1>1, <2>5
        <5> QED BY <4>3, <5>1, <3>4, <1>1, <2>5
      <4> QED BY <4>1, <4>2, <4>3
    <3> HIDE DEF made
    <3> QED BY <3>1, <3>5, <3>6 DEF Sides
  <2> QED BY <2>8, <2>9 DEF common
<1> QED BY <1>5, <1>6

\* addUnlocked: from the tree of S to the tree of S and the key, or an error.
THEOREM AddIsCanonical ==
  ASSUME NEW t, NEW T, Holds(t, T), NEW key \in Nat
  PROVE  LET added == addUnlocked(t, key)
         IN  /\ added.ok \in BOOLEAN
             /\ added.ok <=> key \in Fits \ T
             /\ added.ok => Holds(added.tree, T \union {key})
             /\ ~added.ok => added.tree = t
<1> DEFINE p == KeyToPath(key)
           at == retrieveEntry(t, key)
           node == at.matching
           common == GetFirstCommonBits(p, KeyToPath(node[1]))
           siblings ==
             IF node = zero THEN at.siblings
             ELSE at.siblings \o [i \in 1..(common - Len(at.siblings)) |-> zero] \o <<node>>
           S == T \union {key}
           kept == deleteOldNodes(t.nodes, node, p, at.siblings)
<1>1. p \in Bits /\ T \in SUBSET Fits /\ IsFiniteSet(T)
  BY PathType DEF Holds
<1>2. PICK m : IsFork(T, p, m)
  BY <1>1, ForkExists
<1> DEFINE B == Below(T, p, m)
<1>3. /\ at.siblings = Sides(T, p, m)
      /\ at.found <=> key \in T
      /\ B = {} => ~at.found /\ at.matching = zero
      /\ ~at.found => \A k \in B : B = {k} /\ k # key /\ at.matching = Leaf(k)
  BY <1>1, <1>2, HoldsIsStored, RetrieveIsCanonical
<1>4. addUnlocked(t, key) =
        IF Exceeds(key) \/ at.found
        THEN [tree |-> t, ok |-> FALSE]
        ELSE [tree |-> [nodes |-> addNewNodes({Leaf(key)} \union kept, Leaf(key), p, siblings),
                        Root  |-> calculateRoot(Leaf(key), p, siblings),
                        Count |-> t.Count + 1],
              ok |-> TRUE]
  BY DEF addUnlocked
<1> HIDE DEF at
<1>5. CASE Exceeds(key) \/ at.found
  BY <1>3, <1>4, <1>5 DEF Fits
<1>6. CASE ~Exceeds(key) /\ ~at.found
  <2>1. key \in Fits \ T /\ key \in Fits /\ key \notin T
    BY <1>3, <1>6 DEF Fits
  <2>2. m \in 0..Depth /\ Len(Sides(T, p, m)) = m
    BY <1>2, SidesLength, DepthAssumption DEF IsFork
  <2>3. B \in SUBSET Fits /\ Together(B, m) /\ ~Two(B)
    BY <1>1, <1>2, <2>2, BelowType DEF IsFork
  <2>4. node = Subtree(m, B)
    <3>1. CASE B = {}
      BY <3>1, <1>3, <2>2, SubtreeOfNone
    <3>2. CASE B # {}
      <4>1. PICK k \in B : B = {k} /\ node = Leaf(k)
        BY <3>2, <1>3, <1>6
      <4>2. k \in Nat
        BY <2>3 DEF Fits
      <4> HIDE DEF B
      <4> QED BY <4>1, <4>2, <2>2, SubtreeOfOne
    <3> QED BY <3>1, <3>2
  <2>5. kept = OffPath(T, p)
    <3>1. Branches(node, p, at.siblings) = OnPath(T, p, m)
      BY <1>1, <1>2, <1>3, <2>4, BranchesOnPath
    <3>2. /\ NodesOf(T) = OffPath(T, p) \union OnPath(T, p, m)
          /\ OffPath(T, p) \intersect OnPath(T, p, m) = {}
      <4>1. /\ NodesOf(T) = OffPath(T, p) \union OnPath(T, p, m)
                              \union (IF key \in T THEN {Leaf(key)} ELSE {})
            /\ OffPath(T, p) \intersect OnPath(T, p, m) = {}
        BY <1>1, <1>2, <2>1, NodesDivide
      <4> HIDE DEF p
      <4> QED BY <4>1, <2>1
    <3>3. t.nodes = NodesOf(T)
      BY DEF Holds
    <3> QED BY <3>1, <3>2, <3>3 DEF deleteOldNodes
  <2>6. \E n : IsFork(S, p, n) /\ siblings = Sides(S, p, n)
    <3>1. CASE B = {}
      <4>1. IsFork(S, p, m)
        BY <3>1, <1>1, <1>2, <2>1, AddedSides
      <4>2. Sides(S, p, m) = Sides(T, p, m)
        BY <1>1, <2>1, <2>2, WithKey
      <4> QED BY <3>1, <1>3, <4>1, <4>2
    <3>2. CASE B # {}
      <4>1. PICK k \in B : node = Leaf(k)
        BY <3>2, <1>3, <1>6
      <4>2. node # zero /\ node[1] = k
        BY <4>1, Shapes
      <4> DEFINE c == GetFirstCommonBits(p, KeyToPath(k))
      <4>3. /\ IsFork(S, p, c + 1)
            /\ Sides(T, p, m) \o [i \in 1..(c - m) |-> zero] \o <<Leaf(k)>> = Sides(S, p, c + 1)
        BY <1>1, <1>2, <2>1, AddedSides
      <4>4. siblings = Sides(T, p, m) \o [i \in 1..(c - m) |-> zero] \o <<Leaf(k)>>
        BY <4>1, <4>2, <1>3, <2>2
      <4> QED BY <4>3, <4>4
    <3> QED BY <3>1, <3>2
  <2>7. PICK n : IsFork(S, p, n) /\ siblings = Sides(S, p, n)
    BY <2>6
  <2>8. n \in 0..Depth /\ S \in SUBSET Fits /\ key \in S
    BY <2>1, <2>7, <1>1 DEF IsFork
  <2>9. Below(S, p, n) = {key}
    <3>1. key \in Below(S, p, n)
      BY <2>8 DEF Below
    <3> QED BY <3>1, <2>7 DEF IsFork, Two
  <2>10. Leaf(key) = Subtree(n, Below(S, p, n))
    BY <2>8, <2>9, SubtreeOfOne
  <2> HIDE DEF siblings, S, kept
  <2>11. /\ Branches(Leaf(key), p, siblings) = OnPath(S, p, n)
         /\ calculateRoot(Leaf(key), p, siblings) = Canonical(S)
    BY <1>1, <2>7, <2>8, <2>10, BranchesOnPath
  <2>12. NodesOf(S) = OffPath(S, p) \union OnPath(S, p, n) \union {Leaf(key)}
    BY <2>1, <2>7, <2>8, NodesDivide
  <2>13. OffPath(S, p) = OffPath(T, p)
    BY <1>1, <2>1, OffPathKept DEF S
  <2>14. addNewNodes({Leaf(key)} \union kept, Leaf(key), p, siblings) = NodesOf(S)
    BY <2>5, <2>11, <2>12, <2>13 DEF addNewNodes
  <2>15. IsFiniteSet(S) /\ Cardinality(S) = t.Count + 1
    <3>1. t.Count = Cardinality(T)
      BY DEF Holds
    <3> QED BY <3>1, <1>1, <2>1, FS_AddElement DEF S
  <2>16. addUnlocked(t, key) = [tree |-> [nodes |-> NodesOf(S), Root |-> Canonical(S),
                                          Count |-> Cardinality(S)], ok |-> TRUE]
    BY <1>4, <1>6, <2>11, <2>14, <2>15
  <2> DEFINE added == addUnlocked(t, key)
  <2>17. added.ok = TRUE /\ Holds(added.tree, S)
    BY <2>8, <2>15, <2>16 DEF Holds
  <2> HIDE DEF added
  <2> QED BY <2>1, <2>17 DEF added, S
<1> QED BY <1>5, <1>6

-----------------------------------------------------------------------------
(* Deleting a key *)

\* getIndexOfLastNonZero finds the last sibling that is not zero.
LEMMA KeptSiblings ==
  ASSUME NEW s, Len(s) \in Nat
  PROVE  LET n == keptSiblings(s)
         IN  /\ n \in 0..Len(s)
             /\ n > 0 => s[n] # zero
             /\ \A i \in (n + 1)..Len(s) : s[i] = zero
<1> DEFINE Kept(n) == /\ n > 0 => s[n] # zero
                      /\ \A i \in (n + 1)..Len(s) : s[i] = zero
           Ends == {n \in 0..Len(s) : \A i \in (n + 1)..Len(s) : s[i] = zero}
<1>1. Len(s) \in Ends /\ Ends \in SUBSET Nat
  OBVIOUS
<1>2. PICK n \in Ends : \A i \in Ends : n <= i
  <2> HIDE DEF Ends
  <2> QED BY <1>1, LeastNatural
<1>3. ASSUME n > 0, s[n] = zero PROVE FALSE
  <2>1. n - 1 \in 0..Len(s) /\ ((n - 1) + 1)..Len(s) = {n} \union (n + 1)..Len(s)
    BY <1>3
  <2>2. n - 1 \in Ends
    BY <1>3, <2>1
  <2>3. n \in Nat
    BY <1>1
  <2> HIDE DEF Ends
  <2> QED BY <1>2, <2>2, <2>3
<1>4. n \in 0..Len(s) /\ Kept(n)
  BY <1>3
<1>5. keptSiblings(s) = CHOOSE l \in 0..Len(s) : Kept(l)
  BY DEF keptSiblings
<1> HIDE DEF Kept
<1>6. keptSiblings(s) \in 0..Len(s) /\ Kept(keptSiblings(s))
  BY <1>4, <1>5
<1> QED BY <1>6 DEF Kept

\* Cutting the siblings off leaves those of a shorter path.
LEMMA SidesPrefix ==
  ASSUME NEW S, NEW p, NEW n \in Nat, NEW m \in 0..n
  PROVE  SubSeq(Sides(S, p, n), 1, m) = Sides(S, p, m)
<1> DEFINE s == Sides(S, p, n)
<1>1. Len(s) = n /\ s = [j \in 1..n |-> Subtree(j, Beside(S, p, j - 1))]
  BY SidesLength DEF Sides
<1>2. SubSeq(s, 1, m) = [j \in 1..m |-> s[(1 + j) - 1]]
  <2> HIDE DEF s
  <2>1. \A i \in 1..m : (1 + i) - 1 = i /\ (i + 1) - 1 = i
    OBVIOUS
  <2>2. s \in Seq({s[j] : j \in 1..n})
    <3>1. s = [j \in 1..n |-> s[j]]
      BY <1>1
    <3> QED BY <3>1
  <2>3. Len(SubSeq(s, 1, m)) = m /\ SubSeq(s, 1, m) \in Seq({s[j] : j \in 1..n})
    BY <1>1, <2>2
  <2>4. \A i \in 1..m : SubSeq(s, 1, m)[i] = s[i]
    BY <1>1, <2>2
  <2> QED BY <2>1, <2>3, <2>4
<1>3. \A j \in 1..m : (1 + j) - 1 = j /\ j \in 1..n
  OBVIOUS
<1> QED BY <1>1, <1>2, <1>3 DEF Sides

\* The lifted leaf hangs where its path ends in the tree without the key.
LEMMA LiftedFork ==
  ASSUME NEW T \in SUBSET Fits, NEW p \in Bits, NEW l \in 0..(Depth - 1),
         NEW o \in Nat, Below(T, p, l) = {o},
         NEW n, n = keptSiblings(Sides(T, p, l))
  PROVE  IsFork(T, p, n) /\ Below(T, p, n) = {o} /\ n \in 0..l
<1>1. l \in Nat /\ Len(Sides(T, p, l)) = l /\ Depth \in Nat
  BY SidesLength, DepthAssumption
<1> DEFINE s == Sides(T, p, l)
<1>2. /\ n \in 0..l
      /\ n > 0 => s[n] # zero
      /\ \A i \in (n + 1)..l : s[i] = zero
  BY <1>1, KeptSiblings
<1>3. \A i \in 1..l : s[i] = Subtree(i, Beside(T, p, i - 1))
  BY DEF Sides
<1> HIDE DEF s
<1>4. ASSUME NEW i \in 1..l PROVE s[i] = zero <=> Beside(T, p, i - 1) = {}
  <2> DEFINE K == Beside(T, p, i - 1)
  <2>1. i - 1 \in 0..Depth /\ i - 1 # Depth /\ i \in 0..Depth /\ (i - 1) + 1 = i
    BY <1>1
  <2>2. K \in SUBSET Fits /\ Together(K, i)
    BY <2>1, BelowType
  <2> HIDE DEF K
  <2>3. Subtree(i, K) = zero <=> K = {}
    BY <2>1, <2>2, SubtreeShape
  <2> QED BY <2>3, <1>3 DEF K
<1> DEFINE Alone == {i \in Nat : i >= n => Below(T, p, i) = {o}}
<1>5. l \in Alone
  BY <1>1
<1>6. ASSUME NEW i \in 1..l, i \in Alone PROVE i - 1 \in Alone
  <2> SUFFICES ASSUME i - 1 >= n PROVE Below(T, p, i - 1) = {o}
    BY <1>1
  <2>1. i \in (n + 1)..l /\ i >= n
    BY <1>2, <1>1
  <2>2. Beside(T, p, i - 1) = {}
    BY <2>1, <1>2, <1>4
  <2>3. i - 1 \in 0..(Depth - 1) /\ (i - 1) + 1 = i
    BY <1>1
  <2>4. Below(T, p, i - 1) = Below(T, p, i) \union Beside(T, p, i - 1)
    BY <2>3, BelowNext
  <2> QED BY <2>1, <2>2, <2>4, <1>6
<1>7. 0..l \subseteq Alone
  <2> HIDE DEF Alone
  <2> QED BY <1>1, <1>5, <1>6, Downward
<1>8. Below(T, p, n) = {o}
  BY <1>2, <1>7
<1>9. ASSUME NEW i \in 0..(n - 1) PROVE Two(Below(T, p, i))
  <2>1. n \in 1..l /\ n - 1 \in 0..(Depth - 1) /\ (n - 1) + 1 = n /\ n - 1 \in 0..Depth
    BY <1>1, <1>2
  <2>2. Beside(T, p, n - 1) # {}
    BY <2>1, <1>2, <1>4
  <2>3. PICK k \in Beside(T, p, n - 1) : TRUE
    BY <2>2
  <2>4. Below(T, p, n - 1) = Below(T, p, n) \union Beside(T, p, n - 1)
    BY <2>1, BelowNext
  <2>5. k # o
    <3>1. KeyToPath(k)[n - 1] # p[n - 1]
      BY <2>3 DEF Beside
    <3>2. o \in Below(T, p, n) /\ n - 1 \in 0..(n - 1)
      BY <1>8, <1>2, <2>1
    <3>3. KeyToPath(o)[n - 1] = p[n - 1]
      BY <3>2 DEF Below
    <3> QED BY <3>1, <3>3
  <2>6. k \in Below(T, p, n - 1) /\ o \in Below(T, p, n - 1)
    BY <2>3, <2>4, <1>8
  <2>7. i \in 0..Depth /\ n - 1 \in i..Depth
    BY <2>1, <1>1, <1>2
  <2>9. Below(T, p, n - 1) \subseteq Below(T, p, i)
    BY <2>7, BelowShrinks
  <2> QED BY <2>5, <2>6, <2>9 DEF Two
<1>10. n \in 0..Depth
  BY <1>1, <1>2
<1> QED BY <1>2, <1>8, <1>9, <1>10 DEF IsFork, Two

\* deleteUnlocked: from the tree of S to the tree of S without the key, or an error.
THEOREM DeleteIsCanonical ==
  ASSUME NEW t, NEW S, Holds(t, S), NEW key \in Nat
  PROVE  LET deleted == deleteUnlocked(t, key)
         IN  /\ deleted.ok \in BOOLEAN
             /\ deleted.ok <=> key \in S
             /\ deleted.ok => Holds(deleted.tree, S \ {key})
             /\ ~deleted.ok => deleted.tree = t
<1> DEFINE p == KeyToPath(key)
           at == retrieveEntry(t, key)
           remaining == deleteOldNodes(t.nodes \ {at.entry}, at.entry, p, at.siblings)
           last == at.siblings[Len(at.siblings)]
           lift == last \in remaining /\ IsLeaf(last)
           popped == SubSeq(at.siblings, 1, Len(at.siblings) - 1)
           node == IF lift THEN last ELSE zero
           siblings == IF lift THEN SubSeq(popped, 1, keptSiblings(popped)) ELSE at.siblings
           T == S \ {key}
<1>1. p \in Bits /\ S \in SUBSET Fits /\ IsFiniteSet(S) /\ T \in SUBSET Fits
  BY PathType DEF Holds
<1>2. PICK m : IsFork(S, p, m)
  BY <1>1, ForkExists
<1>3. /\ at.siblings = Sides(S, p, m)
      /\ at.found <=> key \in S
      /\ at.found => at.entry = Leaf(key) /\ Below(S, p, m) = {key}
  BY <1>1, <1>2, HoldsIsStored, RetrieveIsCanonical
<1>4. deleteUnlocked(t, key) =
        IF ~at.found THEN [tree |-> t, ok |-> FALSE]
        ELSE [tree |-> IF at.siblings = <<>>
                       THEN [nodes |-> remaining, Root |-> zero, Count |-> t.Count - 1]
                       ELSE [nodes |-> addNewNodes(remaining, node, p, siblings),
                             Root  |-> calculateRoot(node, p, siblings),
                             Count |-> t.Count - 1],
              ok |-> TRUE]
  BY DEF deleteUnlocked
<1> HIDE DEF at
<1>5. CASE ~at.found
  BY <1>3, <1>4, <1>5
<1>6. CASE at.found
  <2>1. key \in S /\ key \in Fits /\ key \in Fits \ T /\ S = T \union {key}
    BY <1>1, <1>3, <1>6
  <2>2. m \in 0..Depth /\ m \in Nat /\ Depth \in Nat /\ Len(Sides(S, p, m)) = m
    BY <1>2, SidesLength, DepthAssumption DEF IsFork
  <2>3. Leaf(key) = Subtree(m, Below(S, p, m))
    BY <1>3, <1>6, <2>2, SubtreeOfOne
  <2>4. OffPath(S, p) = OffPath(T, p)
    BY <1>1, <2>1, OffPathKept
  <2>5. remaining = OffPath(T, p)
    <3>1. Branches(Leaf(key), p, Sides(S, p, m)) = OnPath(S, p, m)
      BY <1>1, <1>2, <2>3, BranchesOnPath
    <3>2. /\ NodesOf(S) = OffPath(S, p) \union OnPath(S, p, m)
                            \union (IF key \in S THEN {Leaf(key)} ELSE {})
          /\ OffPath(S, p) \intersect OnPath(S, p, m) = {}
          /\ Leaf(key) \notin OffPath(S, p)
      BY <1>1, <1>2, <2>1, NodesDivide
    <3>3. t.nodes = NodesOf(S)
      BY DEF Holds
    <3>4. remaining = (t.nodes \ {Leaf(key)}) \ OnPath(S, p, m)
      BY <1>3, <1>6, <3>1 DEF deleteOldNodes
    <3> HIDE DEF remaining, p
    <3> QED BY <2>1, <2>4, <3>2, <3>3, <3>4
  <2>6. IsFiniteSet(T) /\ Cardinality(T) = t.Count - 1
    <3>1. t.Count = Cardinality(S)
      BY DEF Holds
    <3> QED BY <3>1, <1>1, <2>1, FS_RemoveElement
  <2>7. ASSUME NEW i \in 0..Depth
        PROVE  /\ Below(S, p, i) = Below(T, p, i) \union {key} /\ key \notin Below(T, p, i)
               /\ Beside(S, p, i) = Beside(T, p, i)
               /\ Sides(S, p, i) = Sides(T, p, i)
    <3> DEFINE U == T \union {key}
    <3>1. /\ Below(U, p, i) = Below(T, p, i) \union {key} /\ key \notin Below(T, p, i)
          /\ Beside(U, p, i) = Beside(T, p, i)
          /\ Sides(U, p, i) = Sides(T, p, i)
      BY <1>1, <2>1, WithKey
    <3>2. U = S
      BY <2>1
    <3> HIDE DEF U, T, p
    <3> QED BY <3>1, <3>2
  <2> DEFINE deleted == deleteUnlocked(t, key)
  <2>8. CASE m = 0
    <3>1. at.siblings = <<>>
      BY <1>3, <2>8 DEF Sides
    <3>2. S = {key}
      BY <1>3, <1>6, <2>8, BelowTop
    <3>3. T = {} /\ NodesOf(T) = {} /\ OffPath(T, p) = {}
      BY <3>2 DEF NodesOf, OffPath
    <3>4. Canonical(T) = zero
      <4>1. 0 \in 0..Depth
        BY <2>2
      <4> QED BY <3>3, <4>1, SubtreeOfNone DEF Canonical
    <3> HIDE DEF T, remaining
    <3>5. deleted = [tree |-> [nodes |-> NodesOf(T), Root |-> Canonical(T),
                               Count |-> Cardinality(T)], ok |-> TRUE]
      BY <1>4, <1>6, <2>5, <2>6, <3>1, <3>3, <3>4
    <3>6. deleted.ok = TRUE /\ Holds(deleted.tree, T)
      BY <1>1, <2>6, <3>5 DEF Holds
    <3> HIDE DEF deleted
    <3> QED BY <2>1, <3>6 DEF deleted, T
  <2>9. CASE m # 0
    <3> DEFINE l == m - 1
               O == Beside(S, p, l)
    <3>1. /\ m \in 1..m /\ l \in 0..(Depth - 1) /\ l \in 0..Depth /\ l # Depth /\ l + 1 = m
          /\ l \in Nat /\ l \in 0..(m - 1) /\ l \in 0..m /\ Len(Sides(S, p, l)) = l
      BY <2>2, <2>9, SidesLength
    <3>2. last = Subtree(m, O)
      BY <1>3, <2>2, <3>1 DEF Sides
    <3>3. at.siblings # <<>>
      BY <1>3, <2>2, <2>9
    <3>4. popped = Sides(T, p, l) /\ Sides(S, p, m) = Sides(T, p, m)
      <4>1. popped = Sides(S, p, l)
        BY <1>3, <2>2, <3>1, SidesPrefix
      <4>2. Sides(S, p, l) = Sides(T, p, l) /\ Sides(S, p, m) = Sides(T, p, m)
        BY <2>2, <2>7, <3>1
      <4> QED BY <4>1, <4>2
    <3>5. O = Beside(T, p, l) /\ O \in SUBSET Fits /\ Together(O, m)
      <4>1. O \in SUBSET Fits /\ Together(O, l + 1)
        <5> HIDE DEF l, p
        <5> QED BY <1>1, <3>1, BelowType
      <4>2. Together(O, m)
        <5> HIDE DEF O, l
        <5> QED BY <3>1, <4>1
      <4> QED BY <2>7, <3>1, <4>1, <4>2
    <3>6. Below(T, p, m) = {} /\ Below(T, p, l) = O /\ O # {} /\ key \notin O
      <4>1. /\ Below(S, p, m) = Below(T, p, m) \union {key} /\ key \notin Below(T, p, m)
            /\ Below(S, p, l) = Below(T, p, l) \union {key} /\ key \notin Below(T, p, l)
        BY <2>2, <2>7, <3>1
      <4>2. Below(T, p, l) = Below(T, p, m) \union Beside(T, p, l)
        BY <1>1, <3>1, BelowNext
      <4>3. Below(T, p, m) = {}
        BY <4>1, <1>3, <1>6
      <4>4. Two(Below(S, p, l))
        BY <1>2, <3>1 DEF IsFork
      <4> QED BY <4>1, <4>2, <4>3, <4>4, <3>5 DEF Two
    <3>7. \E n : /\ IsFork(T, p, n) /\ siblings = Sides(T, p, n)
                 /\ node = Subtree(n, Below(T, p, n))
      <4>1. CASE \E o \in O : O = {o}
        <5>1. PICK o \in O : O = {o}
          BY <4>1
        <5>2. o \in Nat /\ o \in T /\ o # key /\ KeyToPath(o) \in Bits
          BY <3>5, <3>6, <5>1, PathType DEF Fits, Beside, Below
        <5>3. last = Leaf(o)
          BY <2>2, <3>2, <5>1, <5>2, SubtreeOfOne
        <5>4. Leaf(o) \in OffPath(T, p)
          <6> DEFINE K == Below(T, KeyToPath(o), Depth)
          <6>1. o \in K /\ Depth \in 0..Depth
            BY <2>2, <5>2 DEF Below
          <6>2. K = {o}
            <7>1. K \in SUBSET Fits /\ Together(K, Depth)
              BY <1>1, <5>2, <6>1, BelowType
            <7> HIDE DEF K
            <7>2. ~Two(K)
              BY <7>1, BottomHasOne
            <7> QED BY <6>1, <7>2 DEF Two
          <6>3. Leaf(o) = Subtree(Depth, K)
            BY <5>2, <6>1, <6>2, SubtreeOfOne
          <6>4. l \in 0..(Depth - 1) /\ KeyToPath(o)[l] # p[l]
            BY <3>1, <5>1 DEF Beside
          <6>5. Leaf(o) \in NodesOf(T)
            BY <1>1, <5>2, LeafStored
          <6> QED BY <5>2, <6>1, <6>3, <6>4, <6>5 DEF OffPath
        <5>5. lift
          BY <2>5, <5>3, <5>4, Shapes
        <5> DEFINE n == keptSiblings(popped)
        <5>6. IsFork(T, p, n) /\ Below(T, p, n) = {o} /\ n \in 0..l
          <6>1. Below(T, p, l) = {o}
            BY <3>6, <5>1
          <6> HIDE DEF popped, T, p, l
          <6> QED BY <1>1, <3>1, <3>4, <5>2, <6>1, LiftedFork
        <5>7. n \in 0..Depth
          BY <5>6 DEF IsFork
        <5>8. SubSeq(popped, 1, n) = Sides(T, p, n)
          <6> HIDE DEF n, l, T, p, popped
          <6> QED BY <3>1, <3>4, <5>6, SidesPrefix
        <5>9. siblings = Sides(T, p, n) /\ node = Leaf(o)
          BY <5>3, <5>5, <5>8
        <5>10. Leaf(o) = Subtree(n, Below(T, p, n))
          <6> HIDE DEF n
          <6> QED BY <5>2, <5>6, <5>7, SubtreeOfOne
        <5> HIDE DEF n, siblings, node
        <5> QED BY <5>6, <5>9, <5>10
      <4>2. CASE ~\E o \in O : O = {o}
        <5>1. Two(O)
          BY <3>6, <4>2, Sizes
        <5>2. ~IsLeaf(last)
          <6>1. m \in 0..Depth /\ O \in SUBSET Fits /\ Together(O, m) /\ Two(O)
            BY <2>2, <3>5, <5>1
          <6> HIDE DEF O, last
          <6>2. ~IsLeaf(Subtree(m, O))
            BY <6>1, SubtreeShape
          <6> QED BY <3>2, <6>2
        <5>3. siblings = Sides(T, p, m) /\ node = zero
          BY <1>3, <3>4, <5>2
        <5>4. ASSUME NEW i \in 0..(m - 1) PROVE Two(Below(T, p, i))
          <6>1. i \in 0..Depth /\ l \in i..Depth
            BY <2>2, <3>1
          <6>2. Below(T, p, l) \subseteq Below(T, p, i)
            BY <6>1, BelowShrinks
          <6> QED BY <3>6, <5>1, <6>2 DEF Two
        <5>5. IsFork(T, p, m)
          BY <2>2, <3>6, <5>4 DEF IsFork, Two
        <5>6. zero = Subtree(m, Below(T, p, m))
          BY <2>2, <3>6, SubtreeOfNone
        <5> HIDE DEF siblings, node
        <5> QED BY <5>3, <5>5, <5>6
      <4> QED BY <4>1, <4>2
    <3> HIDE DEF siblings, node, remaining
    <3>8. PICK n : /\ IsFork(T, p, n) /\ siblings = Sides(T, p, n)
                   /\ node = Subtree(n, Below(T, p, n))
      BY <3>7
    <3>9. /\ Branches(node, p, siblings) = OnPath(T, p, n)
          /\ calculateRoot(node, p, siblings) = Canonical(T)
      BY <1>1, <3>8, BranchesOnPath
    <3>10. NodesOf(T) = OffPath(T, p) \union OnPath(T, p, n)
                         \union (IF key \in T THEN {Leaf(key)} ELSE {})
      BY <1>1, <2>1, <3>8, NodesDivide
    <3>11. addNewNodes(remaining, node, p, siblings) = NodesOf(T)
      <4>1. NodesOf(T) = OffPath(T, p) \union OnPath(T, p, n)
        <5> HIDE DEF p
        <5> QED BY <3>10
      <4> QED BY <2>5, <3>9, <4>1 DEF addNewNodes
    <3> HIDE DEF T
    <3>12. deleted = [tree |-> [nodes |-> NodesOf(T), Root |-> Canonical(T),
                                Count |-> Cardinality(T)], ok |-> TRUE]
      BY <1>4, <1>6, <2>6, <3>3, <3>9, <3>11
    <3>13. deleted.ok = TRUE /\ Holds(deleted.tree, T)
      BY <1>1, <2>6, <3>12 DEF Holds
    <3> HIDE DEF deleted
    <3> QED BY <2>1, <3>13 DEF deleted, T
  <2> QED BY <2>8, <2>9
<1> QED BY <1>5, <1>6

-----------------------------------------------------------------------------
(* Batches *)

\* The first n keys are distinct and all in the set `allowed`.
Distinct(keys, n, allowed) ==
  \A i \in 1..n : keys[i] \in allowed /\ \A j \in 1..(i - 1) : keys[j] # keys[i]

\* The first n keys.
First(keys, n) == {keys[i] : i \in 1..n}

\* Of the first i keys, n come before the first that is not allowed.
Gets(keys, i, n, allowed) ==
  /\ n \in 0..i
  /\ Distinct(keys, n, allowed)
  /\ n < i => ~Distinct(keys, n + 1, allowed)

\* One key more.
LEMMA DistinctNext ==
  ASSUME NEW keys, NEW n \in Nat, NEW allowed, Distinct(keys, n, allowed)
  PROVE  Distinct(keys, n + 1, allowed) <=> keys[n + 1] \in allowed \ First(keys, n)
<1>1. 1..(n + 1) = 1..n \union {n + 1} /\ 1..((n + 1) - 1) = 1..n
  OBVIOUS
<1> QED BY <1>1 DEF Distinct, First

\* One key more.
LEMMA FirstNext ==
  ASSUME NEW keys, NEW n \in Nat
  PROVE  First(keys, n + 1) = First(keys, n) \union {keys[n + 1]}
<1>1. 1..(n + 1) = 1..n \union {n + 1}
  OBVIOUS
<1> QED BY <1>1 DEF First

\* How far a batch gets when it is one key longer.
LEMMA GetsNext ==
  ASSUME NEW keys, NEW i \in Nat, NEW n, NEW allowed, Gets(keys, i, n, allowed)
  PROVE  /\ n # i => Gets(keys, i + 1, n, allowed)
         /\ n = i => IF keys[i + 1] \in allowed \ First(keys, i)
                     THEN Gets(keys, i + 1, i + 1, allowed)
                     ELSE Gets(keys, i + 1, i, allowed)
<1>1. ASSUME n # i PROVE Gets(keys, i + 1, n, allowed)
  BY <1>1 DEF Gets
<1>2. ASSUME n = i
      PROVE  IF keys[i + 1] \in allowed \ First(keys, i)
             THEN Gets(keys, i + 1, i + 1, allowed)
             ELSE Gets(keys, i + 1, i, allowed)
  <2>1. Distinct(keys, i, allowed)
    BY <1>2 DEF Gets
  <2>2. Distinct(keys, i + 1, allowed) <=> keys[i + 1] \in allowed \ First(keys, i)
    BY <2>1, DistinctNext
  <2> QED BY <2>1, <2>2 DEF Gets
<1> QED BY <1>1, <1>2

\* batchAdd: key after key, up to the first error.
LEMMA BatchAddEquation ==
  ASSUME NEW t, NEW keys, Len(keys) \in Nat
  PROVE  \E done :
           /\ done = [n \in 0..Len(keys) |->
                        IF n = 0 THEN [tree |-> t, ok |-> TRUE]
                        ELSE IF done[n - 1].ok THEN addUnlocked(done[n - 1].tree, keys[n])
                        ELSE done[n - 1]]
           /\ batchAdd(t, keys) = done[Len(keys)]
<1> DEFINE Body(g, i) ==
             IF i = 0 THEN [tree |-> t, ok |-> TRUE]
             ELSE IF g[i - 1].ok THEN addUnlocked(g[i - 1].tree, keys[i]) ELSE g[i - 1]
           UpTo(m, g) == g = [i \in 0..m |-> Body(g, i)]
           Reached == {m \in Nat : \E g : UpTo(m, g)}
           done == CHOOSE g : UpTo(Len(keys), g)
<1>1. 0 \in Reached
  <2> DEFINE g == [i \in 0..0 |-> [tree |-> t, ok |-> TRUE]]
  <2>1. UpTo(0, g)
    OBVIOUS
  <2> HIDE DEF UpTo, g
  <2> QED BY <2>1
<1>2. ASSUME NEW m \in Nat, m \in Reached PROVE m + 1 \in Reached
  <2>1. PICK g : UpTo(m, g)
    BY <1>2
  <2> DEFINE h == [i \in 0..(m + 1) |-> IF i = m + 1 THEN Body(g, m + 1) ELSE g[i]]
  <2> HIDE DEF Body
  <2>2. ASSUME NEW i \in 0..(m + 1) PROVE h[i] = Body(h, i)
    <3>1. i # 0 => h[i - 1] = g[i - 1]
      OBVIOUS
    <3>2. Body(h, i) = Body(g, i)
      BY <3>1 DEF Body
    <3>3. i # m + 1 => g[i] = Body(g, i)
      BY <2>1
    <3> QED BY <3>2, <3>3
  <2>3. UpTo(m + 1, h)
    BY <2>2
  <2> HIDE DEF UpTo, h
  <2> QED BY <2>3
<1>3. Len(keys) \in Reached
  <2> HIDE DEF Reached
  <2>1. Nat \subseteq Reached
    BY <1>1, <1>2, Upward
  <2> QED BY <2>1
<1>4. UpTo(Len(keys), done)
  <2> HIDE DEF UpTo
  <2> QED BY <1>3
<1>5. batchAdd(t, keys) = done[Len(keys)]
  BY DEF batchAdd
<1> HIDE DEF done
<1> QED BY <1>4, <1>5

\* batchDelete: key after key, up to the first error.
LEMMA BatchDeleteEquation ==
  ASSUME NEW t, NEW keys, Len(keys) \in Nat
  PROVE  \E done :
           /\ done = [n \in 0..Len(keys) |->
                        IF n = 0 THEN [tree |-> t, ok |-> TRUE]
                        ELSE IF done[n - 1].ok THEN deleteUnlocked(done[n - 1].tree, keys[n])
                        ELSE done[n - 1]]
           /\ batchDelete(t, keys) = done[Len(keys)]
<1> DEFINE Body(g, i) ==
             IF i = 0 THEN [tree |-> t, ok |-> TRUE]
             ELSE IF g[i - 1].ok THEN deleteUnlocked(g[i - 1].tree, keys[i]) ELSE g[i - 1]
           UpTo(m, g) == g = [i \in 0..m |-> Body(g, i)]
           Reached == {m \in Nat : \E g : UpTo(m, g)}
           done == CHOOSE g : UpTo(Len(keys), g)
<1>1. 0 \in Reached
  <2> DEFINE g == [i \in 0..0 |-> [tree |-> t, ok |-> TRUE]]
  <2>1. UpTo(0, g)
    OBVIOUS
  <2> HIDE DEF UpTo, g
  <2> QED BY <2>1
<1>2. ASSUME NEW m \in Nat, m \in Reached PROVE m + 1 \in Reached
  <2>1. PICK g : UpTo(m, g)
    BY <1>2
  <2> DEFINE h == [i \in 0..(m + 1) |-> IF i = m + 1 THEN Body(g, m + 1) ELSE g[i]]
  <2> HIDE DEF Body
  <2>2. ASSUME NEW i \in 0..(m + 1) PROVE h[i] = Body(h, i)
    <3>1. i # 0 => h[i - 1] = g[i - 1]
      OBVIOUS
    <3>2. Body(h, i) = Body(g, i)
      BY <3>1 DEF Body
    <3>3. i # m + 1 => g[i] = Body(g, i)
      BY <2>1
    <3> QED BY <3>2, <3>3
  <2>3. UpTo(m + 1, h)
    BY <2>2
  <2> HIDE DEF UpTo, h
  <2> QED BY <2>3
<1>3. Len(keys) \in Reached
  <2> HIDE DEF Reached
  <2>1. Nat \subseteq Reached
    BY <1>1, <1>2, Upward
  <2> QED BY <2>1
<1>4. UpTo(Len(keys), done)
  <2> HIDE DEF UpTo
  <2> QED BY <1>3
<1>5. batchDelete(t, keys) = done[Len(keys)]
  BY DEF batchDelete
<1> HIDE DEF done
<1> QED BY <1>4, <1>5

\* A batch of insertions takes the tree of T to the tree of T and the keys before
\* the first that is too wide, there already or repeated.
THEOREM BatchAddIsCanonical ==
  ASSUME NEW t, NEW T, Holds(t, T), NEW keys, Len(keys) \in Nat,
         \A i \in 1..Len(keys) : keys[i] \in Nat
  PROVE  \E n : /\ Gets(keys, Len(keys), n, Fits \ T)
                /\ batchAdd(t, keys).ok <=> n = Len(keys)
                /\ Holds(batchAdd(t, keys).tree, T \union First(keys, n))
<1>1. PICK done :
        /\ done = [n \in 0..Len(keys) |->
                     IF n = 0 THEN [tree |-> t, ok |-> TRUE]
                     ELSE IF done[n - 1].ok THEN addUnlocked(done[n - 1].tree, keys[n])
                     ELSE done[n - 1]]
        /\ batchAdd(t, keys) = done[Len(keys)]
  BY BatchAddEquation
<1> DEFINE Got(at, i, n) == /\ Gets(keys, i, n, Fits \ T)
                            /\ at.ok \in BOOLEAN /\ (at.ok <=> n = i)
                            /\ Holds(at.tree, T \union First(keys, n))
           Good == {i \in Nat : i <= Len(keys) => \E n : Got(done[i], i, n)}
<1>2. 0 \in Good
  <2>1. done[0].tree = t /\ done[0].ok = TRUE
    BY <1>1
  <2>2. First(keys, 0) = {} /\ Gets(keys, 0, 0, Fits \ T)
    BY DEF First, Distinct, Gets
  <2>3. T \union First(keys, 0) = T
    BY <2>2
  <2>4. Got(done[0], 0, 0)
    BY <2>1, <2>2, <2>3
  <2> HIDE DEF Got
  <2> QED BY <2>4
<1>3. ASSUME NEW i \in Nat, i \in Good PROVE i + 1 \in Good
  <2> HIDE DEF Got
  <2> SUFFICES ASSUME i + 1 <= Len(keys) PROVE \E n : Got(done[i + 1], i + 1, n)
    OBVIOUS
  <2> USE DEF Got
  <2>1. PICK n : Got(done[i], i, n)
    <3> HIDE DEF Got
    <3> QED BY <1>3
  <2>2. i + 1 \in 0..Len(keys) /\ i + 1 # 0 /\ (i + 1) - 1 = i /\ i + 1 \in 1..Len(keys)
    BY <2>1
  <2>3. done[i + 1] = IF done[i].ok THEN addUnlocked(done[i].tree, keys[i + 1]) ELSE done[i]
    BY <1>1, <2>2
  <2>4. n \in 0..i
    BY <2>1 DEF Gets
  <2>5. CASE n # i
    <3>1. done[i + 1] = done[i] /\ n # i + 1
      BY <2>1, <2>3, <2>4, <2>5
    <3>2. Gets(keys, i + 1, n, Fits \ T)
      BY <2>1, <2>5, GetsNext
    <3>3. Got(done[i + 1], i + 1, n)
      BY <2>1, <2>5, <3>1, <3>2
    <3> HIDE DEF Got
    <3> QED BY <3>3
  <2>6. CASE n = i
    <3> DEFINE key == keys[i + 1]
               U == T \union First(keys, i)
               result == addUnlocked(done[i].tree, key)
    <3>1. key \in Nat
      BY <2>2
    <3>2. Holds(done[i].tree, U) /\ done[i].ok
      BY <2>1, <2>6
    <3>3. /\ result.ok \in BOOLEAN
          /\ result.ok <=> key \in Fits \ U
          /\ result.ok => Holds(result.tree, U \union {key})
          /\ ~result.ok => result.tree = done[i].tree
      <4> HIDE DEF U, key
      <4> QED BY <3>1, <3>2, AddIsCanonical
    <3>4. done[i + 1] = result
      BY <2>3, <3>2
    <3>5. key \in Fits \ U <=> key \in (Fits \ T) \ First(keys, i)
      BY <3>1
    <3>6. Gets(keys, i, i, Fits \ T)
      BY <2>1, <2>6
    <3>7. CASE result.ok
      <4>1. Gets(keys, i + 1, i + 1, Fits \ T)
        BY <3>3, <3>5, <3>6, <3>7, GetsNext
      <4>2. T \union First(keys, i + 1) = U \union {key}
        <5>1. First(keys, i + 1) = First(keys, i) \union {key}
          BY FirstNext
        <5> HIDE DEF key
        <5> QED BY <5>1
      <4> HIDE DEF result, U, key
      <4>3. Got(done[i + 1], i + 1, i + 1)
        BY <3>3, <3>4, <3>7, <4>1, <4>2
      <4> HIDE DEF Got
      <4> QED BY <4>3
    <3>8. CASE ~result.ok
      <4>1. Gets(keys, i + 1, i, Fits \ T)
        BY <3>3, <3>5, <3>6, <3>8, GetsNext
      <4> HIDE DEF result
      <4>2. Got(done[i + 1], i + 1, i)
        BY <3>2, <3>3, <3>4, <3>8, <4>1
      <4> HIDE DEF Got
      <4> QED BY <4>2
    <3> QED BY <3>7, <3>8
  <2> QED BY <2>5, <2>6
<1>4. PICK n : Got(done[Len(keys)], Len(keys), n)
  <2>1. Nat \subseteq Good
    <3> HIDE DEF Good
    <3> QED BY <1>2, <1>3, Upward
  <2> HIDE DEF Got
  <2> QED BY <2>1
<1> QED BY <1>1, <1>4

\* A batch of deletions likewise, up to the first key that is not there any more.
THEOREM BatchDeleteIsCanonical ==
  ASSUME NEW t, NEW T, Holds(t, T), NEW keys, Len(keys) \in Nat,
         \A i \in 1..Len(keys) : keys[i] \in Nat
  PROVE  \E n : /\ Gets(keys, Len(keys), n, T)
                /\ batchDelete(t, keys).ok <=> n = Len(keys)
                /\ Holds(batchDelete(t, keys).tree, T \ First(keys, n))
<1>1. PICK done :
        /\ done = [n \in 0..Len(keys) |->
                     IF n = 0 THEN [tree |-> t, ok |-> TRUE]
                     ELSE IF done[n - 1].ok THEN deleteUnlocked(done[n - 1].tree, keys[n])
                     ELSE done[n - 1]]
        /\ batchDelete(t, keys) = done[Len(keys)]
  BY BatchDeleteEquation
<1> DEFINE Got(at, i, n) == /\ Gets(keys, i, n, T)
                            /\ at.ok \in BOOLEAN /\ (at.ok <=> n = i)
                            /\ Holds(at.tree, T \ First(keys, n))
           Good == {i \in Nat : i <= Len(keys) => \E n : Got(done[i], i, n)}
<1>2. 0 \in Good
  <2>1. done[0].tree = t /\ done[0].ok = TRUE
    BY <1>1
  <2>2. First(keys, 0) = {} /\ Gets(keys, 0, 0, T)
    BY DEF First, Distinct, Gets
  <2>3. T \ First(keys, 0) = T
    BY <2>2
  <2>4. Got(done[0], 0, 0)
    BY <2>1, <2>2, <2>3
  <2> HIDE DEF Got
  <2> QED BY <2>4
<1>3. ASSUME NEW i \in Nat, i \in Good PROVE i + 1 \in Good
  <2> HIDE DEF Got
  <2> SUFFICES ASSUME i + 1 <= Len(keys) PROVE \E n : Got(done[i + 1], i + 1, n)
    OBVIOUS
  <2> USE DEF Got
  <2>1. PICK n : Got(done[i], i, n)
    <3> HIDE DEF Got
    <3> QED BY <1>3
  <2>2. i + 1 \in 0..Len(keys) /\ i + 1 # 0 /\ (i + 1) - 1 = i /\ i + 1 \in 1..Len(keys)
    BY <2>1
  <2>3. done[i + 1] = IF done[i].ok THEN deleteUnlocked(done[i].tree, keys[i + 1]) ELSE done[i]
    BY <1>1, <2>2
  <2>4. n \in 0..i
    BY <2>1 DEF Gets
  <2>5. CASE n # i
    <3>1. done[i + 1] = done[i] /\ n # i + 1
      BY <2>1, <2>3, <2>4, <2>5
    <3>2. Gets(keys, i + 1, n, T)
      BY <2>1, <2>5, GetsNext
    <3>3. Got(done[i + 1], i + 1, n)
      BY <2>1, <2>5, <3>1, <3>2
    <3> HIDE DEF Got
    <3> QED BY <3>3
  <2>6. CASE n = i
    <3> DEFINE key == keys[i + 1]
               U == T \ First(keys, i)
               result == deleteUnlocked(done[i].tree, key)
    <3>1. key \in Nat
      BY <2>2
    <3>2. Holds(done[i].tree, U) /\ done[i].ok
      BY <2>1, <2>6
    <3>3. /\ result.ok \in BOOLEAN
          /\ result.ok <=> key \in U
          /\ result.ok => Holds(result.tree, U \ {key})
          /\ ~result.ok => result.tree = done[i].tree
      <4> HIDE DEF U, key
      <4> QED BY <3>1, <3>2, DeleteIsCanonical
    <3>4. done[i + 1] = result
      BY <2>3, <3>2
    <3>5. key \in U <=> key \in (T) \ First(keys, i)
      BY <3>1
    <3>6. Gets(keys, i, i, T)
      BY <2>1, <2>6
    <3>7. CASE result.ok
      <4>1. Gets(keys, i + 1, i + 1, T)
        BY <3>3, <3>5, <3>6, <3>7, GetsNext
      <4>2. T \ First(keys, i + 1) = U \ {key}
        <5>1. First(keys, i + 1) = First(keys, i) \union {key}
          BY FirstNext
        <5> HIDE DEF key
        <5> QED BY <5>1
      <4> HIDE DEF result, U, key
      <4>3. Got(done[i + 1], i + 1, i + 1)
        BY <3>3, <3>4, <3>7, <4>1, <4>2
      <4> HIDE DEF Got
      <4> QED BY <4>3
    <3>8. CASE ~result.ok
      <4>1. Gets(keys, i + 1, i, T)
        BY <3>3, <3>5, <3>6, <3>8, GetsNext
      <4> HIDE DEF result
      <4>2. Got(done[i + 1], i + 1, i)
        BY <3>2, <3>3, <3>4, <3>8, <4>1
      <4> HIDE DEF Got
      <4> QED BY <4>2
    <3> QED BY <3>7, <3>8
  <2> QED BY <2>5, <2>6
<1>4. PICK n : Got(done[Len(keys)], Len(keys), n)
  <2>1. Nat \subseteq Good
    <3> HIDE DEF Good
    <3> QED BY <1>2, <1>3, Upward
  <2> HIDE DEF Got
  <2> QED BY <2>1
<1> QED BY <1>1, <1>4

-----------------------------------------------------------------------------
(* An incremental update builds the tree that a full rebuild builds *)

\* The keys of K in some order, none of them twice.
Lists(keys, K) ==
  /\ Len(keys) \in Nat
  /\ Distinct(keys, Len(keys), K)
  /\ First(keys, Len(keys)) = K

\* A batch that lists its keys without repetition is carried out to the end if all of
\* them are allowed.
LEMMA AllowedListGets ==
  ASSUME NEW keys, NEW K, Lists(keys, K), NEW n, NEW allowed, K \subseteq allowed,
         Gets(keys, Len(keys), n, allowed)
  PROVE  n = Len(keys)
<1> SUFFICES ASSUME n # Len(keys) PROVE FALSE
  OBVIOUS
<1>1. n + 1 \in 1..Len(keys) /\ ~Distinct(keys, n + 1, allowed)
  BY DEF Gets, Lists
<1>2. 1..(n + 1) \subseteq 1..Len(keys)
  BY <1>1 DEF Lists
<1>3. Distinct(keys, n + 1, allowed)
  BY <1>2 DEF Distinct, Lists
<1> QED BY <1>1, <1>3

\* It is carried out to the end only then.
LEMMA DoneListAllowed ==
  ASSUME NEW keys, NEW K, Lists(keys, K), NEW allowed, Gets(keys, Len(keys), Len(keys), allowed)
  PROVE  K \subseteq allowed
BY DEF Gets, Distinct, Lists, First

\* A list of keys is inserted as a whole exactly when all of them fit and are new.
LEMMA ListAdded ==
  ASSUME NEW t, NEW T, Holds(t, T), NEW K \in SUBSET Nat, NEW keys, Lists(keys, K)
  PROVE  /\ batchAdd(t, keys).ok <=> K \subseteq Fits \ T
         /\ batchAdd(t, keys).ok => Holds(batchAdd(t, keys).tree, T \union K)
<1>1. Len(keys) \in Nat /\ First(keys, Len(keys)) = K
      /\ \A i \in 1..Len(keys) : keys[i] \in Nat
  BY DEF Lists, Distinct
<1>2. PICK n : /\ Gets(keys, Len(keys), n, Fits \ T)
               /\ batchAdd(t, keys).ok <=> n = Len(keys)
               /\ Holds(batchAdd(t, keys).tree, T \union First(keys, n))
  BY <1>1, BatchAddIsCanonical
<1>3. ASSUME n = Len(keys) PROVE K \subseteq Fits \ T
  BY <1>2, <1>3, DoneListAllowed
<1>4. ASSUME K \subseteq Fits \ T PROVE n = Len(keys)
  BY <1>2, <1>4, AllowedListGets
<1> QED BY <1>1, <1>2, <1>3, <1>4

\* A list of keys that are there is deleted as a whole.
LEMMA ListDeleted ==
  ASSUME NEW t, NEW T, Holds(t, T), NEW K \in SUBSET T, NEW keys, Lists(keys, K)
  PROVE  batchDelete(t, keys).ok /\ Holds(batchDelete(t, keys).tree, T \ K)
<1>1. T \subseteq Nat
  BY DEF Holds, Fits
<1>2. Len(keys) \in Nat /\ First(keys, Len(keys)) = K
      /\ \A i \in 1..Len(keys) : keys[i] \in Nat
  BY <1>1 DEF Lists, Distinct
<1>3. PICK n : /\ Gets(keys, Len(keys), n, T)
               /\ batchDelete(t, keys).ok <=> n = Len(keys)
               /\ Holds(batchDelete(t, keys).tree, T \ First(keys, n))
  BY <1>2, BatchDeleteIsCanonical
<1>4. n = Len(keys)
  BY <1>3, AllowedListGets
<1> QED BY <1>2, <1>3, <1>4

\* smtbuild's incremental update: deleting what is no longer listed always succeeds;
\* adding what is new then succeeds exactly when all of it fits, and leaves the tree
\* that holds the new serials.  A full rebuild succeeds for the same serials and
\* ends with the same root, nodes and count, whatever the orders in the lists were.
THEOREM UpdateIsRebuild ==
  ASSUME NEW t, NEW Old, Holds(t, Old), NEW New \in SUBSET Nat,
         NEW toDelete, Lists(toDelete, Old \ New),
         NEW toAdd, Lists(toAdd, New \ Old),
         NEW all, Lists(all, New)
  PROVE  LET deleted == batchDelete(t, toDelete)
             updated == batchAdd(deleted.tree, toAdd)
             rebuilt == batchAdd(NewTree, all)
         IN  /\ deleted.ok
             /\ updated.ok <=> New \subseteq Fits
             /\ rebuilt.ok <=> New \subseteq Fits
             /\ New \subseteq Fits => Holds(updated.tree, New) /\ rebuilt.tree = updated.tree
<1> DEFINE deleted == batchDelete(t, toDelete)
           updated == batchAdd(deleted.tree, toAdd)
           rebuilt == batchAdd(NewTree, all)
           Kept == Old \intersect New
<1>1. Old \subseteq Fits /\ Old \subseteq Nat
  BY DEF Holds, Fits
<1>2. deleted.ok /\ Holds(deleted.tree, Kept)
  <2>1. Old \ New \in SUBSET Old /\ Old \ (Old \ New) = Kept
    OBVIOUS
  <2> HIDE DEF Kept
  <2> QED BY <2>1, ListDeleted
<1> HIDE DEF deleted
<1>3. /\ updated.ok <=> New \subseteq Fits
      /\ updated.ok => Holds(updated.tree, New)
  <2>1. New \ Old \in SUBSET Nat /\ Kept \union (New \ Old) = New
    OBVIOUS
  <2>2. New \ Old \subseteq Fits \ Kept <=> New \subseteq Fits
    BY <1>1
  <2> HIDE DEF Kept
  <2>3. /\ updated.ok <=> New \ Old \subseteq Fits \ Kept
        /\ updated.ok => Holds(updated.tree, Kept \union (New \ Old))
    BY <1>2, <2>1, ListAdded
  <2> QED BY <2>1, <2>2, <2>3
<1>4. /\ rebuilt.ok <=> New \subseteq Fits
      /\ rebuilt.ok => Holds(rebuilt.tree, New)
  <2>1. Fits \ {} = Fits /\ {} \union New = New
    OBVIOUS
  <2> DEFINE none == {}
  <2>2. Holds(NewTree, none)
    BY NewTreeIsEmpty
  <2> HIDE DEF none
  <2>3. /\ rebuilt.ok <=> New \subseteq Fits \ none
        /\ rebuilt.ok => Holds(rebuilt.tree, none \union New)
    BY <2>2, ListAdded
  <2> QED BY <2>1, <2>3 DEF none
<1> HIDE DEF updated, rebuilt
<1>5. New \subseteq Fits => rebuilt.tree = updated.tree
  BY <1>3, <1>4 DEF Holds
<1> QED BY <1>2, <1>3, <1>4, <1>5 DEF deleted, updated, rebuilt

-----------------------------------------------------------------------------
(* What the tree that holds S consists of *)

\* A node is a branch or the leaf of one of the keys, and stands for the keys below it.
LEMMA NodeKinds ==
  ASSUME NEW S \in SUBSET Fits, NEW k \in S, NEW i \in 0..Depth
  PROVE  LET K == Below(S, KeyToPath(k), i)
             n == Subtree(i, K)
         IN  /\ k \in K /\ K \in SUBSET Fits /\ Together(K, i) /\ n # zero
             /\ IsLeaf(n) <=> ~Two(K)
             /\ IsLeaf(n) => n = Leaf(k) /\ K = {k}
             /\ ~IsLeaf(n) => /\ i \in 0..(Depth - 1)
                              /\ n = Hash2(Subtree(i + 1, Half(K, i, 0)),
                                           Subtree(i + 1, Half(K, i, 1)))
<1> DEFINE K == Below(S, KeyToPath(k), i)
<1>1. k \in Nat /\ KeyToPath(k) \in Bits /\ k \in K
  BY PathType DEF Fits, Below
<1>2. K \in SUBSET Fits /\ Together(K, i) /\ K \in SUBSET Nat
  BY <1>1, BelowType DEF Fits
<1> HIDE DEF K
<1>3. Subtree(i, K) # zero /\ (IsLeaf(Subtree(i, K)) <=> \E l \in K : K = {l})
  BY <1>1, <1>2, SubtreeShape
<1>4. CASE Two(K)
  <2>1. i \in 0..(Depth - 1) /\ ~IsLeaf(Subtree(i, K))
    BY <1>2, <1>4, SubtreeShape
  <2>2. Subtree(i, K) = Hash2(Subtree(i + 1, Half(K, i, 0)), Subtree(i + 1, Half(K, i, 1)))
    BY <1>2, <1>4, <2>1, SubtreeOfTwo
  <2> QED BY <1>1, <1>2, <1>3, <1>4, <2>1, <2>2 DEF K
<1>5. CASE ~Two(K)
  <2>1. K = {k}
    BY <1>1, <1>5 DEF Two
  <2>2. Subtree(i, K) = Leaf(k)
    BY <1>1, <2>1, SubtreeOfOne
  <2> QED BY <1>1, <1>2, <1>3, <1>5, <2>1, <2>2, Shapes DEF K
<1> QED BY <1>4, <1>5

\* The leaves are those of the keys.
LEMMA KeysHeld ==
  ASSUME NEW t, NEW S, Holds(t, S)
  PROVE  Keys(t) = S
<1>1. S \in SUBSET Fits /\ t.nodes = NodesOf(S)
  BY DEF Holds
<1>2. Keys(t) = {n[1] : n \in {n \in NodesOf(S) : IsLeaf(n)}}
  BY <1>1 DEF Keys
<1>3. ASSUME NEW n \in NodesOf(S), IsLeaf(n) PROVE n[1] \in S
  <2>1. PICK k \in S, i \in 0..Depth : n = Subtree(i, Below(S, KeyToPath(k), i))
    BY DEF NodesOf
  <2>2. n = Leaf(k)
    BY <1>1, <1>3, <2>1, NodeKinds
  <2> QED BY <2>2, Shapes
<1>4. ASSUME NEW k \in S PROVE Leaf(k) \in NodesOf(S) /\ IsLeaf(Leaf(k)) /\ Leaf(k)[1] = k
  BY <1>1, LeafStored, Shapes
<1> QED BY <1>2, <1>3, <1>4

\* A node of the map is a branch or a leaf.
LEMMA NodeLength ==
  ASSUME NEW S \in SUBSET Fits, NEW n \in NodesOf(S)
  PROVE  Len(n) \in {2, 3}
<1>1. PICK k \in S, i \in 0..Depth : n = Subtree(i, Below(S, KeyToPath(k), i))
  BY DEF NodesOf
<1>2. CASE IsLeaf(n)
  BY <1>2 DEF IsLeaf
<1>3. CASE ~IsLeaf(n)
  <2>1. \E l, r : n = Hash2(l, r)
    BY <1>1, <1>3, NodeKinds
  <2> QED BY <2>1 DEF Hash2
<1> QED BY <1>2, <1>3

ChildrenOf(nodes) == UNION {{h[1], h[2]} : h \in {n \in nodes : ~IsLeaf(n)}}

LevelStep(level, root) ==
  [d \in 0..Depth |-> IF d = 0 THEN {root} \ {zero} ELSE ChildrenOf(level[d - 1]) \ {zero}]

\* Reachable goes one level down at a time.
LEMMA ReachableEquation ==
  ASSUME NEW root
  PROVE  \E level : /\ level = LevelStep(level, root)
                    /\ Reachable(root) = UNION {level[d] : d \in 0..Depth}
<1> DEFINE Body(g, d) ==
             IF d = 0 THEN {root} \ {zero}
             ELSE (UNION {{h[1], h[2]} : h \in {n \in g[d - 1] : ~IsLeaf(n)}}) \ {zero}
           UpTo(m, g) == g = [d \in 0..m |-> Body(g, d)]
           Reached == {m \in Nat : \E g : UpTo(m, g)}
           level == CHOOSE g : UpTo(Depth, g)
<1>1. 0 \in Reached
  <2> DEFINE g == [d \in 0..0 |-> {root} \ {zero}]
  <2>1. UpTo(0, g)
    OBVIOUS
  <2> HIDE DEF UpTo, g
  <2> QED BY <2>1
<1>2. ASSUME NEW m \in Nat, m \in Reached PROVE m + 1 \in Reached
  <2>1. PICK g : UpTo(m, g)
    BY <1>2
  <2> DEFINE h == [i \in 0..(m + 1) |-> IF i = m + 1 THEN Body(g, m + 1) ELSE g[i]]
  <2> HIDE DEF Body
  <2>2. ASSUME NEW i \in 0..(m + 1) PROVE h[i] = Body(h, i)
    <3>1. i # 0 => h[i - 1] = g[i - 1]
      OBVIOUS
    <3>2. Body(h, i) = Body(g, i)
      BY <3>1 DEF Body
    <3>3. i # m + 1 => g[i] = Body(g, i)
      BY <2>1
    <3> QED BY <3>2, <3>3
  <2>3. UpTo(m + 1, h)
    BY <2>2
  <2> HIDE DEF UpTo, h
  <2> QED BY <2>3
<1>3. Depth \in Reached
  <2> HIDE DEF Reached
  <2>1. Nat \subseteq Reached
    BY <1>1, <1>2, Upward
  <2> QED BY <2>1, DepthAssumption
<1>4. UpTo(Depth, level)
  <2> HIDE DEF UpTo
  <2> QED BY <1>3
<1>5. Reachable(root) = UNION {level[d] : d \in 0..Depth}
  BY DEF Reachable
<1> HIDE DEF level
<1>6. level = LevelStep(level, root)
  BY <1>4 DEF LevelStep, ChildrenOf
<1> QED BY <1>5, <1>6

\* Nothing but the nodes of the tree is reached from its root, and each of them is.
THEOREM ReachableIsCanonical ==
  ASSUME NEW S \in SUBSET Fits
  PROVE  Reachable(Canonical(S)) = NodesOf(S)
<1> DEFINE Node(k, d) == Subtree(d, Below(S, KeyToPath(k), d))
           Branched(k, d) == \A i \in 0..(d - 1) : Two(Below(S, KeyToPath(k), i))
           At(d) == {Node(k, d) : k \in {k \in S : Branched(k, d)}}
<1>1. PICK level : /\ level = LevelStep(level, Canonical(S))
                   /\ Reachable(Canonical(S)) = UNION {level[d] : d \in 0..Depth}
  BY ReachableEquation
<1> DEFINE Good == {d \in Nat : d <= Depth => level[d] = At(d)}
<1>2. Depth \in Nat /\ \A k \in S : k \in Nat /\ KeyToPath(k) \in Bits
  BY PathType, DepthAssumption DEF Fits
<1>3. 0 \in Good
  <2>1. level[0] = {Canonical(S)} \ {zero}
    BY <1>1, <1>2 DEF LevelStep
  <2>2. \A k \in S : Node(k, 0) = Canonical(S) /\ Branched(k, 0)
    BY BelowTop DEF Canonical
  <2>3. CASE S = {}
    <3>1. Canonical(S) = zero
      BY <2>3, <1>2, SubtreeOfNone DEF Canonical
    <3> QED BY <2>1, <2>3, <3>1
  <2>4. CASE S # {}
    <3>1. PICK k \in S : TRUE
      BY <2>4
    <3>2. Canonical(S) # zero
      <4>1. 0 \in 0..Depth
        BY <1>2
      <4>2. Node(k, 0) # zero
        BY <4>1, NodeKinds
      <4> QED BY <2>2, <4>2
    <3>3. At(0) = {Canonical(S)}
      <4> HIDE DEF Node, Branched
      <4> QED BY <2>2, <3>1
    <3> HIDE DEF At
    <3> QED BY <2>1, <3>2, <3>3
  <2> QED BY <2>3, <2>4
<1>4. ASSUME NEW d \in Nat, d \in Good PROVE d + 1 \in Good
  <2> HIDE DEF At
  <2> SUFFICES ASSUME d + 1 <= Depth PROVE level[d + 1] = At(d + 1)
    OBVIOUS
  <2>1. /\ d \in 0..Depth /\ d \in 0..(Depth - 1) /\ d + 1 \in 0..Depth
        /\ d + 1 # 0 /\ (d + 1) - 1 = d
    BY <1>2
  <2>2. \A c : c \in level[d + 1] <=>
               c # zero /\ \E h \in At(d) : ~IsLeaf(h) /\ (c = h[1] \/ c = h[2])
    <3>1. level[d] = At(d)
      BY <1>4, <2>1
    <3> DEFINE Inner == {n \in At(d) : ~IsLeaf(n)}
               Children == ChildrenOf(At(d))
               IsChild(c) == \E h \in At(d) : ~IsLeaf(h) /\ (c = h[1] \/ c = h[2])
    <3>2. level[d + 1] = ChildrenOf(level[d]) \ {zero}
      <4>1. level[d + 1] = ChildrenOf(level[(d + 1) - 1]) \ {zero}
        BY <1>1, <2>1 DEF LevelStep
      <4> QED BY <2>1, <4>1
    <3>3. level[d + 1] = Children \ {zero}
      <4> QED BY <3>1, <3>2
    <3>4. ASSUME NEW c, c \in Children PROVE IsChild(c)
      <4>1. PICK h \in Inner : c \in {h[1], h[2]}
        BY <3>4 DEF ChildrenOf
      <4> QED BY <4>1
    <3>5. ASSUME NEW c, IsChild(c) PROVE c \in Children
      <4>1. PICK h \in At(d) : ~IsLeaf(h) /\ (c = h[1] \/ c = h[2])
        BY <3>5
      <4>2. h \in Inner /\ c \in {h[1], h[2]}
        BY <4>1
      <4>3. Children = UNION {{g[1], g[2]} : g \in Inner}
        BY DEF ChildrenOf
      <4> HIDE DEF Inner, Children
      <4> QED BY <4>2, <4>3
    <3> HIDE DEF Children, IsChild
    <3>6. \A c : c \in level[d + 1] <=> c # zero /\ IsChild(c)
      BY <3>3, <3>4, <3>5
    <3> QED BY <3>6 DEF IsChild
  <2>3. ASSUME NEW c \in At(d + 1) PROVE c \in level[d + 1]
    <3>1. PICK k \in S : Branched(k, d + 1) /\ c = Node(k, d + 1)
      BY <2>3 DEF At
    <3> DEFINE p == KeyToPath(k)
               K == Below(S, p, d)
    <3>2. Two(K) /\ Branched(k, d)
      BY <3>1, <2>1
    <3>3. Node(k, d) \in At(d)
      <4> HIDE DEF Node, Branched
      <4> QED BY <3>2 DEF At
    <3>4. ~IsLeaf(Node(k, d))
      BY <2>1, <3>2, NodeKinds
    <3>5. Node(k, d) = Hash2(Subtree(d + 1, Half(K, d, 0)), Subtree(d + 1, Half(K, d, 1)))
      BY <2>1, <3>4, NodeKinds
    <3>6. Below(S, p, d + 1) = Half(K, d, p[d]) /\ p[d] \in {0, 1}
      BY <1>2, <2>1, BelowNext DEF Bits
    <3>7. c = Node(k, d)[1] \/ c = Node(k, d)[2]
      <4>1. c = Subtree(d + 1, Half(K, d, 0)) \/ c = Subtree(d + 1, Half(K, d, 1))
        BY <3>1, <3>6
      <4> HIDE DEF Node
      <4> QED BY <4>1, <3>5, Shapes
    <3>8. c # zero
      BY <2>1, <3>1, NodeKinds
    <3> HIDE DEF Node
    <3> QED BY <2>2, <3>3, <3>4, <3>7, <3>8
  <2>4. ASSUME NEW c \in level[d + 1] PROVE c \in At(d + 1)
    <3>1. PICK h \in At(d) : ~IsLeaf(h) /\ (c = h[1] \/ c = h[2]) /\ c # zero
      BY <2>2, <2>4
    <3>2. PICK k \in S : Branched(k, d) /\ h = Node(k, d)
      BY <3>1 DEF At
    <3> DEFINE p == KeyToPath(k)
               K == Below(S, p, d)
    <3>3. /\ K \in SUBSET Fits /\ Two(K)
          /\ Node(k, d) = Hash2(Subtree(d + 1, Half(K, d, 0)), Subtree(d + 1, Half(K, d, 1)))
      BY <2>1, <3>1, <3>2, NodeKinds
    <3>4. PICK b \in {0, 1} : c = Subtree(d + 1, Half(K, d, b))
      <4> HIDE DEF K, Node
      <4>1. c = Subtree(d + 1, Half(K, d, 0)) \/ c = Subtree(d + 1, Half(K, d, 1))
        BY <3>1, <3>2, <3>3, Shapes
      <4> QED BY <4>1
    <3>5. Half(K, d, b) # {}
      BY <2>1, <3>1, <3>4, SubtreeOfNone
    <3>6. PICK l \in K : KeyToPath(l)[d] = b
      BY <3>5 DEF Half
    <3> DEFINE q == KeyToPath(l)
    <3>7. l \in S /\ \A j \in 0..(d - 1) : q[j] = p[j]
      BY <3>6 DEF Below
    <3>8. \A i \in 0..d : Below(S, q, i) = Below(S, p, i)
      BY <2>1, <3>7, SamePrefix
    <3>9. Below(S, q, d + 1) = Half(K, d, b)
      <4>1. Below(S, q, d + 1) = Half(Below(S, q, d), d, q[d])
        BY <1>2, <2>1, <3>7, BelowNext
      <4>2. Below(S, q, d) = K
        BY <3>8, <2>1
      <4> QED BY <4>1, <4>2, <3>6
    <3>10. Branched(l, d + 1)
      <4>1. ASSUME NEW i \in 0..((d + 1) - 1) PROVE Two(Below(S, q, i))
        <5>1. Below(S, q, i) = Below(S, p, i)
          BY <3>8, <2>1
        <5>2. CASE i = d
          BY <5>1, <5>2, <3>3
        <5>3. CASE i # d
          <6>1. i \in 0..(d - 1)
            BY <5>3, <2>1
          <6> QED BY <5>1, <6>1, <3>2
        <5> QED BY <5>2, <5>3
      <4> QED BY <4>1
    <3>11. c = Node(l, d + 1)
      BY <3>4, <3>9
    <3> HIDE DEF Node, Branched
    <3> QED BY <3>7, <3>10, <3>11 DEF At
  <2> QED BY <2>3, <2>4
<1>5. \A d \in 0..Depth : level[d] = At(d)
  <2>1. Nat \subseteq Good
    <3> HIDE DEF Good
    <3> QED BY <1>3, <1>4, Upward
  <2> HIDE DEF At
  <2>2. \A d \in 0..Depth : d \in Nat /\ d <= Depth
    BY <1>2
  <2> QED BY <2>1, <2>2
<1>6. ASSUME NEW n, n \in Reachable(Canonical(S)) PROVE n \in NodesOf(S)
  <2>1. PICK d \in 0..Depth : n \in At(d)
    <3> HIDE DEF At
    <3> QED BY <1>1, <1>5, <1>6
  <2> QED BY <2>1 DEF NodesOf
<1>7. ASSUME NEW n, n \in NodesOf(S) PROVE n \in Reachable(Canonical(S))
  <2>1. PICK k \in S, i \in 0..Depth : n = Node(k, i)
    BY <1>7 DEF NodesOf
  <2>2. KeyToPath(k) \in Bits
    BY <1>2
  <2>3. PICK m : IsFork(S, KeyToPath(k), m)
    BY <2>2, ForkExists
  <2>4. m \in 0..Depth /\ Branched(k, m) /\ ~Two(Below(S, KeyToPath(k), m))
    BY <2>3 DEF IsFork
  <2>5. \E d \in 0..Depth : Branched(k, d) /\ n = Node(k, d)
    <3>1. CASE i <= m
      <4>1. 0..(i - 1) \subseteq 0..(m - 1)
        BY <3>1, <2>4, <1>2
      <4>2. Branched(k, i)
        BY <4>1, <2>4
      <4> HIDE DEF Branched, Node
      <4> QED BY <4>2, <2>1
    <3>2. CASE ~(i <= m)
      <4>1. ~Two(Below(S, KeyToPath(k), i))
        <5>1. ~(i < m)
          BY <3>2, <2>4, <1>2
        <5> QED BY <5>1, <2>2, <2>3, ForkDivides
      <4>2. n = Leaf(k)
        BY <2>1, <4>1, NodeKinds
      <4>3. Node(k, m) = Leaf(k)
        BY <2>4, NodeKinds
      <4> HIDE DEF Branched, Node
      <4> QED BY <2>4, <4>2, <4>3
    <3> QED BY <3>1, <3>2
  <2>6. \E d \in 0..Depth : n \in At(d)
    <3> HIDE DEF Branched, Node
    <3> QED BY <2>5
  <2> HIDE DEF At
  <2> QED BY <1>1, <1>5, <2>6
<1> QED BY <1>6, <1>7
=============================================================================
