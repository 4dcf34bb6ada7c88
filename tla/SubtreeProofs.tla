--------------------------- MODULE SubtreeProofs ----------------------------
(* Facts about the tree of a set of keys: paths, nodes, and the subtree of  *)
(* the given keys at a given level, for any Depth and any keys.             *)
EXTENDS MerkleTree, FiniteSetTheorems, TLAPS

-----------------------------------------------------------------------------
(* Induction and powers of two *)

\* Every set of naturals that is not empty has a least element: the form in which
\* the proofs below argue by induction on the levels of the tree.
LEMMA LeastNatural ==
  ASSUME NEW T \in SUBSET Nat, T # {}
  PROVE  \E x \in T : \A y \in T : x <= y
<1>1. PICK x \in T : \A y \in T : ~(<<y, x>> \in OpToRel(<, Nat))
  BY WFMin, NatLessThanWellFounded
<1>2. \A y \in T : <<y, x>> \in OpToRel(<, Nat) <=> y < x
  BY DEF OpToRel
<1>3. \A y \in T : ~(y < x)
  BY <1>1, <1>2
<1> HIDE DEF OpToRel
<1> QED
  BY <1>3

\* Induction from 0 up, for a set of naturals.
LEMMA Upward ==
  ASSUME NEW T, 0 \in T, \A n \in Nat : n \in T => n + 1 \in T
  PROVE  Nat \subseteq T
<1> DEFINE Missing == {n \in Nat : n \notin T}
<1>1. SUFFICES ASSUME Missing # {} PROVE FALSE
  OBVIOUS
<1>2. PICK m \in Missing : \A i \in Missing : m <= i
  <2> HIDE DEF Missing
  <2>1. Missing \in SUBSET Nat
    BY DEF Missing
  <2> QED BY <1>1, <2>1, LeastNatural
<1>3. m # 0 /\ m - 1 \in Nat /\ m - 1 \notin Missing
  BY <1>2
<1>4. (m - 1) + 1 \in T
  BY <1>3
<1> QED BY <1>3, <1>4

\* Induction from n down to 0: from the bottom of the tree, or of a proof, to the root.
LEMMA Downward ==
  ASSUME NEW n \in Nat, NEW T, n \in T, \A i \in 1..n : i \in T => i - 1 \in T
  PROVE  0..n \subseteq T
<1> DEFINE U == {k \in Nat : k > n \/ n - k \in T}
<1>1. 0 \in U
  OBVIOUS
<1>2. ASSUME NEW k \in Nat, k \in U PROVE k + 1 \in U
  <2>1. CASE k + 1 > n
    BY <2>1
  <2>2. CASE k + 1 <= n
    <3>1. n - k \in 1..n /\ n - k \in T
      BY <2>2, <1>2
    <3>2. (n - k) - 1 \in T
      BY <3>1
    <3>3. (n - k) - 1 = n - (k + 1)
      BY <2>2
    <3> QED BY <3>2, <3>3
  <2> QED BY <2>1, <2>2
<1>3. Nat \subseteq U
  <2> HIDE DEF U
  <2> QED BY <1>1, <1>2, Upward
<1>4. ASSUME NEW i \in 0..n PROVE i \in T
  <2>1. n - i \in U /\ n - i <= n
    BY <1>3
  <2> QED BY <2>1
<1> QED BY <1>4

\* The powers of two that split a key into bits are positive, and double.
LEMMA Doubling ==
  ASSUME NEW n \in Nat
  PROVE  2^n \in Nat \ {0} /\ 2^(n + 1) = 2 * 2^n
<1> DEFINE A == SUBSET (1..n)
           B == {T \union {n + 1} : T \in A}
           f == [T \in A |-> T \union {n + 1}]
<1>1. IsFiniteSet(1..n) /\ Cardinality(1..n) = n
  BY FS_Interval
<1>2. IsFiniteSet(1..(n + 1)) /\ Cardinality(1..(n + 1)) = n + 1
  BY FS_Interval
<1>3. IsFiniteSet(A) /\ Cardinality(A) = 2^n
  BY <1>1, FS_SUBSET
<1>4. Cardinality(SUBSET (1..(n + 1))) = 2^(n + 1)
  BY <1>2, FS_SUBSET
<1>5. f \in Bijection(A, B)
  <2>1. f \in [A -> B]
    OBVIOUS
  <2>2. \A T, U \in A : f[T] = f[U] => T = U
    <3> SUFFICES ASSUME NEW T \in A, NEW U \in A, f[T] = f[U] PROVE T = U
      OBVIOUS
    <3>1. n + 1 \notin T /\ n + 1 \notin U
      OBVIOUS
    <3>2. T \union {n + 1} = U \union {n + 1}
      OBVIOUS
    <3> QED BY <3>1, <3>2
  <2>3. \A b \in B : \E T \in A : f[T] = b
    OBVIOUS
  <2> QED BY <2>1, <2>2, <2>3 DEF Bijection, Injection, Surjection, IsInjective
<1>6. IsFiniteSet(B) /\ Cardinality(B) = Cardinality(A)
  BY <1>3, <1>5, FS_Bijection DEF ExistsBijection
<1>7. SUBSET (1..(n + 1)) = A \union B
  <2>1. ASSUME NEW T \in SUBSET (1..(n + 1)) PROVE T \in A \union B
    <3>1. CASE n + 1 \in T
      <4>1. T \ {n + 1} \in A
        OBVIOUS
      <4>2. T = (T \ {n + 1}) \union {n + 1}
        BY <3>1
      <4> QED BY <4>1, <4>2
    <3>2. CASE n + 1 \notin T
      <4>1. T \in A
        BY <3>2
      <4> QED BY <4>1
    <3> QED BY <3>1, <3>2
  <2>2. A \subseteq SUBSET (1..(n + 1))
    OBVIOUS
  <2>3. ASSUME NEW b \in B PROVE b \in SUBSET (1..(n + 1))
    <3>1. PICK T \in A : b = T \union {n + 1}
      OBVIOUS
    <3>2. n + 1 \in 1..(n + 1) /\ T \subseteq 1..(n + 1)
      OBVIOUS
    <3> QED BY <3>1, <3>2
  <2> QED BY <2>1, <2>2, <2>3
<1>8. A \intersect B = {}
  OBVIOUS
<1> HIDE DEF A, B, f
<1>9. Cardinality(A \union B) = Cardinality(A) + Cardinality(B) - Cardinality({})
  BY <1>3, <1>6, <1>8, FS_Union
<1>10. Cardinality({}) = 0 /\ Cardinality(A) \in Nat /\ A # {}
  <2>1. {} \in A
    BY DEF A
  <2> QED BY <2>1, <1>3, FS_CardinalityType, FS_EmptySet
<1>11. Cardinality(A) # 0
  BY <1>3, <1>10, FS_EmptySet
<1> DEFINE p == 2^n
           q == 2^(n + 1)
<1>12. Cardinality(A) = p /\ Cardinality(A \union B) = q
  BY <1>3, <1>4, <1>7
<1> HIDE DEF p, q
<1>13. p \in Nat \ {0} /\ q = 2 * p
  BY <1>12, <1>6, <1>9, <1>10, <1>11
<1> QED
  BY <1>13 DEF p, q

\* A quotient is known by its remainder.
LEMMA Quotient ==
  ASSUME NEW k \in Nat, NEW d \in Nat \ {0}, NEW a \in Nat, NEW r \in Nat,
         k = d * a + r, r < d
  PROVE  k \div d = a
<1> DEFINE e == k \div d
<1>1. e \in Int /\ d * e <= k /\ k < d * (e + 1)
  OBVIOUS
<1> HIDE DEF e
<1>2. ASSUME e < a PROVE FALSE
  <2>1. e + 1 <= a
    BY <1>1, <1>2
  <2>2. d * (e + 1) <= d * a
    BY <2>1, <1>1
  <2> QED BY <2>2, <1>1
<1>3. ASSUME a < e PROVE FALSE
  <2>1. a + 1 <= e
    BY <1>1, <1>3
  <2>2. d * (a + 1) <= d * e
    BY <2>1, <1>1
  <2>3. d * (a + 1) = d * a + d
    OBVIOUS
  <2> QED BY <2>2, <2>3, <1>1
<1>4. e = a
  BY <1>1, <1>2, <1>3
<1> QED BY <1>4 DEF e

\* Shifting a key by one bit more halves what is left of it.
LEMMA HalfQuotient ==
  ASSUME NEW k \in Nat, NEW p \in Nat \ {0}
  PROVE  /\ k \div p \in Nat
         /\ k \div (2 * p) = (k \div p) \div 2
<1> DEFINE q == k \div p
           r == k % p
           a == q \div 2
           b == q % 2
<1>1. q \in Nat /\ r \in Nat /\ r < p /\ k = p * q + r
  OBVIOUS
<1> HIDE DEF q, r
<1>2. a \in Nat /\ b \in {0, 1} /\ q = 2 * a + b
  BY <1>1
<1> HIDE DEF a, b
<1> DEFINE c == p * b
           g == (2 * p) * a
<1>3. p * q = g + c
  BY <1>1, <1>2
<1>4. c \in Nat /\ c <= p /\ g \in Nat
  BY <1>2
<1> HIDE DEF c, g
<1>5. k = g + (c + r) /\ c + r \in Nat /\ c + r < 2 * p
  BY <1>1, <1>3, <1>4
<1> USE DEF c, g
<1>6. k \div (2 * p) = a
  BY <1>2, <1>5, Quotient
<1> QED BY <1>1, <1>6 DEF q, a

-----------------------------------------------------------------------------
(* Paths *)

Bits == [0..(Depth - 1) -> {0, 1}]

\* KeyToPath gives one bit for each level.
LEMMA PathType ==
  ASSUME NEW k \in Nat
  PROVE  KeyToPath(k) \in Bits
<1> SUFFICES ASSUME NEW i \in 0..(Depth - 1) PROVE (k \div 2^i) % 2 \in {0, 1}
  BY DEF KeyToPath, Bits
<1>1. i \in Nat
  BY DepthAssumption
<1>2. k \div 2^i \in Nat
  BY <1>1, Doubling, HalfQuotient
<1> QED BY <1>2

\* Keys that fit are told apart by their paths.
LEMMA PathsDiffer ==
  ASSUME NEW k \in Nat, NEW l \in Nat, ~Exceeds(k), ~Exceeds(l),
         \A i \in 0..(Depth - 1) : KeyToPath(k)[i] = KeyToPath(l)[i]
  PROVE  k = l
<1> DEFINE Same == {i \in Nat : i <= Depth /\ k \div 2^i = l \div 2^i}
<1>1. Depth \in Same
  <2>1. Depth \in Nat
    BY DepthAssumption
  <2>2. 2^Depth \in Nat \ {0} /\ k < 2^Depth /\ l < 2^Depth
    BY <2>1, Doubling DEF Exceeds
  <2> DEFINE d == 2^Depth
  <2> HIDE DEF d
  <2>3. d \in Nat \ {0} /\ k < d /\ l < d
    BY <2>2 DEF d
  <2>4. k = d * 0 + k /\ l = d * 0 + l
    BY <2>3
  <2>5. k \div d = 0 /\ l \div d = 0
    BY <2>3, <2>4, Quotient
  <2> QED BY <2>1, <2>5 DEF d
<1>2. PICK m \in Same : \A i \in Same : m <= i
  BY <1>1, LeastNatural
<1>3. ASSUME m # 0 PROVE FALSE
  <2> DEFINE i == m - 1
             p == 2^i
             a == k \div p
             b == l \div p
  <2>1. i \in Nat /\ i \in 0..(Depth - 1) /\ m = i + 1
    BY <1>2, <1>3, DepthAssumption
  <2>2. p \in Nat \ {0} /\ 2^m = 2 * p
    BY <2>1, Doubling
  <2>4. a % 2 = b % 2
    BY <2>1 DEF KeyToPath
  <2> HIDE DEF p
  <2>3. /\ a \in Nat /\ k \div (2 * p) = a \div 2
        /\ b \in Nat /\ l \div (2 * p) = b \div 2
    BY <2>2, HalfQuotient
  <2>5. a \div 2 = b \div 2
    BY <2>2, <2>3, <1>2
  <2> HIDE DEF a, b
  <2>6. a = b
    BY <2>3, <2>4, <2>5
  <2>7. i \in Same
    BY <2>1, <2>6, DepthAssumption DEF a, b, p
  <2> QED BY <2>1, <2>7, <1>2
<1>4. 0 \in Same
  BY <1>2, <1>3
<1>5. k \div 1 = k /\ l \div 1 = l
  <2>1. k = 1 * k + 0 /\ l = 1 * l + 0
    OBVIOUS
  <2> QED BY <2>1, Quotient
<1>6. 2^0 = 1
  OBVIOUS
<1> QED BY <1>4, <1>5, <1>6

-----------------------------------------------------------------------------
(* Nodes *)

\* The hash is ideal, and zero, leaves and branches are told apart.
LEMMA Shapes ==
  /\ ~IsLeaf(zero)
  /\ \A k : IsLeaf(Leaf(k)) /\ Leaf(k) # zero /\ Leaf(k)[1] = k
  /\ \A l, r : /\ ~IsLeaf(Hash2(l, r)) /\ Hash2(l, r) # zero
               /\ Hash2(l, r)[1] = l /\ Hash2(l, r)[2] = r
  /\ \A k, l : Leaf(k) = Leaf(l) => k = l
  /\ \A k, l, r : Leaf(k) # Hash2(l, r)
BY DEF IsLeaf, Leaf, Hash3, Hash2, zero

-----------------------------------------------------------------------------
(* The recursive functions are what their equations say *)

ClimbStep(climb, node, path, siblings) ==
  [i \in 0..Len(siblings) |->
     IF i = Len(siblings) THEN node
     ELSE IF path[i] = 1 THEN Hash2(siblings[i + 1], climb[i + 1])
                         ELSE Hash2(climb[i + 1], siblings[i + 1])]

\* Climb, the loop of addNewNodes, deleteOldNodes and calculateRootStatic, computes
\* each level from the one below.
LEMMA ClimbEquation ==
  ASSUME NEW node, NEW path, NEW siblings, Len(siblings) \in Nat
  PROVE  LET climb == Climb(node, path, siblings)
         IN  climb = ClimbStep(climb, node, path, siblings)
<1> DEFINE n == Len(siblings)
           Body(g, i) == IF i = n THEN node
                         ELSE IF path[i] = 1 THEN Hash2(siblings[i + 1], g[i + 1])
                                             ELSE Hash2(g[i + 1], siblings[i + 1])
           From(m, g) == g = [i \in m..n |-> Body(g, i)]
           Reached == {m \in 0..n : \E g : From(m, g)}
<1>1. n \in Reached
  <2> DEFINE g == [i \in n..n |-> node]
  <2>1. From(n, g)
    OBVIOUS
  <2> HIDE DEF From, g
  <2> QED BY <2>1
<1>2. ASSUME NEW m \in 1..n, m \in Reached PROVE m - 1 \in Reached
  <2>1. PICK g : From(m, g)
    BY <1>2
  <2> DEFINE h == [i \in (m - 1)..n |-> IF i = m - 1 THEN Body(g, m - 1) ELSE g[i]]
  <2>2. ASSUME NEW i \in (m - 1)..n PROVE h[i] = Body(h, i)
    <3>1. CASE i = m - 1
      <4>1. h[i] = Body(g, i)
        BY <3>1
      <4>2. i # n /\ i + 1 \in m..n /\ i + 1 # m - 1
        BY <3>1
      <4>3. h[i + 1] = g[i + 1]
        BY <4>2
      <4> QED BY <4>1, <4>3
    <3>2. CASE i # m - 1
      <4>1. i \in m..n
        BY <3>2
      <4>2. h[i] = g[i] /\ g[i] = Body(g, i)
        BY <3>2, <4>1, <2>1
      <4>3. i # n => h[i + 1] = g[i + 1]
        BY <4>1
      <4> QED BY <4>2, <4>3
    <3> QED BY <3>1, <3>2
  <2>3. From(m - 1, h)
    BY <2>2
  <2> HIDE DEF From, h
  <2> QED BY <2>3
<1>3. 0 \in Reached
  <2> HIDE DEF Reached
  <2> QED BY <1>1, <1>2, Downward
<1>4. \E g : g = ClimbStep(g, node, path, siblings)
  BY <1>3 DEF ClimbStep
<1>5. Climb(node, path, siblings) = CHOOSE g : g = ClimbStep(g, node, path, siblings)
  BY DEF Climb, ClimbStep
<1> QED BY <1>4, <1>5

\* What the subtree at level i is, given the function for the levels below.
SubtreeBody(at, i, L) ==
  IF L = {} THEN zero
  ELSE IF i = Depth \/ \E k \in L : L = {k} THEN Leaf(CHOOSE k \in L : TRUE)
  ELSE Hash2(at[i + 1][{k \in L : KeyToPath(k)[i] = 0}],
             at[i + 1][{k \in L : KeyToPath(k)[i] = 1}])

\* It depends on the level below and on nothing else.
LEMMA SubtreeBodyLocal ==
  ASSUME NEW f, NEW g, NEW i, i # Depth => f[i + 1] = g[i + 1], NEW L
  PROVE  SubtreeBody(f, i, L) = SubtreeBody(g, i, L)
BY DEF SubtreeBody

\* Subtree computes each level from the one below it.
LEMMA SubtreeEquation ==
  ASSUME NEW i \in 0..Depth, NEW K \in SUBSET Nat
  PROVE  Subtree(i, K) =
           IF K = {} THEN zero
           ELSE IF i = Depth \/ \E k \in K : K = {k} THEN Leaf(CHOOSE k \in K : TRUE)
           ELSE Hash2(Subtree(i + 1, {k \in K : KeyToPath(k)[i] = 0}),
                      Subtree(i + 1, {k \in K : KeyToPath(k)[i] = 1}))
<1> DEFINE From(m, g) == g = [j \in m..Depth |-> [L \in SUBSET Nat |-> SubtreeBody(g, j, L)]]
           Reached == {m \in 0..Depth : \E g : From(m, g)}
           at == CHOOSE g : From(0, g)
<1>1. Depth \in Nat
  BY DepthAssumption
<1>2. Depth \in Reached
  <2> DEFINE g == [j \in Depth..Depth |->
                     [L \in SUBSET Nat |-> IF L = {} THEN zero ELSE Leaf(CHOOSE k \in L : TRUE)]]
  <2>1. From(Depth, g)
    BY <1>1 DEF SubtreeBody
  <2> HIDE DEF From, g
  <2> QED BY <2>1, <1>1
<1>3. ASSUME NEW m \in 1..Depth, m \in Reached PROVE m - 1 \in Reached
  <2>1. PICK g : From(m, g)
    BY <1>3
  <2> DEFINE h == [j \in (m - 1)..Depth |->
                     IF j = m - 1 THEN [L \in SUBSET Nat |-> SubtreeBody(g, m - 1, L)] ELSE g[j]]
  <2>2. ASSUME NEW j \in (m - 1)..Depth PROVE h[j] = [L \in SUBSET Nat |-> SubtreeBody(h, j, L)]
    <3>1. CASE j = m - 1
      <4>1. j + 1 \in m..Depth /\ j + 1 # m - 1
        BY <1>1, <3>1
      <4>2. h[j + 1] = g[j + 1]
        BY <4>1
      <4>3. \A L : SubtreeBody(h, j, L) = SubtreeBody(g, j, L)
        <5> HIDE DEF h
        <5> QED BY <4>2, SubtreeBodyLocal
      <4> QED BY <3>1, <4>3
    <3>2. CASE j # m - 1
      <4>1. j \in m..Depth
        BY <1>1, <3>2
      <4>2. h[j] = g[j] /\ g[j] = [L \in SUBSET Nat |-> SubtreeBody(g, j, L)]
        BY <3>2, <4>1, <2>1
      <4>3. j # Depth => h[j + 1] = g[j + 1]
        BY <4>1, <1>1
      <4>4. \A L : SubtreeBody(h, j, L) = SubtreeBody(g, j, L)
        BY <4>3 DEF SubtreeBody
      <4> QED BY <4>2, <4>4
    <3> QED BY <3>1, <3>2
  <2>3. From(m - 1, h)
    BY <2>2
  <2> HIDE DEF From, h
  <2> QED BY <2>3, <1>1
<1>4. 0 \in Reached
  <2> HIDE DEF Reached
  <2> QED BY <1>1, <1>2, <1>3, Downward
<1>5. From(0, at)
  <2> HIDE DEF From
  <2> QED BY <1>4
<1>6. \A j \in 0..Depth, L \in SUBSET Nat : Subtree(j, L) = at[j][L]
  BY DEF Subtree, SubtreeBody
<1> HIDE DEF at
<1>7. at[i][K] = SubtreeBody(at, i, K)
  <2>1. at = [j \in 0..Depth |-> [L \in SUBSET Nat |-> SubtreeBody(at, j, L)]]
    BY <1>5
  <2>2. at[i] = [L \in SUBSET Nat |-> SubtreeBody(at, i, L)]
    BY <2>1
  <2> QED BY <2>2
<1>8. i # Depth => i + 1 \in 0..Depth
  BY <1>1
<1> DEFINE L0 == {k \in K : KeyToPath(k)[i] = 0}
           L1 == {k \in K : KeyToPath(k)[i] = 1}
<1>9. L0 \in SUBSET Nat /\ L1 \in SUBSET Nat
  OBVIOUS
<1>10. i # Depth => at[i + 1][L0] = Subtree(i + 1, L0) /\ at[i + 1][L1] = Subtree(i + 1, L1)
  BY <1>6, <1>8, <1>9
<1>11. Subtree(i, K) = at[i][K]
  BY <1>6
<1> QED BY <1>7, <1>10, <1>11 DEF SubtreeBody

-----------------------------------------------------------------------------
(* Subtrees *)

Fits == {k \in Nat : ~Exceeds(k)}

Two(K) == \E k, l \in K : k # l

\* The keys of K that turn to side b at level i.
Half(K, i, b) == {k \in K : KeyToPath(k)[i] = b}

\* The keys of K share their path down to level i.
Together(K, i) == \A k, l \in K : \A j \in 0..(i - 1) : KeyToPath(k)[j] = KeyToPath(l)[j]

\* A set of keys is empty, has one, or has two that differ.
LEMMA Sizes == ASSUME NEW K PROVE K = {} \/ (\E k \in K : K = {k}) \/ Two(K)
BY DEF Two

\* Keys that fit and share the whole path are one key: no subtree at the bottom
\* holds two, so the walk of retrieveEntry always ends at zero or at a leaf.
LEMMA BottomHasOne ==
  ASSUME NEW K \in SUBSET Fits, Together(K, Depth)
  PROVE  ~Two(K)
<1> SUFFICES ASSUME NEW k \in K, NEW l \in K PROVE k = l
  BY DEF Two
<1>1. \A j \in 0..(Depth - 1) : KeyToPath(k)[j] = KeyToPath(l)[j]
  BY DEF Together
<1> QED BY <1>1, PathsDiffer DEF Fits

\* Nothing to hold is zero, at every level.
LEMMA SubtreeOfNone ==
  ASSUME NEW i \in 0..Depth
  PROVE  Subtree(i, {}) = zero
BY SubtreeEquation

\* One key is its leaf, at every level: addUnlocked keeps a lone leaf as high as it can.
LEMMA SubtreeOfOne ==
  ASSUME NEW i \in 0..Depth, NEW k \in Nat
  PROVE  Subtree(i, {k}) = Leaf(k)
<1> DEFINE K == {k}
<1>1. K \in SUBSET Nat /\ K # {} /\ (\E l \in K : K = {l}) /\ (CHOOSE l \in K : TRUE) = k
  OBVIOUS
<1> HIDE DEF K
<1>2. Subtree(i, K) = Leaf(k)
  BY <1>1, SubtreeEquation
<1> QED BY <1>2 DEF K

\* Two keys or more are a branch over the two halves.
LEMMA SubtreeOfTwo ==
  ASSUME NEW i \in 0..(Depth - 1), NEW K \in SUBSET Nat, Two(K)
  PROVE  Subtree(i, K) = Hash2(Subtree(i + 1, Half(K, i, 0)), Subtree(i + 1, Half(K, i, 1)))
<1>1. i \in 0..Depth /\ i # Depth
  BY DepthAssumption
<1>2. K # {} /\ ~(\E k \in K : K = {k})
  BY DEF Two
<1> QED BY <1>1, <1>2, SubtreeEquation DEF Half

\* Both halves, and nothing else.
LEMMA Halves ==
  ASSUME NEW K \in SUBSET Fits, NEW i \in 0..(Depth - 1)
  PROVE  /\ K = Half(K, i, 0) \union Half(K, i, 1)
         /\ Half(K, i, 0) \in SUBSET Fits /\ Half(K, i, 1) \in SUBSET Fits
         /\ Together(K, i) =>
              Together(Half(K, i, 0), i + 1) /\ Together(Half(K, i, 1), i + 1)
<1>1. \A k \in K : KeyToPath(k)[i] \in {0, 1}
  BY PathType DEF Fits, Bits
<1>2. 0..((i + 1) - 1) = 0..(i - 1) \union {i}
  OBVIOUS
<1> QED BY <1>1, <1>2 DEF Half, Together

\* Which of zero, a leaf and a branch the subtree is tells how many keys there are.
LEMMA SubtreeShape ==
  ASSUME NEW i \in 0..Depth, NEW K \in SUBSET Fits, Together(K, i)
  PROVE  /\ Subtree(i, K) = zero <=> K = {}
         /\ \A k \in Nat : Subtree(i, K) = Leaf(k) <=> K = {k}
         /\ IsLeaf(Subtree(i, K)) <=> \E k \in K : K = {k}
         /\ Two(K) => i \in 0..(Depth - 1) /\ ~IsLeaf(Subtree(i, K))
<1>1. CASE K = {}
  BY <1>1, SubtreeOfNone, Shapes DEF Two
<1>2. CASE \E k \in K : K = {k}
  <2>1. PICK k \in K : K = {k}
    BY <1>2
  <2>2. Subtree(i, K) = Leaf(k) /\ k \in Nat
    BY <2>1, SubtreeOfOne DEF Fits
  <2> QED BY <2>1, <2>2, Shapes DEF Two
<1>3. CASE Two(K)
  <2>1. i # Depth
    BY <1>3, BottomHasOne
  <2>2. i \in 0..(Depth - 1) /\ K \in SUBSET Nat
    BY <2>1, DepthAssumption DEF Fits
  <2>3. PICK l, r : Subtree(i, K) = Hash2(l, r)
    BY <1>3, <2>2, SubtreeOfTwo
  <2> QED BY <1>3, <2>2, <2>3, Shapes DEF Two
<1> QED BY <1>1, <1>2, <1>3, Sizes

\* A subtree tells which keys it holds and, if there are two, at what level.
THEOREM SubtreeDetermines ==
  ASSUME NEW i \in 0..Depth, NEW K \in SUBSET Fits, Together(K, i),
         NEW j \in 0..Depth, NEW L \in SUBSET Fits, Together(L, j),
         Subtree(i, K) = Subtree(j, L)
  PROVE  K = L /\ (Two(K) => i = j)
<1> DEFINE Tells(m) ==
             \A M \in SUBSET Fits : Together(M, m) =>
               \A n \in 0..Depth, N \in SUBSET Fits :
                 Together(N, n) /\ Subtree(m, M) = Subtree(n, N)
                   => M = N /\ (Two(M) => m = n)
           Good == {m \in 0..Depth : Tells(m)}
<1>1. ASSUME NEW m \in 0..Depth, NEW M \in SUBSET Fits, Together(M, m), ~Two(M),
             NEW n \in 0..Depth, NEW N \in SUBSET Fits, Together(N, n),
             Subtree(m, M) = Subtree(n, N)
      PROVE  M = N
  <2>1. CASE M = {}
    BY <1>1, <2>1, SubtreeShape
  <2>2. CASE \E k \in M : M = {k}
    <3>1. PICK k \in M : M = {k}
      BY <2>2
    <3>2. k \in Nat
      BY DEF Fits
    <3>3. Subtree(m, M) = Leaf(k)
      BY <3>1, <3>2, <1>1, SubtreeShape
    <3>4. Subtree(n, N) = Leaf(k)
      BY <3>3, <1>1
    <3>5. N = {k}
      BY <3>2, <3>4, <1>1, SubtreeShape
    <3> QED BY <3>1, <3>5
  <2> QED BY <2>1, <2>2, <1>1, Sizes
<1>2. Depth \in Good
  <2>1. Depth \in 0..Depth
    BY DepthAssumption
  <2>2. ASSUME NEW M \in SUBSET Fits, Together(M, Depth),
               NEW n \in 0..Depth, NEW N \in SUBSET Fits, Together(N, n),
               Subtree(Depth, M) = Subtree(n, N)
        PROVE  M = N /\ (Two(M) => Depth = n)
    <3>1. ~Two(M)
      BY <2>2, BottomHasOne
    <3> QED BY <3>1, <2>1, <2>2, <1>1
  <2> QED BY <2>1, <2>2
<1>3. ASSUME NEW c \in 1..Depth, c \in Good PROVE c - 1 \in Good
  <2> DEFINE m == c - 1
  <2>1. m \in 0..(Depth - 1) /\ m \in 0..Depth /\ c = m + 1
    BY DepthAssumption
  <2>2. ASSUME NEW M \in SUBSET Fits, Together(M, m),
               NEW n \in 0..Depth, NEW N \in SUBSET Fits, Together(N, n),
               Subtree(m, M) = Subtree(n, N), Two(M)
        PROVE  M = N /\ m = n
    <3> DEFINE M0 == Half(M, m, 0)
               M1 == Half(M, m, 1)
               N0 == Half(N, n, 0)
               N1 == Half(N, n, 1)
    <3>1. Subtree(m, M) = Hash2(Subtree(c, M0), Subtree(c, M1))
      BY <2>1, <2>2, SubtreeOfTwo DEF Fits
    <3>2. Two(N)
      <4>1. N # {} /\ ~\E k \in N : N = {k}
        BY <2>2, <3>1, Shapes, SubtreeShape
      <4> QED BY <4>1, Sizes
    <3>3. n \in 0..(Depth - 1)
      BY <2>2, <3>2, SubtreeShape
    <3>4. Subtree(n, N) = Hash2(Subtree(n + 1, N0), Subtree(n + 1, N1))
      BY <3>2, <3>3, SubtreeOfTwo DEF Fits
    <3>5. Subtree(c, M0) = Subtree(n + 1, N0) /\ Subtree(c, M1) = Subtree(n + 1, N1)
      BY <2>2, <3>1, <3>4, Shapes
    <3>6. /\ M0 \in SUBSET Fits /\ M1 \in SUBSET Fits
          /\ Together(M0, c) /\ Together(M1, c) /\ M = M0 \union M1
      BY <2>1, <2>2, Halves
    <3>7. /\ N0 \in SUBSET Fits /\ N1 \in SUBSET Fits
          /\ Together(N0, n + 1) /\ Together(N1, n + 1) /\ N = N0 \union N1
      BY <3>3, <2>2, Halves
    <3>8. n + 1 \in 0..Depth /\ c \in 0..Depth
      BY <3>3, <2>1, DepthAssumption
    <3>9. M0 = N0 /\ (Two(M0) => c = n + 1)
      BY <1>3, <3>5, <3>6, <3>7, <3>8
    <3>10. M1 = N1 /\ (Two(M1) => c = n + 1)
      BY <1>3, <3>5, <3>6, <3>7, <3>8
    <3>11. M = N
      BY <3>6, <3>7, <3>9, <3>10
    <3>12. CASE Two(M0) \/ Two(M1)
      BY <3>12, <3>9, <3>10, <3>11, <2>1, <3>3
    <3>13. CASE ~Two(M0) /\ ~Two(M1)
      <4>1. PICK a, b \in M : a # b
        BY <2>2 DEF Two
      <4>2. (a \in M0 /\ b \in M1) \/ (b \in M0 /\ a \in M1)
        BY <4>1, <3>6, <3>13 DEF Two
      <4>3. KeyToPath(a)[m] # KeyToPath(b)[m] /\ KeyToPath(a)[n] # KeyToPath(b)[n]
        BY <4>2, <3>9, <3>10 DEF Half
      <4>4. ~(m < n) /\ ~(n < m)
        BY <4>1, <4>3, <3>11, <2>1, <2>2, <3>3 DEF Together
      <4> QED BY <4>4, <3>11, <2>1, <3>3
    <3> QED BY <3>12, <3>13
  <2>3. Tells(m)
    <3> SUFFICES ASSUME NEW M \in SUBSET Fits, Together(M, m),
                        NEW n \in 0..Depth, NEW N \in SUBSET Fits, Together(N, n),
                        Subtree(m, M) = Subtree(n, N)
                 PROVE  M = N /\ (Two(M) => m = n)
      OBVIOUS
    <3> QED BY <1>1, <2>1, <2>2
  <2> HIDE DEF Tells
  <2> QED BY <2>1, <2>3
<1>4. i \in Good
  <2> HIDE DEF Good
  <2>1. Depth \in Nat
    BY DepthAssumption
  <2> QED BY <2>1, <1>2, <1>3, Downward
<1> QED BY <1>4
=============================================================================
