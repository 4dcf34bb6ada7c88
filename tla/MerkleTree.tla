----------------------------- MODULE MerkleTree -----------------------------
(* The operations of internal/smt on a sparse Merkle tree: a map from node  *)
(* hash to children (`nodes`), a root hash and a leaf count, changed path   *)
(* by path, and the proofs made from it.                                    *)
(*                                                                          *)
(* The hash is ideal: the hash of a node IS the tuple of its children, so   *)
(* two nodes have one hash only when they are the same node, and `nodes` is *)
(* the set of the hashes stored in the map (the children are read off the   *)
(* hash).  A leaf is <<key, 1, 1>>: every caller stores the value 1.        *)
EXTENDS Integers, Sequences, FiniteSets

CONSTANT Depth    \* levels of the tree (smt.Depth)

ASSUME DepthAssumption == Depth \in Nat \ {0}

-----------------------------------------------------------------------------
(* Hashes and paths *)

zero == <<>>
Hash2(left, right) == <<left, right>>
Hash3(key, value, mark) == <<key, value, mark>>

Leaf(key) == Hash3(key, 1, 1)
IsLeaf(node) == Len(node) = 3

\* Least significant bit first, cut at Depth.
KeyToPath(key) == [i \in 0..(Depth - 1) |-> (key \div 2^i) % 2]

GetFirstCommonBits(a, b) ==
  CHOOSE n \in 0..Depth : /\ \A i \in 0..(n - 1) : a[i] = b[i]
                          /\ n < Depth => a[n] # b[n]

Exceeds(key) == key >= 2^Depth

\* The hashes met climbing from `node` along `path`: climb[0] is the root.
Climb(node, path, siblings) ==
  LET climb[i \in 0..Len(siblings)] ==
        IF i = Len(siblings) THEN node
        ELSE IF path[i] = 1 THEN Hash2(siblings[i + 1], climb[i + 1])
                            ELSE Hash2(climb[i + 1], siblings[i + 1])
  IN  climb

Branches(node, path, siblings) ==
  {Climb(node, path, siblings)[i] : i \in 0..(Len(siblings) - 1)}

addNewNodes(nodes, node, path, siblings) == nodes \union Branches(node, path, siblings)

\* Mutant: the old root stays behind.
deleteOldNodes_StopsEarly(nodes, node, path, siblings) ==
  nodes \ {Climb(node, path, siblings)[i] : i \in 1..(Len(siblings) - 1)}

deleteOldNodes(nodes, node, path, siblings) == nodes \ Branches(node, path, siblings)

calculateRoot(node, path, siblings) == Climb(node, path, siblings)[0]

-----------------------------------------------------------------------------
(* Operations on a tree *)

NewTree == [nodes |-> {}, Root |-> zero, Count |-> 0]

Keys(t) == {node[1] : node \in {n \in t.nodes : IsLeaf(n)}}

\* Follows a path down through stored branches; a hash that is not stored ends
\* the walk as the zero node does.
Walk(t, path) ==
  LET walk[i \in 0..Depth] ==
        IF i = 0 THEN [node |-> t.Root, siblings |-> <<>>]
        ELSE LET at == walk[i - 1]
             IN  IF at.node \in t.nodes /\ ~IsLeaf(at.node)
                 THEN [node |-> at.node[path[i - 1] + 1],
                       siblings |-> Append(at.siblings, at.node[2 - path[i - 1]])]
                 ELSE at
  IN  walk

retrieveEntry(t, key) ==
  LET end == Walk(t, KeyToPath(key))[Depth]
      leaf == end.node \in t.nodes /\ IsLeaf(end.node)
      found == leaf /\ end.node[1] = key
  IN  [found    |-> found,
       entry    |-> IF found THEN end.node ELSE <<key>>,
       matching |-> IF leaf /\ ~found THEN end.node ELSE <<>>,
       siblings |-> end.siblings]

\* Mutant: the zero siblings above a lifted leaf are kept.
keptSiblings_All(siblings) == Len(siblings)

\* One past the last non-zero sibling: how many siblings a lifted leaf keeps.
keptSiblings(siblings) ==
  CHOOSE n \in 0..Len(siblings) :
    /\ n > 0 => siblings[n] # zero
    /\ \A i \in (n + 1)..Len(siblings) : siblings[i] = zero

addUnlocked(t, key) ==
  LET path == KeyToPath(key)
      at == retrieveEntry(t, key)
      node == at.matching     \* a leaf's hash is the leaf; <<>> is zero
      common == GetFirstCommonBits(path, KeyToPath(node[1]))
      siblings ==
        IF node = zero THEN at.siblings
        ELSE at.siblings \o [i \in 1..(common - Len(at.siblings)) |-> zero] \o <<node>>
  IN  IF Exceeds(key) \/ at.found
      THEN [tree |-> t, ok |-> FALSE]
      ELSE [tree |-> [nodes |-> addNewNodes({Leaf(key)} \union
                                    deleteOldNodes(t.nodes, node, path, at.siblings),
                                  Leaf(key), path, siblings),
                      Root  |-> calculateRoot(Leaf(key), path, siblings),
                      Count |-> t.Count + 1],
            ok |-> TRUE]

\* Mutant: an absent key is not an error.
deleteUnlocked_Unchecked(t, key) ==
  [tree |-> [t EXCEPT !.nodes = @ \ {Leaf(key)}, !.Count = @ - 1], ok |-> TRUE]

\* A lone leaf left beside the deleted one is lifted past the zero siblings.
deleteUnlocked(t, key) ==
  LET path == KeyToPath(key)
      at == retrieveEntry(t, key)
      remaining == deleteOldNodes(t.nodes \ {at.entry}, at.entry, path, at.siblings)
      last == at.siblings[Len(at.siblings)]
      lift == last \in remaining /\ IsLeaf(last)
      popped == SubSeq(at.siblings, 1, Len(at.siblings) - 1)
      node == IF lift THEN last ELSE zero
      siblings == IF lift THEN SubSeq(popped, 1, keptSiblings(popped)) ELSE at.siblings
  IN  IF ~at.found THEN [tree |-> t, ok |-> FALSE]
      ELSE [tree |-> IF at.siblings = <<>>
                     THEN [nodes |-> remaining, Root |-> zero, Count |-> t.Count - 1]
                     ELSE [nodes |-> addNewNodes(remaining, node, path, siblings),
                           Root  |-> calculateRoot(node, path, siblings),
                           Count |-> t.Count - 1],
            ok |-> TRUE]

\* Mutant: an error is reported and the rest of the batch goes on.
batchAdd_KeepsGoing(t, keys) ==
  LET done[n \in 0..Len(keys)] ==
        IF n = 0 THEN [tree |-> t, ok |-> TRUE]
        ELSE LET at == done[n - 1]
             IN  [addUnlocked(at.tree, keys[n]) EXCEPT !.ok = @ /\ at.ok]
  IN  done[Len(keys)]

\* In order, up to the first error; the keys before it stay.
batchAdd(t, keys) ==
  LET done[n \in 0..Len(keys)] ==
        IF n = 0 THEN [tree |-> t, ok |-> TRUE]
        ELSE LET at == done[n - 1]
             IN  IF at.ok THEN addUnlocked(at.tree, keys[n]) ELSE at
  IN  done[Len(keys)]

batchDelete(t, keys) ==
  LET done[n \in 0..Len(keys)] ==
        IF n = 0 THEN [tree |-> t, ok |-> TRUE]
        ELSE LET at == done[n - 1]
             IN  IF at.ok THEN deleteUnlocked(at.tree, keys[n]) ELSE at
  IN  done[Len(keys)]

CreateProof(t, key) ==
  LET at == retrieveEntry(t, key)
  IN  [Entry |-> at.entry, MatchingEntry |-> at.matching, Siblings |-> at.siblings,
       Root |-> t.Root, Membership |-> at.found]

\* Mutant: a matching entry that parts from the key right below the siblings
\* is refused.
VerifyProof_Strict(p) ==
  /\ calculateRoot(IF p.MatchingEntry # <<>> THEN p.MatchingEntry
                   ELSE IF IsLeaf(p.Entry) THEN p.Entry ELSE zero,
                   KeyToPath(IF p.MatchingEntry # <<>> THEN p.MatchingEntry[1] ELSE p.Entry[1]),
                   p.Siblings) = p.Root
  /\ p.MatchingEntry # <<>> =>
       Len(p.Siblings) < GetFirstCommonBits(KeyToPath(p.Entry[1]),
                                            KeyToPath(p.MatchingEntry[1]))

\* Mutant: the siblings' length is checked and the root is not.
VerifyProof_NoRoot(p) ==
  p.MatchingEntry # <<>> =>
    Len(p.Siblings) <= GetFirstCommonBits(KeyToPath(p.Entry[1]),
                                          KeyToPath(p.MatchingEntry[1]))

VerifyProof(p) ==
  LET path == KeyToPath(p.Entry[1])
      matchingPath == KeyToPath(p.MatchingEntry[1])
  IN  IF p.MatchingEntry = <<>>
      THEN calculateRoot(IF IsLeaf(p.Entry) THEN p.Entry ELSE zero, path, p.Siblings) = p.Root
      ELSE /\ calculateRoot(p.MatchingEntry, matchingPath, p.Siblings) = p.Root
           /\ Len(p.Siblings) <= GetFirstCommonBits(path, matchingPath)

-----------------------------------------------------------------------------
(* The reference: the tree as a function of the set of keys it holds *)

\* The subtree at a level that holds exactly the keys K.  (At the bottom there is
\* one at most: keys that fit differ in one of their bits.)
Subtree(level, K) ==
  LET at[i \in 0..Depth] ==
        [L \in SUBSET Nat |->
           IF L = {} THEN zero
           ELSE IF i = Depth \/ \E k \in L : L = {k} THEN Leaf(CHOOSE k \in L : TRUE)
           ELSE Hash2(at[i + 1][{k \in L : KeyToPath(k)[i] = 0}],
                      at[i + 1][{k \in L : KeyToPath(k)[i] = 1}])]
  IN  at[level][K]

\* The root of the tree of the keys S.
Canonical(S) == Subtree(0, S)

\* Every node under a root, zero left out.
Reachable(root) ==
  LET level[d \in 0..Depth] ==
        IF d = 0 THEN {root} \ {zero}
        ELSE (UNION {{h[1], h[2]} : h \in {n \in level[d - 1] : ~IsLeaf(n)}}) \ {zero}
  IN  UNION {level[d] : d \in 0..Depth}
=============================================================================
