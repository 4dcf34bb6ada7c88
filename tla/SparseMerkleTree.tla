-------------------------- MODULE SparseMerkleTree --------------------------
(* The sparse Merkle tree under its lock: the calls of internal/smt, one    *)
(* after the other.  The tree's RWMutex is held for the whole of each call, *)
(* so a call is one step; a proof, once made, lives on in a client while    *)
(* the tree changes.                                                        *)
EXTENDS MerkleTree

CONSTANTS Serials,    \* serial numbers callers pass in, some wider than Depth
          Queries,    \* the serials for which clients keep a proof
          MaxBatch    \* longest batch

ASSUME TreeAssumption ==
  /\ Serials \subseteq Nat
  /\ Queries \subseteq Serials
  /\ MaxBatch \in Nat

VARIABLES tree,       \* [nodes, Root, Count]
          proof,      \* the last proof made, possibly older than the tree
          call        \* the last call: operation, arguments, result

vars == <<tree, proof, call>>

-----------------------------------------------------------------------------
(* The tree under its lock *)

NoProof == [Entry |-> <<>>]

Batches == UNION {[1..n -> Serials] : n \in 1..MaxBatch}

Called(op, args, result) == [op |-> op, args |-> args, result |-> result]

Init == tree = NewTree /\ proof = NoProof /\ call = Called("New", <<>>, "none")

Return(op, args, r) ==
  /\ tree' = r.tree
  /\ call' = Called(op, args, IF r.ok THEN "ok" ELSE "error")
  /\ UNCHANGED proof

Add(key) == Return("Add", <<key>>, addUnlocked(tree, key))

Delete(key) == Return("Delete", <<key>>, deleteUnlocked(tree, key))

BatchAdd(keys) == Return("BatchAdd", keys, batchAdd(tree, keys))

BatchDelete(keys) == Return("BatchDelete", keys, batchDelete(tree, keys))

Prove(key) ==
  /\ proof' = CreateProof(tree, key)
  /\ call' = Called("Query", <<key>>, IF proof'.Membership THEN "member" ELSE "nonmember")
  /\ UNCHANGED tree

Next ==
  \/ \E key \in Serials : Add(key)
  \/ \E key \in Serials : Delete(key)
  \/ \E keys \in Batches : BatchAdd(keys)
  \/ \E keys \in Batches : BatchDelete(keys)
  \/ \E key \in Queries : Prove(key)

Spec == Init /\ [][Next]_vars

-----------------------------------------------------------------------------
(* Properties *)

\* Every stored node is a branch or a leaf, and the count is never negative.
TypeOK ==
  /\ \A node \in tree.nodes : Len(node) \in {2, 3}
  /\ tree.Count \in Nat
  /\ call.result \in {"none", "ok", "error", "member", "nonmember"}

\* The root depends only on which keys are in the tree, not on the order of
\* the Adds and Deletes that led there: addUnlocked's padding with zero siblings
\* and deleteUnlocked's lifting of a lone leaf undo each other exactly.  The
\* published root can be compared across rebuilds only because of this.
CanonicalRoot == tree.Root = Canonical(Keys(tree))

\* The node map holds the nodes under the root and no other: a path's old nodes
\* are all dropped (deleteOldNodes) and none that is shared with another path
\* goes with them; Count is the number of leaves.  A snapshot exports this map.
StoreExact ==
  /\ tree.nodes = Reachable(tree.Root)
  /\ tree.Count = Cardinality(Keys(tree))

\* CreateProof followed by VerifyProof accepts for every serial, over-wide ones
\* included, and the claim is membership exactly when the key is in the tree.
ProofsVerify ==
  \A key \in Serials :
    LET p == CreateProof(tree, key)
    IN  VerifyProof(p) /\ (p.Membership <=> key \in Keys(tree))

\* A proof kept while the tree changed, and checked against the current root,
\* is rejected or still tells the truth: no sequence of insertions and deletions
\* leaves an old proof of (non-)membership acceptable for the opposite fact.
StaleProofSound ==
  proof # NoProof =>
    (VerifyProof([proof EXCEPT !.Root = tree.Root])
       => (proof.Membership <=> proof.Entry[1] \in Keys(tree)))

\* The tree implements the set: every call returns what the set would, and
\* changes the keys held as the set would (a batch stops at its first error).
Abstract == INSTANCE RevocationSet WITH revoked <- Keys(tree)

ImplementsSet == Abstract!Spec
=============================================================================
