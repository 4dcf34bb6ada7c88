----------------------- MODULE SparseMerkleTreeProofs -----------------------
(* Theorems about SparseMerkleTree, for any Depth, any set of serials and   *)
(* any length of batch.                                                     *)
EXTENDS SparseMerkleTree, MerkleTreeProofs

-----------------------------------------------------------------------------
(* The invariant *)

\* What the callers pass: keys that are naturals, batches of MaxBatch at most.
LEMMA Arguments ==
  /\ Serials \subseteq Nat /\ Queries \subseteq Serials /\ MaxBatch \in Nat
  /\ \A keys \in Batches :
       Len(keys) \in Nat /\ \A i \in 1..Len(keys) : keys[i] \in Serials /\ keys[i] \in Nat
<1>1. Serials \subseteq Nat /\ Queries \subseteq Serials /\ MaxBatch \in Nat
  BY TreeAssumption
<1>2. ASSUME NEW keys \in Batches
      PROVE  Len(keys) \in Nat /\ \A i \in 1..Len(keys) : keys[i] \in Serials
  <2>1. PICK n \in 1..MaxBatch : keys \in [1..n -> Serials]
    BY DEF Batches
  <2>2. n \in Nat /\ Len(keys) = n
    BY <2>1, <1>1
  <2> QED BY <2>1, <2>2
<1> QED BY <1>1, <1>2

\* A proof that was made from some state of the tree.
Made(p) ==
  /\ DOMAIN p = {"Entry", "MatchingEntry", "Siblings", "Root", "Membership"}
  /\ p.Entry[1] \in Nat
  /\ WellFormed(p, p.Entry[1])

IInv ==
  /\ Holds(tree, Keys(tree))
  /\ proof # NoProof => Made(proof)
  /\ call.result \in {"none", "ok", "error", "member", "nonmember"}

\* The keys that a tree shows by its leaves are those it holds.
LEMMA HoldsAnySet ==
  ASSUME NEW t, NEW S, Holds(t, S)
  PROVE  Keys(t) = S /\ Holds(t, Keys(t))
BY KeysHeld

\* addUnlocked and the keys held.
LEMMA AddCall ==
  ASSUME NEW t, NEW S, Holds(t, S), NEW key \in Serials
  PROVE  /\ Keys(addUnlocked(t, key).tree)
              = IF key \in Fits \ S THEN S \union {key} ELSE S
         /\ addUnlocked(t, key).ok <=> key \in Fits \ S
         /\ Holds(addUnlocked(t, key).tree, Keys(addUnlocked(t, key).tree))
<1> DEFINE r == addUnlocked(t, key)
<1>1. key \in Nat
  BY Arguments
<1>2. /\ r.ok <=> key \in Fits \ S
      /\ r.ok => Holds(r.tree, S \union {key})
      /\ ~r.ok => r.tree = t
  BY <1>1, AddIsCanonical
<1> HIDE DEF r
<1>3. CASE r.ok
  <2>1. Keys(r.tree) = S \union {key} /\ Holds(r.tree, Keys(r.tree))
    BY <1>2, <1>3, HoldsAnySet
  <2> QED BY <1>2, <1>3, <2>1 DEF r
<1>4. CASE ~r.ok
  <2>1. Keys(r.tree) = S /\ Holds(r.tree, Keys(r.tree))
    BY <1>2, <1>4, HoldsAnySet
  <2> QED BY <1>2, <1>4, <2>1 DEF r
<1> QED BY <1>3, <1>4

\* deleteUnlocked and the keys held.
LEMMA DeleteCall ==
  ASSUME NEW t, NEW S, Holds(t, S), NEW key \in Serials
  PROVE  /\ Keys(deleteUnlocked(t, key).tree) = S \ {key}
         /\ deleteUnlocked(t, key).ok <=> key \in S
         /\ Holds(deleteUnlocked(t, key).tree, Keys(deleteUnlocked(t, key).tree))
<1> DEFINE r == deleteUnlocked(t, key)
<1>1. key \in Nat
  BY Arguments
<1>2. /\ r.ok <=> key \in S
      /\ r.ok => Holds(r.tree, S \ {key})
      /\ ~r.ok => r.tree = t
  BY <1>1, DeleteIsCanonical
<1> HIDE DEF r
<1>3. CASE r.ok
  <2>1. Keys(r.tree) = S \ {key} /\ Holds(r.tree, Keys(r.tree))
    BY <1>2, <1>3, HoldsAnySet
  <2> QED BY <1>2, <1>3, <2>1 DEF r
<1>4. CASE ~r.ok
  <2>1. Keys(r.tree) = S /\ Holds(r.tree, Keys(r.tree)) /\ S = S \ {key}
    BY <1>2, <1>4, HoldsAnySet
  <2> QED BY <1>2, <1>4, <2>1 DEF r
<1> QED BY <1>3, <1>4

\* The keys that can be added to S.
Room(S) == Fits \ S

\* batchAdd and the keys held.
LEMMA BatchAddCall ==
  ASSUME NEW t, NEW S, Holds(t, S), NEW keys \in Batches
  PROVE  /\ Holds(batchAdd(t, keys).tree, Keys(batchAdd(t, keys).tree))
         /\ \E n : /\ Gets(keys, Len(keys), n, Room(S))
                   /\ batchAdd(t, keys).ok <=> n = Len(keys)
                   /\ Keys(batchAdd(t, keys).tree) = S \union First(keys, n)
<1>1. PICK n : /\ Gets(keys, Len(keys), n, Fits \ S)
               /\ batchAdd(t, keys).ok <=> n = Len(keys)
               /\ Holds(batchAdd(t, keys).tree, S \union First(keys, n))
  BY Arguments, BatchAddIsCanonical
<1>2. Gets(keys, Len(keys), n, Room(S))
  BY <1>1 DEF Room
<1> QED BY <1>1, <1>2, HoldsAnySet

\* batchDelete and the keys held.
LEMMA BatchDeleteCall ==
  ASSUME NEW t, NEW S, Holds(t, S), NEW keys \in Batches
  PROVE  /\ Holds(batchDelete(t, keys).tree, Keys(batchDelete(t, keys).tree))
         /\ \E n : /\ Gets(keys, Len(keys), n, S)
                   /\ batchDelete(t, keys).ok <=> n = Len(keys)
                   /\ Keys(batchDelete(t, keys).tree) = S \ First(keys, n)
<1>1. PICK n : /\ Gets(keys, Len(keys), n, S)
               /\ batchDelete(t, keys).ok <=> n = Len(keys)
               /\ Holds(batchDelete(t, keys).tree, S \ First(keys, n))
  BY Arguments, BatchDeleteIsCanonical
<1> QED BY <1>1, HoldsAnySet

\* A new tree holds what it shows, and nothing has been proved yet.
LEMMA InitHolds == Init => IInv
<1> SUFFICES ASSUME Init PROVE IInv
  OBVIOUS
<1>1. tree = NewTree /\ proof = NoProof /\ call.result = "none"
  BY DEF Init, Called
<1>2. Holds(tree, Keys(tree))
  BY <1>1, NewTreeIsEmpty, HoldsAnySet
<1> QED BY <1>1, <1>2 DEF IInv

\* Every call that leaves a canonical tree behind keeps the invariant: it touches no proof.
LEMMA ReturnKeeps ==
  ASSUME IInv, NEW op, NEW args, NEW r, Return(op, args, r), Holds(r.tree, Keys(r.tree))
  PROVE  IInv'
BY DEF IInv, Return, Called

\* CreateProof makes a well-formed proof and leaves the tree alone.
LEMMA ProveKeeps ==
  ASSUME IInv, NEW key \in Queries, Prove(key)
  PROVE  IInv'
<1> DEFINE made == CreateProof(tree, key)
<1>1. key \in Nat
  BY Arguments
<1>2. Keys(tree) \in SUBSET Fits /\ Stored(tree, Keys(tree))
  BY HoldsIsStored DEF IInv, Holds
<1>3. WellFormed(made, key)
  BY <1>1, <1>2, ProofIsWellFormed
<1>4. made.Entry[1] = key
  BY <1>3, Shapes DEF WellFormed
<1>5. DOMAIN made = {"Entry", "MatchingEntry", "Siblings", "Root", "Membership"}
  BY DEF CreateProof
<1> HIDE DEF made
<1>6. Made(made)
  BY <1>1, <1>3, <1>4, <1>5 DEF Made
<1>7. proof' = made /\ tree' = tree /\ call'.result \in {"member", "nonmember"}
  BY DEF Prove, Called, made
<1> QED BY <1>6, <1>7 DEF IInv

\* Every call of the tree keeps the invariant.
LEMMA StepKeeps == IInv /\ [Next]_vars => IInv'
<1> SUFFICES ASSUME IInv, [Next]_vars PROVE IInv'
  OBVIOUS
<1>1. Holds(tree, Keys(tree))
  BY DEF IInv
<1>2. ASSUME NEW key \in Serials, Add(key) PROVE IInv'
  BY <1>1, <1>2, AddCall, ReturnKeeps DEF Add
<1>3. ASSUME NEW key \in Serials, Delete(key) PROVE IInv'
  BY <1>1, <1>3, DeleteCall, ReturnKeeps DEF Delete
<1>4. ASSUME NEW keys \in Batches, BatchAdd(keys) PROVE IInv'
  BY <1>1, <1>4, BatchAddCall, ReturnKeeps DEF BatchAdd
<1>5. ASSUME NEW keys \in Batches, BatchDelete(keys) PROVE IInv'
  BY <1>1, <1>5, BatchDeleteCall, ReturnKeeps DEF BatchDelete
<1>6. ASSUME NEW key \in Queries, Prove(key) PROVE IInv'
  BY <1>6, ProveKeeps
<1>7. CASE UNCHANGED vars
  BY <1>7 DEF IInv, vars
<1> QED BY <1>2, <1>3, <1>4, <1>5, <1>6, <1>7 DEF Next

\* After any sequence of calls, failed batches included, the tree is the canonical
\* tree of the keys it shows, to the last node of its map, and a proof that was kept
\* is one that CreateProof made.
THEOREM AlwaysCanonical == Spec => []IInv
BY InitHolds, StepKeeps, PTL DEF Spec

-----------------------------------------------------------------------------

\* TypeOK: the nodes of the map are leaves and branches, and Count is a natural.
THEOREM Types == Spec => []TypeOK
<1>1. IInv => TypeOK
  <2> SUFFICES ASSUME IInv PROVE TypeOK
    OBVIOUS
  <2>1. /\ Keys(tree) \in SUBSET Fits /\ IsFiniteSet(Keys(tree))
        /\ tree.nodes = NodesOf(Keys(tree)) /\ tree.Count = Cardinality(Keys(tree))
    BY DEF IInv, Holds
  <2> QED BY <2>1, NodeLength, FS_CardinalityType DEF IInv, TypeOK
<1> QED BY <1>1, AlwaysCanonical, PTL

\* CanonicalRoot: the root is a function of the set of keys, whatever sequence of
\* insertions and deletions led there, and Count is the number of keys.
THEOREM RootIsCanonical == Spec => []CanonicalRoot
<1>1. IInv => CanonicalRoot
  BY DEF IInv, Holds, CanonicalRoot
<1> QED BY <1>1, AlwaysCanonical, PTL

\* StoreExact: the map holds what the root reaches and nothing else, so no call
\* loses a node or leaves one behind.
THEOREM StoreIsExact == Spec => []StoreExact
<1>1. IInv => StoreExact
  BY ReachableIsCanonical DEF IInv, Holds, StoreExact
<1> QED BY <1>1, AlwaysCanonical, PTL

\* ProofsVerify: for every key that may be asked for, in the tree or not, CreateProof
\* makes a proof that VerifyProof accepts and that says what is so.
THEOREM EveryProofVerifies == Spec => []ProofsVerify
<1>1. IInv => ProofsVerify
  <2> SUFFICES ASSUME IInv, NEW key \in Serials
               PROVE  LET p == CreateProof(tree, key)
                      IN  VerifyProof(p) /\ (p.Membership <=> key \in Keys(tree))
    BY DEF ProofsVerify
  <2>1. Keys(tree) \in SUBSET Fits /\ Stored(tree, Keys(tree)) /\ key \in Nat
    BY HoldsIsStored, Arguments DEF IInv, Holds
  <2> QED BY <2>1, ProofIsWellFormed
<1> QED BY <1>1, AlwaysCanonical, PTL

\* StaleProofSound: a proof kept while the tree went on either fails against the new
\* root or still says what is so.
THEOREM StaleProofsAreSound == Spec => []StaleProofSound
<1>1. IInv => StaleProofSound
  <2> DEFINE p == [proof EXCEPT !.Root = tree.Root]
             key == proof.Entry[1]
  <2> SUFFICES ASSUME IInv, proof # NoProof, VerifyProof(p)
               PROVE  proof.Membership <=> key \in Keys(tree)
    BY DEF StaleProofSound
  <2>1. Made(proof) /\ Keys(tree) \in SUBSET Fits /\ tree.Root = Canonical(Keys(tree))
    BY DEF IInv, Holds
  <2>2. /\ p.Entry = proof.Entry /\ p.MatchingEntry = proof.MatchingEntry
        /\ p.Siblings = proof.Siblings /\ p.Membership = proof.Membership
        /\ p.Root = tree.Root
    BY <2>1 DEF Made
  <2> HIDE DEF p
  <2>3. WellFormed(p, key) /\ key \in Nat
    BY <2>1, <2>2 DEF Made, WellFormed
  <2>4. p.Membership <=> key \in Keys(tree)
    BY <2>1, <2>2, <2>3, VerifiedIsTrue
  <2> QED BY <2>2, <2>4
<1> QED BY <1>1, AlwaysCanonical, PTL

-----------------------------------------------------------------------------

\* The bound on the keys is the same in the tree and in the set it implements.
LEMMA FitsAbstract == \A s \in Serials : s \in Abstract!Fits <=> s \in Fits
<1>1. 2^Depth \in Nat
  BY DepthAssumption, Doubling
<1> DEFINE limit == 2^Depth
<1> HIDE DEF limit
<1>2. \A s \in Serials : s \in Nat /\ (s < limit <=> ~(s >= limit))
  BY <1>1, Arguments DEF limit
<1> QED BY <1>2 DEF Abstract!Fits, Fits, Exceeds, limit

\* ImplementsSet: the tree does what a set of serials does, call by call, with the
\* same results; so the order of the keys matters in no answer, and an error changes
\* nothing but what the keys before it in the batch changed.
THEOREM SetImplemented == Spec => ImplementsSet
<1>1. Init => Abstract!Init
  <2> SUFFICES ASSUME Init PROVE Abstract!Init
    OBVIOUS
  <2>1. Keys(tree) = {}
    BY NewTreeIsEmpty, HoldsAnySet DEF Init
  <2> QED BY <2>1 DEF Init, Called, Abstract!Init, Abstract!Called
<1>2. IInv /\ [Next]_vars => [Abstract!Next]_(Abstract!vars)
  <2> SUFFICES ASSUME IInv, [Next]_vars PROVE [Abstract!Next]_(Abstract!vars)
    OBVIOUS
  <2> DEFINE S == Keys(tree)
  <2>1. Holds(tree, S)
    BY DEF IInv
  <2> HIDE DEF S
  <2>2. ASSUME NEW key \in Serials, Add(key) PROVE Abstract!Add(key)
    BY <2>1, <2>2, AddCall, FitsAbstract
    DEF Add, Return, Called, Abstract!Add, Abstract!Called, Abstract!Ok, S
  <2>3. ASSUME NEW key \in Serials, Delete(key) PROVE Abstract!Delete(key)
    BY <2>1, <2>3, DeleteCall
    DEF Delete, Return, Called, Abstract!Delete, Abstract!Called, Abstract!Ok, S
  <2>4. ASSUME NEW keys \in Batches, BatchAdd(keys) PROVE Abstract!BatchAdd(keys)
    <3> DEFINE r == batchAdd(tree, keys)
    <3>1. PICK n : /\ Gets(keys, Len(keys), n, Room(S))
                   /\ r.ok <=> n = Len(keys)
                   /\ Keys(r.tree) = S \union First(keys, n)
      BY <2>1, BatchAddCall
    <3>2. tree' = r.tree /\ call' = Called("BatchAdd", keys, IF r.ok THEN "ok" ELSE "error")
      BY <2>4 DEF BatchAdd, Return
    <3> HIDE DEF r
    <3>3. \A i \in 1..Len(keys) : keys[i] \in Room(S) <=> keys[i] \in Abstract!Fits \ S
      BY Arguments, FitsAbstract DEF Room
    <3>4. n \in 0..Len(keys) /\ Len(keys) \in Nat
      BY <3>1, Arguments DEF Gets
    <3>5. Abstract!Applies(keys, n, Abstract!Fits \ S)
      <4>1. ASSUME NEW m \in 0..Len(keys)
            PROVE  Distinct(keys, m, Room(S)) <=> Abstract!Prefix(keys, m, Abstract!Fits \ S)
        <5>1. 1..m \subseteq 1..Len(keys)
          BY <3>4
        <5> QED BY <3>3, <5>1 DEF Distinct, Abstract!Prefix
      <4>2. n < Len(keys) => n + 1 \in 0..Len(keys)
        BY <3>4
      <4> QED BY <3>1, <3>4, <4>1, <4>2 DEF Gets, Abstract!Applies
    <3>6. call' = Abstract!Called("BatchAdd", keys, Abstract!Ok(n = Len(keys)))
      BY <3>1, <3>2 DEF Called, Abstract!Called, Abstract!Ok
    <3>7. Keys(tree') = S \union Abstract!Applied(keys, n)
      BY <3>1, <3>2 DEF First, Abstract!Applied
    <3> QED BY <3>4, <3>5, <3>6, <3>7 DEF Abstract!BatchAdd, S
  <2>5. ASSUME NEW keys \in Batches, BatchDelete(keys) PROVE Abstract!BatchDelete(keys)
    <3> DEFINE r == batchDelete(tree, keys)
    <3>1. PICK n : /\ Gets(keys, Len(keys), n, S)
                   /\ r.ok <=> n = Len(keys)
                   /\ Keys(r.tree) = S \ First(keys, n)
      BY <2>1, BatchDeleteCall
    <3>2. tree' = r.tree /\ call' = Called("BatchDelete", keys, IF r.ok THEN "ok" ELSE "error")
      BY <2>5 DEF BatchDelete, Return
    <3> HIDE DEF r
    <3>3. n \in 0..Len(keys)
      BY <3>1 DEF Gets
    <3>4. Abstract!Applies(keys, n, S)
      BY <3>1 DEF Gets, Distinct, Abstract!Applies, Abstract!Prefix
    <3>5. call' = Abstract!Called("BatchDelete", keys, Abstract!Ok(n = Len(keys)))
      BY <3>1, <3>2 DEF Called, Abstract!Called, Abstract!Ok
    <3>6. Keys(tree') = S \ Abstract!Applied(keys, n)
      BY <3>1, <3>2 DEF First, Abstract!Applied
    <3> QED BY <3>3, <3>4, <3>5, <3>6 DEF Abstract!BatchDelete, S
  <2>6. ASSUME NEW key \in Queries, Prove(key) PROVE Abstract!Query(key)
    <3> DEFINE made == CreateProof(tree, key)
    <3>1. S \in SUBSET Fits /\ Stored(tree, S) /\ key \in Nat
      BY <2>1, HoldsIsStored, Arguments DEF Holds
    <3>2. made.Membership <=> key \in S
      BY <3>1, ProofIsWellFormed
    <3>3. /\ tree' = tree
          /\ call' = Called("Query", <<key>>, IF made.Membership THEN "member" ELSE "nonmember")
      BY <2>6 DEF Prove
    <3> HIDE DEF made
    <3> QED BY <3>2, <3>3 DEF Called, Abstract!Query, Abstract!Called, S
  <2>7. ASSUME UNCHANGED vars PROVE UNCHANGED Abstract!vars
    BY <2>7 DEF vars, Abstract!vars
  <2>8. Batches = Abstract!Batches /\ Queries \subseteq Serials
    BY Arguments DEF Batches, Abstract!Batches
  <2> QED BY <2>2, <2>3, <2>4, <2>5, <2>6, <2>7, <2>8 DEF Next, Abstract!Next
<1> QED BY <1>1, <1>2, AlwaysCanonical, PTL DEF Spec, ImplementsSet, Abstract!Spec
=============================================================================
