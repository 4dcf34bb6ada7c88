--------------------------- MODULE RevocationSet ---------------------------
(* What the sparse Merkle tree promises its callers: it behaves as a plain  *)
(* set of revoked serial numbers.  Adding a serial that is too wide for the *)
(* tree, or already there, is an error and changes nothing; so is deleting  *)
(* an absent one; a batch is applied in order up to its first error, and    *)
(* what was applied stays.  Nothing is said here of nodes, hashes or paths. *)
EXTENDS Integers, Sequences

CONSTANTS Serials,    \* serial numbers callers pass in
          Depth,      \* bits of a serial that the tree addresses
          MaxBatch    \* longest batch

VARIABLES revoked,    \* the set
          call        \* the last call: operation, arguments, result

vars == <<revoked, call>>

Called(op, args, result) == [op |-> op, args |-> args, result |-> result]

Ok(b) == IF b THEN "ok" ELSE "error"

Fits == {s \in Serials : s < 2^Depth}

\* Non-empty argument lists of a batch call.
Batches == UNION {[1..n -> Serials] : n \in 1..MaxBatch}

Init == revoked = {} /\ call = Called("New", <<>>, "none")

-----------------------------------------------------------------------------
Add(s) ==
  LET ok == s \in Fits \ revoked
  IN  /\ revoked' = IF ok THEN revoked \union {s} ELSE revoked
      /\ call' = Called("Add", <<s>>, Ok(ok))

Delete(s) ==
  /\ revoked' = revoked \ {s}
  /\ call' = Called("Delete", <<s>>, Ok(s \in revoked))

\* The first n serials of a batch are distinct and all in the set `allowed`.
Prefix(batch, n, allowed) ==
  \A i \in 1..n : batch[i] \in allowed /\ \A j \in 1..(i - 1) : batch[j] # batch[i]

\* n is how far the batch gets before its first error.
Applies(batch, n, allowed) ==
  /\ n \in 0..Len(batch)
  /\ Prefix(batch, n, allowed)
  /\ n < Len(batch) => ~Prefix(batch, n + 1, allowed)

Applied(batch, n) == {batch[i] : i \in 1..n}

BatchAdd(batch) ==
  \E n \in 0..Len(batch) :
    /\ call' = Called("BatchAdd", batch, Ok(n = Len(batch)))
    /\ Applies(batch, n, Fits \ revoked)
    /\ revoked' = revoked \union Applied(batch, n)

BatchDelete(batch) ==
  \E n \in 0..Len(batch) :
    /\ call' = Called("BatchDelete", batch, Ok(n = Len(batch)))
    /\ Applies(batch, n, revoked)
    /\ revoked' = revoked \ Applied(batch, n)

Query(s) ==
  /\ call' = Called("Query", <<s>>, IF s \in revoked THEN "member" ELSE "nonmember")
  /\ UNCHANGED revoked

Next ==
  \/ \E s \in Serials : Add(s) \/ Delete(s) \/ Query(s)
  \/ \E batch \in Batches : BatchAdd(batch) \/ BatchDelete(batch)

Spec == Init /\ [][Next]_vars
=============================================================================
