------------------------- MODULE MCSparseMerkleTree -------------------------
(* Instances of SparseMerkleTree for TLC.                                    *)
EXTENDS SparseMerkleTree

\* Depth 4.  0 and 8 share all bits but the last, 4 and 12 the same one branch
\* over, 2 and 1 lie alone higher up; 16 needs a fifth bit.
PathSerials == {0, 8, 4, 12, 2, 1, 16}

\* Proofs are kept for one serial of each kind; 8, 4 and 12 are to the tree what 0 is.
KeptSerials == {0, 2, 1, 16}

\* `call` only records what was done: states that differ in it alone have the
\* same future, the refinement reads the call of a step and not the one before,
\* and the invariants but TypeOK do not read it.
WithoutCall == <<tree, proof>>
=============================================================================
