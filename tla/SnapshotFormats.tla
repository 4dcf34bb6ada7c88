-------------------------- MODULE SnapshotFormats --------------------------
(* The two snapshot formats of internal/snapshot, and how one is made into  *)
(* the other.                                                               *)
(*                                                                          *)
(* A binary snapshot is a header and a sequence of cells, one per node, in  *)
(* whatever order Go's map yields.  Since the hash of a node is the tuple   *)
(* of its children, a cell is the node.  Magic, version and the width of    *)
(* the fields are left out: a file is one that ExportBinary wrote, whole or *)
(* cut off somewhere behind its header.                                     *)
EXTENDS MerkleTree, SequencesExt

-----------------------------------------------------------------------------
(* JSON *)

Export(t, crlNumber) ==
  [root |-> t.Root, count |-> t.Count, crlNumber |-> crlNumber, nodes |-> t.nodes]

\* The number of leaves is the one the file states.
Import(file) ==
  [tree |-> [nodes |-> file.nodes, Root |-> file.root, Count |-> file.count],
   crlNumber |-> file.crlNumber]

-----------------------------------------------------------------------------
(* Binary *)

\* Every file that may be written: the order of the cells is that of a Go map.
ExportBinary(t, crlNumber) ==
  {[nodeCount |-> Cardinality(t.nodes), rootHash |-> t.Root, crlNumber |-> crlNumber,
    cells |-> order, tail |-> "none"] : order \in SetToSeqs(t.nodes)}

Type(node) == IF IsLeaf(node) THEN "leaf" ELSE "branch"

\* A file that breaks off: after a cell, or within one, whose type is still told by
\* its first byte.
Cuts(file) ==
  UNION {{[file EXCEPT !.cells = SubSeq(file.cells, 1, n), !.tail = tail] :
            tail \in {"none", Type(file.cells[n + 1])}} :
         n \in 0..(Len(file.cells) - 1)}

Refused == [ok |-> FALSE]

\* How many cells are leaves.
leaves(cells) == Cardinality({i \in 1..Len(cells) : IsLeaf(cells[i])})

\* Mutant: reads as many cells as there are.
ImportBinary_UpToEnd(file) ==
  [ok |-> TRUE, crlNumber |-> file.crlNumber,
   tree |-> [nodes |-> ToSet(file.cells), Root |-> file.rootHash,
             Count |-> leaves(file.cells)]]

\* Reads exactly as many cells as the header says, and counts the leaves itself.
ImportBinary(file) ==
  LET cells == SubSeq(file.cells, 1, file.nodeCount)
  IN  IF Len(file.cells) < file.nodeCount THEN Refused
      ELSE [ok |-> TRUE, crlNumber |-> file.crlNumber,
            tree |-> [nodes |-> ToSet(cells), Root |-> file.rootHash,
                      Count |-> leaves(cells)]]

\* smtbuild --convert-binary
convertJSONToBinary(json) == ExportBinary(Import(json).tree, Import(json).crlNumber)
=============================================================================
