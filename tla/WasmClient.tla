----------------------------- MODULE WasmClient -----------------------------
(* The WebAssembly client: the tree in wasm/main.go, handed over from       *)
(* JavaScript in chunks of a binary snapshot, and the page benchmark.html.  *)
(*                                                                          *)
(* A script may call the functions in any order; JavaScript runs one call   *)
(* after the other.  The page's own program, from the header to the proof,  *)
(* does not wait for anything once the file is there: it is one step.       *)
EXTENDS SnapshotFormats

CONSTANTS Published,   \* the sets of serials whose snapshots have been published
          Queries,     \* the serials proofs are asked for
          ChunkSize,   \* nodes per chunk
          nil          \* no tree, no map, no file

ASSUME ClientAssumption ==
  /\ \A S \in Published : IsFiniteSet(S) /\ S \subseteq 0..(2^Depth - 1)
  /\ Queries \subseteq Nat
  /\ ChunkSize \in Nat \ {0}

VARIABLES tree,    \* the client's tree, or nil
          nodes,   \* the map chunks are collected in, or nil
          file     \* the file the page loaded last, if no script has called since

vars == <<tree, nodes, file>>

TreeOf(S) == batchAdd(NewTree, SetToSeq(S)).tree

Trees == {TreeOf(S) : S \in Published}

AllNodes == UNION {t.nodes : t \in Trees}

\* The files a page may get, with or without their end.  (Their CRL number is 1.)
Files ==
  LET whole == UNION {convertJSONToBinary(Export(t, 1)) : t \in Trees}
  IN  whole \union UNION {Cuts(f) : f \in whole}

\* The trees a client may end up with: published nodes and a published root, in any
\* mixture.
ClientTrees ==
  [nodes : SUBSET AllNodes, Root : {t.Root : t \in Trees} \union {zero}, Count : Nat]

ASSUME NilAssumption ==
  /\ \A map \in SUBSET AllNodes : nil # map
  /\ nil \notin Files
  /\ nil \notin ClientTrees

-----------------------------------------------------------------------------
(* The functions given to JavaScript *)

\* A nil map reads as an empty one.
MapOf(m) == IF m = nil THEN {} ELSE m

\* Mutant: a node that the chunk cuts off is stored without its children.
chunkAdded_KeepsTail(m, cells, tail) ==
  m \union ToSet(cells) \union (IF tail = "none" THEN {} ELSE {<<tail>>})

\* The loop of addNodeChunk; what is left of a node that the chunk cuts off is dropped.
chunkAdded(m, cells, tail) == m \union ToSet(cells)

\* Mutant: the map is let go of before the tree has it.
Finalized_LetsGoFirst(t, m, root, count) == [t EXCEPT !.nodes = {}, !.Root = root, !.Count = count]

Finalized(t, m, root, count) == [t EXCEPT !.nodes = MapOf(m), !.Root = root, !.Count = count]

initTree ==
  /\ tree' = NewTree
  /\ nodes' = {}
  /\ file' = nil

\* An error unless initTree came before.
addNodeChunk(cells, tail) ==
  /\ nodes # nil
  /\ nodes' = chunkAdded(nodes, cells, tail)
  /\ file' = nil
  /\ UNCHANGED tree

finalize(root, count) ==
  /\ tree # nil
  /\ tree' = Finalized(tree, nodes, root, count)
  /\ nodes' = nil
  /\ file' = nil

\* The proof as JSON: an absent matching entry is left out.
proofToJSON(p) ==
  IF p.MatchingEntry = <<>>
  THEN [entry |-> p.Entry, siblings |-> p.Siblings, root |-> p.Root,
        membership |-> p.Membership]
  ELSE [entry |-> p.Entry, siblings |-> p.Siblings, root |-> p.Root,
        membership |-> p.Membership, matchingEntry |-> p.MatchingEntry]

jsonToProof(json) ==
  [Entry |-> json.entry, Siblings |-> json.siblings, Root |-> json.root,
   Membership |-> json.membership,
   MatchingEntry |-> IF "matchingEntry" \in DOMAIN json THEN json.matchingEntry ELSE <<>>]

createProof(key) == proofToJSON(CreateProof(tree, key))

verifyProof(json) == VerifyProof(jsonToProof(json))

-----------------------------------------------------------------------------
(* The page *)

\* Mutant: a chunk begins one node late.
Chunks_OffByOne(cells) ==
  [k \in 1..((Len(cells) + ChunkSize - 1) \div ChunkSize) |->
     SubSeq(cells, (k - 1) * ChunkSize + 2, Min({k * ChunkSize, Len(cells)}))]

\* The whole nodes, ChunkSize at a time.
Chunks(cells) ==
  [k \in 1..((Len(cells) + ChunkSize - 1) \div ChunkSize) |->
     SubSeq(cells, (k - 1) * ChunkSize + 1, Min({k * ChunkSize, Len(cells)}))]

\* The scan reads the type of a node that is cut off as well.
leafCount(f) == leaves(f.cells) + (IF f.tail = "leaf" THEN 1 ELSE 0)

\* What a loop of addNodeChunk over the chunks collects.
collected(chunks) ==
  LET map[k \in 0..Len(chunks)] ==
        IF k = 0 THEN {} ELSE chunkAdded(map[k - 1], chunks[k], "none")
  IN  map[Len(chunks)]

\* The count in the header is shown and not compared with what was loaded.  An error before
\* smtInitTree changes nothing and is left out, as for the other functions: gunzip throws
\* on an incomplete download, so a file that is cut off here was so before it was zipped.
runBenchmark(f) ==
  /\ tree' = Finalized(NewTree, collected(Chunks(f.cells)), f.rootHash, leafCount(f))
  /\ nodes' = nil
  /\ file' = f

-----------------------------------------------------------------------------
Init == tree = nil /\ nodes = nil /\ file = nil

\* A script's chunks are nodes of a published snapshot, whichever it likes, and may break
\* off in a last one.  They begin where a node does: what the loop would make of a chunk
\* that begins inside one is not modelled.
Script ==
  \/ initTree
  \/ \E t \in Trees, tail \in {"none", "leaf", "branch"} :
       \E S \in UNION {kSubset(k, t.nodes) : k \in 0..ChunkSize} :
         addNodeChunk(SetToSeq(S), tail)
  \/ \E t \in Trees : finalize(t.Root, t.Count)

Next == Script \/ \E f \in Files : runBenchmark(f)

Spec == Init /\ [][Next]_vars

-----------------------------------------------------------------------------
(* Properties *)

\* The tree and the map hold whole nodes only.
TypeOK ==
  /\ tree # nil => tree \in ClientTrees
  /\ nodes # nil => nodes \subseteq AllNodes
  /\ file # nil => tree # nil /\ nodes = nil

\* Whatever a script has done - chunks left out, mixed with those of another
\* snapshot, finalized twice or with the wrong root - a proof that verifies against
\* the root of a published tree tells the truth about that tree.
ProofSound ==
  tree # nil =>
    \A t \in Trees, key \in Queries :
      LET p == createProof(key)
      IN  p.root = t.Root /\ verifyProof(p) => (p.membership <=> key \in Keys(t))

\* Once all nodes of a tree have been handed over, in whatever chunks and with whatever
\* else has got into the map, finalizing with its root makes every proof verify.
CompleteProves ==
  [][nodes # nil /\ nodes' = nil /\ file' = nil =>
       \A t \in Trees :
         tree'.Root = t.Root /\ t.nodes \subseteq nodes
           => \A key \in Queries : verifyProof(createProof(key))']_vars

\* A file imported by the server's code is the tree it was made from, through JSON,
\* conversion and any order of its nodes; one that is cut off is refused.
ImportExact ==
  file # nil =>
    LET r == ImportBinary(file)
        complete == Len(file.cells) = file.nodeCount
    IN  /\ r.ok <=> complete
        /\ r.ok => r.tree \in Trees /\ r.tree.Root = file.rootHash

\* The page loads what ImportBinary would.  A file that unzips and that ImportBinary
\* refuses is loaded without a word, and shows in a proof that does not verify.
PageLoads ==
  file # nil =>
    LET r == ImportBinary(file)
    IN  IF r.ok THEN tree = r.tree
        ELSE \E key \in Queries : ~verifyProof(createProof(key))
=============================================================================
