# A verification project for the MOICA revocation service

`moica-revocation-smt` turns the certificate revocation lists (CRLs) of the
MOICA certificate authority into sparse Merkle trees, serves proofs of
(non-)membership from them, publishes snapshots of them on a GitHub release
page, and posts their roots to a contract.  This directory holds TLA+ models of
that system, the TLC runs that check them on small instances, and proofs that
TLAPS checks for every value of the constants.

Paths below are relative to `src/`.

- [1. The system](#1-the-system)
- [2. The modules](#2-the-modules)
- [3. What is checked](#3-what-is-checked)
- [4. What is proved](#4-what-is-proved)
- [5. Where code and comments part](#5-where-code-and-comments-part)
- [6. What is not modelled](#6-what-is-not-modelled)
- [7. Plan](#7-plan)

## 1. The system

### Inventory

| Component | State it keeps | Operations |
|---|---|---|
| **Sparse Merkle tree**, `server/internal/smt/{tree,batch,path,node,hasher}.go` | a node map from hash to children, root, leaf count, one RWMutex | `Add`, `Delete`, `BatchAdd`, `BatchDelete` |
| **Proofs**, `smt/proof.go` | none; a proof lives on in a client | `CreateProof`, `VerifyProof` |
| **Tree manager**, `manager/manager.go` | per issuer a tree and the number of its CRL, one RWMutex | `SetTree`, `GetTree`, `GetProof`, `Status` |
| **CRL watcher**, `crl/{watcher,fetcher,parser}.go` | place in its round, wait group of exports | fetch, compare numbers, rebuild, set, export; `Start`, `Wait` |
| **JSON snapshots**, `snapshot/{snapshot,download}.go` | `<DataDir>/<issuer>/tree-snapshot.json.gz` | `ExportFile` (temporary file and rename), `ImportFile`, `Download` (in place) |
| **Binary snapshots**, `snapshot/binary.go` | none | encode, decode |
| **smtserver**, `cmd/smtserver/main.go` | place in start-up and shutdown | load every issuer, serve, wait for a signal, stop |
| **REST and gRPC APIs**, `api/rest`, `api/grpcapi` | requests in flight | proof, status |
| **smtbuild**, `cmd/smtbuild/main.go` | `root.json`, snapshot, per issuer | build incrementally, export, post |
| **Relayer**, `chain/relayer.go` | one call's nonce, fees, attempt | `PostRoot`: gas bounds, pin a nonce, send, wait, bump, resend |
| **Contract**, `onchain-contract/contracts/SMTRootStorage.sol` | per issuer root and CRL number | `setRoot` |
| **Workflow**, `.github/workflows/update-smt.yml` | the branch's `root.json` files, the release page; a runner's data directory | build, convert, commit, delete and create the release, post |
| **WASM client**, `server/wasm/{main.go,benchmark.html}` | a tree and a map of nodes received in chunks | `initTree`, `addNodeChunk`, `finalize`, `createProof`, `verifyProof`; the page's `runBenchmark` |
| **Stores**, `store/{memory,badger}.go` | a key-value map, batches | get, put, delete, flush |
| Chain client, configuration, generated bindings | none | |

### How they interact

    authority --CRL--> smtbuild --snapshot--> release page --download--> smtserver
        |                  |                                                |
        |                  +--root.json--> relayer --tx--> contract         |
        |                                                                   |
        +-----------------------CRL--> watcher --tree--> manager <--proof-- API
                                          |
                                          +--goroutine--> snapshot file --restart--> main

In the server four kinds of goroutine meet in the manager and on the disk: `main`
(start-up loop, later `wg.Wait` and the two graceful stops), the watcher's
polling loop, one goroutine per export, and the request handlers.  Between
processes only the disk survives.  The poster's runs meet in the network's
transaction pool, in the account's nonce and in the contract.

### What is hard, and what makes each part correct

- **Tree.**  A path is taken apart and put together again on every change, with a
  shared node map, padding with zero siblings on insertion and lifting of a lone
  leaf on deletion.  Correct: the root depends only on the set of keys; the map
  holds exactly the nodes under the root; the tree behaves as a set.
- **Proofs.**  They outlive the tree they were made from.  Correct: they verify,
  state the truth, and never the untruth against a later root.
- **Server.**  A check and the tree it allows are far apart; exports overlap; the
  process dies anywhere; files are torn; shutdown waits for some goroutines and
  not for others.  Correct: a tree stays paired with its CRL's number wherever it
  goes; what is served, and what a client is told, never goes back; the snapshot
  file stays loadable; a live server becomes fresh; a stopped one stops.
- **Posting.**  Timeouts race late inclusion, answers get lost, resends replace one
  another, whole runs overlap, and integer division rounds the fees.  Correct: no
  overpayment; a resend is a legal replacement; one call is mined once; what a run
  reports is true; the contract never goes back.
- **Publishing.**  Snapshot, binary snapshot, `root.json`, branch, release page and
  contract are replaced one after the other, by steps with conditions of their own;
  a job dies anywhere, and a run started by hand overlaps the scheduled one.  Correct:
  whatever is published is of one CRL; a page's two formats agree; what is posted has
  been committed; the page, which is deleted before it is created, comes back complete.
- **Client.**  Files break off anywhere; JavaScript calls in any order, with any root.
  Correct: no proof against a published root lies, and what was loaded completely
  proves everything.

`PROJECT.json` lists the hazards line by line with the property that covers each.

## 2. The modules

| Module | What it is | Used by |
|---|---|---|
| `RevocationSet` | abstract: a set of serials, what a call returns | `SparseMerkleTree` |
| `MerkleTree` | the tree's operations and proofs, as operators; the tree as a function of its keys | `SparseMerkleTree`, `SnapshotFormats`, `SubtreeProofs` |
| `SubtreeProofs`, `MerkleTreeProofs` | theorems about those operators | `SparseMerkleTreeProofs`, `WasmClientProofs` |
| `SparseMerkleTree` | the tree under its lock, and a proof that lives on | `MCSparseMerkleTree`, `SparseMerkleTreeProofs` |
| `SparseMerkleTreeProofs` | theorems about `SparseMerkleTree`, that it is a set of serials among them | |
| `Server` | server, watcher, manager, snapshot files, requests | `MCServer`, `ServerProofs` |
| `ServerProofs`, `ServerOrderProofs` | theorems about `Server` | |
| `Publishing` | smtbuild's building, the workflow, the release page | `MCPublishing`, `PublishingProofs` |
| `PublishingProofs` | theorems about `Publishing`, that it is the outside of `Server` and keeps the contract's promise among them | |
| `Relayer` | posting runs, relayer, network, contract | `MCRelayer`, `RelayerProofs` |
| `RelayerProofs` | theorems about `Relayer`, that it keeps the contract's promise among them | |
| `RootStorage` | abstract: what the contract records, to its users | `Relayer`, `Publishing` |
| `SnapshotFormats` | JSON and binary snapshots: export, import, conversion | `WasmClient` |
| `WasmClient` | the client in the browser and its page | `MCWasmClient`, `WasmClientProofs` |
| `WasmClientProofs` | theorems about `WasmClient` and the binary import | |

They are composed in four places: `SparseMerkleTree` implements `RevocationSet`, which
is how `Server` and `Publishing` may take a tree for its set of serials; `Publishing`
implements the outside that `Server` assumes (`INSTANCE Server`, action `Environment`);
`Relayer` implements `RootStorage`, and so does `Publishing`, which has a run's posts as
one step;
`WasmClient` loads, with the operators of `SnapshotFormats`, trees that those of
`MerkleTree` have built.

### MerkleTree, SparseMerkleTree

`tree` is the Go struct (`nodes`, `Root`, `Count`).  Poseidon is ideal: the hash of
a node *is* the tuple of its children, so `nodes` is the set of stored hashes.
`addUnlocked`, `deleteUnlocked`, `retrieveEntry`, `CreateProof` and `VerifyProof` are
operators of the same names; the walk down is the recursive function `Walk`, the
recomputation up the recursive function `Climb`.  `Subtree` is the reference: the node
that a set of keys should give at a level, hence `Canonical` the root; `Reachable` is
what hangs under a root.  Each call holds the lock
throughout, hence is one action.  `proof` is a proof a client keeps while the tree
changes; `call` records operation, arguments and result for the refinement.  The
value of a leaf is always 1, as every caller passes.

### Server

A tree is abstracted to its set of serials, which `SparseMerkleTree` justifies: by
`CanonicalRoot` the set determines the root and by `StoreExact` the node map.  An
entry is `[serials, crl]`.

| Variable | Code |
|---|---|
| `issued`, `release` | the authority's CRLs and the JSON assets of the release page (outside) |
| `disk` | the snapshot file: nothing, torn, or a snapshot |
| `trees` | `TreeManager.trees` |
| `main`, `load` | the place in `main()`, and in its start-up loop |
| `watcher` | the place in `Start`/`fetchAll`/`fetchAndRebuild`, issuer, CRL in hand |
| `jobs` | export goroutines: captured entry, temporary file |
| `requests`, `seen` | a handler's entry after the read lock; the number behind a client's last answer |

Steps are cut where another goroutine may come in between: `Fetch` | `Check` | `SetTree`
| log line (`LogPanics`, `Spawn`); `Write` | `Rename`; `Lookup` | `Reply`;
`DownloadStarts` (truncation) | `DownloadEnds`/`DownloadBreaks`.  `Crash` is possible
everywhere and keeps only `disk` and the outside.  `wg.Wait` is modelled with its
reuse rule: a counter that grows again before the waiter has run panics
(`WakePanics`).  `Publish` stands for smtbuild and the
workflow: the release page is replaced as a whole, or gone.

### Publishing

| Variable | Code |
|---|---|
| `issued` | the authority's CRLs (outside) |
| `repo`, `log` | `root.json` at the head of the branch; all that it ever was |
| `release` | the page: JSON assets, binary assets, notes made from `root.json` |
| `sent` | the roots posted that may still be mined |
| `chain` | what the contract records |
| `run[r].pc`, `.issuer`, `.crl` | the step of the job, and inside smtbuild the issuer and CRL at hand |
| `run[r].json`, `.bin`, `.root` | the runner's data directory |
| `run[r].changed` | smtbuild's output |
| `run[r].dirty`, `.behind` | the `root.json` files changed here, and those pushed by others since the checkout |
| `troubles` | the bound on failures and runs started by hand |

The loop of `smtbuild` is `Fetch` | `Download` | `Skip`, `ExportPanics` or one of
`Export`, `ExportFails`, `BinaryFails` and `RecordFails`, which are the ways the three
files of an issuer can be written; its data directory is the job's own, so that
nobody sees what is between.  `Updated` is the incremental update, deletions before
additions; from an empty tree it is the full rebuild.  The steps of the workflow follow:
`Convert` | `Commit` or `CommitConflicts` (the rebase keeps another run's files, and
stops at one both have changed) | `Check` | `Delete` | `Create` or `CreateRefused` |
`Post`.  Any step may fail where its code can, and a job `Dies` anywhere.  `Post` is
one step here: it sends the roots that are newer than the contract's, each of which may
be `Mined` at once, long after the run has ended and others have posted, or never;
`Relayer` is its detail.  A root stands for the set of serials it is
the root of, and a `root.json` for a root and a CRL number.

### Relayer

`poster[r]` is the place of a run in `postRootOnChain` and, inside it, in `PostRoot`:
`read` → `gas` (`applyGasBounds`, `pinNonce`) → `estimate` → `submit` → `wait`, back to
`estimate` with `Bumped` fees after a timeout.  Every result returns to the loop,
which logs it and goes on to the next issuer.  `pool` is what waits anywhere in the
network; a transaction joins it if nothing else has its nonce or if it `Outbids` that
by 10 %, may be dropped, and is mined in the order of nonces when its cap reaches
the base fee.  `mined` is the account's history, `onchain` the contract's number per
issuer; a root is identified with its CRL number.  A run's deadline shows as a call
that fails (`Fails`); a run may be `Killed` anywhere, and its transactions stay out
there.  The node, the network and the base fee are external: they are what the calls
in `relayer.go` rely on.

### RootStorage

What both come to for whoever reads the contract: numbers are read from `root.json`
files (`files`), may then be recorded as long as they are `offered`, and are only
recorded if they are greater than the one there is.  In `Relayer` a number is offered
from `ReadRoot` until the call gives it up and no transaction with it waits
(`Outstanding`); in `Publishing` from `Post`, whose run takes its `files` from what it has
pushed or checked out (`ToPost`), until it is mined or stale.

### SnapshotFormats, WasmClient

As a node's hash is the node, a cell of a binary file is a node, and a file is a header
and a sequence of cells in whatever order Go's map yields; `Cuts` are the files that
break off, between two cells or inside one.  `ImportBinary` reads as many cells as the
header says and refuses a shorter file; the page reads to the end of the file and takes
no notice of the count.  `WasmClient` has the client's two globals, `tree` and `nodes`,
and `file`, what the page loaded last.  `Script` is any order of calls with parts of
published snapshots, in any combination, and any published root; a chunk begins with a
whole node and may end in one that is cut off, which `addNodeChunk` drops.  A call that
returns an error changes nothing and is left out; so is the page when it throws before
`smtInitTree`, as `DecompressionStream` does on an incomplete download
(`benchmark.html:143`).  A file that is cut off is therefore one that was cut before it
was compressed.  `collected` is the page's loop over its chunks.  `finalize` installs
the map, or an empty one if there is none, and lets go of it.

## 3. What is checked

| Run | Instance | Properties |
|---|---|---|
| `Smt` | depth 4; serials 0, 8, 4, 12, 2, 1 and 16 (too wide); batches of up to 2; proofs kept for 0, 2, 1 and 16 | `CanonicalRoot`, `StoreExact`, `ProofsVerify`, `StaleProofSound`, `ImplementsSet`, `TypeOK` |
| `ServerTypes` | 1 issuer, 2 numbers, CRLs without number, wide serials, torn exports | `TypeOK`, `Provenance` |
| `ServerOne` | 1 issuer, 2 numbers, 2 overlapping exports, a REST and a gRPC client; fair | `ServedIsNewest`, `OrderCoherent`, `ServedNeverGoesBack`, `AnswersNeverGoBack`, `DiskStaysLoadable`, `ShutdownCompletes` |
| `ServerTwo` | 2 issuers, 2 numbers, 1 export; fair | `ServedIsNewest`, `ProcessCoherent`, `Freshness` |
| `Publishing` | 2 issuers (one whose list changes, one whose CRL loses its number), the scheduled run and one by hand, 1 trouble; fair | `Provenance`, `AssetsAgree`, `PostedIsCommitted`, `ImplementsOutside`, `ImplementsStorage`, `ReleaseRestored`, `TypeOK` |
| `Relayer` | 1 issuer, 2 overlapping runs, 2 numbers, base fees 1 and 4, tips 1 and 3, ceiling 5, 1 resend per call, 2 calls | `FeesLegal`, `ResendReplaces`, `MinedOnce`, `ReportTrue`, `OnChainNeverGoesBack`, `ImplementsStorage`, `TypeOK` |
| `WasmClient` | depth 2; the trees of {}, {0, 2, 1} and {0, 2, 3}; chunks of up to 2 nodes; every order and every cut of the files; proofs asked for 0 to 3 and 6 (too wide) | `ProofSound`, `CompleteProves`, `ImportExact`, `PageLoads`, `TypeOK` |
| `EmptyPanics`, `WaitReturnsEarly`, `DiskGoesBack`, `TornRename`, `NotesStale` | 1 issuer | refuted: section 5 |

### What they show

- *Tree*: however Adds, Deletes and batches are mixed, two trees with the same keys
  have the same root and nothing is left over in the map; a client that keeps a proof
  is never misled by a later root; to a caller the tree is a set, over-wide serials
  and batches that stop in the middle included.
- *Server*: the number the watcher compares before a rebuild is still the right one
  when it sets the tree, because nobody else sets one while it runs
  (`OrderCoherent`); so a mirror that answers with an older CRL, a slow export or a
  request that reads an entry just before it is replaced never makes anything go
  back in one process.  Across restarts the server may start from an older file
  (section 5), never from one joined to a wrong number.  One issuer whose URL always
  fails does not keep another from becoming fresh, and a server told to stop stops.
- *Publishing*: a snapshot made from an older one by deletions and additions, or kept
  because nothing changed, still joins one CRL's serials to that CRL's number; the
  binary that could not be written is made up for by `Convert`; a run whose rebase
  stops posts nothing.  `ReleaseRestored` says that a page lost in the window between
  deletion and creation, refused because two runs raced, or short of an issuer that
  could not be fetched, comes back with every issuer.  It rests on the test
  `existingCRLNum > 0` in "root unchanged" (`cmd/smtbuild/main.go:184`): with the page
  gone and `root.json` up to date, that test alone makes smtbuild export again, which
  is what the mutant `RootUnchanged_AnyNumber` shows.  It needs CRLs with numbers: one
  without ends every run at line 191.
- *Client*: nodes of two snapshots mixed in one map, a root that does not belong to
  them or a second `finalize` can make a proof fail, never lie.  A file that breaks off,
  even at the border of two nodes, is refused by `ImportBinary`; if it still unzips, the
  page loads it without a word, but some serial's proof does not verify.
- *Posting*: what a call is about to send, a resend included, is within the ceiling and
  its tip within its cap, although the two are rounded separately in the 13 % bump and
  only the cap is compared with the ceiling; pinning the nonce is what makes one call pay once;
  "posted", "stale" and "reverted" are true of the chain even when another run
  replaced the transaction or it was mined late.

### Bounds, and why they are enough

- *Serials of the tree* are chosen by their paths: two that part only in the last
  bit, two that share a branch with them for a while, one alone higher up, one alone
  at the top, one that is cut to an existing path.  All padding and lifting cases of
  length 0 to 3 occur.  Proofs are kept for one serial of each kind.  States that
  differ only in `call` have the same future, so `VIEW WithoutCall` loses none;
  the refinement compares each step's call and effect, which TLC does on every
  transition it generates, also into states it has seen.
- *CRL numbers*: an ordering goes wrong with two.  `MaxCRL` bounds `Issue`; the order
  theorems are for any.
- *Serials of the server*: a set of one is enough where only order matters; an empty
  one is the case of the log line, a wide one that of `Build`.
- *Exports* is a set of identities: with two, two overlap, which is what they do to
  one another; with none free the watcher waits, which the code never does. This only
  leaves out behaviours with more exports at once.
- *Clients*: one per kind of API, with one request at a time: clients do not touch
  one another's state.
- *Issuers*: one for depth, two for the loops and the mix-up of issuers.  In `Relayer`
  one issuer is checked: issuers share only the account's nonces, and the second run
  shares them as well.  The proofs are for any number.
- *Publishing*: two CRLs of one issuer give every skip, update and export; the second
  issuer's CRL without a number ends the program in the middle of the loop.  With one
  trouble, either a run is started by hand and overlaps the scheduled one or one step
  fails, anywhere; two at once multiply the states without a new kind of step.  Wide
  serials (`Wide`) are empty here: `TooWide` is a further reason to skip, and the
  theorems cover it.
- *Client*: three leaves under two branches are five nodes, with 120 orders and nine
  cuts each; the two trees share a branch with its leaves and differ in the rest.
- *Fees*: the four pairs of base fee and tip give the four cases: one where the first
  cap leaves room for a resend below the ceiling, one where it is the ceiling exactly,
  one where it is held to it (in both a resend would be over it), and one that is over it
  from the start.  A tip of 3 is more than the doubled base fee of 1: the cap holds it
  only because it is added.  All fees are small enough for integer division to cut the
  bump to nothing.  One resend per call, made by two calls, gives every order of attempts
  on one nonce; `MaxPosts` bounds the calls that get a nonce.
- Deadlock is checked in every run.

### Fairness

`FairSpec` assumes of the Go scheduler that a goroutine that can run does: weak
fairness of the watcher's, main's stopping, each export's and each reply's steps.
A fetch ends, with a CRL or an error: that is an assumption about the network, since
`http.Get` has no timeout in `fetcher.go`.  Nothing is assumed of signals, crashes,
restarts, issuing, publishing or new requests.  `Freshness` states its own premise:
the process stays up, and the issuer's URL answers with its latest CRL again and
again (strong fairness of that fetch).  For `Publishing` it assumes that GitHub starts the scheduled run again and again and
that a job which runs goes on to its end; `Fetch` and `FetchFails` are one fairness
condition, and failures that the network could repeat for ever are bounded by
`MaxTroubles`.  Nothing is assumed of issuing, of runs by hand or of deaths.
`ShutdownCompletes` needs that exports do not
start for ever, which holds because a new export needs a newer CRL; in the model
`MaxCRL` bounds those, in reality the authority issues far slower than files are
written.

## 4. What is proved

For all values of the constants that satisfy the assumptions of the module
(`ServerAssumption`, `RelayerAssumption`, `PublishingAssumption`, `DepthAssumption`, `TreeAssumption`,
`ClientAssumption`, `NilAssumption`: types; that "no file", "torn file" and `nil` are not
values they could be taken for; that the tree has at least one level; and that the
published sets are finite and fit into it):

| Theorem | Statement |
|---|---|
| `ServerProofs!TypeCorrect` | `Spec => []TypeOK` |
| `ServerProofs!ProvenanceHolds` | `Spec => []Provenance` |
| `ServerProofs!CoherentHolds` | `Spec => []ProcessCoherent` |
| `ServerProofs!DiskHolds` | `TornWrites = FALSE => (Spec => DiskStaysLoadable)` |
| `ServerOrderProofs!NewestHolds` | `Unnumbered = FALSE => (Spec => []ServedIsNewest)` |
| `ServerOrderProofs!ServedHolds` | `Unnumbered = FALSE => (Spec => ServedNeverGoesBack)` |
| `ServerOrderProofs!AnswersHold` | `Unnumbered = FALSE => (Spec => AnswersNeverGoBack)` |
| `ServerOrderProofs!CoherenceHolds` | `Unnumbered = FALSE => (Spec => []OrderCoherent)` |
| `PublishingProofs!TypeCorrect` | `Spec => []TypeOK` |
| `PublishingProofs!ProvenanceHolds` | `Spec => []Provenance` |
| `PublishingProofs!AssetsHold` | `Spec => []AssetsAgree` |
| `PublishingProofs!CommittedHolds` | `Spec => []PostedIsCommitted` |
| `PublishingProofs!OutsideHolds` | `Spec => ImplementsOutside` |
| `PublishingProofs!StorageImplemented` | `Spec => ImplementsStorage` |
| `RelayerProofs!TypeCorrect` | `Spec => []TypeOK` |
| `RelayerProofs!FeesHold` | `Spec => []FeesLegal` |
| `RelayerProofs!ResendHolds` | `Spec => []ResendReplaces` |
| `RelayerProofs!MinedOnceHolds` | `Spec => []MinedOnce` |
| `RelayerProofs!OnChainHolds` | `Spec => OnChainNeverGoesBack` |
| `RelayerProofs!ReportsHold` | `Spec => []ReportTrue` |
| `RelayerProofs!StorageImplemented` | `Spec => ImplementsStorage` |
| `MerkleTreeProofs!AddIsCanonical`, `DeleteIsCanonical` | a call takes the tree of a set to the tree of the set with (without) the key, or fails as a set would |
| `MerkleTreeProofs!BatchAddIsCanonical`, `BatchDeleteIsCanonical` | a batch is its calls up to the first that fails |
| `MerkleTreeProofs!UpdateIsRebuild` | the incremental update and the full rebuild give one tree |
| `MerkleTreeProofs!ProofIsWellFormed`, `VerifiedIsTrue` | a proof from a tree verifies; a well-formed proof that verifies tells the truth |
| `MerkleTreeProofs!ReachableIsCanonical` | `Reachable(Canonical(S)) = NodesOf(S)` |
| `SparseMerkleTreeProofs!Types` | `Spec => []TypeOK` |
| `SparseMerkleTreeProofs!RootIsCanonical` | `Spec => []CanonicalRoot` |
| `SparseMerkleTreeProofs!StoreIsExact` | `Spec => []StoreExact` |
| `SparseMerkleTreeProofs!EveryProofVerifies` | `Spec => []ProofsVerify` |
| `SparseMerkleTreeProofs!StaleProofsAreSound` | `Spec => []StaleProofSound` |
| `SparseMerkleTreeProofs!SetImplemented` | `Spec => ImplementsSet` |
| `WasmClientProofs!AnyProofIsWellFormed` | any map of whole nodes, under any root, gives well-formed proofs |
| `WasmClientProofs!MissingShows` | a missing node makes the proof of some published serial fail |
| `WasmClientProofs!ChunksCover` | `collected(Chunks(cells))` is the set of the cells |
| `WasmClientProofs!Imported` | `ImportBinary` gives the published tree or an error |
| `WasmClientProofs!Types` | `Spec => []TypeOK` |
| `WasmClientProofs!ProofSoundHolds` | `Spec => []ProofSound` |
| `WasmClientProofs!CompleteProvesHolds` | `Spec => CompleteProves` |
| `WasmClientProofs!ImportExactHolds` | `Spec => []ImportExact` |
| `WasmClientProofs!PageLoadsHolds` | `(\A S \in Published : S \subseteq Queries) => (Spec => []PageLoads)` |

The conditions on `TornWrites` and `Unnumbered` are needed and TLC shows why: `TornRename` refutes the first
without it, and a CRL without a number passes the watcher's check (`NotNewer`) and
is served as number 0.

**Server.**  `Provenance` is not inductive: a download in progress holds a body, and
the watcher a CRL, that no file or tree has yet. `ProvenanceInv` adds that both came
from `issued`; since `issued` only grows, each action moves entries that are already
known.  The order theorems rest on `OrderInv == ServedIsNewest /\ OrderCoherent`
together with type, provenance and `ProcessCoherent`: the latter says that the
start-up loop only ever fills an empty entry, `OrderCoherent` that between `Check` and
`SetTree` the comparison stays true and between `Lookup` and `Reply` the entry is not
behind the client's last answer.  With that, `ServedStep` shows that no step lowers
the number of a tree, and everything that must not be ahead of the tree (disk,
exports, requests, answers) follows conjunct by conjunct.

**Relayer.**  What `MinedOnce` and `ResendReplaces` say of transactions depends on the
call that sent them.  The invariant `Calls` ties the two: no call has another's
identity (`CallsDistinct`), all transactions of a call have one nonce (`OneNonce`),
and a call's next offer outbids everything it ever sent, wherever that is now
(`Attempts`).  `FeesOK` carries the ceiling and the tip within its cap, also while a call
waits, which is where the next bump starts from.  The arithmetic is in three lemmas about
`bump` and `FirstFeeCap`, for all naturals: 13 % and at least 1 is at least 10 %
rounded down, and bumping keeps the tip within its cap.  Nonces are mined in order
(`MinedInOrder`), so one nonce is mined once, hence one call.  `ReportTrue` needs
`Recorded`: the contract is at least as far as every transaction mined, so that a
receipt, however old, tells of a root or of a newer one that is there.  For
`ImplementsStorage` one lemma does most of the work: a step of a run that goes on with its
issuer and number, or gives them up, and sends at most what it had read, makes nothing
outstanding that was not (`RunOffersNoMore`); only `ReadRoot` adds a number, that of the
file, and only `Mine` takes one to the contract.

**Publishing.**  What is published depends on what the runners hold, so the invariant
`PublishedInv` adds to the properties, for every run: each file of its data directory
is of one CRL, the binary one that of the JSON one or missing, and a `root.json` that
was not touched is in git (`Files`); and what the run may rely on at its step (`Place`):
nothing is stored for issuers still to come (`Ahead`), after `Convert` the two formats
agree, after `Commit` nothing is uncommitted that may be posted.  A step of
`Publishing` maps to `Issue`, `IssueUnnumbered` or `Publish` of `Server`, or changes
neither CRLs nor page; `Publish` asks that each asset be of a CRL that can be
published, which is `Provenance`.  What is posted outlives its run, so `Waiting` says of
every root in `sent` that it is of one CRL, was committed, and is newer than the
contract's: the first two make `Mined` keep `Provenance` and `PostedIsCommitted`, the third
maps it to `SetRoot` of `RootStorage`.

**Tree.**  The tree that holds S (`Holds`) has the root `Canonical(S)`, the nodes
`NodesOf(S)` and the count of S.  Everything is shown of one level at a time: `Below(S,
p, i)` are the keys of S that share the first i bits of the path p, and a path is
followed down to its fork (`IsFork`, `ForkExists`), the first level at which at most one
key is left.  There a walk ends (`WalkIsCanonical`), with the subtrees beside the path
as its siblings (`Sides`), and from there a climb rebuilds the root (`ClimbIsCanonical`).
An insertion moves the fork down and a deletion moves it up; either exchanges the nodes
on the key's path and leaves those off it alone (`OffPathKept`, `NodesDivide`,
`BranchesOnPath`); the padding with zeros and the lifting past them are `AddedSides`
and `LiftedFork`.  That different keys have different paths, which the bottom level
rests on, is arithmetic about `div` (`PathsDiffer`).  The converse, `ClimbStaysInside`,
carries soundness: a climb that ends in `Canonical(S)` went through nodes of S all the
way, since the hash is ideal, so the siblings of a proof that verifies are those of S
and what it says is true (`VerifiedIsTrue`).

The provers cannot do induction over a predicate; these arguments take the least level
at which a statement fails instead (`LeastNatural`, from the well-foundedness of `<`), as
a set of naturals, and `Upward` and `Downward` package that.  Likewise each recursive
function is first shown to satisfy its equation (`ClimbEquation`, `SubtreeEquation`,
`WalkEquation`, `BatchAddEquation`, ...), by extending a partial solution level by level.

The invariant of `SparseMerkleTree` is `Holds(tree, Keys(tree))`, and that a kept proof is
well formed: its parts belong together, whatever the tree is by now.  `CanonicalRoot`
alone is not inductive, since a call reads the node map.  With it, each call is one of
the theorems above, which also give the result that `RevocationSet` expects, so that
`SetImplemented` is a step-by-step refinement; `StaleProofSound` is `VerifiedIsTrue`
for the kept proof with the current root.  `UpdateIsRebuild` is what `Updated` of
`Publishing` takes for granted: the delta computed in `cmd/smtbuild/main.go:113-161` is
applied without error unless a new serial is too wide, and the order of the two lists,
which comes from Go's map, does not show in the tree.

**Client.**  Published trees hold their sets (`PublishedHolds`).  A client may hold any
published nodes under any published root, so its tree holds no set; but its proofs are
still well formed, because every leaf it has is the leaf of a serial, and that is all
`VerifiedIsTrue` asks: `ProofSound`.  `CompleteProves` holds although the map may have
more than the tree's nodes, since the walk only meets nodes under its root.  For what is
missing, `WalkInside` shows that a walk in a part of the tree is an initial part of the
walk in the whole; so if a serial's proof verifies, all nodes on its path are there, and
a missing node shows in the proof of a serial below it (`MissingShows`).  A file's cells
are the nodes of one tree, each once (`FileShape`); a complete one has as many as the
header says, its chunks hold exactly its cells and its leaves are counted right
(`ChunksCover`, `LeafCount`), and one that is cut off lacks a node.  The
invariant adds to the types that what the page loaded is a function of the file.
The condition of `PageLoadsHolds` is not on the code: the property says that *somebody*
notices, so the serials asked for have to include the published ones, as they do in the
run.

**Only model-checked.**  Liveness under fairness: `Freshness`, `ShutdownCompletes`,
`ReleaseRestored`.  Every other property of a passing run is a theorem.

## 5. Where code and comments part

Each of these runs checks one sentence of the code's comments and TLC returns a
behaviour that violates it.

- **An empty tree ends the process** (`EmptyPanics`, `crl/watcher.go:112`).  The log
  line slices sixteen hexadecimal digits off the root; the root of an empty tree is
  0 and has one.  A CRL none of whose serials is usable makes the watcher's goroutine
  panic, although `Start` "Blocks until ctx is cancelled" (`:46`).
- **`Wait` returns while exports are still to start** (`WaitReturnsEarly`,
  `crl/watcher.go:43`).  The context is looked at between rounds only.
- **The snapshot on disk may go back** (`DiskGoesBack`, `crl/watcher.go:114-116`).
  Exports of one issuer are not ordered; an older one may rename last.  The server
  still serves the newer tree; the next start loads the older one.
- **A torn snapshot may replace a good one** (`TornRename`, `snapshot/snapshot.go:78`).
  The deferred gzip `Close` writes the last block and its error is lost.

- **Notes and snapshot may stay behind the roots in git** (`NotesStale`,
  `cmd/smtbuild/main.go:184`).  A run that dies after `git push` and before it replaces
  the release leaves the older page; every later run builds the new root, finds it in
  `root.json` and skips.  `README.md:59` says that the release notes show the latest
  roots.  The next CRL with other serials repairs it.

A divergence without a run: the error text of `createProof` (`wasm/main.go:134`) asks
for `smtFinalize` first, but `createProof` answers from the empty tree after
`smtInitTree` alone; such a proof verifies against root 0 only.

## 6. What is not modelled

- Encodings: DER (by `crypto/x509`), gzip and JSON syntax (a file decodes to what was
  exported, or does not decode), magic, version and field widths of binary files, ABI,
  protobuf, status and error texts.
- The lost flush of `snapshot.go:78` inside a workflow run: `Publishing` takes an
  export for whole or failed; `Server` and `TornRename` model the flush.
- The field arithmetic of Poseidon; the hash is ideal.
- `PrecomputeLeafHashes` (it only fills a cache of hashes) and `Get`, which have no
  caller outside tests.
- CRL numbers of 64 bits and more, which `watcher.go` truncates; the authority counts
  from 1.
- `chain/client.go` (no state of its own), key handling and `VerifyContract`: they
  decide whether a run starts.
- Configuration (constants here) and generated bindings.
- The key-value stores (`store/memory.go`, `store/badger.go`): no program opens one, so
  there is no sequence of calls a model could be faithful to.
- `ImportBinaryFile`, which only tests call; the client reads the file itself.
- Chunks that begin inside a node: `addNodeChunk` (`wasm/main.go:68-99`) takes any 129 or
  97 bytes for a node and stores what it reads under a key that is no node's hash.  The
  page begins every chunk with a node.
- Errors of the disk while a file that is there is opened or read at start-up
  (`cmd/smtserver/main.go:39-41`).  They too lead to the download, which truncates a good
  file and may put an older one in its place; `DiskStaysLoadable`, `ProcessCoherent` and
  `ServedIsNewest` assume that there are none.

## 7. Plan

Done, in the order in which a user of the service relies on it: the tree, the server
around it, the posting of its root, publishing and its composition with the server, the
client; and the proofs of every safety property among them.  What is left:

1. **`Relayer` liveness**: under a base fee that settles and a network that no longer
   drops, a call that is not killed gets its transaction mined or finds a newer root;
   the bound `MaxPosts` has to go first.
2. **`Publishing` with `Relayer` in place of `Post` and `Mined`**: both are shown to keep
   the promise of `RootStorage`; one specification of the two, with the `files` of the
   one fed from the other's data directories, is not written.
3. **`Store`**, when a program uses one.
