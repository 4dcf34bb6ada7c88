----------------------------- MODULE Publishing -----------------------------
(* Publishing snapshots: the workflow "Update SMT" and the program smtbuild *)
(* that it runs.                                                            *)
(*                                                                          *)
(* A workflow run checks the repository out, builds a snapshot and a        *)
(* root.json per issuer, commits what root.json files changed, replaces the *)
(* release page, and posts the roots.  Its runner's data directory starts   *)
(* with what git holds, which is root.json and no snapshot, and goes with   *)
(* the runner.  Runs share the authority's CRLs, the repository, the        *)
(* release page and the contract; nothing keeps two of them apart.          *)
(*                                                                          *)
(* A snapshot is the set of serials in its tree and a CRL number, as in     *)
(* module Server; a root stands for the set it is the root of, and so does  *)
(* a root.json, which holds a root and a number.                            *)
EXTENDS Integers

CONSTANTS
  NumIssuers,     \* issuers, built in this order
  Serials,        \* serial numbers
  Wide,           \* the serials too wide for the tree
  MaxCRL,         \* bound: largest CRL number
  Authority,      \* bound: the CRLs each issuer's authority may issue
  Runs,           \* workflow runs that may overlap
  Scheduled,      \* those that cron starts again and again
  MaxTroubles,    \* bound: failed steps and runs started by hand, together
  Nothing,        \* no file, no release, no tree
  Torn            \* a root.json that was cut off

Issuers == 1..NumIssuers

\* Number 0 stands for a CRL without one (Number == nil).
CRL == [number : 0..MaxCRL, serials : SUBSET Serials]

Snapshot == [serials : SUBSET Serials, crl : 0..MaxCRL]

ASSUME PublishingAssumption ==
  /\ NumIssuers \in Nat \ {0}
  /\ MaxCRL \in Nat
  /\ Wide \subseteq Serials
  /\ Authority \in [Issuers -> SUBSET CRL]
  /\ Scheduled \subseteq Runs
  /\ MaxTroubles \in Nat
  /\ Nothing # Torn
  /\ Nothing \notin Snapshot
  /\ Torn \notin Snapshot

VARIABLES
  issued,      \* CRLs the authority has issued, per issuer (number 0: none)
  repo,        \* root.json at the head of the branch, per issuer
  log,         \* every root.json the branch has had, per issuer
  release,     \* the page snapshot-latest: JSON and binary assets, notes
  sent,        \* roots posted that the contract may still record, per issuer
  chain,       \* what the contract records, per issuer
  run,         \* per workflow run, where it stands and its data directory
  troubles     \* failed steps and runs started by hand so far

vars == <<issued, repo, log, release, sent, chain, run, troubles>>

world == <<issued, repo, log, release, sent, chain>>

-----------------------------------------------------------------------------
(* Values *)

Everywhere(value) == [i \in Issuers |-> value]

NoCRL == [number |-> 0, serials |-> {}]

\* A run: its step, the issuer and CRL smtbuild is at, the files of its data
\* directory, smtbuild's output `changed`, the issuers whose root.json is no
\* longer the one checked out, and those whose root.json others have pushed since.
At(step, root) ==
  [pc |-> step, issuer |-> 1, crl |-> NoCRL,
   json |-> Everywhere(Nothing), bin |-> Everywhere(Nothing), root |-> root,
   changed |-> FALSE, dirty |-> {}, behind |-> {}]

Idle == At("idle", Everywhere(Nothing))

Is(r, step) == run[r].pc = step

BeforePush == {"fetch", "download", "update", "convert", "commit"}

Goes(r, step) == run' = [run EXCEPT ![r].pc = step]

JobEnds(r) == run' = [run EXCEPT ![r] = Idle]

\* Mutant: the last issuer is not the last.
Turned_OneMore(p) ==
  IF p.issuer <= NumIssuers THEN [p EXCEPT !.pc = "fetch", !.issuer = @ + 1, !.crl = NoCRL]
                            ELSE [p EXCEPT !.pc = "convert", !.crl = NoCRL]

\* The loop goes on with the next issuer, or the build is over.
Turned(p) ==
  IF p.issuer < NumIssuers THEN [p EXCEPT !.pc = "fetch", !.issuer = @ + 1, !.crl = NoCRL]
                           ELSE [p EXCEPT !.pc = "convert", !.crl = NoCRL]

\* One of a bounded number of failures and runs started by hand.
Trouble == troubles < MaxTroubles /\ troubles' = troubles + 1

Init ==
  /\ issued = Everywhere({})
  /\ repo = Everywhere(Nothing)
  /\ log = Everywhere({})
  /\ release = Nothing
  /\ sent = Everywhere({})
  /\ chain = Everywhere(Nothing)
  /\ run = [r \in Runs |-> Idle]
  /\ troubles = 0

-----------------------------------------------------------------------------
(* Outside *)

\* Numbers grow, with gaps or without.
Issue(i) ==
  /\ \E c \in Authority[i] \ issued[i] :
       /\ c.number > 0 => \A d \in issued[i] : d.number < c.number
       /\ issued' = [issued EXCEPT ![i] = @ \union {c}]
  /\ UNCHANGED <<repo, log, release, sent, chain, run, troubles>>

-----------------------------------------------------------------------------
(* A run starts *)

Schedule(r) ==
  /\ r \in Scheduled /\ Is(r, "idle")
  /\ run' = [run EXCEPT ![r] = At("fetch", repo)]
  /\ UNCHANGED <<world, troubles>>

Dispatch(r) ==
  /\ r \notin Scheduled /\ Is(r, "idle")
  /\ run' = [run EXCEPT ![r] = At("fetch", repo)]
  /\ Trouble
  /\ UNCHANGED world

-----------------------------------------------------------------------------
(* smtbuild, one issuer after the other *)

Fetch(r, c) ==
  /\ Is(r, "fetch")
  /\ run' = [run EXCEPT ![r].pc = "download", ![r].crl = c]
  /\ UNCHANGED <<world, troubles>>

\* No answer, not 200, or not a CRL: the issuer is skipped.
FetchFails(r) ==
  /\ Is(r, "fetch")
  /\ run' = [run EXCEPT ![r] = Turned(@)]
  /\ IF issued[run[r].issuer] = {} THEN UNCHANGED troubles ELSE Trouble
  /\ UNCHANGED world

\* There is no local snapshot on a runner; the release's becomes the local one.
Download(r) ==
  /\ Is(r, "download")
  /\ release # Nothing
  /\ run' = [run EXCEPT ![r].pc = "update",
                        ![r].json[run[r].issuer] = release.json[run[r].issuer]]
  /\ UNCHANGED <<world, troubles>>

\* The copy breaks off and what there is of it is removed, or there is no release.
DownloadFails(r) ==
  /\ Is(r, "download")
  /\ Goes(r, "update")
  /\ IF release = Nothing THEN UNCHANGED troubles ELSE Trouble
  /\ UNCHANGED world

-----------------------------------------------------------------------------
(* smtbuild: the update of one issuer *)

Local(p) == p.json[p.issuer]

\* The serials in the tree of the local snapshot, if there is one.
Held(p) == IF Local(p) = Nothing THEN {} ELSE Local(p).serials

\* Mutant: serials that are no longer listed stay in the tree.
Updated_AddsOnly(old, new) == old \union (new \ old)

\* BatchDelete of what is no longer listed, then BatchAdd of what is new; from an
\* empty tree this is the full rebuild.
Updated(old, new) == (old \ (old \ new)) \union (new \ old)

NoChange(p) == Held(p) # {} /\ Held(p) = p.crl.serials

TooWide(p) == (p.crl.serials \ Held(p)) \intersect Wide # {}

\* Mutant: the snapshot's number is not looked at.
RootUnchanged_AnyNumber(p) ==
  /\ p.root[p.issuer] \in Snapshot
  /\ p.root[p.issuer].serials = Updated(Held(p), p.crl.serials)

\* root.json has the new root already, and there is a snapshot with a number.
RootUnchanged(p) ==
  /\ p.root[p.issuer] \in Snapshot
  /\ p.root[p.issuer].serials = Updated(Held(p), p.crl.serials)
  /\ Local(p) # Nothing /\ Local(p).crl > 0

Skips(p) == NoChange(p) \/ TooWide(p) \/ RootUnchanged(p)

\* Mutant: the snapshot keeps the number it had.
Built_OldNumber(p) ==
  [serials |-> Updated(Held(p), p.crl.serials),
   crl |-> IF Local(p) = Nothing THEN p.crl.number ELSE Local(p).crl]

Built(p) == [serials |-> Updated(Held(p), p.crl.serials), crl |-> p.crl.number]

Skip(r) ==
  /\ Is(r, "update") /\ Skips(run[r])
  /\ run' = [run EXCEPT ![r] = Turned(@)]
  /\ UNCHANGED <<world, troubles>>

\* CRLNumber is nil: the program dies, and the job with it.
ExportPanics(r) ==
  /\ Is(r, "update") /\ ~Skips(run[r]) /\ run[r].crl.number = 0
  /\ JobEnds(r)
  /\ UNCHANGED <<world, troubles>>

ToExport(r) == Is(r, "update") /\ ~Skips(run[r]) /\ run[r].crl.number > 0


\* The files of the issuer at hand, written one after the other.
Stored(p, bin) == [p EXCEPT !.json[p.issuer] = Built(p), !.bin[p.issuer] = bin]

\* A new root.json differs from the old one, if only in its timestamp.
Recorded(p, root) == [p EXCEPT !.root[p.issuer] = root, !.dirty = @ \union {p.issuer}]

Finished(p, built) == Turned([Recorded(p, built) EXCEPT !.changed = TRUE])

Export(r) ==
  /\ ToExport(r)
  /\ LET p == run[r]
     IN  run' = [run EXCEPT ![r] = Finished(Stored(p, Built(p)), Built(p))]
  /\ UNCHANGED <<world, troubles>>

\* ExportFile fails and leaves the local snapshot as it was.
ExportFails(r) ==
  /\ ToExport(r)
  /\ run' = [run EXCEPT ![r] = Turned(@)]
  /\ Trouble
  /\ UNCHANGED world

\* ExportBinaryFile fails, which is only a warning.
BinaryFails(r) ==
  /\ ToExport(r)
  /\ LET p == run[r]
     IN  run' = [run EXCEPT ![r] = Finished(Stored(p, Nothing), Built(p))]
  /\ Trouble
  /\ UNCHANGED world

\* root.json cannot be opened, or is truncated and not written in full.
RecordFails(r) ==
  /\ ToExport(r)
  /\ LET stored == Stored(run[r], Built(run[r]))
     IN  \E p \in {stored, Recorded(stored, Torn)} : run' = [run EXCEPT ![r] = Turned(p)]
  /\ Trouble
  /\ UNCHANGED world

-----------------------------------------------------------------------------
(* The steps after the build *)

\* Mutant: the step is left out.
Converted_Never(p) == p.bin

\* A binary snapshot from the JSON one where it is missing.
Converted(p) ==
  [i \in Issuers |-> IF p.bin[i] = Nothing THEN p.json[i] ELSE p.bin[i]]

Convert(r) ==
  /\ Is(r, "convert")
  /\ run' = [run EXCEPT ![r].bin = Converted(run[r]),
                        ![r].pc = IF run[r].changed THEN "commit" ELSE "check"]
  /\ UNCHANGED <<world, troubles>>

Head(p) == [i \in Issuers |-> IF i \in p.dirty THEN p.root[i] ELSE repo[i]]

\* What the others' checkouts lack once r has pushed; r's own now has it all.
Pushed(r) ==
  [q \in Runs |->
     IF q = r THEN [run[r] EXCEPT !.pc = "check", !.root = Head(run[r]),
                                  !.dirty = {}, !.behind = {}]
     ELSE IF run[q].pc \in BeforePush THEN [run[q] EXCEPT !.behind = @ \union run[r].dirty]
     ELSE run[q]]

\* commit, pull --rebase, push: another run's root.json files are kept.
Commit(r) ==
  /\ Is(r, "commit")
  /\ run[r].dirty \intersect run[r].behind = {}
  /\ repo' = Head(run[r])
  /\ log' = [i \in Issuers |-> log[i] \union ({repo'[i]} \ {Nothing})]
  /\ run' = Pushed(r)
  /\ UNCHANGED <<issued, release, sent, chain, troubles>>

\* Mutant: a failed push does not end the job.
CommitConflicts_GoesOn(r) ==
  /\ Is(r, "commit")
  /\ run[r].dirty \intersect run[r].behind # {}
  /\ Goes(r, "check")
  /\ UNCHANGED <<world, troubles>>

\* The rebase stops at a file both have changed, and the job ends.
CommitConflicts(r) ==
  /\ Is(r, "commit")
  /\ run[r].dirty \intersect run[r].behind # {}
  /\ JobEnds(r)
  /\ UNCHANGED <<world, troubles>>

\* Once the page is as it should be, the last step reads the data directory's roots
\* and nothing else.  It is left out unless something changed or force_post_root is
\* set, an input of runs started by hand that nothing reads before.
Uploaded(r) ==
  \E forced \in (IF r \in Scheduled THEN {FALSE} ELSE BOOLEAN) :
    run' = [run EXCEPT ![r] = IF run[r].changed \/ forced
                              THEN At("post", run[r].root) ELSE Idle]

\* A new page is needed when something changed or the old one lacks smt.wasm,
\* which every page has.
Check(r) ==
  /\ Is(r, "check")
  /\ IF run[r].changed \/ release = Nothing
     THEN Goes(r, "delete")
     ELSE Uploaded(r)
  /\ UNCHANGED <<world, troubles>>

\* `gh release view` fails: taken for a page without smt.wasm.
CheckFails(r) ==
  /\ Is(r, "check")
  /\ Goes(r, "delete")
  /\ Trouble
  /\ UNCHANGED world

Delete(r) ==
  /\ Is(r, "delete")
  /\ release' = Nothing
  /\ Goes(r, "create")
  /\ UNCHANGED <<issued, repo, log, sent, chain, troubles>>

\* "|| true"
DeleteFails(r) ==
  /\ Is(r, "delete")
  /\ Goes(r, "create")
  /\ Trouble
  /\ UNCHANGED world

Create(r) ==
  /\ Is(r, "create") /\ release = Nothing
  /\ release' = [json |-> run[r].json, bin |-> run[r].bin, notes |-> run[r].root]
  /\ Uploaded(r)
  /\ UNCHANGED <<issued, repo, log, sent, chain, troubles>>

\* There is a page of that name already, or jq cannot read a root.json.
CreateRefused(r) ==
  /\ Is(r, "create")
  /\ release # Nothing \/ \E i \in Issuers : run[r].root[i] = Torn
  /\ JobEnds(r)
  /\ UNCHANGED <<world, troubles>>

\* Mutant: the contract takes any CRL number.
Newer_Any(root, old) == root \in Snapshot

Newer(root, old) == root \in Snapshot /\ (old = Nothing \/ root.crl > old.crl)

\* smtbuild --post-root: a stale root is refused, any other is sent.  Its transaction
\* may be mined much later, or never: the job knows of neither.
Post(r) ==
  /\ Is(r, "post")
  /\ sent' = [i \in Issuers |-> sent[i] \union {root \in {run[r].root[i]} : Newer(root, chain[i])}]
  /\ JobEnds(r)
  /\ UNCHANGED <<issued, repo, log, release, chain, troubles>>

\* The contract records a root; those that are stale from now on revert.
Mined(i) ==
  /\ \E root \in sent[i] :
       /\ chain' = [chain EXCEPT ![i] = root]
       /\ sent' = [sent EXCEPT ![i] = {other \in @ : Newer(other, root)}]
  /\ UNCHANGED <<issued, repo, log, release, run, troubles>>

\* A step fails, or the job is cancelled or lost.
Dies(r) ==
  /\ ~Is(r, "idle")
  /\ JobEnds(r)
  /\ Trouble
  /\ UNCHANGED world

-----------------------------------------------------------------------------
BuildStep(r) ==
  \/ \E c \in issued[run[r].issuer] : Fetch(r, c)
  \/ FetchFails(r) \/ Download(r) \/ DownloadFails(r)
  \/ Skip(r) \/ ExportPanics(r) \/ Export(r)
  \/ ExportFails(r) \/ BinaryFails(r) \/ RecordFails(r)

PublishStep(r) ==
  \/ Convert(r) \/ Commit(r) \/ CommitConflicts(r) \/ Check(r) \/ CheckFails(r)
  \/ Delete(r) \/ DeleteFails(r) \/ Create(r) \/ CreateRefused(r) \/ Post(r)

Next ==
  \/ \E i \in Issuers : Issue(i) \/ Mined(i)
  \/ \E r \in Runs :
       Schedule(r) \/ Dispatch(r) \/ BuildStep(r) \/ PublishStep(r) \/ Dies(r)

Spec == Init /\ [][Next]_vars

\* GitHub starts the scheduled run again and again, and a job that runs goes on to
\* its end.  Steps stop failing at some point: MaxTroubles bounds them.
Fairness ==
  \A r \in Runs : WF_vars(Schedule(r)) /\ WF_vars(BuildStep(r) \/ PublishStep(r))

FairSpec == Spec /\ Fairness

-----------------------------------------------------------------------------
(* Properties *)

Offer == [Issuers -> Snapshot \union {Nothing}]
Record == [Issuers -> Snapshot \union {Nothing, Torn}]

RunType == [pc : BeforePush \union {"idle", "check", "delete", "create", "post"},
            issuer : Issuers, crl : CRL \union {NoCRL}, json : Offer, bin : Offer,
            root : Record, changed : BOOLEAN, dirty : SUBSET Issuers,
            behind : SUBSET Issuers]

\* The shape of every variable.
TypeOK ==
  /\ issued \in [Issuers -> SUBSET CRL]
  /\ repo \in Record
  /\ log \in [Issuers -> SUBSET (Snapshot \union {Torn})]
  /\ release \in [json : Offer, bin : Offer, notes : Record] \union {Nothing}
  /\ sent \in [Issuers -> SUBSET Snapshot]
  /\ chain \in Offer
  /\ run \in [Runs -> RunType]
  /\ troubles \in 0..MaxTroubles

FromIssued(i) ==
  {[serials |-> c.serials, crl |-> c.number] :
     c \in {d \in issued[i] : d.number > 0 /\ d.serials \intersect Wide = {}}}

\* Whatever is published - asset, note, root.json, root on chain - joins the
\* serials of one CRL to the number of that CRL, though it was made from an older
\* snapshot by deletions and additions, and may have been kept when its root
\* was found unchanged.
Provenance ==
  \A i \in Issuers :
    /\ release # Nothing =>
         /\ release.json[i] \in FromIssued(i) \union {Nothing}
         /\ release.bin[i] \in FromIssued(i) \union {Nothing}
         /\ release.notes[i] \in FromIssued(i) \union {Nothing, Torn}
    /\ repo[i] \in FromIssued(i) \union {Nothing, Torn}
    /\ chain[i] \in FromIssued(i) \union {Nothing}

\* A page's two assets of an issuer are of one CRL: a binary export that failed
\* is made up for, and never by the binary of an older snapshot.
AssetsAgree == release # Nothing => release.bin = release.json

\* Every root on chain has been in the repository, whichever run posted it and
\* whatever others pushed or failed to push meanwhile.
PostedIsCommitted == \A i \in Issuers : chain[i] \in log[i] \union {Nothing}

Page == IF release = Nothing THEN Everywhere(Nothing) ELSE release.json

\* To a server, the workflow is what module Server assumes of its outside: CRLs
\* are issued, and at times the whole page is replaced or gone.
Outside == INSTANCE Server WITH
  Contents <- SUBSET Serials, Unnumbered <- TRUE,
  Exports <- {}, TornWrites <- FALSE, Clients <- {}, GrpcClients <- {},
  release <- Page, disk <- Everywhere(Nothing), trees <- Everywhere(Nothing),
  main <- "down", load <- 0, watcher <- 0, jobs <- <<>>, requests <- <<>>, seen <- <<>>

ImplementsOutside ==
  /\ issued = Everywhere({}) /\ Page = Everywhere(Nothing)
  /\ [][Outside!Environment]_<<issued, Page>>

\* The numbers of the roots that runs are about to post.
ToPost(i) ==
  {run[r].root[i].crl : r \in {q \in Runs : Is(q, "post") /\ run[q].root[i] \in Snapshot}}

Storage == INSTANCE RootStorage WITH
  files <- [i \in Issuers |-> ToPost(i)],
  offered <- [i \in Issuers |-> {root.crl : root \in sent[i]}],
  recorded <- [i \in Issuers |-> IF chain[i] = Nothing THEN 0 ELSE chain[i].crl]

\* What the contract records is what module Relayer lets happen: a root some run
\* posted, whenever its transaction is mined, if it is newer then than what is there.
ImplementsStorage == Storage!Spec

\* Every CRL of the issuer can be published.
Good(i) == issued[i] # {} /\ \A c \in issued[i] : c.serials \intersect Wide = {}

Complete == \A i \in Issuers : Good(i) => release # Nothing /\ release.json[i] # Nothing

\* The page always comes back complete: whatever was lost when a run died between
\* deleting the page and creating it, when it left out an issuer that could not be
\* fetched, or when two runs deleted each other's page - if every CRL has a number.
ReleaseRestored ==
  [](\A i \in Issuers : \A c \in issued[i] : c.number > 0) => []<>Complete

-----------------------------------------------------------------------------
(* What the README says, and TLC refutes *)

\* README.md:59: "The latest Merkle roots for each issuer are displayed in the
\* snapshot-latest release notes": again and again they are those of root.json.
NotesCatchUp == []<>(repo # Everywhere(Nothing) => release # Nothing /\ release.notes = repo)
=============================================================================
