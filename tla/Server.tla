------------------------------- MODULE Server -------------------------------
(* The proof server: cmd/smtserver with the tree manager, the CRL watcher   *)
(* and the snapshot files it is made of, and what it meets outside.         *)
(*                                                                          *)
(* One process runs main (load the snapshots, serve, shut down), the        *)
(* watcher's polling loop, one goroutine per snapshot export, and the       *)
(* handlers of REST and gRPC requests.  Between processes only the disk     *)
(* survives.  Outside, a certificate authority issues CRLs and the release  *)
(* page offers a snapshot of one of them.                                   *)
(*                                                                          *)
(* A tree is the set of serials it holds (module SparseMerkleTree shows     *)
(* that this is all a tree is), and a snapshot is a tree and the number of  *)
(* the CRL it was built from.                                               *)
EXTENDS Integers

CONSTANTS
  NumIssuers,   \* issuers, polled and loaded in this order
  Serials,      \* serial numbers
  Wide,         \* the serials too wide for the tree
  Contents,     \* the sets of serials a CRL may list
  MaxCRL,       \* bound: largest CRL number
  Unnumbered,   \* whether a CRL may lack a number (Number == nil)
  Exports,      \* bound: identities of export goroutines alive at once
  TornWrites,   \* whether the final flush of an export may fail unnoticed
  Clients,      \* API clients, each with one request at a time
  GrpcClients,  \* those that come by gRPC; the others come by REST
  Nothing,      \* no file, no tree, no job, no request
  Torn          \* a file that does not decode

Issuers == 1..NumIssuers

CRL == [number : 0..MaxCRL, serials : Contents]

Snapshot == [serials : SUBSET Serials, crl : 0..MaxCRL]

ASSUME ServerAssumption ==
  /\ NumIssuers \in Nat \ {0}
  /\ MaxCRL \in Nat
  /\ Wide \subseteq Serials
  /\ Contents \subseteq SUBSET Serials
  /\ Unnumbered \in BOOLEAN
  /\ TornWrites \in BOOLEAN
  /\ GrpcClients \subseteq Clients
  /\ Nothing # Torn
  /\ Nothing \notin Snapshot
  /\ Torn \notin Snapshot

VARIABLES
  issued,     \* CRLs the authority has issued, per issuer (number 0: none)
  release,    \* the page snapshot-latest: the asset of each issuer
  disk,       \* <DataDir>/<issuer>/tree-snapshot.json.gz
  trees,      \* TreeManager.trees
  main,       \* where main() stands
  load,       \* its start-up loop: issuer, step, body of the download
  watcher,    \* the polling loop: pc, issuer, CRL in hand
  jobs,       \* export goroutines: snapshot captured, temporary file
  requests,   \* per client, the tree entry its handler has read
  seen        \* per client and issuer, the number behind its last answer

vars == <<issued, release, disk, trees, main, load, watcher, jobs, requests, seen>>

outside == <<issued, release>>
api == <<requests, seen>>

-----------------------------------------------------------------------------
(* Values *)

\* The tree the watcher builds: Add fails on a serial that is too wide or
\* already there, and the loop goes on.
Build(c) == [serials |-> c.serials \ Wide, crl |-> c.number]

Serving == {"serve", "drain", "waiting", "released", "stopGrpc", "stopHttp"}
Running == {"load"} \union Serving
Cancelled == main \in Serving \ {"serve"}

Job == [issuer : Issuers, snap : Snapshot, file : Snapshot \union {Nothing, Torn}]
Request == [issuer : Issuers, entry : Snapshot]

Loading(i) == [issuer |-> i, step |-> "import", body |-> Nothing]

NoCRL == [number |-> 0, serials |-> {}]
Off == [pc |-> "off", issuer |-> 1, crl |-> NoCRL]
Asleep == [pc |-> "sleep", issuer |-> 1, crl |-> NoCRL]
Fetching(i) == [pc |-> "fetch", issuer |-> i, crl |-> NoCRL]

\* Mutant: the loop runs one issuer too far.
AfterIssuer_OffByOne(i) == IF i <= NumIssuers THEN Fetching(i + 1) ELSE Asleep

AfterIssuer(i) == IF i < NumIssuers THEN Fetching(i + 1) ELSE Asleep

Live == {j \in Exports : jobs[j] # Nothing}

Init ==
  /\ issued = [i \in Issuers |-> {}]
  /\ release = [i \in Issuers |-> Nothing]
  /\ disk = [i \in Issuers |-> Nothing]
  /\ trees = [i \in Issuers |-> Nothing]
  /\ main = "down"
  /\ load = Loading(1)
  /\ watcher = Off
  /\ jobs = [j \in Exports |-> Nothing]
  /\ requests = [c \in Clients |-> Nothing]
  /\ seen = [c \in Clients |-> [i \in Issuers |-> 0]]

-----------------------------------------------------------------------------
(* Outside *)

\* Numbers grow, with gaps or without.
Issue(i) ==
  /\ \E n \in 1..MaxCRL, s \in Contents :
       /\ \A c \in issued[i] : c.number < n
       /\ issued' = [issued EXCEPT ![i] = @ \union {[number |-> n, serials |-> s]}]
  /\ UNCHANGED <<release, disk, trees, main, load, watcher, jobs, api>>

IssueUnnumbered(i) ==
  /\ Unnumbered
  /\ \E s \in Contents :
       issued' = [issued EXCEPT ![i] = @ \union {[number |-> 0, serials |-> s]}]
  /\ UNCHANGED <<release, disk, trees, main, load, watcher, jobs, api>>

\* smtbuild publishes what the mirror it asked answered, not always the latest;
\* it skips a CRL with a serial too wide and needs a number.
Publishable(i) == {Build(c) : c \in {d \in issued[i] : d.number > 0
                                                       /\ d.serials \intersect Wide = {}}}

\* The workflow replaces the page as a whole: deleted, nothing is on it, and when
\* it is created again an issuer may be missing (module Publishing).
Publish ==
  /\ \E page \in [Issuers -> {Nothing} \union UNION {Publishable(i) : i \in Issuers}] :
       /\ \A i \in Issuers : page[i] \in Publishable(i) \union {Nothing}
       /\ release' = page
  /\ UNCHANGED <<issued, disk, trees, main, load, watcher, jobs, api>>

-----------------------------------------------------------------------------
(* main: load one snapshot per issuer *)

Start ==
  /\ main \notin Running
  /\ main' = "load"
  /\ load' = Loading(1)
  /\ UNCHANGED <<outside, disk, trees, watcher, jobs, api>>

At(step) ==
  /\ main = "load"
  /\ load.issuer \in Issuers
  /\ load.step = step

NextIssuer == load' = Loading(load.issuer + 1)

\* Mutant: the release is preferred to the local file.
Import_DownloadsFirst ==
  /\ At("import")
  /\ load' = [load EXCEPT !.step = "download"]
  /\ UNCHANGED <<outside, disk, trees, main, watcher, jobs, api>>

\* A local file that decodes is served; otherwise the release is downloaded.  Assumed:
\* opening and reading a file that is there do not fail, which would download as well.
Import ==
  /\ At("import")
  /\ IF disk[load.issuer] \in Snapshot
     THEN /\ trees' = [trees EXCEPT ![load.issuer] = disk[load.issuer]]
          /\ NextIssuer
     ELSE /\ load' = [load EXCEPT !.step = "download"]
          /\ UNCHANGED trees
  /\ UNCHANGED <<outside, disk, main, watcher, jobs, api>>

\* No answer, not 200, or the file cannot be created.
DownloadFails ==
  /\ At("download")
  /\ NextIssuer
  /\ UNCHANGED <<outside, disk, trees, main, watcher, jobs, api>>

\* os.Create truncates the snapshot file itself.
DownloadStarts ==
  /\ At("download")
  /\ release[load.issuer] # Nothing
  /\ disk' = [disk EXCEPT ![load.issuer] = Torn]
  /\ load' = [load EXCEPT !.step = "copy", !.body = release[load.issuer]]
  /\ UNCHANGED <<outside, trees, main, watcher, jobs, api>>

DownloadEnds ==
  /\ At("copy")
  /\ disk' = [disk EXCEPT ![load.issuer] = load.body]
  /\ load' = [load EXCEPT !.step = "reimport"]
  /\ UNCHANGED <<outside, trees, main, watcher, jobs, api>>

\* The copy breaks off and the partial file is removed.
DownloadBreaks ==
  /\ At("copy")
  /\ disk' = [disk EXCEPT ![load.issuer] = Nothing]
  /\ NextIssuer
  /\ UNCHANGED <<outside, trees, main, watcher, jobs, api>>

Reimport ==
  /\ At("reimport")
  /\ trees' = IF disk[load.issuer] \in Snapshot
              THEN [trees EXCEPT ![load.issuer] = disk[load.issuer]] ELSE trees
  /\ NextIssuer
  /\ UNCHANGED <<outside, disk, main, watcher, jobs, api>>

\* The listeners open and the watcher starts with a fetch.
Serve ==
  /\ main = "load"
  /\ load.issuer = NumIssuers + 1
  /\ main' = "serve"
  /\ load' = Loading(1)
  /\ watcher' = Fetching(1)
  /\ UNCHANGED <<outside, disk, trees, jobs, api>>

-----------------------------------------------------------------------------
(* The process ends: goroutines and memory go, the disk stays *)

Gone ==
  /\ trees' = [i \in Issuers |-> Nothing]
  /\ load' = Loading(1)
  /\ watcher' = Off
  /\ jobs' = [j \in Exports |-> Nothing]
  /\ requests' = [c \in Clients |-> Nothing]
  /\ seen' = [c \in Clients |-> [i \in Issuers |-> 0]]
  /\ UNCHANGED <<outside, disk>>

Panic == main' = "panicked" /\ Gone

Crash == main \in Running /\ main' = "down" /\ Gone

-----------------------------------------------------------------------------
(* The watcher *)

Fetch(c) ==
  /\ watcher.pc = "fetch"
  /\ c \in issued[watcher.issuer]
  /\ watcher' = [watcher EXCEPT !.pc = "check", !.crl = c]
  /\ UNCHANGED <<outside, disk, trees, main, load, jobs, api>>

\* Mutant: an error ends the polling loop.
FetchFails_Stops ==
  /\ watcher.pc = "fetch"
  /\ watcher' = Off
  /\ UNCHANGED <<outside, disk, trees, main, load, jobs, api>>

\* No answer, not 200, or not a CRL: logged, and on to the next issuer.
FetchFails ==
  /\ watcher.pc = "fetch"
  /\ watcher' = AfterIssuer(watcher.issuer)
  /\ UNCHANGED <<outside, disk, trees, main, load, jobs, api>>

\* Mutant: the CRL in hand is taken without a look at its number.
NotNewer_Never(c, existing) == FALSE

\* A CRL without a number is never taken for an old one.
NotNewer(c, existing) ==
  existing # Nothing /\ c.number > 0 /\ c.number <= existing.crl

Check ==
  /\ watcher.pc = "check"
  /\ watcher' = IF NotNewer(watcher.crl, trees[watcher.issuer])
                THEN AfterIssuer(watcher.issuer)
                ELSE [watcher EXCEPT !.pc = "set"]
  /\ UNCHANGED <<outside, disk, trees, main, load, jobs, api>>

\* Mutant: the new tree is exported and not served.
SetTree_Forgotten ==
  /\ watcher.pc = "set"
  /\ watcher' = [watcher EXCEPT !.pc = "log"]
  /\ UNCHANGED <<outside, disk, trees, main, load, jobs, api>>

SetTree ==
  /\ watcher.pc = "set"
  /\ trees' = [trees EXCEPT ![watcher.issuer] = Build(watcher.crl)]
  /\ watcher' = [watcher EXCEPT !.pc = "log"]
  /\ UNCHANGED <<outside, disk, main, load, jobs, api>>

\* The log line slices the first 16 digits of the root; that of an empty tree
\* has one.
LogPanics ==
  /\ watcher.pc = "log"
  /\ Build(watcher.crl).serials = {}
  /\ Panic

\* wg.Add(1) and go: the goroutine keeps the tree and its number.
Spawn(j) ==
  /\ watcher.pc = "log"
  /\ Build(watcher.crl).serials # {}
  /\ jobs[j] = Nothing
  /\ jobs' = [jobs EXCEPT ![j] = [issuer |-> watcher.issuer,
                                  snap |-> Build(watcher.crl), file |-> Nothing]]
  /\ watcher' = AfterIssuer(watcher.issuer)
  /\ UNCHANGED <<outside, disk, trees, main, load, api>>

Tick ==
  /\ watcher.pc = "sleep"
  /\ watcher' = Fetching(1)
  /\ UNCHANGED <<outside, disk, trees, main, load, jobs, api>>

\* The context is looked at only between two rounds, and a tick that is due
\* at the same time may be taken instead.
WatcherReturns ==
  /\ watcher.pc = "sleep"
  /\ Cancelled
  /\ watcher' = Off
  /\ UNCHANGED <<outside, disk, trees, main, load, jobs, api>>

-----------------------------------------------------------------------------
(* Export goroutines *)

\* Mutant: the number is read from the manager when the file is written.
Content_RereadsNumber(job) == [job.snap EXCEPT !.crl = trees[job.issuer].crl]

Content(job) == job.snap

\* Mutant: the snapshot file itself is opened and truncated.
Write_InPlace(j) ==
  /\ jobs[j] # Nothing /\ jobs[j].file = Nothing
  /\ jobs' = [jobs EXCEPT ![j].file = Content(jobs[j])]
  /\ disk' = [disk EXCEPT ![jobs[j].issuer] = Torn]
  /\ UNCHANGED <<outside, trees, main, load, watcher, api>>

\* CreateTemp and Export; the deferred gzip Close may lose the last block.
Write(j) ==
  /\ jobs[j] # Nothing /\ jobs[j].file = Nothing
  /\ \E file \in {Content(jobs[j])} \union (IF TornWrites THEN {Torn} ELSE {}) :
       jobs' = [jobs EXCEPT ![j].file = file]
  /\ UNCHANGED <<outside, disk, trees, main, load, watcher, api>>

\* wg.Done: the last one releases main from Wait.
Done(j) ==
  /\ jobs' = [jobs EXCEPT ![j] = Nothing]
  /\ main' = IF main = "waiting" /\ Live = {j} THEN "released" ELSE main

Rename(j) ==
  /\ jobs[j] # Nothing /\ jobs[j].file # Nothing
  /\ disk' = [disk EXCEPT ![jobs[j].issuer] = jobs[j].file]
  /\ Done(j)
  /\ UNCHANGED <<outside, trees, load, watcher, api>>

\* Mutant: the error path returns without wg.Done.
ExportFails_NoDone(j) ==
  /\ jobs[j] # Nothing
  /\ jobs' = [jobs EXCEPT ![j] = Nothing]
  /\ UNCHANGED <<outside, disk, trees, main, load, watcher, api>>

\* Any step may fail; the temporary file is removed and the error logged.
ExportFails(j) ==
  /\ jobs[j] # Nothing
  /\ Done(j)
  /\ UNCHANGED <<outside, disk, trees, load, watcher, api>>

-----------------------------------------------------------------------------
(* main: shut down *)

Signal ==
  /\ main = "serve"
  /\ main' = "drain"
  /\ UNCHANGED <<outside, disk, trees, load, watcher, jobs, api>>

\* Wait returns at once when the counter is zero.
Wait ==
  /\ main = "drain"
  /\ main' = IF Live = {} THEN "stopGrpc" ELSE "waiting"
  /\ UNCHANGED <<outside, disk, trees, load, watcher, jobs, api>>

\* A wait group that counts again before its waiter has run is reused, and
\* sync panics.
Wake ==
  /\ main = "released"
  /\ Live = {}
  /\ main' = "stopGrpc"
  /\ UNCHANGED <<outside, disk, trees, load, watcher, jobs, api>>

WakePanics ==
  /\ main = "released"
  /\ Live # {}
  /\ Panic

\* GracefulStop, then Shutdown: each lets its own requests finish.
StopGrpc ==
  /\ main = "stopGrpc"
  /\ \A c \in GrpcClients : requests[c] = Nothing
  /\ main' = "stopHttp"
  /\ UNCHANGED <<outside, disk, trees, load, watcher, jobs, api>>

StopHttp ==
  /\ main = "stopHttp"
  /\ \A c \in Clients : requests[c] = Nothing
  /\ main' = "down"
  /\ Gone

-----------------------------------------------------------------------------
(* Requests *)

Accepts(c) ==
  \/ main \in {"serve", "drain", "waiting", "released"}
  \/ main = "stopGrpc" /\ c \notin GrpcClients

\* GetProof reads the entry under the lock and lets the lock go...
Lookup(c, i) ==
  /\ Accepts(c)
  /\ requests[c] = Nothing
  /\ trees[i] # Nothing
  /\ requests' = [requests EXCEPT ![c] = [issuer |-> i, entry |-> trees[i]]]
  /\ UNCHANGED <<outside, disk, trees, main, load, watcher, jobs, seen>>

\* ...and makes the proof from that entry, whatever is served by then.
Reply(c) ==
  /\ requests[c] # Nothing
  /\ seen' = [seen EXCEPT ![c][requests[c].issuer] = requests[c].entry.crl]
  /\ requests' = [requests EXCEPT ![c] = Nothing]
  /\ UNCHANGED <<outside, disk, trees, main, load, watcher, jobs>>

-----------------------------------------------------------------------------
Environment ==
  \/ \E i \in Issuers : Issue(i) \/ IssueUnnumbered(i)
  \/ Publish

LoadStep ==
  \/ Import \/ DownloadFails \/ DownloadStarts \/ DownloadEnds
  \/ DownloadBreaks \/ Reimport \/ Serve

WatcherStep ==
  \/ \E c \in CRL : Fetch(c)
  \/ FetchFails \/ Check \/ SetTree \/ LogPanics
  \/ \E j \in Exports : Spawn(j)
  \/ Tick \/ WatcherReturns

ExportStep(j) == Write(j) \/ Rename(j) \/ ExportFails(j)

StopStep == Wait \/ Wake \/ WakePanics \/ StopGrpc \/ StopHttp

Next ==
  \/ Environment
  \/ Start \/ LoadStep \/ Crash
  \/ WatcherStep
  \/ \E j \in Exports : ExportStep(j)
  \/ Signal \/ StopStep
  \/ \E c \in Clients, i \in Issuers : Lookup(c, i)
  \/ \E c \in Clients : Reply(c)

Spec == Init /\ [][Next]_vars

\* The Go scheduler runs every goroutine that can run.  A fetch ends, with a
\* CRL or an error: an assumption about the network, for http.Get has no
\* timeout here.  Nothing is assumed of signals, crashes, restarts, issuing,
\* publishing or new requests.
Fairness ==
  /\ WF_vars(WatcherStep)
  /\ WF_vars(StopStep)
  /\ \A j \in Exports : WF_vars(ExportStep(j))
  /\ \A c \in Clients : WF_vars(Reply(c))

FairSpec == Spec /\ Fairness

-----------------------------------------------------------------------------
(* Properties: types and invariants *)

\* The shape of every variable.
TypeOK ==
  /\ issued \in [Issuers -> SUBSET CRL]
  /\ release \in [Issuers -> Snapshot \union {Nothing}]
  /\ disk \in [Issuers -> Snapshot \union {Nothing, Torn}]
  /\ trees \in [Issuers -> Snapshot \union {Nothing}]
  /\ main \in {"down", "panicked"} \union Running
  /\ load \in [issuer : 1..(NumIssuers + 1),
               step : {"import", "download", "copy", "reimport"},
               body : Snapshot \union {Nothing}]
  /\ watcher \in [pc : {"off", "fetch", "check", "set", "log", "sleep"},
                  issuer : Issuers, crl : CRL \union {NoCRL}]
  /\ jobs \in [Exports -> Job \union {Nothing}]
  /\ requests \in [Clients -> Request \union {Nothing}]
  /\ seen \in [Clients -> [Issuers -> 0..MaxCRL]]

FromIssued(i) == {Build(c) : c \in issued[i]}

\* Whatever path a tree takes - fetched and built, exported by a goroutine that
\* outlives later rebuilds, read back after a crash, downloaded, held by a
\* request - it stays paired with the number of the CRL it was built from: a
\* snapshot never joins one CRL's serials to another's number, and a torn file is
\* never served.
Provenance ==
  \A i \in Issuers :
    /\ release[i] \in FromIssued(i) \union {Nothing}
    /\ disk[i] \in FromIssued(i) \union {Nothing, Torn}
    /\ trees[i] \in FromIssued(i) \union {Nothing}
    /\ \A j \in Live : jobs[j].issuer = i => jobs[j].snap \in FromIssued(i)
    /\ \A c \in Clients : requests[c] # Nothing /\ requests[c].issuer = i
                          => requests[c].entry \in FromIssued(i)

UpTo(i, n) == trees[i] # Nothing /\ n <= trees[i].crl

\* Once the server is up it serves at least what it knows: no snapshot on disk, no
\* export under way and no answer given or being made is of a later CRL than the
\* tree in the manager, across restarts, failed downloads and slow exports.
ServedIsNewest ==
  /\ main \in Serving =>
       \A i \in Issuers : disk[i] \in Snapshot => UpTo(i, disk[i].crl)
  /\ \A j \in Live : UpTo(jobs[j].issuer, jobs[j].snap.crl)
  /\ \A c \in Clients : requests[c] # Nothing
                        => UpTo(requests[c].issuer, requests[c].entry.crl)
  /\ \A c \in Clients, i \in Issuers : seen[c][i] > 0 => UpTo(i, seen[c][i])

\* Where the process stands decides what is in memory: goroutines and requests
\* exist only once it serves; main loads the issuers in order, fetches only what the
\* disk lacks, and has already loaded what the disk holds for the issuers before.
ProcessCoherent ==
  /\ main \notin Serving =>
       /\ watcher = Off
       /\ Live = {}
       /\ \A c \in Clients : requests[c] = Nothing
       /\ \A c \in Clients, i \in Issuers : seen[c][i] = 0
  /\ main \notin Running => \A i \in Issuers : trees[i] = Nothing
  /\ main = "load" =>
       /\ \A i \in load.issuer..NumIssuers : trees[i] = Nothing
       /\ \A i \in 1..(load.issuer - 1) : disk[i] \in Snapshot => trees[i] = disk[i]
       /\ load.issuer \in Issuers /\ load.step \in {"download", "copy"}
            => disk[load.issuer] \notin Snapshot

\* What the watcher learnt when it checked still holds when it acts on it, since
\* nobody else sets a tree; and a request holds an entry read after the client's
\* last answer.
OrderCoherent ==
  /\ \A i \in Issuers : \A c \in issued[i] : c.number > 0
  /\ watcher.pc \in {"check", "set", "log"} => watcher.crl.number > 0
  /\ watcher.pc = "set" =>
       \/ trees[watcher.issuer] = Nothing
       \/ trees[watcher.issuer].crl < watcher.crl.number
  /\ watcher.pc = "log" => trees[watcher.issuer] = Build(watcher.crl)
  /\ \A c \in Clients : requests[c] # Nothing
                        => requests[c].entry.crl >= seen[c][requests[c].issuer]

-----------------------------------------------------------------------------
(* Properties: actions *)

\* While the process lives, an issuer that has a tree keeps one, and SetTree never
\* replaces it by that of an older CRL, though a mirror may answer with one.
ServedNeverGoesBack ==
  [][main' \in Running =>
       \A i \in Issuers : trees[i] # Nothing => trees'[i] # Nothing
                                               /\ trees'[i].crl >= trees[i].crl]_vars

\* A client's answers never go back in time while the process lives, though each
\* is made from an entry read before the lock was let go.
AnswersNeverGoBack ==
  [][main' \in Running =>
       \A c \in Clients, i \in Issuers : seen'[c][i] >= seen[c][i]]_vars

\* A snapshot file that decodes is only ever replaced by one that decodes: neither
\* a crash in the middle of an export, nor a download, which truncates the file
\* in place, costs the server the file its next start would load.
DiskStaysLoadable ==
  [][\A i \in Issuers : disk[i] \in Snapshot => disk'[i] \in Snapshot]_vars

-----------------------------------------------------------------------------
(* Properties: liveness *)

ServesLatest(i) ==
  \/ issued[i] = {}
  \/ \E c \in issued[i] : /\ \A d \in issued[i] : d.number <= c.number
                          /\ trees[i] = Build(c)

FetchLatest(i) ==
  /\ watcher.issuer = i
  /\ \E c \in issued[i] : /\ \A d \in issued[i] : d.number <= c.number
                          /\ Fetch(c)

\* A server that stays up ends up serving an issuer's latest CRL for good, if that
\* issuer's URL answers with it again and again - whatever the other issuers' URLs
\* do, and however the exports fail.
Freshness ==
  \A i \in Issuers :
    (<>[](main = "serve") /\ SF_vars(FetchLatest(i))) => <>[]ServesLatest(i)

\* A server told to stop ends: it waits neither for ever for exports nor for requests,
\* whatever the watcher, which nobody waits for, is doing.  A panic is an end as well, that
\* of sync in WakePanics included: this is about waiting, not about how the process ends.
ShutdownCompletes == Cancelled ~> main \notin Running

-----------------------------------------------------------------------------
(* What comments in the code say, and TLC refutes *)

\* watcher.go:46: "Blocks until ctx is cancelled."
WatcherBlocksUntilCancelled ==
  [][watcher.pc # "off" /\ watcher'.pc = "off" => Cancelled \/ main' = "down"]_vars

\* watcher.go:43: "Wait blocks until all background export goroutines have
\* finished": past Wait, none is running.
ExportsDoneAfterWait == main \in {"stopGrpc", "stopHttp"} => Live = {}

\* watcher.go:114: "Persist snapshot to disk so future restarts load fresh data
\* instantly": an export does not put older data in the place of newer.
DiskNeverGoesBack ==
  [][\A i \in Issuers : disk[i] \in Snapshot /\ disk'[i] \in Snapshot
                        => disk'[i].crl >= disk[i].crl]_vars
=============================================================================
