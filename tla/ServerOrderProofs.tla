------------------------- MODULE ServerOrderProofs -------------------------
(* Theorems about the order in which Server serves CRLs: what is served,    *)
(* what is on disk and what clients were told, when every CRL has a number. *)
EXTENDS ServerProofs

OrderInv == ServedIsNewest /\ OrderCoherent

\* What every step may assume of the state it starts from.
Known == TypeOK /\ ProvenanceInv /\ ProcessCoherent /\ OrderInv

-----------------------------------------------------------------------------
(* Which actions change what *)

\* Outside a process's end, trees are set by main's loading and by the watcher.
LEMMA TreesChange ==
  ASSUME [Next]_vars, main' \in Running
  PROVE  UNCHANGED trees \/ Import \/ Reimport \/ SetTree
BY DEF Next, vars, outside, api, Environment, Issue, IssueUnnumbered, Publish,
       Start, LoadStep, DownloadFails, DownloadStarts, DownloadEnds, DownloadBreaks, Serve,
       Crash, WatcherStep, Fetch, FetchFails, Check, LogPanics, Panic, Spawn, Tick,
       WatcherReturns, ExportStep, Write, Rename, ExportFails, Signal, StopStep, Wait, Wake,
       WakePanics, StopGrpc, StopHttp, Lookup, Reply, Running, Serving

\* In a live process only the watcher and the start of serving move the watcher.
LEMMA WatcherChanges ==
  ASSUME [Next]_vars, main' \in Running
  PROVE  UNCHANGED watcher \/ Serve \/ WatcherStep
BY DEF Next, vars, outside, api, Environment, Issue, IssueUnnumbered, Publish,
       Start, LoadStep, Import, DownloadFails, DownloadStarts, DownloadEnds, DownloadBreaks,
       Reimport, Crash, ExportStep, Write, Rename, ExportFails, Signal, StopStep, Wait,
       Wake, WakePanics, Panic, StopGrpc, StopHttp, Lookup, Reply, Running, Serving

\* In a live process an export changes by being started or by its own steps.
LEMMA JobsChange ==
  ASSUME [Next]_vars, main' \in Running
  PROVE  UNCHANGED jobs \/ \E j \in Exports : Spawn(j) \/ ExportStep(j)
BY DEF Next, vars, outside, api, Environment, Issue, IssueUnnumbered, Publish,
       Start, LoadStep, Import, DownloadFails, DownloadStarts, DownloadEnds, DownloadBreaks,
       Reimport, Serve, Crash, WatcherStep, Fetch, FetchFails, Check, SetTree, LogPanics,
       Panic, Tick, WatcherReturns, Signal, StopStep, Wait, Wake, WakePanics, StopGrpc,
       StopHttp, Lookup, Reply, Running, Serving

\* In a live process requests change by being looked up or answered.
LEMMA ApiChanges ==
  ASSUME [Next]_vars, main' \in Running
  PROVE  \/ UNCHANGED api
         \/ \E c \in Clients : Reply(c)
         \/ \E c \in Clients, i \in Issuers : Lookup(c, i)
BY DEF Next, vars, outside, api, Environment, Issue, IssueUnnumbered, Publish,
       Start, LoadStep, Import, DownloadFails, DownloadStarts, DownloadEnds, DownloadBreaks,
       Reimport, Serve, Crash, WatcherStep, Fetch, FetchFails, Check, SetTree, LogPanics,
       Panic, Spawn, Tick, WatcherReturns, ExportStep, Write, Rename, ExportFails, Signal,
       StopStep, Wait, Wake, WakePanics, StopGrpc, StopHttp, Running, Serving

-----------------------------------------------------------------------------
(* Served trees *)

\* The heart of the matter: the number was compared before the tree was built, and
\* the comparison still stands when the tree is set.
LEMMA ServedStep ==
  ASSUME Known, [Next]_vars, main' \in Running, NEW i \in Issuers, trees[i] # Nothing
  PROVE  trees'[i] \in Snapshot /\ trees'[i].crl >= trees[i].crl
<1>0. trees[i] \in Snapshot /\ trees[i].crl \in Int
  BY ServerAssumption DEF Known, TypeOK, Snapshot
<1>1. CASE UNCHANGED trees
  BY <1>0, <1>1
<1>2. CASE Import \/ Reimport
  <2>1. main = "load" /\ load.issuer \in Issuers
    BY <1>2 DEF Import, Reimport, At
  <2>2. trees[load.issuer] = Nothing
    BY <2>1, ServerAssumption DEF Known, ProcessCoherent, Issuers
  <2>3. trees'[i] = trees[i]
    BY <1>2, <2>2 DEF Import, Reimport, Known, TypeOK
  <2>. QED BY <1>0, <2>3
<1>3. CASE SetTree
  <2>1. watcher.crl \in CRL \union {NoCRL}
    BY DEF Known, TypeOK
  <2>2. Build(watcher.crl) \in Snapshot /\ Build(watcher.crl).crl = watcher.crl.number
    BY <2>1, BuildType
  <2>3. CASE i = watcher.issuer
    <3>1. trees'[i] = Build(watcher.crl) /\ trees[i].crl < watcher.crl.number
      BY <1>3, <2>3 DEF SetTree, Known, TypeOK, OrderInv, OrderCoherent
    <3>2. watcher.crl.number \in Int
      BY <2>2, ServerAssumption DEF Snapshot
    <3>. QED BY <1>0, <2>2, <3>1, <3>2
  <2>4. CASE i # watcher.issuer
    BY <1>0, <1>3, <2>4 DEF SetTree
  <2>. QED BY <2>3, <2>4
<1>. QED BY <1>1, <1>2, <1>3, TreesChange

\* What a tree was up to, the tree of the next state is up to.
LEMMA UpToStep ==
  ASSUME Known, [Next]_vars, main' \in Running, NEW i \in Issuers, NEW n \in Int, UpTo(i, n)
  PROVE  trees'[i] # Nothing /\ n <= trees'[i].crl
<1>1. trees[i] \in Snapshot /\ trees[i].crl \in Int
  BY ServerAssumption DEF Known, TypeOK, Snapshot, UpTo
<1>2. trees'[i] \in Snapshot /\ trees'[i].crl >= trees[i].crl
  BY <1>1, ServedStep DEF UpTo
<1>3. trees'[i].crl \in Int
  BY <1>2, ServerAssumption DEF Snapshot
<1>. QED BY <1>1, <1>2, <1>3, ServerAssumption DEF UpTo

-----------------------------------------------------------------------------
(* ServedIsNewest *)

DiskBehind == \A i \in Issuers : disk[i] \in Snapshot => UpTo(i, disk[i].crl)
JobsBehind == \A j \in Live : UpTo(jobs[j].issuer, jobs[j].snap.crl)
RequestsBehind ==
  \A c \in Clients : requests[c] # Nothing => UpTo(requests[c].issuer, requests[c].entry.crl)
SeenBehind == \A c \in Clients, i \in Issuers : seen[c][i] > 0 => UpTo(i, seen[c][i])

\* Serving begins at Serve and nowhere else.
LEMMA EntersServing ==
  ASSUME [Next]_vars, main' \in Serving
  PROVE  main \in Serving \/ Serve
BY DEF Next, vars, outside, api, Environment, Issue, IssueUnnumbered, Publish,
       Start, LoadStep, Import, DownloadFails, DownloadStarts, DownloadEnds, DownloadBreaks,
       Reimport, Crash, WatcherStep, Fetch, FetchFails, Check, SetTree, LogPanics, Panic,
       Spawn, Tick, WatcherReturns, ExportStep, Write, Rename, ExportFails, Done, Signal,
       StopStep, Wait, Wake, WakePanics, StopGrpc, StopHttp, Lookup, Reply, Serving

\* A step leaves the disk no newer than what is served.
LEMMA DiskBehindStep ==
  ASSUME Known, [Next]_vars, main' \in Serving
  PROVE  DiskBehind'
<1>0. main' \in Running BY DEF Running
<1>. SUFFICES ASSUME NEW i \in Issuers, disk'[i] \in Snapshot
              PROVE  trees'[i] # Nothing /\ disk'[i].crl <= trees'[i].crl
  BY DEF DiskBehind, UpTo
<1>1. CASE Serve
  <2>1. i \in 1..(load.issuer - 1)
    BY <1>1, ServerAssumption DEF Serve, Issuers
  <2>2. trees'[i] = disk'[i]
    BY <1>1, <2>1 DEF Serve, Known, ProcessCoherent
  <2>3. trees'[i].crl \in Int
    BY <2>2, ServerAssumption DEF Snapshot
  <2>. QED BY <2>2, <2>3, ServerAssumption
<1>2. CASE main \in Serving
  <2>1. ASSUME disk'[i] = disk[i]
        PROVE  trees'[i] # Nothing /\ disk'[i].crl <= trees'[i].crl
    <3>1. UpTo(i, disk[i].crl) /\ disk[i].crl \in Int
      BY <1>2, <2>1, ServerAssumption DEF Known, OrderInv, ServedIsNewest, Snapshot
    <3>. QED BY <1>0, <2>1, <3>1, UpToStep
  <2>2. CASE UNCHANGED disk
    BY <2>1, <2>2
  <2>3. CASE DownloadStarts \/ DownloadEnds \/ DownloadBreaks
    BY <1>2, <2>3 DEF DownloadStarts, DownloadEnds, DownloadBreaks, At, Serving
  <2>4. ASSUME NEW j \in Exports, Rename(j)
        PROVE  trees'[i] # Nothing /\ disk'[i].crl <= trees'[i].crl
    <3>1. j \in Live /\ jobs[j] \in Job /\ jobs[j].file \in {Torn, jobs[j].snap}
      BY <2>4 DEF Rename, Live, Known, TypeOK, ProvenanceInv
    <3>2. CASE i = jobs[j].issuer
      <4>1. disk'[i] = jobs[j].snap
        BY <2>4, <3>1, <3>2, ServerAssumption DEF Rename, Known, TypeOK
      <4>2. UpTo(i, jobs[j].snap.crl) /\ trees' = trees
        BY <2>4, <3>1, <3>2 DEF Rename, Known, OrderInv, ServedIsNewest
      <4>. QED BY <4>1, <4>2 DEF UpTo
    <3>3. CASE i # jobs[j].issuer
      BY <2>1, <2>4, <3>3 DEF Rename
    <3>. QED BY <3>2, <3>3
  <2>. QED BY <2>2, <2>3, <2>4, DiskChanges
<1>. QED BY <1>1, <1>2, EntersServing

\* A step leaves every export no newer than what is served.
LEMMA JobsBehindStep ==
  ASSUME Known, [Next]_vars, main' \in Running
  PROVE  JobsBehind'
<1>. SUFFICES ASSUME NEW j \in Live'
              PROVE  /\ trees'[jobs'[j].issuer] # Nothing
                     /\ jobs'[j].snap.crl <= trees'[jobs'[j].issuer].crl
  BY DEF JobsBehind, UpTo
<1>. DEFINE Goal == /\ trees'[jobs'[j].issuer] # Nothing
                    /\ jobs'[j].snap.crl <= trees'[jobs'[j].issuer].crl
<1>1. ASSUME j \in Live, jobs'[j].issuer = jobs[j].issuer, jobs'[j].snap = jobs[j].snap
      PROVE  Goal
  <2>1. UpTo(jobs[j].issuer, jobs[j].snap.crl)
    BY <1>1 DEF Known, OrderInv, ServedIsNewest
  <2>2. jobs[j] \in Job
    BY <1>1 DEF Known, TypeOK, Live
  <2>3. jobs[j].issuer \in Issuers /\ jobs[j].snap.crl \in Int
    BY <2>2, ServerAssumption DEF Job, Snapshot
  <2>. QED BY <1>1, <2>1, <2>3, UpToStep
<1>2. CASE UNCHANGED jobs
  BY <1>1, <1>2 DEF Live
<1>3. ASSUME NEW e \in Exports, Spawn(e) PROVE Goal
  <2>1. CASE j = e
    <3>1. jobs'[j].issuer = watcher.issuer /\ jobs'[j].snap = Build(watcher.crl)
      BY <1>3, <2>1 DEF Spawn, Known, TypeOK
    <3>2. trees' = trees /\ trees[watcher.issuer] = Build(watcher.crl)
      BY <1>3 DEF Spawn, Known, OrderInv, OrderCoherent
    <3>3. Build(watcher.crl) \in Snapshot
      BY BuildType DEF Known, TypeOK
    <3>4. Build(watcher.crl).crl \in Int
      BY <3>3, ServerAssumption DEF Snapshot
    <3>. QED BY <3>1, <3>2, <3>3, <3>4, ServerAssumption
  <2>2. CASE j # e
    <3>1. j \in Live /\ jobs'[j] = jobs[j]
      BY <1>3, <2>2 DEF Spawn, Live, Known, TypeOK
    <3>. QED BY <1>1, <3>1
  <2>. QED BY <2>1, <2>2
<1>4. ASSUME NEW e \in Exports, ExportStep(e) PROVE Goal
  <2>1. j \in Live /\ e \in Live /\ jobs[e] \in Job
    BY <1>4 DEF ExportStep, Write, Rename, ExportFails, Done, Live, Known, TypeOK
  <2>2. jobs'[j].issuer = jobs[j].issuer /\ jobs'[j].snap = jobs[j].snap
    <3>1. CASE Write(e)
      <4>1. PICK file : jobs' = [jobs EXCEPT ![e].file = file]
        BY <3>1 DEF Write
      <4>2. jobs'[j] = IF j = e THEN [jobs[e] EXCEPT !.file = file] ELSE jobs[j]
        BY <2>1, <4>1 DEF Known, TypeOK, Live
      <4>. QED BY <2>1, <4>2 DEF Job
    <3>2. CASE Rename(e) \/ ExportFails(e)
      BY <2>1, <3>2 DEF Rename, ExportFails, Done, Live, Known, TypeOK
    <3>. QED BY <1>4, <3>1, <3>2 DEF ExportStep
  <2>. QED BY <1>1, <2>1, <2>2
<1>. QED BY <1>2, <1>3, <1>4, JobsChange

\* A step leaves every handler's entry no newer than what is served.
LEMMA RequestsBehindStep ==
  ASSUME Known, [Next]_vars, main' \in Running
  PROVE  RequestsBehind'
<1>. SUFFICES ASSUME NEW c \in Clients, requests'[c] # Nothing
              PROVE  /\ trees'[requests'[c].issuer] # Nothing
                     /\ requests'[c].entry.crl <= trees'[requests'[c].issuer].crl
  BY DEF RequestsBehind, UpTo
<1>. DEFINE Goal == /\ trees'[requests'[c].issuer] # Nothing
                    /\ requests'[c].entry.crl <= trees'[requests'[c].issuer].crl
<1>1. ASSUME requests'[c] = requests[c] PROVE Goal
  <2>1. UpTo(requests[c].issuer, requests[c].entry.crl) /\ requests[c] \in Request
    BY <1>1 DEF Known, TypeOK, OrderInv, ServedIsNewest
  <2>2. requests[c].issuer \in Issuers /\ requests[c].entry.crl \in Int
    BY <2>1, ServerAssumption DEF Request, Snapshot
  <2>. QED BY <1>1, <2>1, <2>2, UpToStep
<1>2. CASE UNCHANGED api
  BY <1>1, <1>2 DEF api
<1>3. ASSUME NEW d \in Clients, Reply(d) PROVE Goal
  BY <1>1, <1>3 DEF Reply, Known, TypeOK
<1>4. ASSUME NEW d \in Clients, NEW i \in Issuers, Lookup(d, i) PROVE Goal
  <2>1. CASE d = c
    <3>1. requests'[c].issuer = i /\ requests'[c].entry = trees[i] /\ trees' = trees
      BY <1>4, <2>1 DEF Lookup, Known, TypeOK
    <3>2. trees[i] # Nothing /\ trees[i].crl \in Int
      BY <1>4, ServerAssumption DEF Lookup, Known, TypeOK, Snapshot
    <3>. QED BY <3>1, <3>2
  <2>2. CASE d # c
    BY <1>1, <1>4, <2>2 DEF Lookup
  <2>. QED BY <2>1, <2>2
<1>. QED BY <1>2, <1>3, <1>4, ApiChanges

\* A step leaves every client's last answer no newer than what is served.
LEMMA SeenBehindStep ==
  ASSUME Known, [Next]_vars, main' \in Running
  PROVE  SeenBehind'
<1>. SUFFICES ASSUME NEW c \in Clients, NEW i \in Issuers, seen'[c][i] > 0
              PROVE  trees'[i] # Nothing /\ seen'[c][i] <= trees'[i].crl
  BY DEF SeenBehind, UpTo
<1>1. ASSUME seen'[c][i] = seen[c][i] PROVE trees'[i] # Nothing /\ seen'[c][i] <= trees'[i].crl
  <2>1. UpTo(i, seen[c][i]) /\ seen[c][i] \in Int
    BY <1>1, ServerAssumption DEF Known, TypeOK, OrderInv, ServedIsNewest
  <2>. QED BY <1>1, <2>1, UpToStep
<1>2. CASE UNCHANGED api
  BY <1>1, <1>2 DEF api
<1>3. ASSUME NEW d \in Clients, Reply(d)
      PROVE  trees'[i] # Nothing /\ seen'[c][i] <= trees'[i].crl
  <2>1. requests[d] \in Request /\ UpTo(requests[d].issuer, requests[d].entry.crl)
    BY <1>3 DEF Reply, Known, TypeOK, OrderInv, ServedIsNewest
  <2>2. CASE c = d /\ i = requests[d].issuer
    <3>1. seen'[c][i] = requests[d].entry.crl /\ trees' = trees
      BY <1>3, <2>2 DEF Reply, Known, TypeOK
    <3>. QED BY <2>1, <2>2, <3>1 DEF UpTo
  <2>3. CASE ~(c = d /\ i = requests[d].issuer)
    <3>1. seen'[c][i] = seen[c][i]
      BY <1>3, <2>3 DEF Reply, Known, TypeOK
    <3>. QED BY <1>1, <3>1
  <2>. QED BY <2>2, <2>3
<1>4. ASSUME NEW d \in Clients, NEW k \in Issuers, Lookup(d, k)
      PROVE  trees'[i] # Nothing /\ seen'[c][i] <= trees'[i].crl
  BY <1>1, <1>4 DEF Lookup
<1>. QED BY <1>2, <1>3, <1>4, ApiChanges

\* What is served stays the newest, conjunct by conjunct.
LEMMA NewestStep ==
  ASSUME Known, [Next]_vars
  PROVE  ServedIsNewest'
<1>1. CASE main' \in Running
  <2>1. JobsBehind' /\ RequestsBehind' /\ SeenBehind'
    BY <1>1, JobsBehindStep, RequestsBehindStep, SeenBehindStep
  <2>2. main' \in Serving => DiskBehind'
    BY DiskBehindStep
  <2>. QED BY <2>1, <2>2
           DEF ServedIsNewest, DiskBehind, JobsBehind, RequestsBehind, SeenBehind
<1>2. CASE main' \notin Running
  <2>1. ProcessCoherent'
    BY CoherentStep DEF Known
  <2>. QED BY <1>2, <2>1 DEF ProcessCoherent, ServedIsNewest, Running, Serving
<1>. QED BY <1>1, <1>2

-----------------------------------------------------------------------------
(* OrderCoherent *)

AllNumbered == \A i \in Issuers : \A c \in issued[i] : c.number > 0
HandNumbered == watcher.pc \in {"check", "set", "log"} => watcher.crl.number > 0
CheckStands ==
  watcher.pc = "set" => \/ trees[watcher.issuer] = Nothing
                        \/ trees[watcher.issuer].crl < watcher.crl.number
HandServed == watcher.pc = "log" => trees[watcher.issuer] = Build(watcher.crl)
EntriesFresh ==
  \A c \in Clients : requests[c] # Nothing
                       => requests[c].entry.crl >= seen[c][requests[c].issuer]

\* If every CRL has a number, so has the one in the watcher's hand.
LEMMA NumberedStep ==
  ASSUME Unnumbered = FALSE, Known, [Next]_vars
  PROVE  AllNumbered' /\ HandNumbered'
<1>1. AllNumbered
  BY DEF Known, OrderInv, OrderCoherent, AllNumbered
<1>2. AllNumbered'
  <2>1. CASE UNCHANGED issued
    BY <1>1, <2>1 DEF AllNumbered
  <2>2. ASSUME NEW i \in Issuers, Issue(i) PROVE AllNumbered'
    <3>1. PICK n \in 1..MaxCRL, s \in Contents :
            issued' = [issued EXCEPT ![i] = @ \union {[number |-> n, serials |-> s]}]
      BY <2>2 DEF Issue
    <3>2. \A k \in Issuers : issued'[k] \subseteq issued[k] \union {[number |-> n, serials |-> s]}
      BY <3>1 DEF Known, TypeOK
    <3>. QED BY <1>1, <3>2 DEF AllNumbered
  <2>3. UNCHANGED issued \/ \E i \in Issuers : Issue(i)
    BY DEF Next, vars, outside, api, Environment, IssueUnnumbered, Publish,
           Start, LoadStep, Import, DownloadFails, DownloadStarts, DownloadEnds,
           DownloadBreaks, Reimport, Serve, Crash, Gone, WatcherStep, Fetch, FetchFails,
           Check, SetTree, LogPanics, Panic, Spawn, Tick, WatcherReturns, ExportStep, Write,
           Rename, ExportFails, Signal, StopStep, Wait, Wake, WakePanics, StopGrpc, StopHttp,
           Lookup, Reply
  <2>. QED BY <2>1, <2>2, <2>3
<1>3. ProvenanceInv' /\ TypeOK'
  BY ProvenanceStep, TypeStep DEF Known
<1>4. HandNumbered'
  BY <1>2, <1>3 DEF AllNumbered, HandNumbered, ProvenanceInv, TypeOK
<1>. QED BY <1>2, <1>4

\* The watcher's comparison stays true until it sets the tree: nobody else sets one meanwhile.
LEMMA HandStep ==
  ASSUME Known, [Next]_vars
  PROVE  CheckStands' /\ HandServed'
<1>1. CASE main' \notin Running
  <2>1. ProcessCoherent'
    BY CoherentStep DEF Known
  <2>2. watcher'.pc = "off"
    BY <1>1, <2>1 DEF ProcessCoherent, Off, Running
  <2>. QED BY <2>2 DEF CheckStands, HandServed
<1>2. ASSUME main' \in Running, UNCHANGED watcher PROVE CheckStands' /\ HandServed'
  <2>1. CASE watcher.pc \notin {"set", "log"}
    BY <1>2, <2>1 DEF CheckStands, HandServed
  <2>2. CASE watcher.pc \in {"set", "log"}
    <3>1. main # "load"
      BY <2>2 DEF Known, ProcessCoherent, Off, Serving
    <3>2. ~SetTree
      BY <1>2 DEF SetTree, Known, TypeOK
    <3>3. UNCHANGED trees
      BY <1>2, <3>1, <3>2, TreesChange DEF Import, Reimport, At
    <3>. QED BY <1>2, <3>3 DEF CheckStands, HandServed, Known, OrderInv, OrderCoherent
  <2>. QED BY <2>1, <2>2
<1>3. CASE Serve
  BY <1>3 DEF Serve, Fetching, CheckStands, HandServed
<1>4. ASSUME main' \in Running, WatcherStep PROVE CheckStands' /\ HandServed'
  <2>1. ASSUME watcher'.pc \in {"off", "fetch", "check", "sleep"}
        PROVE  CheckStands' /\ HandServed'
    BY <2>1 DEF CheckStands, HandServed
  <2>2. watcher.issuer \in Issuers
    BY DEF Known, TypeOK
  <2>3. AfterIssuer(watcher.issuer).pc \in {"fetch", "sleep"}
    BY <2>2, AfterIssuerType
  <2>4. ASSUME NEW c \in CRL, Fetch(c) PROVE CheckStands' /\ HandServed'
    BY <2>1, <2>4 DEF Fetch, Known, TypeOK
  <2>5. CASE FetchFails \/ \E j \in Exports : Spawn(j)
    BY <2>1, <2>3, <2>5 DEF FetchFails, Spawn
  <2>6. CASE Tick \/ WatcherReturns
    BY <2>1, <2>6 DEF Tick, WatcherReturns, Fetching, Off
  <2>7. CASE Check
    <3>1. CASE NotNewer(watcher.crl, trees[watcher.issuer])
      BY <2>1, <2>3, <2>7, <3>1 DEF Check
    <3>2. CASE ~NotNewer(watcher.crl, trees[watcher.issuer])
      <4>1. /\ watcher'.pc = "set" /\ watcher'.issuer = watcher.issuer
            /\ watcher'.crl = watcher.crl /\ trees' = trees
        BY <2>7, <3>2 DEF Check, Known, TypeOK
      <4>2. watcher.crl.number > 0
        BY <2>7 DEF Check, Known, OrderInv, OrderCoherent
      <4>3. watcher.crl.number \in Int
        BY ServerAssumption DEF Known, TypeOK, CRL, NoCRL
      <4>4. trees[watcher.issuer] # Nothing => trees[watcher.issuer].crl \in Int
        BY <2>2, ServerAssumption DEF Known, TypeOK, Snapshot
      <4>. QED BY <3>2, <4>1, <4>2, <4>3, <4>4 DEF NotNewer, CheckStands, HandServed
    <3>. QED BY <3>1, <3>2
  <2>8. CASE SetTree
    BY <2>2, <2>8 DEF SetTree, CheckStands, HandServed, Known, TypeOK
  <2>9. ~LogPanics
    BY <1>4 DEF LogPanics, Panic, Running, Serving
  <2>. QED BY <1>4, <2>4, <2>5, <2>6, <2>7, <2>8, <2>9 DEF WatcherStep
<1>. QED BY <1>1, <1>2, <1>3, <1>4, WatcherChanges

\* The entry a handler holds stays at least as new as its client's last answer.
LEMMA EntriesStep ==
  ASSUME Known, [Next]_vars
  PROVE  EntriesFresh'
<1>1. CASE main' \notin Running
  <2>1. ProcessCoherent'
    BY CoherentStep DEF Known
  <2>. QED BY <1>1, <2>1 DEF ProcessCoherent, EntriesFresh, Running
<1>2. CASE UNCHANGED api
  BY <1>2 DEF api, EntriesFresh, Known, OrderInv, OrderCoherent
<1>3. ASSUME NEW c \in Clients, Reply(c) PROVE EntriesFresh'
  <2>1. \A d \in Clients : requests'[d] # Nothing
          => d # c /\ requests'[d] = requests[d] /\ seen'[d] = seen[d]
    BY <1>3 DEF Reply, Known, TypeOK
  <2>. QED BY <2>1 DEF EntriesFresh, Known, OrderInv, OrderCoherent
<1>4. ASSUME NEW c \in Clients, NEW i \in Issuers, Lookup(c, i) PROVE EntriesFresh'
  <2>1. requests'[c].entry.crl >= seen[c][requests'[c].issuer]
    <3>1. requests'[c].issuer = i /\ requests'[c].entry = trees[i]
      BY <1>4 DEF Lookup, Known, TypeOK
    <3>2. trees[i].crl \in Nat /\ seen[c][i] \in Nat
      BY <1>4, ServerAssumption DEF Lookup, Known, TypeOK, Snapshot
    <3>3. seen[c][i] > 0 => seen[c][i] <= trees[i].crl
      BY DEF Known, OrderInv, ServedIsNewest, UpTo
    <3>. QED BY <3>1, <3>2, <3>3
  <2>. QED BY <1>4, <2>1 DEF Lookup, EntriesFresh, Known, TypeOK, OrderInv, OrderCoherent
<1>. QED BY <1>1, <1>2, <1>3, <1>4, ApiChanges

\* The order invariant is inductive, beside what is known of types, provenance and coherence.
LEMMA OrderStep ==
  ASSUME Unnumbered = FALSE, Known, [Next]_vars
  PROVE  OrderInv'
BY NewestStep, NumberedStep, HandStep, EntriesStep
   DEF OrderInv, OrderCoherent, AllNumbered, HandNumbered, CheckStands, HandServed, EntriesFresh

\* At first nothing is served and nothing is known.
LEMMA OrderInit == Init => OrderInv
BY DEF Init, OrderInv, ServedIsNewest, OrderCoherent, Live, Serving, Off

\* All invariants hold together, at every step.
LEMMA KnownHolds ==
  ASSUME Unnumbered = FALSE
  PROVE  Spec => []Known
<1>1. Init => Known
  BY TypeInit, ProvenanceInit, CoherentInit, OrderInit DEF Known
<1>2. Known /\ [Next]_vars => Known'
  BY TypeStep, ProvenanceStep, CoherentStep, OrderStep DEF Known
<1>. QED BY <1>1, <1>2, PTL DEF Spec

-----------------------------------------------------------------------------
(* Theorems *)

\* With numbered CRLs, no snapshot on disk, export or answer is ever ahead of what
\* the server serves.
THEOREM NewestHolds == Unnumbered = FALSE => (Spec => []ServedIsNewest)
<1>. SUFFICES ASSUME Unnumbered = FALSE PROVE Spec => []ServedIsNewest
  OBVIOUS
<1>0. Spec => []Known
  BY KnownHolds
<1>1. Known => ServedIsNewest
  BY DEF Known, OrderInv
<1>. QED BY <1>0, <1>1, PTL

\* With numbered CRLs, what the watcher decided at its number check still holds when it
\* sets the tree, and no request in flight is behind its client's last answer.
THEOREM CoherenceHolds == Unnumbered = FALSE => (Spec => []OrderCoherent)
<1>. SUFFICES ASSUME Unnumbered = FALSE PROVE Spec => []OrderCoherent
  OBVIOUS
<1>0. Spec => []Known
  BY KnownHolds
<1>1. Known => OrderCoherent
  BY DEF Known, OrderInv
<1>. QED BY <1>0, <1>1, PTL

\* With numbered CRLs, SetTree never replaces a tree by that of an older CRL.
THEOREM ServedHolds == Unnumbered = FALSE => (Spec => ServedNeverGoesBack)
<1>. SUFFICES ASSUME Unnumbered = FALSE PROVE Spec => ServedNeverGoesBack
  OBVIOUS
<1>0. Spec => []Known
  BY KnownHolds
<1>1. Known /\ [Next]_vars
        => [main' \in Running =>
              \A i \in Issuers : trees[i] # Nothing => trees'[i] # Nothing
                                                      /\ trees'[i].crl >= trees[i].crl]_vars
  BY ServedStep, ServerAssumption
<1>. QED BY <1>0, <1>1, PTL DEF Spec, ServedNeverGoesBack

\* With numbered CRLs, what a client is told never goes back in time.
THEOREM AnswersHold == Unnumbered = FALSE => (Spec => AnswersNeverGoBack)
<1>. SUFFICES ASSUME Unnumbered = FALSE PROVE Spec => AnswersNeverGoBack
  OBVIOUS
<1>0. Spec => []Known
  BY KnownHolds
<1>1. ASSUME Known, [Next]_vars, main' \in Running, NEW c \in Clients, NEW i \in Issuers
      PROVE  seen'[c][i] >= seen[c][i]
  <2>1. seen[c][i] \in Int
    BY <1>1, ServerAssumption DEF Known, TypeOK
  <2>2. CASE UNCHANGED api
    BY <2>1, <2>2 DEF api
  <2>3. ASSUME NEW d \in Clients, Reply(d) PROVE seen'[c][i] >= seen[c][i]
    BY <1>1, <2>1, <2>3 DEF Reply, Known, TypeOK, OrderInv, OrderCoherent
  <2>4. ASSUME NEW d \in Clients, NEW k \in Issuers, Lookup(d, k)
        PROVE  seen'[c][i] >= seen[c][i]
    BY <2>1, <2>4 DEF Lookup
  <2>. QED BY <1>1, <2>2, <2>3, <2>4, ApiChanges
<1>2. Known /\ [Next]_vars
        => [main' \in Running =>
              \A c \in Clients, i \in Issuers : seen'[c][i] >= seen[c][i]]_vars
  BY <1>1
<1>. QED BY <1>0, <1>2, PTL DEF Spec, AnswersNeverGoBack
=============================================================================
