---------------------------- MODULE ServerProofs ----------------------------
(* Theorems about Server, for any number of issuers, serials, CRL numbers,  *)
(* exports and clients.                                                     *)
EXTENDS Server, TLAPS

\* Build makes a snapshot, with the CRL's own number.
LEMMA BuildType ==
  ASSUME NEW c \in CRL \union {NoCRL}
  PROVE  Build(c) \in Snapshot /\ Build(c).crl = c.number
BY ServerAssumption DEF Build, CRL, NoCRL, Snapshot

\* The loop over the issuers stays within them.
LEMMA AfterIssuerType ==
  ASSUME NEW i \in Issuers
  PROVE  AfterIssuer(i) \in [pc : {"fetch", "sleep"}, issuer : Issuers, crl : {NoCRL}]
<1>1. CASE i < NumIssuers
  <2>1. i + 1 \in Issuers BY <1>1, ServerAssumption DEF Issuers
  <2>. QED BY <1>1, <2>1 DEF AfterIssuer, Fetching
<1>2. CASE ~(i < NumIssuers)
  <2>1. 1 \in Issuers BY ServerAssumption DEF Issuers
  <2>. QED BY <1>2, <2>1 DEF AfterIssuer, Asleep
<1>. QED BY <1>1, <1>2

\* A process that ends leaves the shape of its variables.
LEMMA GoneType ==
  ASSUME TypeOK, Gone, main' \in {"down", "panicked"}
  PROVE  TypeOK'
<1>1. Loading(1) \in [issuer : 1..(NumIssuers + 1),
                      step : {"import", "download", "copy", "reimport"},
                      body : Snapshot \union {Nothing}]
  BY ServerAssumption DEF Loading
<1>2. Off \in [pc : {"off", "fetch", "check", "set", "log", "sleep"},
               issuer : Issuers, crl : CRL \union {NoCRL}]
  BY ServerAssumption DEF Off, Issuers
<1>. QED BY <1>1, <1>2, ServerAssumption DEF TypeOK, Gone, outside

-----------------------------------------------------------------------------
(* Types *)

\* The authority and the workflow change only CRLs and the page, and keep their types.
LEMMA EnvironmentType ==
  ASSUME TypeOK, Environment
  PROVE  TypeOK'
<1>1. ASSUME NEW i \in Issuers, Issue(i) PROVE TypeOK'
  <2>1. PICK n \in 1..MaxCRL, s \in Contents :
          issued' = [issued EXCEPT ![i] = @ \union {[number |-> n, serials |-> s]}]
    BY <1>1 DEF Issue
  <2>2. [number |-> n, serials |-> s] \in CRL
    BY ServerAssumption DEF CRL
  <2>. QED BY <1>1, <2>1, <2>2 DEF TypeOK, Issue, api
<1>2. ASSUME NEW i \in Issuers, IssueUnnumbered(i) PROVE TypeOK'
  <2>1. PICK s \in Contents :
          issued' = [issued EXCEPT ![i] = @ \union {[number |-> 0, serials |-> s]}]
    BY <1>2 DEF IssueUnnumbered
  <2>2. [number |-> 0, serials |-> s] \in CRL
    BY ServerAssumption DEF CRL
  <2>. QED BY <1>2, <2>1, <2>2 DEF TypeOK, IssueUnnumbered, api
<1>3. CASE Publish
  <2>1. \A i \in Issuers : Publishable(i) \subseteq Snapshot
    BY BuildType DEF TypeOK, Publishable
  <2>2. release' \in [Issuers -> Snapshot \union {Nothing}]
    BY <1>3, <2>1 DEF Publish
  <2>. QED BY <1>3, <2>2 DEF TypeOK, Publish, api
<1>. QED BY <1>1, <1>2, <1>3 DEF Environment

\* So does the loop that loads them.
LEMMA NextIssuerType ==
  ASSUME load.issuer \in Issuers, NextIssuer
  PROVE  load' \in [issuer : 1..(NumIssuers + 1), step : {"import"}, body : {Nothing}]
<1>1. load.issuer + 1 \in 1..(NumIssuers + 1)
  BY ServerAssumption DEF Issuers
<1>. QED BY <1>1 DEF NextIssuer, Loading

\* Start-up keeps the types: what it loads is a snapshot or nothing.
LEMMA LoadType ==
  ASSUME TypeOK, Start \/ LoadStep
  PROVE  TypeOK'
<1>. USE ServerAssumption DEF TypeOK, outside, api
<1>1. CASE Start
  BY <1>1 DEF Start, Loading, Running
<1>2. CASE Import
  BY <1>2, NextIssuerType DEF Import, At
<1>3. CASE DownloadFails
  BY <1>3, NextIssuerType DEF DownloadFails, At
<1>4. CASE DownloadStarts
  BY <1>4 DEF DownloadStarts, At
<1>5. CASE DownloadEnds
  BY <1>5 DEF DownloadEnds, At
<1>6. CASE DownloadBreaks
  BY <1>6, NextIssuerType DEF DownloadBreaks, At
<1>7. CASE Reimport
  BY <1>7, NextIssuerType DEF Reimport, At
<1>8. CASE Serve
  BY <1>8 DEF Serve, Loading, Fetching, Issuers, Running, Serving
<1>. QED BY <1>1, <1>2, <1>3, <1>4, <1>5, <1>6, <1>7, <1>8 DEF LoadStep

\* The watcher's steps keep the types.
LEMMA WatcherType ==
  ASSUME TypeOK, WatcherStep
  PROVE  TypeOK'
<1>. USE DEF TypeOK, outside, api
<1>1. ASSUME NEW c \in CRL, Fetch(c) PROVE TypeOK'
  BY <1>1 DEF Fetch
<1>2. CASE FetchFails
  BY <1>2, AfterIssuerType DEF FetchFails
<1>3. CASE Check
  BY <1>3, AfterIssuerType DEF Check
<1>4. CASE SetTree
  BY <1>4, BuildType DEF SetTree
<1>5. CASE LogPanics
  BY <1>5, GoneType DEF LogPanics, Panic
<1>6. ASSUME NEW j \in Exports, Spawn(j) PROVE TypeOK'
  <2>1. Build(watcher.crl) \in Snapshot
    BY BuildType
  <2>2. [issuer |-> watcher.issuer, snap |-> Build(watcher.crl), file |-> Nothing] \in Job
    BY <2>1 DEF Job
  <2>3. watcher' \in [pc : {"fetch", "sleep"}, issuer : Issuers, crl : {NoCRL}]
    BY <1>6, AfterIssuerType DEF Spawn
  <2>4. jobs' \in [Exports -> Job \union {Nothing}]
    BY <1>6, <2>2 DEF Spawn
  <2>. QED BY <1>6, <2>3, <2>4 DEF Spawn
<1>7. CASE Tick
  BY <1>7, ServerAssumption DEF Tick, Fetching, Issuers
<1>8. CASE WatcherReturns
  BY <1>8, ServerAssumption DEF WatcherReturns, Off, Issuers
<1>. QED BY <1>1, <1>2, <1>3, <1>4, <1>5, <1>6, <1>7, <1>8 DEF WatcherStep

\* An export writes and renames typed files only.
LEMMA ExportType ==
  ASSUME TypeOK, NEW j \in Exports, ExportStep(j)
  PROVE  TypeOK'
<1>. USE DEF TypeOK, outside, api
<1>1. jobs[j] # Nothing => jobs[j] \in Job
  OBVIOUS
<1>2. CASE Write(j)
  <2>1. PICK file \in {Content(jobs[j])} \union (IF TornWrites THEN {Torn} ELSE {}) :
          jobs' = [jobs EXCEPT ![j].file = file]
    BY <1>2 DEF Write
  <2>2. [jobs[j] EXCEPT !.file = file] \in Job
    BY <1>1, <1>2, <2>1 DEF Job, Content, Write
  <2>. QED BY <1>2, <2>1, <2>2 DEF Write
<1>3. CASE Rename(j)
  BY <1>1, <1>3 DEF Rename, Done, Job, Running, Serving
<1>4. CASE ExportFails(j)
  BY <1>4 DEF ExportFails, Done, Running, Serving
<1>. QED BY <1>2, <1>3, <1>4 DEF ExportStep

\* Signals, the stopping steps of main and a crash keep the types.
LEMMA StopType ==
  ASSUME TypeOK, Crash \/ Signal \/ StopStep
  PROVE  TypeOK'
<1>1. CASE Crash BY <1>1, GoneType DEF Crash
<1>2. CASE WakePanics BY <1>2, GoneType DEF WakePanics, Panic
<1>3. CASE StopHttp BY <1>3, GoneType DEF StopHttp
<1>4. CASE Signal \/ Wait \/ Wake \/ StopGrpc
  BY <1>4 DEF TypeOK, outside, api, Signal, Wait, Wake, StopGrpc, Running, Serving
<1>. QED BY <1>1, <1>2, <1>3, <1>4 DEF StopStep

\* Requests and answers keep the types.
LEMMA RequestType ==
  ASSUME TypeOK, NEW c \in Clients, NEW i \in Issuers, Lookup(c, i) \/ Reply(c)
  PROVE  TypeOK'
<1>. USE DEF TypeOK, outside
<1>1. CASE Lookup(c, i)
  <2>1. [issuer |-> i, entry |-> trees[i]] \in Request
    BY <1>1 DEF Lookup, Request
  <2>. QED BY <1>1, <2>1 DEF Lookup
<1>2. CASE Reply(c)
  <2>1. requests[c] \in Request
    BY <1>2 DEF Reply
  <2>2. requests[c].issuer \in Issuers /\ requests[c].entry.crl \in 0..MaxCRL
    BY <2>1 DEF Request, Snapshot
  <2>. QED BY <1>2, <2>2 DEF Reply
<1>. QED BY <1>1, <1>2

\* Type correctness is inductive.
LEMMA TypeStep ==
  ASSUME TypeOK, [Next]_vars
  PROVE  TypeOK'
<1>1. CASE UNCHANGED vars
  BY <1>1 DEF TypeOK, vars
<1>2. ASSUME NEW c \in Clients, Reply(c) PROVE TypeOK'
  <2>1. 1 \in Issuers BY ServerAssumption DEF Issuers
  <2>. QED BY <1>2, <2>1, RequestType
<1>. QED
  BY <1>1, <1>2, EnvironmentType, LoadType, WatcherType, ExportType, StopType,
     RequestType DEF Next

\* The initial state is well typed.
LEMMA TypeInit == Init => TypeOK
BY ServerAssumption
   DEF Init, TypeOK, Loading, Off, Issuers, Running

\* Every variable keeps its shape in every behaviour of the server.
THEOREM TypeCorrect == Spec => []TypeOK
BY TypeInit, TypeStep, PTL DEF Spec

-----------------------------------------------------------------------------
(* Provenance *)

\* A download in flight, the CRL in the watcher's hand and the temporary files
\* carry on the pairing of serials and number between the places Provenance names.
ProvenanceInv ==
  /\ Provenance
  /\ load.body # Nothing => /\ load.issuer \in Issuers
                            /\ load.body \in FromIssued(load.issuer)
  /\ watcher.pc \in {"check", "set", "log"} => watcher.crl \in issued[watcher.issuer]
  /\ \A j \in Live : jobs[j].file \in {Nothing, Torn, jobs[j].snap}

\* What CRLs can give depends on the CRLs issued and on nothing else.
LEMMA SameIssued ==
  ASSUME UNCHANGED issued
  PROVE  \A i \in Issuers : FromIssued(i)' = FromIssued(i)
BY DEF FromIssued

\* What a CRL gives is a snapshot.
LEMMA FromIssuedType ==
  ASSUME TypeOK, NEW i \in Issuers
  PROVE  FromIssued(i) \subseteq Snapshot
<1>1. issued[i] \subseteq CRL BY DEF TypeOK
<1>. QED BY <1>1, BuildType DEF FromIssued

\* A step that leaves alone whatever holds an entry keeps the provenance of all of them.
LEMMA ProvenanceUnchanged ==
  ASSUME ProvenanceInv, UNCHANGED <<issued, release, disk, trees, load, watcher, jobs, requests>>
  PROVE  ProvenanceInv'
BY SameIssued DEF ProvenanceInv, Provenance, Live

\* The set of CRLs issued only grows, and with it what a snapshot may be.
LEMMA ProvenanceIssue ==
  ASSUME TypeOK, ProvenanceInv, \A i \in Issuers : issued[i] \subseteq issued'[i],
         UNCHANGED <<release, disk, trees, load, watcher, jobs, requests>>
  PROVE  ProvenanceInv'
<1>1. \A i \in Issuers : FromIssued(i) \subseteq FromIssued(i)'
  BY DEF FromIssued
<1>2. Provenance'
  BY <1>1 DEF ProvenanceInv, Provenance, Live
<1>3. watcher.pc \in {"check", "set", "log"} => watcher.crl \in issued'[watcher.issuer]
  BY DEF ProvenanceInv, TypeOK
<1>. QED BY <1>1, <1>2, <1>3 DEF ProvenanceInv, Live

\* When the process goes, only the disk is left, which is as it was.
LEMMA ProvenanceGone ==
  ASSUME ProvenanceInv, Gone
  PROVE  ProvenanceInv'
BY SameIssued DEF ProvenanceInv, Provenance, Live, Gone, outside, Loading, Off

\* More CRLs and a new page make no entry unknown.
LEMMA ProvenanceEnvironment ==
  ASSUME TypeOK, ProvenanceInv, Environment
  PROVE  ProvenanceInv'
<1>1. ASSUME NEW i \in Issuers, Issue(i) PROVE ProvenanceInv'
  BY <1>1, ProvenanceIssue DEF Issue, TypeOK, api
<1>2. ASSUME NEW i \in Issuers, IssueUnnumbered(i) PROVE ProvenanceInv'
  BY <1>2, ProvenanceIssue DEF IssueUnnumbered, TypeOK, api
<1>3. CASE Publish
  <2>1. \A k \in Issuers : release'[k] \in FromIssued(k) \union {Nothing}
    BY <1>3 DEF Publish, Publishable, FromIssued
  <2>. QED BY <1>3, <2>1, SameIssued DEF ProvenanceInv, Provenance, Live, Publish, api
<1>. QED BY <1>1, <1>2, <1>3 DEF Environment

\* Start-up moves entries from the page to the disk and from the disk to memory.
LEMMA ProvenanceLoad ==
  ASSUME TypeOK, ProvenanceInv, Start \/ LoadStep
  PROVE  ProvenanceInv'
<1>. DEFINE k == load.issuer
<1>0. ASSUME k \in Issuers, disk[k] \in Snapshot
      PROVE  disk[k] \in FromIssued(k)
  BY <1>0, ServerAssumption DEF ProvenanceInv, Provenance
<1>1. CASE Start
  BY <1>1, SameIssued DEF Start, Loading, outside, api, ProvenanceInv, Provenance, Live
<1>2. CASE Import
  <2>1. \A i \in Issuers : trees'[i] \in FromIssued(i) \union {Nothing}
    BY <1>0, <1>2 DEF Import, At, TypeOK, ProvenanceInv, Provenance
  <2>2. load'.body # Nothing => load' = [load EXCEPT !.step = "download"]
    BY <1>2 DEF Import, NextIssuer, Loading
  <2>3. load'.body # Nothing => load'.issuer \in Issuers /\ load'.body \in FromIssued(load'.issuer)
    BY <2>2 DEF ProvenanceInv, TypeOK
  <2>. QED BY <1>2, <2>1, <2>3, SameIssued
           DEF Import, outside, api, ProvenanceInv, Provenance, Live
<1>3. CASE DownloadFails
  BY <1>3, SameIssued
     DEF DownloadFails, NextIssuer, Loading, outside, api, ProvenanceInv, Provenance, Live
<1>4. CASE DownloadStarts
  <2>1. \A i \in Issuers : disk'[i] \in FromIssued(i) \union {Nothing, Torn}
    BY <1>4 DEF DownloadStarts, At, TypeOK, ProvenanceInv, Provenance
  <2>2. load'.issuer \in Issuers /\ load'.body \in FromIssued(load'.issuer)
    BY <1>4 DEF DownloadStarts, At, TypeOK, ProvenanceInv, Provenance
  <2>. QED BY <1>4, <2>1, <2>2, SameIssued
           DEF DownloadStarts, outside, api, ProvenanceInv, Provenance, Live
<1>5. CASE DownloadEnds
  <2>1. \A i \in Issuers : disk'[i] \in FromIssued(i) \union {Nothing, Torn}
    BY <1>5 DEF DownloadEnds, At, TypeOK, ProvenanceInv, Provenance
  <2>2. load'.issuer = load.issuer /\ load'.body = load.body
    BY <1>5 DEF DownloadEnds, TypeOK
  <2>. QED BY <1>5, <2>1, <2>2, SameIssued
           DEF DownloadEnds, outside, api, ProvenanceInv, Provenance, Live
<1>6. CASE DownloadBreaks
  <2>1. \A i \in Issuers : disk'[i] \in FromIssued(i) \union {Nothing, Torn}
    BY <1>6 DEF DownloadBreaks, At, TypeOK, ProvenanceInv, Provenance
  <2>. QED BY <1>6, <2>1, SameIssued
           DEF DownloadBreaks, NextIssuer, Loading, outside, api, ProvenanceInv, Provenance, Live
<1>7. CASE Reimport
  <2>1. \A i \in Issuers : trees'[i] \in FromIssued(i) \union {Nothing}
    BY <1>0, <1>7 DEF Reimport, At, TypeOK, ProvenanceInv, Provenance
  <2>. QED BY <1>7, <2>1, SameIssued
           DEF Reimport, NextIssuer, Loading, outside, api, ProvenanceInv, Provenance, Live
<1>8. CASE Serve
  BY <1>8, SameIssued
     DEF Serve, Loading, Fetching, outside, api, ProvenanceInv, Provenance, Live
<1>. QED BY <1>1, <1>2, <1>3, <1>4, <1>5, <1>6, <1>7, <1>8 DEF LoadStep

\* The watcher builds an entry from a CRL it fetched, and hands it to the manager and an export.
LEMMA ProvenanceWatcher ==
  ASSUME TypeOK, ProvenanceInv, WatcherStep
  PROVE  ProvenanceInv'
<1>. DEFINE k == watcher.issuer
            Idle == watcher' \in [pc : {"fetch", "sleep"}, issuer : Issuers, crl : {NoCRL}]
<1>0. k \in Issuers BY DEF TypeOK
<1>1. ASSUME watcher.pc \in {"check", "set", "log"}
      PROVE  Build(watcher.crl) \in FromIssued(k)
  BY <1>1 DEF ProvenanceInv, FromIssued
<1>2. ASSUME NEW c \in CRL, Fetch(c) PROVE ProvenanceInv'
  <2>1. watcher'.crl \in issued[watcher'.issuer]
    BY <1>2 DEF Fetch, TypeOK
  <2>. QED BY <1>2, <2>1, SameIssued DEF Fetch, outside, api, ProvenanceInv, Provenance, Live
<1>3. CASE FetchFails
  <2>1. Idle BY <1>3, <1>0, AfterIssuerType DEF FetchFails
  <2>. QED BY <1>3, <2>1, SameIssued DEF FetchFails, outside, api, ProvenanceInv, Provenance, Live
<1>4. CASE Check
  <2>1. Idle \/ watcher' = [watcher EXCEPT !.pc = "set"]
    BY <1>4, <1>0, AfterIssuerType DEF Check
  <2>2. watcher'.pc \in {"check", "set", "log"} => watcher'.crl \in issued[watcher'.issuer]
    BY <1>4, <2>1 DEF Check, TypeOK, ProvenanceInv
  <2>. QED BY <1>4, <2>2, SameIssued DEF Check, outside, api, ProvenanceInv, Provenance, Live
<1>5. CASE SetTree
  <2>1. \A i \in Issuers : trees'[i] \in FromIssued(i) \union {Nothing}
    BY <1>0, <1>1, <1>5 DEF SetTree, TypeOK, ProvenanceInv, Provenance
  <2>2. watcher'.crl \in issued[watcher'.issuer]
    BY <1>5 DEF SetTree, TypeOK, ProvenanceInv
  <2>. QED BY <1>5, <2>1, <2>2, SameIssued
           DEF SetTree, outside, api, ProvenanceInv, Provenance, Live
<1>6. CASE LogPanics
  BY <1>6, ProvenanceGone DEF LogPanics, Panic
<1>7. ASSUME NEW j \in Exports, Spawn(j) PROVE ProvenanceInv'
  <2>1. Idle BY <1>7, <1>0, AfterIssuerType DEF Spawn
  <2>2. jobs' = [jobs EXCEPT ![j] =
                   [issuer |-> k, snap |-> Build(watcher.crl), file |-> Nothing]]
    BY <1>7 DEF Spawn
  <2>3. Build(watcher.crl) \in FromIssued(k)
    BY <1>1, <1>7 DEF Spawn
  <2>4. \A i \in Issuers : \A e \in Live' : jobs'[e].issuer = i => jobs'[e].snap \in FromIssued(i)
    BY <2>2, <2>3 DEF Live, TypeOK, ProvenanceInv, Provenance
  <2>5. \A e \in Live' : jobs'[e].file \in {Nothing, Torn, jobs'[e].snap}
    BY <2>2 DEF Live, TypeOK, ProvenanceInv
  <2>. QED BY <1>7, <2>1, <2>4, <2>5, SameIssued
           DEF Spawn, outside, api, ProvenanceInv, Provenance
<1>8. CASE Tick \/ WatcherReturns
  <2>1. watcher'.pc \in {"fetch", "off"}
    BY <1>8 DEF Tick, WatcherReturns, Fetching, Off
  <2>. QED BY <1>8, <2>1, SameIssued
           DEF Tick, WatcherReturns, outside, api, ProvenanceInv, Provenance, Live
<1>. QED BY <1>2, <1>3, <1>4, <1>5, <1>6, <1>7, <1>8 DEF WatcherStep

\* An export moves its entry to the temporary file, and that to the disk.
LEMMA ProvenanceExport ==
  ASSUME TypeOK, ProvenanceInv, NEW j \in Exports, ExportStep(j)
  PROVE  ProvenanceInv'
<1>0. j \in Live /\ jobs[j] \in Job
  BY DEF ExportStep, Write, Rename, ExportFails, Live, TypeOK
<1>1. ASSUME NEW e \in Live' PROVE e \in Live /\ (e # j => jobs'[e] = jobs[e])
  BY <1>0, <1>1 DEF ExportStep, Write, Rename, ExportFails, Done, Live, TypeOK
<1>2. CASE Write(j)
  <2>1. PICK file \in {jobs[j].snap, Torn} : jobs' = [jobs EXCEPT ![j].file = file]
    BY <1>2 DEF Write, Content
  <2>2. jobs'[j] = [jobs[j] EXCEPT !.file = file]
    BY <2>1 DEF TypeOK
  <2>3. jobs'[j].issuer = jobs[j].issuer /\ jobs'[j].snap = jobs[j].snap /\ jobs'[j].file = file
    BY <1>0, <2>2 DEF Job
  <2>4. \A i \in Issuers : \A e \in Live' : jobs'[e].issuer = i => jobs'[e].snap \in FromIssued(i)
    BY <1>0, <1>1, <2>3 DEF ProvenanceInv, Provenance
  <2>5. \A e \in Live' : jobs'[e].file \in {Nothing, Torn, jobs'[e].snap}
    BY <1>1, <2>3 DEF ProvenanceInv
  <2>. QED BY <1>2, <2>4, <2>5, SameIssued
           DEF Write, outside, api, ProvenanceInv, Provenance
<1>3. CASE Rename(j) \/ ExportFails(j)
  <2>1. \A e \in Live' : e \in Live /\ jobs'[e] = jobs[e]
    BY <1>0, <1>1, <1>3 DEF Rename, ExportFails, Done, Live, TypeOK
  <2>2. \A i \in Issuers : disk'[i] \in FromIssued(i) \union {Nothing, Torn}
    BY <1>0, <1>3 DEF Rename, ExportFails, Job, TypeOK, ProvenanceInv, Provenance
  <2>. QED BY <1>3, <2>1, <2>2, SameIssued
           DEF Rename, ExportFails, outside, api, ProvenanceInv, Provenance
<1>. QED BY <1>2, <1>3 DEF ExportStep

\* A handler copies an entry of the manager.
LEMMA ProvenanceRequest ==
  ASSUME TypeOK, ProvenanceInv, NEW c \in Clients,
         Reply(c) \/ \E i \in Issuers : Lookup(c, i)
  PROVE  ProvenanceInv'
<1>1. ASSUME NEW i \in Issuers, Lookup(c, i) PROVE ProvenanceInv'
  <2>1. trees[i] \in FromIssued(i)
    BY <1>1 DEF Lookup, ProvenanceInv, Provenance
  <2>2. \A k \in Issuers, d \in Clients :
          requests'[d] # Nothing /\ requests'[d].issuer = k => requests'[d].entry \in FromIssued(k)
    BY <1>1, <2>1 DEF Lookup, TypeOK, ProvenanceInv, Provenance
  <2>. QED BY <1>1, <2>2, SameIssued DEF Lookup, outside, ProvenanceInv, Provenance, Live
<1>2. CASE Reply(c)
  <2>1. \A d \in Clients : requests'[d] # Nothing => requests'[d] = requests[d]
    BY <1>2 DEF Reply, TypeOK
  <2>. QED BY <1>2, <2>1, SameIssued DEF Reply, outside, ProvenanceInv, Provenance, Live
<1>. QED BY <1>1, <1>2

\* The provenance invariant is inductive.
LEMMA ProvenanceStep ==
  ASSUME TypeOK, ProvenanceInv, [Next]_vars
  PROVE  ProvenanceInv'
<1>1. CASE UNCHANGED vars
  BY <1>1, ProvenanceUnchanged DEF vars
<1>2. CASE Crash \/ WakePanics \/ StopHttp
  BY <1>2, ProvenanceGone DEF Crash, WakePanics, Panic, StopHttp
<1>3. CASE Signal \/ Wait \/ Wake \/ StopGrpc
  BY <1>3, ProvenanceUnchanged DEF Signal, Wait, Wake, StopGrpc, outside, api
<1>. QED
  BY <1>1, <1>2, <1>3, ProvenanceEnvironment, ProvenanceLoad, ProvenanceWatcher,
     ProvenanceExport, ProvenanceRequest DEF Next, StopStep

\* At first nothing holds an entry.
LEMMA ProvenanceInit == Init => ProvenanceInv
BY DEF Init, ProvenanceInv, Provenance, Live, Loading, Off

\* A snapshot never pairs the serials of one CRL with the number of another, in
\* the release, on disk, in the manager, in an export or in a request.
THEOREM ProvenanceHolds == Spec => []Provenance
<1>1. ProvenanceInv => Provenance
  BY DEF ProvenanceInv
<1>. QED
  BY <1>1, TypeCorrect, TypeStep, ProvenanceInit, ProvenanceStep, PTL DEF Spec

-----------------------------------------------------------------------------
(* Where the process stands *)

\* A process that is gone has left nothing running.
LEMMA CoherentGone ==
  ASSUME Gone, main' \notin Running
  PROVE  ProcessCoherent'
BY DEF Gone, ProcessCoherent, Live, Running, Serving

\* While the server serves, the start-up loop's part of the property says nothing.
LEMMA CoherentServing ==
  ASSUME main' \in Serving
  PROVE  ProcessCoherent'
BY DEF ProcessCoherent, Running, Serving

\* What only a serving process does leaves it serving.
LEMMA ServingSteps ==
  ASSUME ProcessCoherent,
         \/ WatcherStep /\ ~LogPanics
         \/ \E j \in Exports : ExportStep(j)
         \/ Signal \/ Wait \/ Wake \/ StopGrpc
         \/ \E c \in Clients, i \in Issuers : Lookup(c, i)
         \/ \E c \in Clients : Reply(c)
  PROVE  main \in Serving /\ main' \in Serving
<1>1. CASE WatcherStep /\ ~LogPanics
  <2>1. watcher.pc # "off" /\ main' = main
    BY <1>1 DEF WatcherStep, Fetch, FetchFails, Check, SetTree, Spawn, Tick, WatcherReturns
  <2>. QED BY <2>1 DEF ProcessCoherent, Off
<1>2. ASSUME NEW j \in Exports, ExportStep(j)
      PROVE  main \in Serving /\ main' \in Serving
  <2>1. jobs[j] # Nothing /\ main' \in {main, "released"}
    BY <1>2 DEF ExportStep, Write, Rename, ExportFails, Done
  <2>. QED BY <2>1 DEF ProcessCoherent, Live, Serving
<1>3. CASE Signal \/ Wait \/ Wake \/ StopGrpc
  BY <1>3 DEF Signal, Wait, Wake, StopGrpc, Serving
<1>4. ASSUME NEW c \in Clients, NEW i \in Issuers, Lookup(c, i)
      PROVE  main \in Serving /\ main' \in Serving
  BY <1>4 DEF Lookup, Accepts, Serving
<1>5. ASSUME NEW c \in Clients, Reply(c)
      PROVE  main \in Serving /\ main' \in Serving
  BY <1>5 DEF Reply, ProcessCoherent
<1>. QED BY <1>1, <1>2, <1>3, <1>4, <1>5

\* Start-up goes on issuer by issuer, with what it has loaded in memory and on disk.
LEMMA CoherentLoad ==
  ASSUME TypeOK, ProcessCoherent, Start \/ LoadStep
  PROVE  ProcessCoherent'
<1>. DEFINE k == load.issuer
<1>. USE DEF outside, api
<1>1. CASE Serve
  BY <1>1, CoherentServing DEF Serve, Serving
<1>2. CASE Start
  <2>1. \A i \in 1..(1 - 1) : FALSE
    OBVIOUS
  <2>. QED BY <1>2, <2>1 DEF Start, ProcessCoherent, Loading, Running, Serving, Live, Issuers
<1>3. ASSUME main = "load", main' = "load", k \in Issuers,
             UNCHANGED <<watcher, jobs, requests, seen>>,
             \A i \in Issuers \ {k} : trees'[i] = trees[i] /\ disk'[i] = disk[i],
             \/ NextIssuer /\ (disk'[k] \in Snapshot => trees'[k] = disk'[k])
             \/ /\ load'.issuer = k /\ trees' = trees
                /\ load'.step \in {"download", "copy"} => disk'[k] \notin Snapshot
      PROVE  ProcessCoherent'
  <2>1. k \in Int /\ NumIssuers \in Int /\ Issuers = 1..NumIssuers
    BY <1>3, ServerAssumption DEF Issuers
  <2>2. \A i \in load'.issuer..NumIssuers : trees'[i] = Nothing
    <3>1. CASE NextIssuer
      BY <1>3, <2>1, <3>1 DEF NextIssuer, Loading, ProcessCoherent
    <3>2. CASE load'.issuer = k /\ trees' = trees
      BY <1>3, <3>2 DEF ProcessCoherent
    <3>. QED BY <1>3, <3>1, <3>2
  <2>3. \A i \in 1..(load'.issuer - 1) : disk'[i] \in Snapshot => trees'[i] = disk'[i]
    <3>1. \A i \in 1..(k - 1) : disk'[i] \in Snapshot => trees'[i] = disk'[i]
      BY <1>3, <2>1 DEF ProcessCoherent
    <3>2. CASE NextIssuer /\ (disk'[k] \in Snapshot => trees'[k] = disk'[k])
      <4>1. \A i \in 1..(load'.issuer - 1) : i \in 1..(k - 1) \/ i = k
        BY <2>1, <3>2 DEF NextIssuer, Loading
      <4>. QED BY <3>1, <3>2, <4>1
    <3>3. CASE load'.issuer = k
      BY <3>1, <3>3
    <3>. QED BY <1>3, <3>2, <3>3
  <2>4. load'.step \in {"download", "copy"} => disk'[load'.issuer] \notin Snapshot
    BY <1>3 DEF NextIssuer, Loading
  <2>. QED BY <1>3, <2>2, <2>3, <2>4 DEF ProcessCoherent, Live, Running, Serving
<1>4. CASE Import
  <2>1. CASE disk[k] \in Snapshot
    BY <1>3, <1>4, <2>1 DEF Import, At, TypeOK
  <2>2. CASE disk[k] \notin Snapshot
    BY <1>3, <1>4, <2>2 DEF Import, At, TypeOK
  <2>. QED BY <2>1, <2>2
<1>5. CASE DownloadFails
  BY <1>3, <1>5 DEF DownloadFails, At, ProcessCoherent
<1>6. CASE DownloadStarts
  BY <1>3, <1>6, ServerAssumption DEF DownloadStarts, At, TypeOK
<1>7. CASE DownloadEnds
  BY <1>3, <1>7 DEF DownloadEnds, At, TypeOK
<1>8. CASE DownloadBreaks
  BY <1>3, <1>8, ServerAssumption DEF DownloadBreaks, At, TypeOK
<1>9. CASE Reimport
  BY <1>3, <1>9 DEF Reimport, At, TypeOK
<1>. QED BY <1>1, <1>2, <1>4, <1>5, <1>6, <1>7, <1>8, <1>9 DEF LoadStep

\* Coherence of the process is inductive.
LEMMA CoherentStep ==
  ASSUME TypeOK, ProcessCoherent, [Next]_vars
  PROVE  ProcessCoherent'
<1>1. CASE UNCHANGED vars
  BY <1>1 DEF vars, ProcessCoherent, Live
<1>2. CASE Environment
  BY <1>2 DEF Environment, Issue, IssueUnnumbered, Publish, api, ProcessCoherent, Live
<1>3. CASE Crash \/ LogPanics \/ WakePanics \/ StopHttp
  BY <1>3, CoherentGone DEF Crash, LogPanics, WakePanics, Panic, StopHttp, Running, Serving
<1>. QED
  BY <1>1, <1>2, <1>3, CoherentLoad, CoherentServing, ServingSteps DEF Next, StopStep

\* Before the start no goroutine runs.
LEMMA CoherentInit == Init => ProcessCoherent
BY DEF Init, ProcessCoherent, Live, Running, Serving

\* In memory there is only what the process's stage allows, and main's start-up
\* loop never fetches over a snapshot that decodes.
THEOREM CoherentHolds == Spec => []ProcessCoherent
BY TypeCorrect, TypeStep, CoherentInit, CoherentStep, PTL DEF Spec

-----------------------------------------------------------------------------
(* The disk *)

WholeFiles == \A j \in Live : jobs[j].file # Torn

\* Without lost flushes a temporary file ready for its rename is whole.
LEMMA WholeStep ==
  ASSUME TornWrites = FALSE, TypeOK, WholeFiles, [Next]_vars
  PROVE  WholeFiles'
<1>1. ASSUME UNCHANGED jobs PROVE WholeFiles'
  BY <1>1 DEF WholeFiles, Live
<1>2. CASE Gone
  BY <1>2 DEF Gone, WholeFiles, Live
<1>3. ASSUME NEW j \in Exports, Spawn(j) PROVE WholeFiles'
  BY <1>3, ServerAssumption DEF Spawn, WholeFiles, Live, TypeOK
<1>4. ASSUME NEW j \in Exports, ExportStep(j) PROVE WholeFiles'
  <2>1. CASE Write(j)
    <3>1. jobs[j] \in Job
      BY <2>1 DEF Write, TypeOK
    <3>2. jobs' = [jobs EXCEPT ![j].file = Content(jobs[j])]
      BY <2>1 DEF Write
    <3>3. jobs'[j].file = jobs[j].snap /\ jobs[j].snap # Torn
      BY <3>1, <3>2, ServerAssumption DEF TypeOK, Job, Content
    <3>. QED BY <3>2, <3>3 DEF WholeFiles, Live, TypeOK
  <2>2. CASE Rename(j) \/ ExportFails(j)
    BY <2>2 DEF Rename, ExportFails, Done, WholeFiles, Live, TypeOK
  <2>. QED BY <1>4, <2>1, <2>2 DEF ExportStep
<1>5. UNCHANGED jobs \/ Gone \/ \E j \in Exports : Spawn(j) \/ ExportStep(j)
  BY DEF Next, vars, outside, api, Environment, Issue, IssueUnnumbered, Publish,
         Start, LoadStep, Import, DownloadFails, DownloadStarts, DownloadEnds, DownloadBreaks,
         Reimport, Serve, Crash, WatcherStep, Fetch, FetchFails, Check, SetTree, LogPanics,
         Panic, Tick, WatcherReturns, Signal, StopStep, Wait, Wake, WakePanics, StopGrpc,
         StopHttp, Lookup, Reply
<1>. QED BY <1>1, <1>2, <1>3, <1>4, <1>5

\* Only the download and the exports write the snapshot files.
LEMMA DiskChanges ==
  ASSUME [Next]_vars
  PROVE  \/ UNCHANGED disk
         \/ DownloadStarts \/ DownloadEnds \/ DownloadBreaks
         \/ \E j \in Exports : Rename(j)
BY DEF Next, vars, outside, api, Environment, Issue, IssueUnnumbered, Publish,
       Start, LoadStep, Import, DownloadFails, Reimport, Serve, Crash, Gone,
       WatcherStep, Fetch, FetchFails, Check, SetTree, LogPanics, Panic, Spawn, Tick,
       WatcherReturns, ExportStep, Write, ExportFails, Signal, StopStep, Wait, Wake,
       WakePanics, StopGrpc, StopHttp, Lookup, Reply

\* No step replaces a loadable snapshot file by one that is not.
LEMMA DiskStep ==
  ASSUME TypeOK, ProvenanceInv, ProcessCoherent, WholeFiles, [Next]_vars, NEW i \in Issuers,
         disk[i] \in Snapshot
  PROVE  disk'[i] \in Snapshot
<1>1. CASE DownloadStarts \/ DownloadEnds \/ DownloadBreaks
  <2>1. disk'[i] = disk[i] \/ (i = load.issuer /\ load.step \in {"download", "copy"})
    BY <1>1 DEF DownloadStarts, DownloadEnds, DownloadBreaks, At, TypeOK
  <2>2. main = "load"
    BY <1>1 DEF DownloadStarts, DownloadEnds, DownloadBreaks, At
  <2>. QED BY <2>1, <2>2 DEF ProcessCoherent
<1>2. ASSUME NEW j \in Exports, Rename(j) PROVE disk'[i] \in Snapshot
  <2>1. j \in Live /\ jobs[j] \in Job /\ jobs[j].file # Nothing
    BY <1>2 DEF Rename, Live, TypeOK
  <2>2. jobs[j].file \in Snapshot
    BY <2>1 DEF WholeFiles, Job
  <2>. QED BY <1>2, <2>2 DEF Rename, TypeOK
<1>. QED BY <1>1, <1>2, DiskChanges

\* When no flush fails unnoticed, a start never finds a file it cannot decode where
\* there was one it could: downloads and exports, with crashes anywhere, replace a
\* snapshot only by a snapshot.
THEOREM DiskHolds == TornWrites = FALSE => (Spec => DiskStaysLoadable)
<1>. SUFFICES ASSUME TornWrites = FALSE PROVE Spec => DiskStaysLoadable
  OBVIOUS
<1>1. Init => WholeFiles
  BY DEF Init, WholeFiles, Live
<1>2. TypeOK /\ WholeFiles /\ [Next]_vars => WholeFiles'
  BY WholeStep
<1>3. TypeOK /\ ProvenanceInv /\ ProcessCoherent /\ WholeFiles /\ [Next]_vars
        => [\A i \in Issuers : disk[i] \in Snapshot => disk'[i] \in Snapshot]_vars
  BY DiskStep
<1>. QED
  BY <1>1, <1>2, <1>3, TypeCorrect, ProvenanceInit, ProvenanceStep, CoherentInit, CoherentStep,
     PTL DEF Spec, DiskStaysLoadable
=============================================================================
