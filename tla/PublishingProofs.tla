-------------------------- MODULE PublishingProofs --------------------------
(* Theorems about Publishing, for any number of issuers, serials, CRLs and  *)
(* overlapping runs, and any number of failures.                            *)
EXTENDS Publishing, TLAPS

-----------------------------------------------------------------------------
(* Types *)

\* A run may start, stop and go back to its last step in any place.
LEMMA AtType ==
  ASSUME NEW step \in BeforePush \union {"idle", "check", "delete", "create", "post"},
         NEW root \in Record
  PROVE  At(step, root) \in RunType
BY PublishingAssumption DEF At, RunType, Everywhere, Offer, Issuers

\* A run that does not run is well typed.
LEMMA IdleType == Idle \in RunType
<1>1. Everywhere(Nothing) \in Record
  BY DEF Everywhere, Record
<1>. QED BY <1>1, AtType DEF Idle

\* Going on to the next issuer, or out of the loop, keeps a run's type.
LEMMA TurnedType ==
  ASSUME NEW p \in RunType
  PROVE  Turned(p) \in RunType
<1>1. CASE p.issuer < NumIssuers
  <2>1. p.issuer + 1 \in Issuers
    BY <1>1, PublishingAssumption DEF Issuers, RunType
  <2>. QED BY <1>1, <2>1 DEF Turned, RunType, BeforePush
<1>2. CASE ~(p.issuer < NumIssuers)
  BY <1>2 DEF Turned, RunType, BeforePush
<1>. QED BY <1>1, <1>2

\* What an update makes of a CRL is a snapshot.
LEMMA BuiltType ==
  ASSUME NEW p \in RunType
  PROVE  Built(p) \in Snapshot
<1>1. Held(p) \subseteq Serials
  BY DEF Held, Local, RunType, Offer, Snapshot
<1>2. p.crl.serials \subseteq Serials /\ p.crl.number \in 0..MaxCRL
  BY PublishingAssumption DEF RunType, CRL, NoCRL
<1>. QED BY <1>1, <1>2 DEF Built, Updated, Snapshot

\* Writing the snapshot files keeps a run's type.
LEMMA StoredType ==
  ASSUME NEW p \in RunType, NEW bin \in Snapshot \union {Nothing}
  PROVE  Stored(p, bin) \in RunType
BY BuiltType DEF Stored, RunType, Offer

\* Writing root.json, whole or torn, keeps a run's type.
LEMMA RecordedType ==
  ASSUME NEW p \in RunType, NEW root \in Snapshot \union {Torn}
  PROVE  Recorded(p, root) \in RunType
BY DEF Recorded, RunType, Record

\* An export that went well keeps a run's type.
LEMMA FinishedType ==
  ASSUME NEW p \in RunType, NEW built \in Snapshot
  PROVE  Finished(p, built) \in RunType
<1>1. [Recorded(p, built) EXCEPT !.changed = TRUE] \in RunType
  BY RecordedType DEF RunType
<1>. QED BY <1>1, TurnedType DEF Finished

\* The binary assets made up for by the conversion step are snapshots or nothing.
LEMMA ConvertedType ==
  ASSUME NEW p \in RunType
  PROVE  Converted(p) \in Offer
BY DEF Converted, RunType, Offer

\* The two ways out of the release's steps.
LEMMA UploadedType ==
  ASSUME TypeOK, NEW r \in Runs, Uploaded(r)
  PROVE  run' \in [Runs -> RunType]
<1>1. run[r] \in RunType /\ run[r].root \in Record
  BY DEF TypeOK, RunType
<1>2. At("post", run[r].root) \in RunType
  BY <1>1, AtType
<1>. QED BY <1>2, IdleType DEF Uploaded, TypeOK

\* Failures stay within their bound.
LEMMA TroubleType ==
  ASSUME TypeOK, Trouble
  PROVE  troubles' \in 0..MaxTroubles
BY PublishingAssumption DEF TypeOK, Trouble

\* A step of smtbuild, or of the job around it, that only moves its own run on.
LEMMA OwnStepType ==
  ASSUME TypeOK, NEW r \in Runs, NEW p \in RunType, run' = [run EXCEPT ![r] = p],
         Trouble \/ UNCHANGED troubles, UNCHANGED world
  PROVE  TypeOK'
<1>1. run' \in [Runs -> RunType]
  BY DEF TypeOK
<1>2. troubles' \in 0..MaxTroubles
  BY TroubleType DEF TypeOK
<1>. QED BY <1>1, <1>2 DEF TypeOK, world

\* The steps inside smtbuild keep the types.
LEMMA BuildType ==
  ASSUME TypeOK, NEW r \in Runs, BuildStep(r)
  PROVE  TypeOK'
<1>. DEFINE p == run[r]
<1>0. /\ p \in RunType /\ p.issuer \in Issuers
      /\ Turned(p) \in RunType
      /\ Built(p) \in Snapshot
      /\ Stored(p, Built(p)) \in RunType /\ Stored(p, Nothing) \in RunType
      /\ run \in [Runs -> RunType]
  <2>1. p \in RunType
    BY DEF TypeOK
  <2>. QED BY <2>1, TurnedType, BuiltType, StoredType DEF TypeOK, RunType
<1>. HIDE DEF p
<1>1. ASSUME NEW c \in issued[p.issuer], Fetch(r, c) PROVE TypeOK'
  <2>1. c \in CRL
    BY <1>0 DEF TypeOK
  <2>2. [p EXCEPT !.pc = "download", !.crl = c] \in RunType
    BY <1>0, <2>1 DEF RunType, BeforePush
  <2>3. run' = [run EXCEPT ![r] = [p EXCEPT !.pc = "download", !.crl = c]]
    BY <1>0, <1>1 DEF Fetch, p
  <2>. QED BY <1>1, <2>2, <2>3, OwnStepType DEF Fetch
<1>2. CASE FetchFails(r)
  BY <1>0, <1>2, OwnStepType DEF FetchFails, p
<1>3. CASE Download(r)
  <2>1. [p EXCEPT !.pc = "update", !.json = [p.json EXCEPT ![p.issuer] = release.json[p.issuer]]]
          \in RunType
    BY <1>0, <1>3 DEF Download, TypeOK, RunType, Offer, BeforePush
  <2>2. run' = [run EXCEPT ![r] =
          [p EXCEPT !.pc = "update", !.json = [p.json EXCEPT ![p.issuer] = release.json[p.issuer]]]]
    BY <1>0, <1>3 DEF Download, p
  <2>. QED BY <1>3, <2>1, <2>2, OwnStepType DEF Download
<1>4. CASE DownloadFails(r)
  <2>1. [p EXCEPT !.pc = "update"] \in RunType
    BY <1>0 DEF RunType, BeforePush
  <2>2. run' = [run EXCEPT ![r] = [p EXCEPT !.pc = "update"]]
    BY <1>0, <1>4 DEF DownloadFails, Goes, p
  <2>. QED BY <1>4, <2>1, <2>2, OwnStepType DEF DownloadFails
<1>5. CASE Skip(r)
  BY <1>0, <1>5, OwnStepType DEF Skip, p
<1>6. CASE ExportPanics(r)
  BY <1>6, IdleType, OwnStepType DEF ExportPanics, JobEnds
<1>7. CASE Export(r)
  BY <1>0, <1>7, FinishedType, OwnStepType DEF Export, p
<1>8. CASE ExportFails(r)
  BY <1>0, <1>8, OwnStepType DEF ExportFails, p
<1>9. CASE BinaryFails(r)
  BY <1>0, <1>9, FinishedType, OwnStepType DEF BinaryFails, p
<1>10. CASE RecordFails(r)
  <2>1. \A q \in {Stored(p, Built(p)), Recorded(Stored(p, Built(p)), Torn)} : Turned(q) \in RunType
    BY <1>0, RecordedType, TurnedType
  <2>2. PICK q \in {Stored(p, Built(p)), Recorded(Stored(p, Built(p)), Torn)} :
          run' = [run EXCEPT ![r] = Turned(q)]
    BY <1>10 DEF RecordFails, p
  <2>. QED BY <1>10, <2>1, <2>2, OwnStepType DEF RecordFails
<1>. QED
  BY <1>1, <1>2, <1>3, <1>4, <1>5, <1>6, <1>7, <1>8, <1>9, <1>10 DEF BuildStep, p

\* A push keeps the types: the branch gets whole records.
LEMMA PushType ==
  ASSUME TypeOK, NEW r \in Runs, Commit(r)
  PROVE  TypeOK'
<1>1. run[r] \in RunType /\ run[r].root \in Record /\ run[r].dirty \in SUBSET Issuers
  BY DEF TypeOK, RunType
<1>2. Head(run[r]) \in Record
  BY <1>1 DEF TypeOK, Head, Record
<1>3. ASSUME NEW q \in Runs PROVE run'[q] \in RunType
  <2>1. run[q] \in RunType
    BY DEF TypeOK
  <2>2. CASE q = r
    <3>1. run'[q] = [run[r] EXCEPT !.pc = "check", !.root = Head(run[r]), !.dirty = {}, !.behind = {}]
      BY <2>2 DEF Commit, Pushed
    <3>. QED BY <1>1, <1>2, <3>1 DEF RunType
  <2>3. CASE q # r /\ run[q].pc \in BeforePush
    <3>1. run'[q] = [run[q] EXCEPT !.behind = @ \union run[r].dirty]
      BY <2>3 DEF Commit, Pushed
    <3>. QED BY <1>1, <2>1, <3>1 DEF RunType
  <2>4. CASE q # r /\ run[q].pc \notin BeforePush
    BY <2>1, <2>4 DEF Commit, Pushed
  <2>. QED BY <2>2, <2>3, <2>4
<1>4. run' \in [Runs -> RunType]
  BY <1>3 DEF Commit, Pushed
<1>5. log' \in [Issuers -> SUBSET (Snapshot \union {Torn})]
  BY <1>2 DEF TypeOK, Commit, Record
<1>. QED BY <1>2, <1>4, <1>5 DEF Commit, TypeOK

\* The steps of the workflow after smtbuild keep the types.
LEMMA ReleaseType ==
  ASSUME TypeOK, NEW r \in Runs, PublishStep(r), ~Commit(r)
  PROVE  TypeOK'
<1>0. run[r] \in RunType /\ run \in [Runs -> RunType]
  BY DEF TypeOK
<1>1. ASSUME NEW step \in {"delete", "create"}, Goes(r, step) PROVE run' \in [Runs -> RunType]
  <2>1. [run[r] EXCEPT !.pc = step] \in RunType
    BY <1>0 DEF RunType
  <2>. QED BY <1>0, <1>1, <2>1 DEF Goes
<1>2. JobEnds(r) => run' \in [Runs -> RunType]
  BY <1>0, IdleType DEF JobEnds
<1>3. CASE Convert(r)
  <2>. DEFINE p == [run[r] EXCEPT !.bin = Converted(run[r]),
                                  !.pc = IF run[r].changed THEN "commit" ELSE "check"]
  <2>1. p \in RunType
    BY <1>0, ConvertedType DEF RunType, BeforePush
  <2>2. run' = [run EXCEPT ![r] = p]
    BY <1>0, <1>3 DEF Convert
  <2>. QED BY <1>3, <2>1, <2>2, OwnStepType DEF Convert
<1>4. CASE CommitConflicts(r)
  BY <1>2, <1>4 DEF CommitConflicts, TypeOK, world
<1>5. CASE Check(r)
  BY <1>1, <1>5, UploadedType DEF Check, TypeOK, world
<1>6. CASE CheckFails(r)
  BY <1>1, <1>6, TroubleType DEF CheckFails, TypeOK, world
<1>7. CASE Delete(r)
  BY <1>1, <1>7 DEF Delete, TypeOK
<1>8. CASE DeleteFails(r)
  BY <1>1, <1>8, TroubleType DEF DeleteFails, TypeOK, world
<1>9. CASE Create(r)
  <2>1. release' \in [json : Offer, bin : Offer, notes : Record]
    BY <1>0, <1>9 DEF Create, RunType
  <2>. QED BY <1>9, <2>1, UploadedType DEF Create, TypeOK
<1>10. CASE CreateRefused(r)
  BY <1>2, <1>10 DEF CreateRefused, TypeOK, world
<1>11. CASE Post(r)
  <2>1. sent' \in [Issuers -> SUBSET Snapshot]
    BY <1>11 DEF Post, Newer, TypeOK
  <2>. QED BY <1>2, <1>11, <2>1 DEF Post, TypeOK
<1>. QED
  BY <1>3, <1>4, <1>5, <1>6, <1>7, <1>8, <1>9, <1>10, <1>11 DEF PublishStep

\* The initial state is well typed.
LEMMA InitType == Init => TypeOK
<1>. SUFFICES ASSUME Init PROVE TypeOK
  OBVIOUS
<1>1. Everywhere(Nothing) \in Offer /\ Everywhere(Nothing) \in Record
  BY DEF Everywhere, Offer, Record
<1>. QED
  BY <1>1, IdleType, PublishingAssumption DEF Init, TypeOK, Everywhere

\* Type correctness is inductive.
LEMMA NextType ==
  ASSUME TypeOK, [Next]_vars
  PROVE  TypeOK'
<1>1. ASSUME NEW i \in Issuers, Issue(i) PROVE TypeOK'
  <2>1. PICK c \in Authority[i] : issued' = [issued EXCEPT ![i] = @ \union {c}]
    BY <1>1 DEF Issue
  <2>2. c \in CRL
    BY PublishingAssumption
  <2>. QED BY <1>1, <2>1, <2>2 DEF Issue, TypeOK
<1>2. ASSUME NEW r \in Runs, Schedule(r) \/ Dispatch(r) PROVE TypeOK'
  <2>1. At("fetch", repo) \in RunType
    BY AtType DEF TypeOK, BeforePush
  <2>. QED BY <1>2, <2>1, OwnStepType DEF Schedule, Dispatch
<1>3. ASSUME NEW r \in Runs, Dies(r) PROVE TypeOK'
  BY <1>3, IdleType, OwnStepType DEF Dies, JobEnds
<1>4. CASE UNCHANGED vars
  BY <1>4 DEF vars, TypeOK
<1>5. ASSUME NEW i \in Issuers, Mined(i) PROVE TypeOK'
  <2>1. chain' \in Offer
    BY <1>5 DEF Mined, TypeOK, Offer
  <2>2. sent' \in [Issuers -> SUBSET Snapshot]
    BY <1>5 DEF Mined, TypeOK
  <2>. QED BY <1>5, <2>1, <2>2 DEF Mined, TypeOK
<1>. QED
  BY <1>1, <1>2, <1>3, <1>4, <1>5, BuildType, PushType, ReleaseType DEF Next, PublishStep

\* Every variable keeps its shape, in every step of smtbuild and of the workflow.
THEOREM TypeCorrect == Spec => []TypeOK
<1>1. Init => TypeOK
  BY InitType
<1>2. TypeOK /\ [Next]_vars => TypeOK'
  BY NextType
<1>. QED BY <1>1, <1>2, PTL DEF Spec

-----------------------------------------------------------------------------
(* What is published: one CRL, agreeing assets, committed roots *)

\* The files of a run's data directory: all of one CRL each; the binary snapshot is
\* the JSON one or missing; a root.json that has been touched is to be committed or,
\* if nothing was finished, torn.
Files(p) ==
  /\ \A i \in Issuers :
       /\ p.json[i] \in FromIssued(i) \union {Nothing}
       /\ p.bin[i] \in {p.json[i], Nothing}
       /\ p.root[i] \in FromIssued(i) \union {Nothing, Torn}
       /\ i \notin p.dirty => p.root[i] \in log[i] \union {Nothing, Torn}
  /\ ~p.changed => \A i \in p.dirty : p.root[i] = Torn

\* Nothing has been stored for the issuers that are still to come.
Ahead(p) == \A i \in Issuers : p.issuer < i => p.bin[i] = Nothing

\* What a run may rely on at the place where it is.
Place(p) ==
  /\ p.pc \in {"download", "update"} => p.crl \in issued[p.issuer]
  /\ p.pc \in {"fetch", "download", "update"} => Ahead(p) /\ p.bin[p.issuer] = Nothing
  /\ p.pc \in {"commit", "check", "delete", "create"} => p.bin = p.json
  /\ p.pc \in {"check", "delete", "create"} /\ p.changed => p.dirty = {}
  /\ p.pc = "post" => p.dirty = {}

Sound(p) == Files(p) /\ Place(p)

\* What waits to be mined is published already, and newer than what was mined.
Waiting(i) ==
  \A root \in sent[i] : root \in FromIssued(i) /\ root \in log[i] /\ Newer(root, chain[i])

PublishedInv ==
  /\ Provenance /\ AssetsAgree /\ PostedIsCommitted
  /\ \A i \in Issuers : Waiting(i)
  /\ \A i \in Issuers : repo[i] \in log[i] \union {Nothing}
  /\ \A r \in Runs : Sound(run[r])

\* What a CRL gives is a snapshot.
LEMMA FromIssuedType ==
  ASSUME TypeOK, NEW i \in Issuers
  PROVE  FromIssued(i) \subseteq Snapshot
BY DEF TypeOK, FromIssued, CRL, Snapshot

\* What was sound stays sound, since CRLs are not taken back and the branch is not
\* rewritten.
LEMMA SoundGrows ==
  ASSUME TypeOK,
         \A i \in Issuers : issued[i] \subseteq issued'[i] /\ log[i] \subseteq log'[i]
  PROVE  /\ \A i \in Issuers : FromIssued(i) \subseteq FromIssued(i)'
         /\ \A p \in RunType : Sound(p) => Sound(p)'
<1>1. \A i \in Issuers : FromIssued(i) \subseteq FromIssued(i)'
  BY DEF FromIssued
<1>2. ASSUME NEW p \in RunType, Sound(p) PROVE Sound(p)'
  <2>1. Files(p)'
    BY <1>1, <1>2 DEF Sound, Files
  <2>2. p.issuer \in Issuers
    BY DEF RunType
  <2>3. Place(p)'
    BY <1>2, <2>2 DEF Sound, Place, Ahead
  <2>. QED BY <2>1, <2>3 DEF Sound
<1>. QED BY <1>1, <1>2

\* A step in which one run changes only itself, soundly, keeps the invariant.
LEMMA OwnStepPublished ==
  ASSUME TypeOK, PublishedInv, NEW r \in Runs, NEW p \in RunType, Sound(p),
         run' = [run EXCEPT ![r] = p], UNCHANGED world
  PROVE  PublishedInv'
<1>1. /\ \A i \in Issuers : FromIssued(i)' = FromIssued(i)
      /\ \A q \in RunType : Sound(q) => Sound(q)'
  <2>1. UNCHANGED <<issued, log>>
    BY DEF world
  <2>. QED BY <2>1, SoundGrows DEF FromIssued
<1>2. \A q \in Runs : Sound(run'[q])
  BY DEF PublishedInv, TypeOK
<1>3. \A q \in Runs : run'[q] \in RunType
  BY DEF TypeOK
<1>4. \A q \in Runs : Sound(run[q])'
  BY <1>1, <1>2, <1>3
<1>5. (Provenance /\ AssetsAgree /\ PostedIsCommitted)'
  BY <1>1 DEF PublishedInv, Provenance, AssetsAgree, PostedIsCommitted, world
<1>6. \A i \in Issuers : Waiting(i)'
  BY <1>1 DEF PublishedInv, Waiting, Newer, world
<1>. QED BY <1>4, <1>5, <1>6 DEF PublishedInv, world

\* A run that does not run promises nothing.
LEMMA IdleSound == Sound(Idle)
BY DEF Sound, Files, Place, Idle, At, Everywhere

\* A run that goes on with the next issuer needs nothing but its files.
LEMMA TurnedSound ==
  ASSUME NEW p \in RunType, Files(p), Ahead(p)
  PROVE  Sound(Turned(p))
<1>1. Files(Turned(p))
  BY DEF Files, Turned, RunType
<1>2. Place(Turned(p))
  BY PublishingAssumption DEF Place, Ahead, Turned, RunType, Issuers
<1>. QED BY <1>1, <1>2 DEF Sound

\* The update of a snapshot to a CRL is that CRL: what was deleted and added leaves
\* exactly its serials.
LEMMA BuiltFromIssued ==
  ASSUME TypeOK, NEW p \in RunType, Sound(p), p.pc = "update",
         ~Skips(p), p.crl.number > 0
  PROVE  Built(p) \in FromIssued(p.issuer)
<1>1. p.issuer \in Issuers /\ p.crl \in issued[p.issuer]
  BY DEF Sound, Place, RunType
<1>2. Held(p) \intersect Wide = {}
  <2>1. CASE Local(p) = Nothing
    BY <2>1 DEF Held
  <2>2. CASE Local(p) # Nothing
    <3>1. Local(p) \in FromIssued(p.issuer)
      BY <1>1, <2>2 DEF Sound, Files, Local
    <3>. QED BY <2>2, <3>1 DEF Held, FromIssued
  <2>. QED BY <2>1, <2>2
<1>3. p.crl.serials \intersect Wide = {}
  BY <1>2 DEF Skips, TooWide
<1>4. Updated(Held(p), p.crl.serials) = p.crl.serials
  BY DEF Updated
<1>. QED BY <1>1, <1>3, <1>4 DEF Built, FromIssued

\* Writing the files of an issuer keeps each of them of one CRL.
LEMMA StoredSound ==
  ASSUME NEW p \in RunType, Files(p), Ahead(p), Built(p) \in FromIssued(p.issuer),
         NEW bin \in {Built(p), Nothing}
  PROVE  Files(Stored(p, bin)) /\ Ahead(Stored(p, bin))
BY DEF Files, Ahead, Stored, RunType, Offer, Issuers

\* A root.json that is written is to be committed.
LEMMA FinishedSound ==
  ASSUME NEW p \in RunType, Files(p), Ahead(p), NEW built \in FromIssued(p.issuer),
         built \in Snapshot
  PROVE  Sound(Finished(p, built))
<1>. DEFINE q == [Recorded(p, built) EXCEPT !.changed = TRUE]
<1>1. q \in RunType
  BY RecordedType DEF RunType
<1>2. Files(q) /\ Ahead(q)
  BY DEF Files, Ahead, Recorded, RunType, Record
<1>. QED BY <1>1, <1>2, TurnedSound DEF Finished

\* The steps inside smtbuild keep the invariant: they change one run, soundly.
LEMMA BuildPublished ==
  ASSUME TypeOK, PublishedInv, NEW r \in Runs, BuildStep(r)
  PROVE  PublishedInv'
<1>. DEFINE p == run[r]
<1>0. /\ p \in RunType /\ p.issuer \in Issuers /\ Sound(p)
      /\ run \in [Runs -> RunType]
      /\ Idle \in RunType /\ Turned(p) \in RunType
  BY IdleType, TurnedType DEF TypeOK, PublishedInv, RunType
<1>. HIDE DEF p
<1>1. p.pc \in {"fetch", "download", "update"} => Sound(Turned(p))
  BY <1>0, TurnedSound DEF Sound, Place
<1>2. ASSUME ToExport(r)
      PROVE  /\ Built(p) \in FromIssued(p.issuer) /\ Built(p) \in Snapshot
             /\ \A bin \in {Built(p), Nothing} :
                  /\ Stored(p, bin) \in RunType
                  /\ Stored(p, bin).issuer = p.issuer
                  /\ Files(Stored(p, bin)) /\ Ahead(Stored(p, bin))
  <2>1. p.pc = "update" /\ ~Skips(p) /\ p.crl.number > 0
    BY <1>2 DEF ToExport, Is, p
  <2>2. Built(p) \in FromIssued(p.issuer)
    BY <1>0, <2>1, BuiltFromIssued
  <2>3. Files(p) /\ Ahead(p)
    BY <1>0, <2>1 DEF Sound, Place
  <2>4. \A bin \in {Built(p), Nothing} : Stored(p, bin).issuer = p.issuer
    BY DEF Stored
  <2>. QED BY <1>0, <2>2, <2>3, <2>4, BuiltType, StoredType, StoredSound
<1>3. ASSUME NEW c \in issued[p.issuer], Fetch(r, c) PROVE PublishedInv'
  <2>. DEFINE q == [p EXCEPT !.pc = "download", !.crl = c]
  <2>1. q \in RunType
    BY <1>0 DEF RunType, TypeOK, BeforePush
  <2>2. Sound(q)
    BY <1>0, <1>3 DEF Fetch, Is, Sound, Files, Place, Ahead, RunType, p
  <2>3. run' = [run EXCEPT ![r] = q]
    BY <1>0, <1>3 DEF Fetch, p
  <2>. QED BY <1>3, <2>1, <2>2, <2>3, OwnStepPublished DEF Fetch
<1>4. CASE FetchFails(r)
  BY <1>0, <1>1, <1>4, OwnStepPublished DEF FetchFails, Is, p
<1>5. CASE Download(r)
  <2>. DEFINE q == [p EXCEPT !.pc = "update",
                             !.json = [p.json EXCEPT ![p.issuer] = release.json[p.issuer]]]
  <2>1. q \in RunType
    BY <1>0, <1>5 DEF Download, TypeOK, RunType, Offer, BeforePush
  <2>2. release.json[p.issuer] \in FromIssued(p.issuer) \union {Nothing}
    BY <1>0, <1>5 DEF Download, PublishedInv, Provenance
  <2>3. p.pc = "download"
    BY <1>5 DEF Download, Is, p
  <2>4. Files(q)
    BY <1>0, <2>2, <2>3 DEF Sound, Files, Place, RunType, Offer
  <2>5. Place(q)
    BY <1>0, <2>3 DEF Sound, Place, Ahead, RunType
  <2>6. run' = [run EXCEPT ![r] = q]
    BY <1>0, <1>5 DEF Download, p
  <2>. QED BY <1>5, <2>1, <2>4, <2>5, <2>6, OwnStepPublished DEF Download, Sound
<1>6. CASE DownloadFails(r)
  <2>. DEFINE q == [p EXCEPT !.pc = "update"]
  <2>1. q \in RunType
    BY <1>0 DEF RunType, BeforePush
  <2>2. Sound(q)
    BY <1>0, <1>6 DEF DownloadFails, Is, Sound, Files, Place, Ahead, RunType, p
  <2>3. run' = [run EXCEPT ![r] = q]
    BY <1>0, <1>6 DEF DownloadFails, Goes, p
  <2>. QED BY <1>6, <2>1, <2>2, <2>3, OwnStepPublished DEF DownloadFails
<1>7. CASE Skip(r)
  BY <1>0, <1>1, <1>7, OwnStepPublished DEF Skip, Is, p
<1>8. CASE ExportPanics(r)
  BY <1>0, <1>8, IdleSound, OwnStepPublished DEF ExportPanics, JobEnds
<1>9. CASE Export(r)
  <2>1. ToExport(r) /\ run' = [run EXCEPT ![r] = Finished(Stored(p, Built(p)), Built(p))]
    BY <1>9 DEF Export, p
  <2>. QED
    BY <1>2, <1>9, <2>1, FinishedSound, FinishedType, OwnStepPublished DEF Export
<1>10. CASE ExportFails(r)
  BY <1>0, <1>1, <1>10, OwnStepPublished DEF ExportFails, ToExport, Is, p
<1>11. CASE BinaryFails(r)
  <2>1. ToExport(r) /\ run' = [run EXCEPT ![r] = Finished(Stored(p, Nothing), Built(p))]
    BY <1>11 DEF BinaryFails, p
  <2>. QED
    BY <1>2, <1>11, <2>1, FinishedSound, FinishedType, OwnStepPublished DEF BinaryFails
<1>12. CASE RecordFails(r)
  <2>. DEFINE stored == Stored(p, Built(p))
  <2>1. PICK q \in {stored, Recorded(stored, Torn)} : run' = [run EXCEPT ![r] = Turned(q)]
    BY <1>12 DEF RecordFails, p
  <2>2. ToExport(r)
    BY <1>12 DEF RecordFails
  <2>3. stored \in RunType /\ Files(stored) /\ Ahead(stored)
    BY <1>2, <2>2
  <2>. HIDE DEF stored
  <2>4. Recorded(stored, Torn) \in RunType
    BY <2>3, RecordedType
  <2>5. Files(Recorded(stored, Torn)) /\ Ahead(Recorded(stored, Torn))
    BY <2>3 DEF Files, Ahead, Recorded, RunType, Record
  <2>6. q \in RunType /\ Sound(Turned(q)) /\ Turned(q) \in RunType
    BY <2>1, <2>3, <2>4, <2>5, TurnedSound, TurnedType
  <2>. QED BY <1>12, <2>1, <2>6, OwnStepPublished DEF RecordFails
<1>. QED
  BY <1>3, <1>4, <1>5, <1>6, <1>7, <1>8, <1>9, <1>10, <1>11, <1>12 DEF BuildStep, p

\* A push keeps what others have pushed, and adds the run's own root.json files to the
\* branch's history.
LEMMA PushPublished ==
  ASSUME TypeOK, PublishedInv, NEW r \in Runs, Commit(r)
  PROVE  PublishedInv'
<1>. DEFINE p == run[r]
<1>0. /\ p \in RunType /\ Sound(p) /\ p.bin = p.json
      /\ \A i \in Issuers : FromIssued(i)' = FromIssued(i)
      /\ \A i \in Issuers : log[i] \subseteq log'[i]
  BY DEF TypeOK, PublishedInv, Commit, Is, Sound, Place, FromIssued
<1>1. \A i \in Issuers : Head(p)[i] \in FromIssued(i) \union {Nothing, Torn}
  BY <1>0 DEF Head, PublishedInv, Provenance, Sound, Files
<1>2. \A i \in Issuers : repo'[i] = Head(p)[i] /\ repo'[i] \in log'[i] \union {Nothing}
  BY DEF Commit, Head
<1>3. Head(p) \in Record
  BY <1>0 DEF Head, TypeOK, Record, RunType
<1>4. PICK q \in RunType :
        q = [p EXCEPT !.pc = "check", !.root = Head(p), !.dirty = {}, !.behind = {}]
  BY <1>0, <1>3 DEF RunType
<1>5. Sound(q)'
  <2>1. ASSUME NEW i \in Issuers
        PROVE  /\ q.json[i] = p.json[i] /\ q.bin[i] = p.bin[i]
               /\ q.root[i] = Head(p)[i] /\ q.dirty = {}
    BY <1>4 DEF RunType
  <2>2. Files(q)'
    BY <1>0, <1>1, <1>2, <2>1, <1>4 DEF Sound, Files
  <2>3. Place(q)'
    BY <1>0, <1>4 DEF Sound, Place
  <2>. QED BY <2>2, <2>3 DEF Sound
<1>6. \A s \in RunType : Sound(s) => Sound(s)'
  BY <1>0, SoundGrows DEF Commit
<1>7. ASSUME NEW s \in Runs PROVE Sound(run[s])'
  <2>1. CASE s = r
    <3>1. run'[s] = q
      BY <1>4, <2>1 DEF Commit, Pushed
    <3>. QED BY <1>5, <3>1
  <2>2. CASE s # r /\ run[s].pc \in BeforePush
    <3>1. run[s] \in RunType /\ Sound(run[s])
      BY DEF TypeOK, PublishedInv
    <3>2. PICK t \in RunType : t = [run[s] EXCEPT !.behind = @ \union p.dirty]
      BY <1>0, <3>1 DEF RunType
    <3>3. Sound(t)
      BY <3>1, <3>2 DEF Sound, Files, Place, Ahead, RunType
    <3>4. run'[s] = t
      BY <2>2, <3>2 DEF Commit, Pushed
    <3>5. Sound(t)'
      BY <1>6, <3>3
    <3>. QED BY <3>4, <3>5
  <2>3. CASE s # r /\ run[s].pc \notin BeforePush
    <3>1. run'[s] = run[s]
      BY <2>3 DEF Commit, Pushed
    <3>2. Sound(run[s]) /\ run[s] \in RunType
      BY DEF TypeOK, PublishedInv
    <3>3. PICK t \in RunType : t = run[s] /\ t = run'[s] /\ Sound(t)
      BY <3>1, <3>2
    <3>4. Sound(t)'
      BY <1>6, <3>3
    <3>. QED BY <3>3, <3>4
  <2>. QED BY <2>1, <2>2, <2>3
<1>8. Provenance'
  BY <1>0, <1>1, <1>2 DEF PublishedInv, Provenance, Commit
<1>9. AssetsAgree' /\ PostedIsCommitted'
  BY <1>0 DEF PublishedInv, AssetsAgree, PostedIsCommitted, Commit
<1>10. \A i \in Issuers : Waiting(i)'
  BY <1>0 DEF PublishedInv, Waiting, Newer, Commit
<1>. QED BY <1>2, <1>7, <1>8, <1>9, <1>10 DEF PublishedInv

\* What is left of a run for the last step: all its roots are committed, or torn.
LEMMA UploadedSound ==
  ASSUME TypeOK, PublishedInv, NEW r \in Runs, Uploaded(r), Is(r, "check") \/ Is(r, "create")
  PROVE  \E p \in RunType : Sound(p) /\ run' = [run EXCEPT ![r] = p]
<1>. DEFINE p == run[r]
<1>1. p \in RunType /\ Sound(p) /\ (p.changed => p.dirty = {})
  BY DEF TypeOK, PublishedInv, Sound, Place, Is
<1>2. At("post", p.root) \in RunType
  BY <1>1, AtType DEF RunType
<1>3. \A i \in Issuers : /\ p.root[i] \in log[i] \union {Nothing, Torn}
                         /\ p.root[i] \in FromIssued(i) \union {Nothing, Torn}
  BY <1>1 DEF Sound, Files
<1>4. Sound(At("post", p.root))
  BY <1>3 DEF Sound, Files, Place, At, Everywhere
<1>. QED BY <1>2, <1>4, IdleType, IdleSound DEF Uploaded

\* The steps of the workflow after smtbuild keep the invariant.
LEMMA ReleasePublished ==
  ASSUME TypeOK, PublishedInv, NEW r \in Runs, PublishStep(r), ~Commit(r)
  PROVE  PublishedInv'
<1>. DEFINE p == run[r]
<1>0. p \in RunType /\ Sound(p) /\ run \in [Runs -> RunType]
  BY DEF TypeOK, PublishedInv
<1>1. ASSUME NEW step \in {"delete", "create"}, Goes(r, step),
             p.pc \in {"check", "delete", "create"}
      PROVE  \E q \in RunType : Sound(q) /\ run' = [run EXCEPT ![r] = q]
  <2>1. [p EXCEPT !.pc = step] \in RunType
    BY <1>0 DEF RunType
  <2>2. Sound([p EXCEPT !.pc = step])
    BY <1>0, <1>1 DEF Sound, Files, Place, Ahead, RunType
  <2>. QED BY <1>0, <1>1, <2>1, <2>2 DEF Goes
<1>2. JobEnds(r) => \E q \in RunType : Sound(q) /\ run' = [run EXCEPT ![r] = q]
  BY IdleType, IdleSound DEF JobEnds
\* The page or what is posted changes as well, and nothing issued, pushed or mined.
<1>3. ASSUME UNCHANGED <<issued, repo, log, chain>>,
             NEW q \in RunType, Sound(q), run' = [run EXCEPT ![r] = q],
             (Provenance /\ AssetsAgree)', \A i \in Issuers : Waiting(i)'
      PROVE  PublishedInv'
  <2>1. \A s \in Runs : Sound(run'[s]) /\ run'[s] \in RunType
    BY <1>0, <1>3 DEF PublishedInv, TypeOK
  <2>2. \A s \in RunType : Sound(s) => Sound(s)'
    BY <1>3, SoundGrows
  <2>3. \A s \in Runs : Sound(run[s])'
    BY <2>1, <2>2
  <2>. QED BY <1>3, <2>3 DEF PublishedInv, PostedIsCommitted
<1>4. CASE Convert(r)
  <2>. DEFINE q == [p EXCEPT !.bin = Converted(p), !.pc = IF p.changed THEN "commit" ELSE "check"]
  <2>1. Converted(p) = p.json
    BY <1>0 DEF Converted, Sound, Files, RunType, Offer
  <2>2. q \in RunType
    BY <1>0, ConvertedType DEF RunType, BeforePush
  <2>3. Files(q)
    BY <1>0, <2>1 DEF Sound, Files, RunType
  <2>4. Place(q)
    BY <1>0, <2>1 DEF Place, RunType
  <2>5. run' = [run EXCEPT ![r] = q]
    BY <1>0, <1>4 DEF Convert
  <2>. QED BY <1>4, <2>2, <2>3, <2>4, <2>5, OwnStepPublished DEF Convert, Sound
<1>5. CASE CommitConflicts(r)
  BY <1>2, <1>5, OwnStepPublished DEF CommitConflicts
<1>6. CASE Check(r)
  <2>1. \E q \in RunType : Sound(q) /\ run' = [run EXCEPT ![r] = q]
    BY <1>1, <1>6, UploadedSound DEF Check, Is
  <2>. QED BY <1>6, <2>1, OwnStepPublished DEF Check
<1>7. CASE CheckFails(r)
  BY <1>1, <1>7, OwnStepPublished DEF CheckFails, Is
<1>8. CASE Delete(r)
  <2>1. \E q \in RunType : Sound(q) /\ run' = [run EXCEPT ![r] = q]
    BY <1>1, <1>8 DEF Delete, Is
  <2>2. (Provenance /\ AssetsAgree)'
    BY <1>8 DEF Delete, PublishedInv, Provenance, AssetsAgree, FromIssued
  <2>3. \A i \in Issuers : Waiting(i)'
    BY <1>8 DEF Delete, PublishedInv, Waiting, Newer, FromIssued
  <2>. QED BY <1>3, <1>8, <2>1, <2>2, <2>3 DEF Delete
<1>9. CASE DeleteFails(r)
  BY <1>1, <1>9, OwnStepPublished DEF DeleteFails, Is
<1>10. CASE Create(r)
  <2>1. \E q \in RunType : Sound(q) /\ run' = [run EXCEPT ![r] = q]
    BY <1>10, UploadedSound DEF Create
  <2>2. p.bin = p.json
    BY <1>0, <1>10 DEF Create, Is, Sound, Place
  <2>3. Provenance'
    BY <1>0, <1>10, <2>2 DEF Create, PublishedInv, Provenance, FromIssued, Sound, Files
  <2>4. AssetsAgree'
    BY <1>10, <2>2 DEF Create, PublishedInv, AssetsAgree
  <2>5. \A i \in Issuers : Waiting(i)'
    BY <1>10 DEF Create, PublishedInv, Waiting, Newer, FromIssued
  <2>. QED BY <1>3, <1>10, <2>1, <2>3, <2>4, <2>5 DEF Create
<1>11. CASE CreateRefused(r)
  BY <1>2, <1>11, OwnStepPublished DEF CreateRefused
<1>12. CASE Post(r)
  <2>0. p.dirty = {}
    BY <1>0, <1>12 DEF Post, Is, Sound, Place
  <2>1. \A i \in Issuers : /\ p.root[i] \in log[i] \union {Nothing, Torn}
                           /\ p.root[i] \in FromIssued(i) \union {Nothing, Torn}
    BY <1>0, <2>0 DEF Sound, Files
  <2>2. Nothing \notin Snapshot /\ Torn \notin Snapshot
    BY PublishingAssumption
  <2>3. (Provenance /\ AssetsAgree)'
    BY <1>12 DEF Post, PublishedInv, Provenance, AssetsAgree, FromIssued
  <2>4. ASSUME NEW i \in Issuers PROVE Waiting(i)'
    <3>1. ASSUME NEW root \in sent'[i]
          PROVE  root \in FromIssued(i) /\ root \in log[i] /\ Newer(root, chain[i])
      <4>1. root \in sent[i] \/ (root = p.root[i] /\ Newer(root, chain[i]))
        BY <1>12, <3>1 DEF Post
      <4>2. CASE root \in sent[i]
        BY <4>2 DEF PublishedInv, Waiting
      <4>3. CASE root = p.root[i] /\ Newer(root, chain[i])
        BY <2>1, <2>2, <4>3 DEF Newer
      <4>. QED BY <4>1, <4>2, <4>3
    <3>2. UNCHANGED <<log, chain>> /\ FromIssued(i)' = FromIssued(i)
      BY <1>12 DEF Post, FromIssued
    <3>. QED BY <3>1, <3>2 DEF Waiting, Newer
  <2>. QED BY <1>2, <1>3, <1>12, <2>3, <2>4 DEF Post
<1>. QED
  BY <1>4, <1>5, <1>6, <1>7, <1>8, <1>9, <1>10, <1>11, <1>12 DEF PublishStep

\* At first nothing is published and nobody runs.
LEMMA InitPublished == Init => PublishedInv
BY IdleSound
DEF Init, PublishedInv, Provenance, AssetsAgree, PostedIsCommitted, Waiting, Everywhere

\* A root that is mined was committed before it was posted, and what is still newer
\* than it goes on waiting.
LEMMA MinedPublished ==
  ASSUME TypeOK, PublishedInv, NEW i \in Issuers, Mined(i)
  PROVE  PublishedInv'
<1>1. PICK root \in sent[i] :
        /\ chain' = [chain EXCEPT ![i] = root]
        /\ sent' = [sent EXCEPT ![i] = {other \in @ : Newer(other, root)}]
  BY DEF Mined
<1>2. root \in FromIssued(i) /\ root \in log[i]
  BY DEF PublishedInv, Waiting
<1>3. \A k \in Issuers : chain'[k] = IF k = i THEN root ELSE chain[k]
  BY <1>1 DEF TypeOK, Offer
<1>4. /\ UNCHANGED <<issued, repo, log, release, run>>
      /\ \A k \in Issuers : FromIssued(k)' = FromIssued(k)
  BY DEF Mined, FromIssued
<1>5. \A r \in Runs : Sound(run[r])'
  <2>1. \A p \in RunType : Sound(p) => Sound(p)'
    BY <1>4, SoundGrows
  <2>2. \A r \in Runs : run'[r] \in RunType /\ Sound(run'[r])
    BY <1>4 DEF TypeOK, PublishedInv
  <2>. QED BY <2>1, <2>2
<1>6. (Provenance /\ AssetsAgree /\ PostedIsCommitted)'
  BY <1>2, <1>3, <1>4 DEF PublishedInv, Provenance, AssetsAgree, PostedIsCommitted
<1>7. ASSUME NEW k \in Issuers PROVE Waiting(k)'
  <2>1. CASE k = i
    <3>1. sent'[k] = {other \in sent[i] : Newer(other, root)} /\ chain'[k] = root
      BY <1>1, <1>3, <2>1 DEF TypeOK
    <3>. QED BY <1>4, <2>1, <3>1 DEF PublishedInv, Waiting, Newer
  <2>2. CASE k # i
    <3>1. sent'[k] = sent[k] /\ chain'[k] = chain[k]
      BY <1>1, <1>3, <2>2 DEF TypeOK
    <3>. QED BY <1>4, <3>1 DEF PublishedInv, Waiting, Newer
  <2>. QED BY <2>1, <2>2
<1>. QED BY <1>4, <1>5, <1>6, <1>7 DEF PublishedInv

\* The invariant is inductive, beside the types.
LEMMA NextPublished ==
  ASSUME TypeOK, PublishedInv, [Next]_vars
  PROVE  PublishedInv'
<1>1. ASSUME NEW i \in Issuers, Issue(i) PROVE PublishedInv'
  <2>1. \A k \in Issuers : issued[k] \subseteq issued'[k]
    BY <1>1 DEF Issue, TypeOK
  <2>2. /\ \A k \in Issuers : FromIssued(k) \subseteq FromIssued(k)'
        /\ \A p \in RunType : Sound(p) => Sound(p)'
    BY <1>1, <2>1, SoundGrows DEF Issue
  <2>3. \A r \in Runs : run'[r] \in RunType /\ Sound(run'[r])
    BY <1>1 DEF Issue, TypeOK, PublishedInv
  <2>4. \A r \in Runs : Sound(run[r])'
    BY <2>2, <2>3
  <2>5. Provenance'
    BY <1>1, <2>2 DEF Issue, PublishedInv, Provenance
  <2>6. \A k \in Issuers : Waiting(k)'
    BY <1>1, <2>2 DEF Issue, PublishedInv, Waiting, Newer
  <2>. QED
    BY <1>1, <2>4, <2>5, <2>6 DEF Issue, PublishedInv, AssetsAgree, PostedIsCommitted
<1>2. ASSUME NEW r \in Runs, Schedule(r) \/ Dispatch(r) PROVE PublishedInv'
  <2>1. At("fetch", repo) \in RunType
    BY AtType DEF TypeOK, BeforePush
  <2>2. Sound(At("fetch", repo))
    BY PublishingAssumption
    DEF Sound, Files, Place, Ahead, At, Everywhere, PublishedInv, Provenance, Issuers
  <2>. QED BY <1>2, <2>1, <2>2, OwnStepPublished DEF Schedule, Dispatch
<1>3. ASSUME NEW r \in Runs, Dies(r) PROVE PublishedInv'
  BY <1>3, IdleType, IdleSound, OwnStepPublished DEF Dies, JobEnds
<1>4. CASE UNCHANGED vars
  <2>1. \A p \in RunType : Sound(p) => Sound(p)'
    BY <1>4, SoundGrows DEF vars
  <2>2. \A r \in Runs : run'[r] \in RunType /\ Sound(run'[r])
    BY <1>4 DEF vars, TypeOK, PublishedInv
  <2>3. \A r \in Runs : Sound(run[r])'
    BY <2>1, <2>2
  <2>4. \A k \in Issuers : Waiting(k)'
    BY <1>4 DEF vars, PublishedInv, Waiting, Newer, FromIssued
  <2>. QED
    BY <1>4, <2>3, <2>4
    DEF vars, PublishedInv, Provenance, AssetsAgree, PostedIsCommitted, FromIssued
<1>. QED
  BY <1>1, <1>2, <1>3, <1>4, BuildPublished, PushPublished, ReleasePublished, MinedPublished
  DEF Next, PublishStep

\* Types and the publishing invariant hold at every step.
LEMMA Published == Spec => [](TypeOK /\ PublishedInv)
<1>1. Init => TypeOK /\ PublishedInv
  BY InitType, InitPublished
<1>2. (TypeOK /\ PublishedInv) /\ [Next]_vars => (TypeOK /\ PublishedInv)'
  BY NextType, NextPublished
<1>. QED BY <1>1, <1>2, PTL DEF Spec

\* Assets, notes, committed and posted roots: each is one CRL's serials and number,
\* through any number of incremental updates, failures and overlapping runs.
THEOREM ProvenanceHolds == Spec => []Provenance
<1>1. PublishedInv => Provenance
  BY DEF PublishedInv
<1>. QED BY <1>1, Published, PTL

\* The conversion step makes up for every binary export that failed.
THEOREM AssetsHold == Spec => []AssetsAgree
<1>1. PublishedInv => AssetsAgree
  BY DEF PublishedInv
<1>. QED BY <1>1, Published, PTL

\* No run posts a root that it has not pushed or checked out.
THEOREM CommittedHolds == Spec => []PostedIsCommitted
<1>1. PublishedInv => PostedIsCommitted
  BY DEF PublishedInv
<1>. QED BY <1>1, Published, PTL

-----------------------------------------------------------------------------
(* To a server, the workflow is its outside *)

\* What Server allows on its page is what Publishing calls from a CRL issued.
LEMMA PublishableIsFromIssued ==
  ASSUME NEW i \in Issuers
  PROVE  Outside!Publishable(i) = FromIssued(i)
<1>1. ASSUME NEW c \in issued[i], c.serials \intersect Wide = {}
      PROVE  Outside!Build(c) = [serials |-> c.serials, crl |-> c.number]
  <2>1. c.serials \ Wide = c.serials
    BY <1>1
  <2>. QED BY <2>1 DEF Outside!Build
<1>. QED BY <1>1 DEF Outside!Publishable, FromIssued

\* Whatever comes onto the page may come onto Server's.
LEMMA PageStep ==
  ASSUME TypeOK, PublishedInv, PublishedInv', UNCHANGED issued,
         release' = Nothing \/ release' \in [json : Offer, bin : Offer, notes : Record]
  PROVE  Outside!Publish
<1>1. Page' \in Offer
  BY PublishingAssumption DEF Page, Everywhere, Offer
<1>2. ASSUME NEW i \in Issuers PROVE Page'[i] \in Outside!Publishable(i) \union {Nothing}
  <2>1. FromIssued(i)' = FromIssued(i)
    BY DEF FromIssued
  <2>2. Page'[i] \in FromIssued(i)' \union {Nothing}
    BY DEF PublishedInv, Provenance, Page, Everywhere
  <2>. QED BY <2>1, <2>2, PublishableIsFromIssued
<1>3. Issuers = Outside!Issuers
  BY DEF Issuers, Outside!Issuers
<1>4. Page' \in [Outside!Issuers ->
                   {Nothing} \union UNION {Outside!Publishable(i) : i \in Outside!Issuers}]
  BY <1>1, <1>2, <1>3 DEF Offer
<1>5. UNCHANGED Everywhere(Nothing)
  BY DEF Everywhere
<1>. QED BY <1>2, <1>3, <1>4, <1>5 DEF Outside!Publish, Outside!api

\* Every step either leaves alone what a server sees, or issues a CRL, or replaces
\* the page.
LEMMA OutsideStep ==
  ASSUME TypeOK, TypeOK', PublishedInv, PublishedInv', [Next]_vars
  PROVE  [Outside!Environment]_<<issued, Page>>
<1>0. Issuers = Outside!Issuers /\ UNCHANGED Everywhere(Nothing)
  BY DEF Issuers, Outside!Issuers, Everywhere
<1>1. ASSUME NEW i \in Issuers, Issue(i)
      PROVE  Outside!Issue(i) \/ Outside!IssueUnnumbered(i)
  <2>1. PICK c \in Authority[i] :
          /\ c.number > 0 => \A d \in issued[i] : d.number < c.number
          /\ issued' = [issued EXCEPT ![i] = @ \union {c}]
    BY <1>1 DEF Issue
  <2>2. c \in CRL
    BY PublishingAssumption
  <2>3. c = [number |-> c.number, serials |-> c.serials] /\ c.serials \in SUBSET Serials
    BY <2>2 DEF CRL
  <2>4. UNCHANGED Page
    BY <1>1 DEF Issue, Page, Everywhere
  <2>5. CASE c.number = 0
    BY <1>0, <2>1, <2>3, <2>4, <2>5 DEF Outside!IssueUnnumbered, Outside!api
  <2>6. CASE c.number \in 1..MaxCRL
    <3>1. \A d \in issued[i] : d.number < c.number
      BY <2>1, <2>6, PublishingAssumption
    <3>2. \E n \in 1..MaxCRL, s \in SUBSET Serials :
            /\ \A d \in issued[i] : d.number < n
            /\ issued' = [issued EXCEPT ![i] = @ \union {[number |-> n, serials |-> s]}]
      <4>1. issued' = [issued EXCEPT ![i] =
                         @ \union {[number |-> c.number, serials |-> c.serials]}]
        BY <2>1, <2>3
      <4>. QED BY <2>3, <2>6, <3>1, <4>1
    <3>. QED BY <1>0, <2>4, <3>2 DEF Outside!Issue, Outside!api
  <2>7. c.number = 0 \/ c.number \in 1..MaxCRL
    BY <2>2, PublishingAssumption DEF CRL
  <2>. QED BY <2>5, <2>6, <2>7
<1>2. ASSUME NEW r \in Runs, Delete(r) \/ Create(r) PROVE Outside!Publish
  <2>1. release' = Nothing \/ release' \in [json : Offer, bin : Offer, notes : Record]
    BY DEF TypeOK
  <2>. QED BY <1>2, <2>1, PageStep DEF Delete, Create
<1>3. ASSUME NEW r \in Runs,
             Schedule(r) \/ Dispatch(r) \/ BuildStep(r) \/ PublishStep(r) \/ Dies(r),
             ~Delete(r), ~Create(r)
      PROVE  UNCHANGED <<issued, release>>
  BY <1>3
  DEF Schedule, Dispatch, BuildStep, PublishStep, Dies, world, Fetch, FetchFails, Download,
      DownloadFails, Skip, ExportPanics, Export, ExportFails, BinaryFails, RecordFails,
      Convert, Commit, CommitConflicts, Check, CheckFails, DeleteFails, CreateRefused, Post
<1>4. UNCHANGED <<issued, release>> => UNCHANGED <<issued, Page>>
  BY DEF Page, Everywhere
<1>5. ASSUME NEW i \in Issuers, Mined(i) PROVE UNCHANGED <<issued, release>>
  BY <1>5 DEF Mined
<1>. QED
  BY <1>0, <1>1, <1>2, <1>3, <1>4, <1>5 DEF Next, vars, Outside!Environment

\* A server may rely on module Server's outside when it runs beside this workflow.
THEOREM OutsideHolds == Spec => ImplementsOutside
<1>1. Init => issued = Everywhere({}) /\ Page = Everywhere(Nothing)
  BY DEF Init, Page
<1>2. (TypeOK /\ PublishedInv) /\ (TypeOK /\ PublishedInv)' /\ [Next]_vars
        => [Outside!Environment]_<<issued, Page>>
  BY OutsideStep
<1>. QED BY <1>1, <1>2, Published, PTL DEF Spec, ImplementsOutside

-----------------------------------------------------------------------------
(* To its users, the contract keeps its promise *)

SentNumbers == [i \in Issuers |-> {root.crl : root \in sent[i]}]

ChainNumbers == [i \in Issuers |-> IF chain[i] = Nothing THEN 0 ELSE chain[i].crl]

\* A run's posts are roots it has read, as it comes to the last step.
LEMMA PostStorage ==
  ASSUME TypeOK, NEW r \in Runs, Post(r)
  PROVE  Storage!Read
<1>1. Is(r, "post") /\ UNCHANGED ChainNumbers
  BY DEF Post, ChainNumbers
<1>2. ASSUME NEW i \in Issuers, NEW root \in sent'[i]
      PROVE  root.crl \in SentNumbers[i] \union ToPost(i)
  <2>1. root \in sent[i] \/ (root = run[r].root[i] /\ root \in Snapshot)
    BY <1>2 DEF Post, Newer
  <2>2. CASE root \in sent[i]
    BY <2>2 DEF SentNumbers
  <2>3. CASE root = run[r].root[i] /\ root \in Snapshot
    BY <1>1, <2>3 DEF ToPost
  <2>. QED BY <2>1, <2>2, <2>3
<1>3. \A i \in Issuers : SentNumbers'[i] \subseteq SentNumbers[i] \union ToPost(i)
  BY <1>2 DEF SentNumbers
<1>. QED BY <1>1, <1>3 DEF Storage!Read, SentNumbers, ChainNumbers

\* Of the roots that wait, only a newer one is recorded: none with a smaller number
\* still waits, since it stopped being newer when another was mined.
LEMMA MinedStorage ==
  ASSUME TypeOK, PublishedInv, NEW i \in Issuers, Mined(i)
  PROVE  Storage!SetRoot(i)
<1>1. PICK root \in sent[i] :
        /\ chain' = [chain EXCEPT ![i] = root]
        /\ sent' = [sent EXCEPT ![i] = {other \in @ : Newer(other, root)}]
  BY DEF Mined
<1>2. root \in FromIssued(i) /\ Newer(root, chain[i])
  BY DEF PublishedInv, Waiting
<1>3. root.crl > 0 /\ root # Nothing /\ root.crl \in SentNumbers[i]
  BY <1>2, PublishingAssumption DEF FromIssued, Newer, SentNumbers
<1>4. root.crl > ChainNumbers[i]
  BY <1>2, <1>3 DEF ChainNumbers, Newer
<1>5. ChainNumbers' = [ChainNumbers EXCEPT ![i] = root.crl]
  <2>1. \A k \in Issuers : chain'[k] = IF k = i THEN root ELSE chain[k]
    BY <1>1 DEF TypeOK, Offer
  <2>. QED BY <1>3, <2>1 DEF ChainNumbers
<1>6. \A k \in Issuers : SentNumbers'[k] \subseteq SentNumbers[k]
  <2>1. \A k \in Issuers : sent'[k] \subseteq sent[k]
    BY <1>1 DEF TypeOK
  <2>. QED BY <2>1 DEF SentNumbers
<1>. QED BY <1>3, <1>4, <1>5, <1>6 DEF Storage!SetRoot, SentNumbers, ChainNumbers

\* Every other step leaves alone what is posted and what is recorded.
LEMMA StorageStep ==
  ASSUME TypeOK, PublishedInv, [Next]_vars
  PROVE  Storage!Next \/ UNCHANGED <<SentNumbers, ChainNumbers>>
<1>1. ASSUME NEW r \in Runs, Post(r) PROVE Storage!Next
  BY <1>1, PostStorage DEF Storage!Next
<1>2. ASSUME NEW i \in Issuers, Mined(i) PROVE Storage!Next
  BY <1>2, MinedStorage DEF Storage!Next
<1>3. ASSUME NEW r \in Runs,
             Schedule(r) \/ Dispatch(r) \/ BuildStep(r) \/ PublishStep(r) \/ Dies(r),
             ~Post(r)
      PROVE  UNCHANGED <<sent, chain>>
  BY <1>3
  DEF Schedule, Dispatch, BuildStep, PublishStep, Dies, world, Fetch, FetchFails, Download,
      DownloadFails, Skip, ExportPanics, Export, ExportFails, BinaryFails, RecordFails,
      Convert, Commit, CommitConflicts, Check, CheckFails, Delete, DeleteFails, Create,
      CreateRefused
<1>4. ASSUME (\E i \in Issuers : Issue(i)) \/ UNCHANGED vars PROVE UNCHANGED <<sent, chain>>
  BY <1>4 DEF Issue, vars
<1>5. UNCHANGED <<sent, chain>> => UNCHANGED <<SentNumbers, ChainNumbers>>
  BY DEF SentNumbers, ChainNumbers
<1>. QED BY <1>1, <1>2, <1>3, <1>4, <1>5 DEF Next

\* The contract's users may rely on RootStorage whatever the workflow goes through:
\* a transaction mined after its run ended, after other runs posted, or never.
THEOREM StorageImplemented == Spec => ImplementsStorage
<1>1. Init => Storage!Init
  BY DEF Init, Storage!Init, Everywhere
<1>2. TypeOK /\ PublishedInv /\ [Next]_vars
        => [Storage!Next]_<<SentNumbers, ChainNumbers>>
  BY StorageStep
<1>3. TypeOK /\ PublishedInv /\ [Next]_vars
        => [Storage!Next]_<<[i \in Issuers |-> {root.crl : root \in sent[i]}],
                            [i \in Issuers |-> IF chain[i] = Nothing THEN 0 ELSE chain[i].crl]>>
  BY <1>2 DEF SentNumbers, ChainNumbers
<1>. QED BY <1>1, <1>3, Published, PTL DEF Spec, ImplementsStorage, Storage!Spec
=============================================================================
