---------------------------- MODULE IngestProofs ----------------------------
(* Proofs about Ingest for every value of its constants.                    *)
EXTENDS Ingest, TLAPS

\* A worker has a job exactly while it is in processJob or reports its
\* outcome, has no targets to report otherwise, and stands at one of the
\* targets while it copies or notifies.
RunShape ==
  \A w \in Workers :
    /\ pc[w] \in Busy <=> job[w] \in Jobs
    /\ pc[w] \notin Busy => published[w] = {}
    /\ pc[w] \in {"copying", "notifying"} => target[w] \in Targets

Shaped == TypeOK /\ RunShape

LEMMA AssetAtType ==
  ASSUME Shaped, NEW w \in Workers, pc[w] \in Busy
  PROVE  AssetAt(w) \in Assets
BY AssetOfAssumption DEF Shaped, RunShape, AssetAt

LEMMA UploadTypeStep == Shaped /\ [Next]_vars => UploadType'
<1> SUFFICES ASSUME Shaped, [Next]_vars PROVE UploadType'
  OBVIOUS
<1> USE AssetOfAssumption DEF Shaped, TypeOK, UploadType, Phases
<1>1. ASSUME NEW j \in Jobs, StoreUpload(j) PROVE UploadType'
  BY <1>1 DEF StoreUpload
<1>2. ASSUME NEW j \in Jobs, StampJob(j) PROVE UploadType'
  BY <1>2 DEF StampJob
<1>3. ASSUME NEW j \in Jobs, InsertJob(j) PROVE UploadType'
  BY <1>3 DEF InsertJob
<1>4. ASSUME NEW j \in Jobs, AbandonUpload(j) PROVE UploadType'
  BY <1>4 DEF AbandonUpload
<1>5. CASE UNCHANGED uploadVars
  BY <1>5 DEF uploadVars
<1>6. QED
  BY <1>1, <1>2, <1>3, <1>4, <1>5
  DEF Next, Tick, OrphanWrites, Upload, Work, Disturb, Package, PublishToTargets, Conclude,
      Restart, ClaimNextIngestJob, ClaimFails, PrepareBuild, StartPackaging,
      FinishPackaging, ReadDuration, PackagingFails, BeginCopy, FinishCopy,
      CopyFails, NotifyTarget, NotifyFails, UpsertPublishedAsset,
      PublishFails, MarkJobFailed, MarkJobFailedLost, MarkJobPublished,
      MarkJobPublishedErrs, Crash, vars

LEMMA UpdateType ==
  ASSUME QueueType, NEW j \in Jobs, NEW s \in Statuses,
         NEW r \in SUBSET Targets, UpdateIngestJobStatus(j, s, r)
  PROVE  QueueType'
<1>1. status' \in [Jobs -> Statuses]
  BY DEF QueueType, UpdateIngestJobStatus
<1>2. report' \in [Jobs -> SUBSET Targets]
  BY DEF QueueType, UpdateIngestJobStatus
<1>3. age' \in [Jobs -> 0..StaleAfter]
  BY StaleAssumption DEF QueueType, UpdateIngestJobStatus
<1>4. QED
  BY <1>1, <1>2, <1>3 DEF QueueType

LEMMA QueueTypeStep == Shaped /\ [Next]_vars => QueueType'
<1> SUFFICES ASSUME Shaped, [Next]_vars PROVE QueueType'
  OBVIOUS
<1>0. QueueType /\ RunType
  BY DEF Shaped, TypeOK
<1>1. CASE Tick
  BY <1>0, <1>1, StaleAssumption DEF Tick, Older, QueueType
<1>2. ASSUME NEW j \in Jobs, InsertJob(j) PROVE QueueType'
  BY <1>0, <1>2 DEF InsertJob, QueueType, Statuses
<1>3. ASSUME NEW w \in Workers, ClaimNextIngestJob(w) PROVE QueueType'
  BY <1>0, <1>3, UpdateType DEF ClaimNextIngestJob, Statuses
<1>4. ASSUME NEW w \in Workers,
             MarkJobFailed(w) \/ MarkJobPublished(w) \/ MarkJobPublishedErrs(w)
      PROVE QueueType'
  <2>1. job[w] \in Jobs /\ published[w] \in SUBSET Targets
    BY <1>0, <1>4 DEF MarkJobFailed, MarkJobPublished, MarkJobPublishedErrs,
                      Shaped, RunShape, Busy, PCs, RunType
  <2>2. "published" \in Statuses /\ "failed" \in Statuses
    BY DEF Statuses, Terminal
  <2>3. CASE UNCHANGED queueVars
    BY <1>0, <2>3 DEF queueVars, QueueType
  <2>4. QED
    BY <1>0, <1>4, <2>1, <2>2, <2>3, UpdateType
    DEF MarkJobFailed, MarkJobPublished, MarkJobPublishedErrs
<1>5. CASE UNCHANGED queueVars
  BY <1>0, <1>5 DEF queueVars, QueueType
<1>6. QED
  BY <1>1, <1>2, <1>3, <1>4, <1>5
  DEF Next, OrphanWrites, Upload, StoreUpload, StampJob, AbandonUpload, Work,
      Disturb, Package, PublishToTargets, Conclude, Restart, ClaimFails,
      PrepareBuild, StartPackaging, FinishPackaging, ReadDuration,
      PackagingFails, BeginCopy, FinishCopy, CopyFails, NotifyTarget,
      NotifyFails, UpsertPublishedAsset, PublishFails, MarkJobFailedLost, Crash,
      vars

LEMMA DiskTypeStep == Shaped /\ [Next]_vars => DiskType'
<1> SUFFICES ASSUME Shaped, [Next]_vars PROVE DiskType'
  OBVIOUS
<1> DEFINE Audio == SUBSET (Jobs \cup {NoJob})
<1>0. /\ asset \in [Assets -> Jobs \cup {NoJob}]
      /\ build \in [Assets -> [audio : Audio, playlist : BOOLEAN]]
      /\ files \in [Targets -> [Assets -> [audio : Audio, whole : BOOLEAN]]]
      /\ announced \in SUBSET (Targets \X Assets)
      /\ source \in [Assets -> Jobs \cup {NoJob}]
      /\ RunType
  BY DEF Shaped, TypeOK, DiskType, UploadType
<1>1. ASSUME NEW w \in Workers, Package(w) PROVE DiskType'
  <2>0. AssetAt(w) \in Assets /\ UNCHANGED <<asset, files, announced>>
    BY <1>1, AssetAtType DEF Package, PrepareBuild, StartPackaging, diskVars,
       FinishPackaging, ReadDuration, PackagingFails, Busy, PCs
  <2>1. CASE build' = build
    BY <1>0, <2>0, <2>1 DEF DiskType
  <2>2. CASE build' = [build EXCEPT ![AssetAt(w)] = EmptyBuild]
    BY <1>0, <2>0, <2>2 DEF DiskType, EmptyBuild
  <2>3. CASE StartPackaging(w)
    BY <1>0, <2>0, <2>3 DEF DiskType, StartPackaging
  <2>4. CASE FinishPackaging(w)
    BY <1>0, <2>0, <2>4 DEF DiskType, FinishPackaging, RunType
  <2>5. QED
    BY <1>1, <2>1, <2>2, <2>3, <2>4
    DEF Package, PrepareBuild, ReadDuration, PackagingFails, diskVars
<1>2. ASSUME NEW w \in Workers, PublishToTargets(w) PROVE DiskType'
  <2>0. /\ AssetAt(w) \in Assets
        /\ target[w] \in Targets
        /\ UNCHANGED <<asset, build>>
    BY <1>2, AssetAtType
    DEF PublishToTargets, BeginCopy, FinishCopy, CopyFails, NotifyTarget,
        NotifyFails, Busy, PCs, Shaped, RunShape
  <2> DEFINE t == target[w]
             a == AssetAt(w)
  <2>1. /\ files[t][a] \in [audio : Audio, whole : BOOLEAN]
        /\ build[a] \in [audio : Audio, playlist : BOOLEAN]
    BY <1>0, <2>0
  <2>2. files' \in [Targets -> [Assets -> [audio : Audio, whole : BOOLEAN]]]
    <3>1. ASSUME NEW new \in [audio : Audio, whole : BOOLEAN],
                 files' = [files EXCEPT ![t][a] = new]
          PROVE  files' \in [Targets ->
                              [Assets -> [audio : Audio, whole : BOOLEAN]]]
      BY <1>0, <2>0, <3>1
    <3>2. CASE BeginCopy(w)
      <4>1. NoFiles \in [audio : Audio, whole : BOOLEAN]
        BY DEF NoFiles
      <4>2. QED
        BY <3>1, <3>2, <4>1 DEF BeginCopy
    <3>3. CASE FinishCopy(w)
      <4> DEFINE new == [audio |-> files[t][a].audio \cup build[a].audio,
                         whole |-> build[a].playlist]
      <4>1. files' = [files EXCEPT ![t][a] = new]
        BY <1>0, <2>0, <3>3 DEF FinishCopy
      <4>2. new \in [audio : Audio, whole : BOOLEAN]
        BY <2>1
      <4>3. QED
        BY <4>1, <4>2, <3>1
    <3>4. CASE CopyFails(w)
      <4>1. CASE files' = files
        BY <1>0, <4>1
      <4>2. ASSUME NEW S \in SUBSET build[a].audio,
                   files' = [files EXCEPT ![t][a] =
                               [audio |-> @.audio \cup S, whole |-> FALSE]]
            PROVE  files' \in [Targets ->
                                [Assets -> [audio : Audio, whole : BOOLEAN]]]
        <5> DEFINE new == [audio |-> files[t][a].audio \cup S,
                           whole |-> FALSE]
        <5>1. files' = [files EXCEPT ![t][a] = new]
          BY <1>0, <2>0, <2>1, <4>2
        <5>2. new \in [audio : Audio, whole : BOOLEAN]
          BY <2>1
        <5>3. QED
          BY <5>1, <5>2, <3>1
      <4>3. QED
        BY <3>4, <4>1, <4>2 DEF CopyFails
    <3>5. QED
      BY <1>0, <1>2, <3>2, <3>3, <3>4
      DEF PublishToTargets, NotifyTarget, NotifyFails
  <2>3. announced' \in SUBSET (Targets \X Assets)
    <3>1. <<t, a>> \in Targets \X Assets
      BY <2>0
    <3>2. announced' \in {announced, announced \cup {<<t, a>>}}
      BY <1>2
      DEF PublishToTargets, BeginCopy, FinishCopy, CopyFails, NotifyTarget,
          NotifyFails
    <3>3. QED
      BY <1>0, <3>1, <3>2
  <2>4. QED
    BY <1>0, <2>0, <2>2, <2>3 DEF DiskType
<1>3. ASSUME NEW w \in Workers, UpsertPublishedAsset(w) PROVE DiskType'
  BY <1>0, <1>3 DEF UpsertPublishedAsset, DiskType, diskVars, RunType
<1>4. CASE UNCHANGED <<asset, diskVars>>
  BY <1>0, <1>4 DEF DiskType, diskVars
<1>5. ASSUME NEW o \in orphans, NEW end \in BOOLEAN,
             build' = [build EXCEPT ![o.asset] =
                         [audio |-> @.audio \cup {o.audio}, playlist |-> @.playlist \/ end]],
             UNCHANGED <<asset, files, announced>>
      PROVE  DiskType'
  <2>1. o.asset \in Assets /\ o.audio \in Jobs \cup {NoJob}
    BY DEF Shaped, TypeOK
  <2>2. [audio |-> build[o.asset].audio \cup {o.audio},
         playlist |-> build[o.asset].playlist \/ end] \in [audio : Audio, playlist : BOOLEAN]
    BY <1>0, <2>1
  <2>3. build' \in [Assets -> [audio : Audio, playlist : BOOLEAN]]
    BY <1>0, <1>5, <2>1, <2>2
  <2> QED
    BY <1>0, <1>5, <2>3 DEF DiskType
<1>6. QED
  BY <1>1, <1>2, <1>3, <1>4, <1>5
  DEF Next, Tick, OrphanWrites, Upload, StoreUpload, StampJob, InsertJob, AbandonUpload,
      Work, Disturb, Conclude, Restart, ClaimNextIngestJob, ClaimFails,
      PublishFails, MarkJobFailed, MarkJobFailedLost, MarkJobPublished,
      MarkJobPublishedErrs, Crash, vars

\* Leaving processJob keeps the worker's variables in shape.
LEMMA ReleaseShape ==
  ASSUME Shaped, NEW w \in Workers, NEW l \in {"idle", "down"}, Release(w, l)
  PROVE  RunType' /\ RunShape'
<1>1. RunType'
  BY TargetsAssumption, StaleAssumption
  DEF Shaped, TypeOK, RunType, Release, PCs
<1>2. RunShape'
  BY <1>1, JobsAssumption DEF Shaped, TypeOK, RunType, RunShape, Release, Busy, PCs
<1>3. QED
  BY <1>1, <1>2

LEMMA RunStep == Shaped /\ [Next]_vars => RunType' /\ RunShape'
<1> SUFFICES ASSUME Shaped, [Next]_vars PROVE RunType' /\ RunShape'
  OBVIOUS
<1> USE DEF RunShape, Busy, PCs
<1>0. RunType /\ RunShape /\ source \in [Assets -> Jobs \cup {NoJob}]
  BY DEF Shaped, TypeOK, UploadType
<1>1. CASE Tick
  BY <1>0, <1>1, StaleAssumption DEF Tick, Older, RunType
<1>2. ASSUME NEW w \in Workers, ClaimNextIngestJob(w)
      PROVE  RunType' /\ RunShape'
  BY <1>0, <1>2, StaleAssumption, TargetsAssumption
  DEF ClaimNextIngestJob, RunType, Targets
<1>3. ASSUME NEW w \in Workers, Package(w) PROVE RunType' /\ RunShape'
  <2>1. AssetAt(w) \in Assets
    BY <1>3, AssetAtType DEF Package, PrepareBuild, StartPackaging,
       FinishPackaging, ReadDuration, PackagingFails
  <2>2. audio' \in [Workers -> Jobs \cup {NoJob}]
    BY <1>0, <1>3, <2>1 DEF RunType, Package, PrepareBuild, StartPackaging,
       FinishPackaging, ReadDuration, PackagingFails
  <2>3. \E l \in {"prepared", "packaging", "packaged", "publishing", "failing"} :
          GoTo(w, l) /\ UNCHANGED <<target, published>>
    BY <1>3 DEF Package, PrepareBuild, StartPackaging, FinishPackaging,
       ReadDuration, PackagingFails
  <2>4. pc[w] \in Busy
    BY <1>3 DEF Package, PrepareBuild, StartPackaging, FinishPackaging,
       ReadDuration, PackagingFails
  <2>5. QED
    BY <1>0, <2>2, <2>3, <2>4 DEF GoTo, RunType
<1>4. ASSUME NEW w \in Workers, PublishToTargets(w)
      PROVE  RunType' /\ RunShape'
  <2>1. pc[w] \in Busy /\ target[w] \in Targets
    BY <1>0, <1>4 DEF PublishToTargets, BeginCopy, FinishCopy, CopyFails,
       NotifyTarget, NotifyFails
  <2>2. ASSUME NEW ok \in BOOLEAN, NextTarget(w, ok), audio' = audio
        PROVE  RunType' /\ RunShape'
    <3>1. target[w] + 1 \in 1..(NumTargets + 1)
      BY <2>1, TargetsAssumption DEF Targets
    <3>2. RunType'
      BY <1>0, <2>1, <2>2, <3>1 DEF NextTarget, GoTo, RunType
    <3>3. RunShape'
      BY <1>0, <2>1, <2>2 DEF NextTarget, GoTo, RunType
    <3>4. QED
      BY <3>2, <3>3
  <2>3. CASE BeginCopy(w) \/ FinishCopy(w)
    BY <1>0, <2>1, <2>3 DEF BeginCopy, FinishCopy, GoTo, RunType
  <2>4. CASE CopyFails(w) \/ NotifyTarget(w) \/ NotifyFails(w)
    BY <2>2, <2>4 DEF CopyFails, NotifyTarget, NotifyFails
  <2>5. QED
    BY <1>4, <2>3, <2>4 DEF PublishToTargets
<1>5. ASSUME NEW w \in Workers, UpsertPublishedAsset(w) \/ PublishFails(w)
      PROVE  RunType' /\ RunShape'
  BY <1>0, <1>5 DEF UpsertPublishedAsset, PublishFails, GoTo, RunType
<1>6. ASSUME NEW w \in Workers, Release(w, "idle") \/ Release(w, "down")
      PROVE  RunType' /\ RunShape'
  BY <1>6, ReleaseShape
<1>7. CASE UNCHANGED runVars
  BY <1>0, <1>7 DEF runVars, RunType
<1>8. QED
  BY <1>1, <1>2, <1>3, <1>4, <1>5, <1>6, <1>7
  DEF Next, OrphanWrites, Upload, StoreUpload, StampJob, InsertJob, AbandonUpload, Work,
      Conclude, MarkJobFailed, MarkJobPublished, Disturb, ClaimFails,
      MarkJobFailedLost, MarkJobPublishedErrs, Crash, Restart, vars

LEMMA ShapedInvariant == Spec => []Shaped
<1>1. Init => Shaped
  <2> SUFFICES ASSUME Init PROVE Shaped
    OBVIOUS
  <2> USE DEF Init
  <2>1. UploadType /\ QueueType
    BY StaleAssumption DEF UploadType, QueueType, Phases, Statuses
  <2>2. DiskType
    BY DEF DiskType, EmptyBuild, NoFiles
  <2>3. RunType /\ RunShape
    BY JobsAssumption, TargetsAssumption, StaleAssumption
    DEF RunType, RunShape, PCs, Busy
  <2>4. /\ overran \in SUBSET Jobs /\ faults \in 0..MaxFaults
        /\ orphans \in SUBSET [asset : Assets, audio : Jobs \cup {NoJob}, ended : BOOLEAN]
    BY FaultsAssumption
  <2>5. QED
    BY <2>1, <2>2, <2>3, <2>4 DEF Shaped, TypeOK
<1>2. Shaped /\ [Next]_vars => Shaped'
  <2> SUFFICES ASSUME Shaped, [Next]_vars PROVE Shaped'
    OBVIOUS
  <2>1. overran' \in SUBSET Jobs
    <3>1. CASE Tick
      BY <3>1 DEF Tick, Shaped, TypeOK
    <3>2. CASE UNCHANGED overran
      BY <3>2 DEF Shaped, TypeOK
    <3>3. QED
      BY <3>1, <3>2
      DEF Next, OrphanWrites, Upload, StoreUpload, StampJob, InsertJob, AbandonUpload, Work,
          Disturb, Package, PublishToTargets, Conclude, Restart, ClaimFails,
          ClaimNextIngestJob, PrepareBuild, StartPackaging, FinishPackaging,
          ReadDuration, PackagingFails, BeginCopy, FinishCopy, CopyFails,
          NotifyTarget, NotifyFails, UpsertPublishedAsset, PublishFails,
          MarkJobFailed, MarkJobFailedLost, MarkJobPublished,
          MarkJobPublishedErrs, Crash, vars
  <2>2. faults' \in 0..MaxFaults
    <3>1. CASE Fault
      BY <3>1, FaultsAssumption DEF Fault, Shaped, TypeOK
    <3>2. CASE UNCHANGED faults
      BY <3>2 DEF Shaped, TypeOK
    <3>3. QED
      BY <3>1, <3>2
      DEF Next, Tick, OrphanWrites, Upload, StoreUpload, StampJob, InsertJob, AbandonUpload,
          Work, Disturb, Package, PublishToTargets, Conclude, Restart,
          ClaimFails, ClaimNextIngestJob, PrepareBuild, StartPackaging,
          FinishPackaging, ReadDuration, PackagingFails, BeginCopy, FinishCopy,
          CopyFails, NotifyTarget, NotifyFails, UpsertPublishedAsset,
          PublishFails, MarkJobFailed, MarkJobFailedLost, MarkJobPublished,
          MarkJobPublishedErrs, Crash, vars
  <2>3. orphans' \in SUBSET [asset : Assets, audio : Jobs \cup {NoJob}, ended : BOOLEAN]
    <3>0. orphans \in SUBSET [asset : Assets, audio : Jobs \cup {NoJob}, ended : BOOLEAN]
      BY DEF Shaped, TypeOK
    <3>1. CASE UNCHANGED orphans
      BY <3>0, <3>1
    <3>2. CASE OrphanWrites
      BY <3>0, <3>2 DEF OrphanWrites
    <3>3. ASSUME NEW w \in Workers, Crash(w)
          PROVE  orphans' \in SUBSET [asset : Assets, audio : Jobs \cup {NoJob}, ended : BOOLEAN]
      <4>1. pc[w] = "packaging" => AssetAt(w) \in Assets /\ audio[w] \in Jobs \cup {NoJob}
        BY AssetAtType DEF Shaped, TypeOK, RunType, Busy, PCs
      <4>2. CASE UNCHANGED orphans
        BY <3>0, <4>2
      <4>3. ASSUME pc[w] = "packaging",
                   orphans' = orphans \cup
                     {[asset |-> AssetAt(w), audio |-> audio[w], ended |-> FALSE]}
            PROVE  orphans' \in SUBSET [asset : Assets, audio : Jobs \cup {NoJob}, ended : BOOLEAN]
        <5>1. [asset |-> AssetAt(w), audio |-> audio[w], ended |-> FALSE]
                \in [asset : Assets, audio : Jobs \cup {NoJob}, ended : BOOLEAN]
          BY <4>1, <4>3
        <5> QED
          BY <3>0, <4>3, <5>1
      <4> QED
        BY <3>3, <4>2, <4>3 DEF Crash
    <3>4. QED
      BY <3>1, <3>2, <3>3
      DEF Next, Tick, Upload, StoreUpload, StampJob, InsertJob, AbandonUpload,
          Work, Disturb, Package, PublishToTargets, Conclude, Restart,
          ClaimFails, ClaimNextIngestJob, PrepareBuild, StartPackaging,
          FinishPackaging, ReadDuration, PackagingFails, BeginCopy, FinishCopy,
          CopyFails, NotifyTarget, NotifyFails, UpsertPublishedAsset,
          PublishFails, MarkJobFailed, MarkJobFailedLost, MarkJobPublished,
          MarkJobPublishedErrs, vars
  <2>4. QED
    BY <2>1, <2>2, <2>3, UploadTypeStep, QueueTypeStep, DiskTypeStep, RunStep
    DEF Shaped, TypeOK
<1>3. QED
  BY <1>1, <1>2, PTL DEF Spec

\* The type invariant: every step of server, worker and clock keeps the
\* values of the job table, the disks and the workers' calls in their sets.
THEOREM TypeCorrect == Spec => []TypeOK
<1>1. Shaped => TypeOK
  BY DEF Shaped
<1>2. QED
  BY <1>1, ShapedInvariant, PTL

-----------------------------------------------------------------------------
(* The stale threshold as a lease.                                          *)

leaseVars == <<status, age, job, held, overran>>

\* A row exists exactly for an upload whose INSERT was reached.
RowsInserted == \A j \in Jobs : status[j] # "absent" <=> phase[j] = "inserted"

\* A worker's job has left the queue, its updated_at is no older than the
\* worker's claim while it reads processing, and a claim that has grown
\* StaleAfter old is on record.
ClaimShape ==
  \A w \in Workers : job[w] \in Jobs =>
    /\ status[job[w]] \in {"processing"} \cup Terminal
    /\ status[job[w]] = "processing" => age[job[w]] <= held[w]
    /\ held[w] = StaleAfter => job[w] \in overran

LeaseInv ==
  /\ RowsInserted
  /\ ClaimShape
  /\ LeaseSeparation
  /\ ExclusiveUnlessOverrun

LEMMA ClaimKeepsLease ==
  ASSUME Shaped, LeaseInv, NEW w \in Workers, ClaimNextIngestJob(w)
  PROVE  LeaseInv'
<1>1. PICK j \in Jobs :
        /\ Eligible(j)
        /\ UpdateIngestJobStatus(j, "processing", {})
        /\ job' = [job EXCEPT ![w] = j]
  BY DEF ClaimNextIngestJob
<1>2. /\ status \in [Jobs -> Statuses] /\ age \in [Jobs -> 0..StaleAfter]
      /\ job \in [Workers -> Jobs \cup {NoJob}]
      /\ held \in [Workers -> 0..StaleAfter] /\ overran \in SUBSET Jobs
      /\ job[w] \notin Jobs
      /\ held' = [held EXCEPT ![w] = 0]
      /\ UNCHANGED <<phase, overran>>
  BY DEF ClaimNextIngestJob, Shaped, RunShape, TypeOK, QueueType, RunType,
         uploadVars, Busy
<1>3. /\ status' = [status EXCEPT ![j] = "processing"]
      /\ age' = [age EXCEPT ![j] = 0]
  BY <1>1 DEF UpdateIngestJobStatus
<1>4. \A v \in Workers : job[v] = j => held[v] = StaleAfter /\ j \in overran
  <2> SUFFICES ASSUME NEW v \in Workers, job[v] = j
               PROVE  held[v] = StaleAfter /\ j \in overran
    OBVIOUS
  <2>1. status[j] = "processing" /\ age[j] = StaleAfter
    BY <1>1 DEF Eligible, LeaseInv, ClaimShape, Terminal
  <2>2. held[v] = StaleAfter
    BY <1>2, <2>1, StaleAssumption DEF LeaseInv, ClaimShape
  <2>3. QED
    BY <2>2 DEF LeaseInv, ClaimShape
<1>5. RowsInserted'
  BY <1>1, <1>2, <1>3 DEF RowsInserted, LeaseInv, Eligible
<1>6. ClaimShape'
  BY <1>1, <1>2, <1>3, <1>4, StaleAssumption DEF ClaimShape, LeaseInv
<1>7. LeaseSeparation'
  BY <1>1, <1>2, <1>4 DEF LeaseSeparation, LeaseInv
<1>8. ExclusiveUnlessOverrun'
  BY <1>1, <1>2, <1>3, <1>4, JobsAssumption
  DEF ExclusiveUnlessOverrun, LeaseInv, Terminal
<1>9. QED
  BY <1>5, <1>6, <1>7, <1>8 DEF LeaseInv

LEMMA ReleaseKeepsLease ==
  ASSUME Shaped, LeaseInv, NEW w \in Workers, NEW l \in {"idle", "down"},
         Release(w, l), UNCHANGED <<phase, overran>>,
         \/ UNCHANGED queueVars
         \/ /\ job[w] \in Jobs
            /\ \E s \in Terminal :
                  UpdateIngestJobStatus(job[w], s, published[w])
  PROVE  LeaseInv'
<1>1. /\ status \in [Jobs -> Statuses] /\ age \in [Jobs -> 0..StaleAfter]
      /\ job \in [Workers -> Jobs \cup {NoJob}]
      /\ held \in [Workers -> 0..StaleAfter]
      /\ job' = [job EXCEPT ![w] = NoJob] /\ held' = [held EXCEPT ![w] = 0]
  BY DEF Shaped, TypeOK, QueueType, RunType, Release
<1>2. \/ status' = status /\ age' = age
      \/ /\ job[w] \in Jobs
         /\ \E s \in Terminal : status' = [status EXCEPT ![job[w]] = s]
         /\ age' = [age EXCEPT ![job[w]] = 0]
  BY DEF UpdateIngestJobStatus, queueVars
<1>3. RowsInserted'
  BY <1>1, <1>2 DEF RowsInserted, LeaseInv, ClaimShape, Terminal
<1>4. ClaimShape'
  BY <1>1, <1>2, JobsAssumption DEF ClaimShape, LeaseInv, Terminal
<1>5. LeaseSeparation'
  BY <1>1 DEF LeaseSeparation, LeaseInv
<1>6. ExclusiveUnlessOverrun'
  BY <1>1, <1>2, JobsAssumption DEF ExclusiveUnlessOverrun, LeaseInv, Terminal
<1>7. QED
  BY <1>3, <1>4, <1>5, <1>6 DEF LeaseInv

LEMMA TickKeepsLease ==
  ASSUME Shaped, LeaseInv, Tick
  PROVE  LeaseInv'
<1>1. /\ status \in [Jobs -> Statuses] /\ age \in [Jobs -> 0..StaleAfter]
      /\ job \in [Workers -> Jobs \cup {NoJob}]
      /\ held \in [Workers -> 0..StaleAfter]
      /\ UNCHANGED <<phase, status, job>>
  BY DEF Shaped, TypeOK, QueueType, RunType, Tick, uploadVars
<1>2. /\ \A j \in Jobs : age'[j] = IF status[j] = "processing"
                                   THEN Older(age[j]) ELSE age[j]
      /\ \A w \in Workers : job[w] \in Jobs => held'[w] = Older(held[w])
      /\ overran \subseteq overran'
      /\ \A w \in Workers : (job[w] \in Jobs /\ held'[w] = StaleAfter)
                               => job[w] \in overran'
  BY DEF Tick, Shaped, RunShape
<1>3. RowsInserted'
  BY <1>1 DEF RowsInserted, LeaseInv
<1>4. ClaimShape'
  BY <1>1, <1>2, StaleAssumption DEF ClaimShape, LeaseInv, Older
<1>5. LeaseSeparation'
  BY <1>1, <1>2, StaleAssumption DEF LeaseSeparation, LeaseInv, Older
<1>6. ExclusiveUnlessOverrun'
  BY <1>1, <1>2 DEF ExclusiveUnlessOverrun, LeaseInv
<1>7. QED
  BY <1>3, <1>4, <1>5, <1>6 DEF LeaseInv

LEMMA UploadKeepsLease ==
  ASSUME Shaped, LeaseInv, NEW j \in Jobs, Upload(j)
  PROVE  LeaseInv'
<1>1. /\ phase \in [Jobs -> Phases] /\ status \in [Jobs -> Statuses]
      /\ UNCHANGED <<age, job, held, overran>>
  BY DEF Shaped, TypeOK, UploadType, QueueType, Upload, StoreUpload, StampJob,
         InsertJob, AbandonUpload, queueVars, runVars
<1>2. CASE status' = status
  <2>1. RowsInserted'
    BY <1>1, <1>2 DEF RowsInserted, LeaseInv, Upload, StoreUpload, StampJob,
                      InsertJob, AbandonUpload
  <2>2. QED
    BY <1>1, <1>2, <2>1 DEF LeaseInv, ClaimShape, LeaseSeparation,
                            ExclusiveUnlessOverrun
<1>3. CASE InsertJob(j)
  <2>1. status[j] = "absent" /\ status' = [status EXCEPT ![j] = "queued"]
    BY <1>1, <1>3 DEF InsertJob, LeaseInv, RowsInserted
  <2>2. \A w \in Workers : job[w] # j
    BY <2>1 DEF LeaseInv, ClaimShape, Terminal
  <2>3. RowsInserted'
    BY <1>1, <1>3, <2>1 DEF InsertJob, LeaseInv, RowsInserted
  <2>4. ClaimShape' /\ LeaseSeparation' /\ ExclusiveUnlessOverrun'
    BY <1>1, <2>1, <2>2 DEF LeaseInv, ClaimShape, LeaseSeparation,
                            ExclusiveUnlessOverrun, Terminal
  <2>5. QED
    BY <2>3, <2>4 DEF LeaseInv
<1>4. QED
  BY <1>2, <1>3 DEF Upload, StoreUpload, StampJob, AbandonUpload, queueVars

LEMMA LeaseStep == Shaped /\ LeaseInv /\ [Next]_vars => LeaseInv'
<1> SUFFICES ASSUME Shaped, LeaseInv, [Next]_vars PROVE LeaseInv'
  OBVIOUS
<1>1. ASSUME NEW w \in Workers,
             \/ MarkJobFailed(w) \/ MarkJobPublished(w) \/ ClaimFails(w)
             \/ MarkJobFailedLost(w) \/ MarkJobPublishedErrs(w)
             \/ Crash(w) \/ Restart(w)
      PROVE  LeaseInv'
  <2>1. pc[w] \in {"failing", "marking"} => job[w] \in Jobs
    BY DEF Shaped, RunShape, Busy, PCs
  <2>2. QED
    BY <1>1, <2>1, ReleaseKeepsLease
    DEF MarkJobFailed, MarkJobPublished, ClaimFails, MarkJobFailedLost,
        MarkJobPublishedErrs, Crash, Restart, uploadVars, Terminal
<1>2. CASE UNCHANGED <<phase, leaseVars>>
  BY <1>2 DEF leaseVars, LeaseInv, RowsInserted, ClaimShape, LeaseSeparation,
              ExclusiveUnlessOverrun
<1>3. ASSUME NEW w \in Workers,
             \/ Package(w) \/ PublishToTargets(w)
             \/ UpsertPublishedAsset(w) \/ PublishFails(w)
      PROVE  UNCHANGED <<phase, leaseVars>>
  BY <1>3 DEF Package, PrepareBuild, StartPackaging, FinishPackaging,
     ReadDuration, PackagingFails, PublishToTargets, BeginCopy, FinishCopy,
     CopyFails, NotifyTarget, NotifyFails, NextTarget, UpsertPublishedAsset,
     PublishFails, GoTo, leaseVars, uploadVars, queueVars
<1>4. CASE OrphanWrites \/ UNCHANGED vars
  BY <1>2, <1>4 DEF OrphanWrites, vars, leaseVars, uploadVars, queueVars, runVars
<1>5. QED
  BY <1>1, <1>2, <1>3, <1>4, TickKeepsLease, UploadKeepsLease, ClaimKeepsLease
  DEF Next, Work, Conclude, Disturb

LEMMA LeaseInvariant == Spec => []LeaseInv
<1>1. Init => LeaseInv
  BY JobsAssumption, StaleAssumption
  DEF Init, LeaseInv, RowsInserted, ClaimShape, LeaseSeparation,
      ExclusiveUnlessOverrun, Terminal
<1>2. Shaped /\ LeaseInv /\ [Next]_vars => LeaseInv'
  BY LeaseStep
<1>3. QED
  BY <1>1, <1>2, ShapedInvariant, PTL DEF Spec

\* Two workers work on one job only if the claim of one of them is at least
\* StaleAfter old, for any number of workers, jobs and targets.
THEOREM LeaseSeparates == Spec => []LeaseSeparation
<1>1. LeaseInv => LeaseSeparation
  BY DEF LeaseInv
<1>2. QED
  BY <1>1, LeaseInvariant, PTL

\* A job none of whose runs outlived the threshold has one worker at most,
\* and none once its outcome is recorded.
THEOREM ExclusiveJobs == Spec => []ExclusiveUnlessOverrun
<1>1. LeaseInv => ExclusiveUnlessOverrun
  BY DEF LeaseInv
<1>2. QED
  BY <1>1, LeaseInvariant, PTL

\* An outcome is never taken back, and only an overrun job's outcome or
\* report is ever replaced.
THEOREM OutcomesFinal == Spec => OutcomeFinal
<1>1. Shaped /\ LeaseInv /\ [Next]_vars => [OutcomeStep]_vars
  <2> SUFFICES ASSUME Shaped, LeaseInv, Next PROVE OutcomeStep
    OBVIOUS
  <2>1. CASE status' = status /\ report' = report
    BY <2>1 DEF OutcomeStep
  <2>2. ASSUME NEW w \in Workers, ClaimNextIngestJob(w) PROVE OutcomeStep
    BY <2>2 DEF ClaimNextIngestJob, Eligible, UpdateIngestJobStatus,
                OutcomeStep, Terminal, Shaped, TypeOK, QueueType
  <2>3. ASSUME NEW w \in Workers,
               MarkJobFailed(w) \/ MarkJobPublished(w) \/ MarkJobPublishedErrs(w)
        PROVE  OutcomeStep
    <3>1. job[w] \in Jobs
      BY <2>3 DEF MarkJobFailed, MarkJobPublished, MarkJobPublishedErrs,
                  Shaped, RunShape, Busy, PCs
    <3>2. status[job[w]] \in Terminal => job[w] \in overran
      BY <3>1 DEF LeaseInv, ExclusiveUnlessOverrun
    <3>3. CASE UNCHANGED queueVars
      BY <3>3 DEF queueVars, OutcomeStep
    <3>4. ASSUME NEW s \in Terminal,
                 UpdateIngestJobStatus(job[w], s, published[w])
          PROVE  OutcomeStep
      BY <3>1, <3>2, <3>4 DEF UpdateIngestJobStatus, OutcomeStep, Shaped,
                              TypeOK, QueueType
    <3>5. QED
      BY <2>3, <3>3, <3>4 DEF MarkJobFailed, MarkJobPublished,
                              MarkJobPublishedErrs, Terminal
  <2>4. ASSUME NEW j \in Jobs, InsertJob(j) PROVE OutcomeStep
    BY <2>4 DEF InsertJob, OutcomeStep, LeaseInv, RowsInserted, Terminal,
                Shaped, TypeOK, QueueType
  <2>5. QED
    BY <2>1, <2>2, <2>3, <2>4
    DEF Next, Tick, OrphanWrites, Upload, StoreUpload, StampJob, AbandonUpload, Work,
        Disturb, Package, PublishToTargets, Conclude, Restart, ClaimFails,
        PrepareBuild, StartPackaging, FinishPackaging, ReadDuration,
        PackagingFails, BeginCopy, FinishCopy, CopyFails, NotifyTarget,
        NotifyFails, UpsertPublishedAsset, PublishFails, MarkJobFailedLost,
        Crash, queueVars
<1>2. QED
  BY <1>1, ShapedInvariant, LeaseInvariant, PTL DEF Spec, OutcomeFinal

-----------------------------------------------------------------------------
(* What "published" and a catalog row stand for.                            *)

StoredFirst ==
  \A j \in Jobs : phase[j] # "new" => source[AssetOf[j]] # NoJob

\* The targets in a worker's report were told to announce its asset, and a
\* worker about to mark its job published has written the row.
ReportShape ==
  \A w \in Workers : job[w] \in Jobs =>
    /\ \A t \in published[w] : <<t, AssetAt(w)>> \in announced
    /\ pc[w] = "marking" => published[w] # {} /\ asset[AssetAt(w)] # NoJob

ServeInv ==
  /\ StoredFirst
  /\ ReportShape
  /\ PublishedIsServed
  /\ CatalogRowIsBacked

serveVars == <<phase, source, status, report, asset, announced, pc, job, published>>

LEMMA UploadKeepsServe ==
  ASSUME Shaped, LeaseInv, ServeInv, NEW j \in Jobs, Upload(j)
  PROVE  ServeInv'
<1>1. /\ phase \in [Jobs -> Phases] /\ status \in [Jobs -> Statuses]
      /\ source \in [Assets -> Jobs \cup {NoJob}]
      /\ UNCHANGED <<report, asset, announced, pc, job, published>>
  BY DEF Shaped, TypeOK, UploadType, QueueType, Upload, StoreUpload, StampJob,
         InsertJob, AbandonUpload, queueVars, runVars, diskVars
<1>2. ReportShape' /\ CatalogRowIsBacked'
  BY <1>1 DEF ServeInv, ReportShape, CatalogRowIsBacked, AssetAt
<1>3. StoredFirst'
  <2>1. CASE StoreUpload(j)
    BY <1>1, <2>1, JobsAssumption, AssetOfAssumption
    DEF ServeInv, StoredFirst, StoreUpload
  <2>2. CASE StampJob(j) \/ InsertJob(j) \/ AbandonUpload(j)
    BY <1>1, <2>2 DEF ServeInv, StoredFirst, StampJob, InsertJob, AbandonUpload
  <2>3. QED
    BY <2>1, <2>2 DEF Upload
<1>4. PublishedIsServed'
  BY <1>1 DEF ServeInv, PublishedIsServed, Upload, StoreUpload, StampJob,
              InsertJob, AbandonUpload, queueVars
<1>5. QED
  BY <1>2, <1>3, <1>4 DEF ServeInv

LEMMA ClaimKeepsServe ==
  ASSUME Shaped, ServeInv, NEW w \in Workers, ClaimNextIngestJob(w)
  PROVE  ServeInv'
<1>1. PICK j \in Jobs :
        /\ UpdateIngestJobStatus(j, "processing", {})
        /\ pc' = [pc EXCEPT ![w] = "claimed"]
        /\ job' = [job EXCEPT ![w] = j]
  BY DEF ClaimNextIngestJob
<1>2. /\ status \in [Jobs -> Statuses] /\ report \in [Jobs -> SUBSET Targets]
      /\ pc \in [Workers -> PCs] /\ job \in [Workers -> Jobs \cup {NoJob}]
      /\ UNCHANGED <<phase, source, asset, announced, published>>
  BY DEF Shaped, TypeOK, QueueType, RunType, ClaimNextIngestJob, uploadVars,
         diskVars
<1>3. published[w] = {}
  BY DEF ClaimNextIngestJob, Shaped, RunShape, Busy
<1>4. StoredFirst' /\ CatalogRowIsBacked'
  BY <1>2 DEF ServeInv, StoredFirst, CatalogRowIsBacked
<1>5. ReportShape'
  BY <1>1, <1>2, <1>3 DEF ServeInv, ReportShape, AssetAt
<1>6. PublishedIsServed'
  BY <1>1, <1>2 DEF ServeInv, PublishedIsServed, UpdateIngestJobStatus
<1>7. QED
  BY <1>4, <1>5, <1>6 DEF ServeInv

LEMMA ReleaseKeepsServe ==
  ASSUME Shaped, ServeInv, NEW w \in Workers, NEW l \in {"idle", "down"},
         Release(w, l), UNCHANGED <<phase, source, asset, announced>>,
         \/ UNCHANGED queueVars
         \/ /\ job[w] \in Jobs
            /\ \/ UpdateIngestJobStatus(job[w], "failed", published[w])
               \/ /\ pc[w] = "marking"
                  /\ UpdateIngestJobStatus(job[w], "published", published[w])
  PROVE  ServeInv'
<1>1. /\ status \in [Jobs -> Statuses] /\ report \in [Jobs -> SUBSET Targets]
      /\ pc \in [Workers -> PCs] /\ job \in [Workers -> Jobs \cup {NoJob}]
      /\ published \in [Workers -> SUBSET Targets]
      /\ pc' = [pc EXCEPT ![w] = l]
      /\ job' = [job EXCEPT ![w] = NoJob]
      /\ published' = [published EXCEPT ![w] = {}]
  BY DEF Shaped, TypeOK, QueueType, RunType, Release
<1>2. StoredFirst' /\ CatalogRowIsBacked'
  BY DEF ServeInv, StoredFirst, CatalogRowIsBacked
<1>3. ReportShape'
  BY <1>1, JobsAssumption DEF ServeInv, ReportShape, AssetAt
<1>4. PublishedIsServed'
  <2>1. CASE UNCHANGED queueVars
    BY <2>1 DEF ServeInv, PublishedIsServed, queueVars
  <2>2. CASE /\ job[w] \in Jobs
             /\ UpdateIngestJobStatus(job[w], "failed", published[w])
    BY <1>1, <2>2 DEF ServeInv, PublishedIsServed, UpdateIngestJobStatus
  <2>3. CASE /\ job[w] \in Jobs /\ pc[w] = "marking"
             /\ UpdateIngestJobStatus(job[w], "published", published[w])
    BY <1>1, <2>3 DEF ServeInv, PublishedIsServed, UpdateIngestJobStatus,
                      ReportShape, AssetAt
  <2>4. QED
    BY <2>1, <2>2, <2>3
<1>5. QED
  BY <1>2, <1>3, <1>4 DEF ServeInv

LEMMA PublishKeepsServe ==
  ASSUME Shaped, ServeInv, NEW w \in Workers, PublishToTargets(w)
  PROVE  ServeInv'
<1>1. /\ pc \in [Workers -> PCs] /\ published \in [Workers -> SUBSET Targets]
      /\ UNCHANGED <<phase, source, status, report, asset, job>>
      /\ announced \subseteq announced'
      /\ \E l \in PCs \ {"marking"} : pc' = [pc EXCEPT ![w] = l]
      /\ \/ published' = published
         \/ /\ published' = [published EXCEPT ![w] = @ \cup {target[w]}]
            /\ <<target[w], AssetAt(w)>> \in announced'
  BY DEF Shaped, TypeOK, RunType, PublishToTargets, BeginCopy, FinishCopy,
         CopyFails, NotifyTarget, NotifyFails, NextTarget, GoTo, uploadVars,
         queueVars, PCs
<1>2. StoredFirst'
  BY <1>1 DEF ServeInv, StoredFirst
<1>3. ReportShape'
  BY <1>1 DEF ServeInv, ReportShape, AssetAt
<1>4. PublishedIsServed' /\ CatalogRowIsBacked'
  BY <1>1 DEF ServeInv, PublishedIsServed, CatalogRowIsBacked
<1>5. QED
  BY <1>2, <1>3, <1>4 DEF ServeInv

LEMMA UpsertKeepsServe ==
  ASSUME Shaped, ServeInv, NEW w \in Workers, UpsertPublishedAsset(w)
  PROVE  ServeInv'
<1>1. /\ pc \in [Workers -> PCs] /\ published \in [Workers -> SUBSET Targets]
      /\ asset \in [Assets -> Jobs \cup {NoJob}]
      /\ job[w] \in Jobs /\ published[w] # {}
      /\ UNCHANGED <<phase, source, status, report, announced, job, published>>
      /\ pc' = [pc EXCEPT ![w] = "marking"]
      /\ asset' = [asset EXCEPT ![AssetAt(w)] = job[w]]
  BY DEF Shaped, TypeOK, RunType, DiskType, RunShape, Busy, PCs,
         UpsertPublishedAsset, GoTo, uploadVars, queueVars, diskVars
<1>2. AssetAt(w) = AssetOf[job[w]] /\ AssetAt(w) \in Assets
  BY <1>1, AssetOfAssumption DEF AssetAt
<1>3. StoredFirst'
  BY <1>1 DEF ServeInv, StoredFirst
<1>4. \A a \in Assets : asset[a] # NoJob => asset'[a] # NoJob
  BY <1>1, JobsAssumption
<1>5. ReportShape'
  BY <1>1, <1>2, <1>4, AssetOfAssumption, JobsAssumption
  DEF ServeInv, ReportShape, AssetAt
<1>6. PublishedIsServed'
  BY <1>1, <1>4, AssetOfAssumption DEF ServeInv, PublishedIsServed
<1>7. CatalogRowIsBacked'
  <2>1. PICK t \in published[w] : <<t, AssetAt(w)>> \in announced
    BY <1>1 DEF ServeInv, ReportShape
  <2>2. t \in Targets
    BY <1>1, <2>1
  <2>3. QED
    BY <1>1, <1>2, <2>1, <2>2 DEF ServeInv, CatalogRowIsBacked
<1>8. QED
  BY <1>3, <1>5, <1>6, <1>7 DEF ServeInv

LEMMA ServeStep == Shaped /\ LeaseInv /\ ServeInv /\ [Next]_vars => ServeInv'
<1> SUFFICES ASSUME Shaped, LeaseInv, ServeInv, [Next]_vars PROVE ServeInv'
  OBVIOUS
<1>1. ASSUME NEW w \in Workers,
             \/ MarkJobFailed(w) \/ MarkJobPublished(w) \/ ClaimFails(w)
             \/ MarkJobFailedLost(w) \/ MarkJobPublishedErrs(w)
             \/ Crash(w) \/ Restart(w)
      PROVE  ServeInv'
  <2>1. pc[w] \in {"failing", "marking"} => job[w] \in Jobs
    BY DEF Shaped, RunShape, Busy, PCs
  <2>2. QED
    BY <1>1, <2>1, ReleaseKeepsServe
    DEF MarkJobFailed, MarkJobPublished, ClaimFails, MarkJobFailedLost,
        MarkJobPublishedErrs, Crash, Restart, uploadVars, diskVars
<1>2. CASE UNCHANGED serveVars
  BY <1>2 DEF serveVars, ServeInv, StoredFirst, ReportShape,
              PublishedIsServed, CatalogRowIsBacked, AssetAt
<1>3. ASSUME NEW w \in Workers, Package(w) \/ PublishFails(w)
      PROVE  ServeInv'
  <2>1. /\ pc \in [Workers -> PCs]
        /\ UNCHANGED <<phase, source, status, report, asset, announced, job,
                       published>>
        /\ \E l \in PCs \ {"marking"} : pc' = [pc EXCEPT ![w] = l]
    BY <1>3 DEF Shaped, TypeOK, RunType, Package, PrepareBuild,
       StartPackaging, FinishPackaging, ReadDuration, PackagingFails,
       PublishFails, GoTo, uploadVars, queueVars, diskVars, PCs
  <2>2. QED
    BY <2>1 DEF ServeInv, StoredFirst, ReportShape, PublishedIsServed,
                CatalogRowIsBacked, AssetAt
<1>4. CASE Tick \/ OrphanWrites \/ UNCHANGED vars
  BY <1>2, <1>4 DEF Tick, OrphanWrites, vars, serveVars, uploadVars, queueVars, diskVars,
                    runVars
<1>5. QED
  BY <1>1, <1>3, <1>4, UploadKeepsServe, ClaimKeepsServe, PublishKeepsServe,
     UpsertKeepsServe
  DEF Next, Work, Conclude, Disturb

LEMMA ServeInvariant == Spec => []ServeInv
<1>1. Init => ServeInv
  BY JobsAssumption
  DEF Init, ServeInv, StoredFirst, ReportShape, PublishedIsServed,
      CatalogRowIsBacked
<1>2. Shaped /\ LeaseInv /\ ServeInv /\ [Next]_vars => ServeInv'
  BY ServeStep
<1>3. QED
  BY <1>1, <1>2, ShapedInvariant, LeaseInvariant, PTL DEF Spec

\* A published job names targets that were told to announce its asset, and
\* the asset has its catalog row.
THEOREM PublishedServed == Spec => []PublishedIsServed
<1>1. ServeInv => PublishedIsServed
  BY DEF ServeInv
<1>2. QED
  BY <1>1, ServeInvariant, PTL

\* No catalog row without a target that announced the asset.
THEOREM CatalogBacked == Spec => []CatalogRowIsBacked
<1>1. ServeInv => CatalogRowIsBacked
  BY DEF ServeInv
<1>2. QED
  BY <1>1, ServeInvariant, PTL

\* A worker that holds a job finds the source file of its asset.
THEOREM SourceStored == Spec => []SourceIsThere
<1>1. Shaped /\ LeaseInv /\ ServeInv => SourceIsThere
  BY DEF Shaped, RunShape, LeaseInv, RowsInserted, ClaimShape, ServeInv,
         StoredFirst, SourceIsThere, AssetAt, Terminal
<1>2. QED
  BY <1>1, ShapedInvariant, LeaseInvariant, ServeInvariant, PTL

\* Every step of the pipeline is a step of the lifecycle that
\* GET /v1/admin/ingest/jobs/{jobId} promises, or leaves it unchanged.
THEOREM RefinesLifecycle == Spec => ImplementsLifecycle
<1> DEFINE rows == {a \in Assets : asset[a] # NoJob}
<1>1. Init => Lifecycle!Init
  BY DEF Init, Lifecycle!Init
<1>2. Shaped /\ LeaseInv /\ ServeInv /\ [Next]_vars
        => [Lifecycle!Next]_(Lifecycle!vars)
  <2> SUFFICES ASSUME Shaped, LeaseInv, ServeInv, [Next]_vars
               PROVE  [Lifecycle!Next]_(Lifecycle!vars)
    OBVIOUS
  <2>1. CASE UNCHANGED <<status, asset>>
    BY <2>1 DEF Lifecycle!vars
  <2>2. ASSUME NEW j \in Jobs, InsertJob(j) PROVE Lifecycle!Submit(j)
    BY <2>2 DEF InsertJob, LeaseInv, RowsInserted, Lifecycle!Submit,
                Lifecycle!Become
  <2>3. ASSUME NEW w \in Workers, ClaimNextIngestJob(w)
        PROVE  \E j \in Jobs : Lifecycle!Begin(j)
    BY <2>3 DEF ClaimNextIngestJob, Eligible, UpdateIngestJobStatus,
                Lifecycle!Begin, Lifecycle!Become
  <2>4. ASSUME NEW w \in Workers, pc[w] \in {"failing", "marking"}
        PROVE  job[w] \in Jobs /\ status[job[w]] \in Lifecycle!Taken
    BY <2>4 DEF Shaped, RunShape, Busy, PCs, LeaseInv, ClaimShape, Terminal,
                Lifecycle!Taken
  <2>5. ASSUME NEW w \in Workers, pc[w] = "failing", asset' = asset,
               UpdateIngestJobStatus(job[w], "failed", published[w])
        PROVE  \E j \in Jobs : Lifecycle!Fail(j)
    <3>1. PICK j \in Jobs : j = job[w] /\ status[j] \in Lifecycle!Taken
      BY <2>4, <2>5
    <3>2. Lifecycle!Fail(j)
      BY <2>5, <3>1 DEF UpdateIngestJobStatus, Lifecycle!Fail,
                        Lifecycle!Become
    <3>3. QED
      BY <3>2
  <2>6. ASSUME NEW w \in Workers, pc[w] = "marking", asset' = asset,
               UpdateIngestJobStatus(job[w], "published", published[w])
        PROVE  \E j \in Jobs : Lifecycle!Publish(j)
    <3>1. PICK j \in Jobs : j = job[w] /\ status[j] \in Lifecycle!Taken
      BY <2>4, <2>6
    <3>2. AssetOf[j] \in rows
      BY <2>6, <3>1, AssetOfAssumption DEF ServeInv, ReportShape, AssetAt
    <3>3. Lifecycle!Publish(j)
      BY <2>6, <3>1, <3>2 DEF UpdateIngestJobStatus, Lifecycle!Publish,
                              Lifecycle!Become
    <3>4. QED
      BY <3>3
  <2>7. ASSUME NEW w \in Workers, UpsertPublishedAsset(w)
        PROVE  \E a \in Assets : Lifecycle!AddRow(a)
    <3>1. PICK a \in Assets : a = AssetAt(w)
      BY <2>7, AssetAtType DEF UpsertPublishedAsset, Busy, PCs
    <3>2. /\ job[w] # NoJob
          /\ asset \in [Assets -> Jobs \cup {NoJob}]
          /\ status' = status
          /\ asset' = [asset EXCEPT ![a] = job[w]]
      BY <2>7, <3>1, JobsAssumption
      DEF Shaped, TypeOK, DiskType, RunShape, Busy, PCs, UpsertPublishedAsset,
          queueVars
    <3>3. rows' = rows \cup {a}
      BY <3>2
    <3>4. Lifecycle!AddRow(a)
      BY <3>2, <3>3 DEF Lifecycle!AddRow
    <3>5. QED
      BY <3>4
  <2>8. ASSUME NEW w \in Workers, Conclude(w) \/ Disturb(w)
        PROVE  [Lifecycle!Next]_(Lifecycle!vars)
    <3>1. CASE MarkJobFailed(w)
      BY <2>5, <3>1 DEF MarkJobFailed, Lifecycle!Next
    <3>2. CASE MarkJobPublished(w) \/ MarkJobPublishedErrs(w)
      <4>1. CASE status' = status
        BY <2>1, <3>2, <4>1 DEF MarkJobPublished, MarkJobPublishedErrs
      <4>2. CASE UpdateIngestJobStatus(job[w], "published", published[w])
        BY <2>6, <3>2, <4>2 DEF MarkJobPublished, MarkJobPublishedErrs,
                                Lifecycle!Next
      <4>3. QED
        BY <3>2, <4>1, <4>2 DEF MarkJobPublished, MarkJobPublishedErrs,
                                queueVars
    <3>3. CASE UpsertPublishedAsset(w)
      BY <2>7, <3>3 DEF Lifecycle!Next
    <3>4. CASE PublishFails(w) \/ ClaimFails(w) \/ MarkJobFailedLost(w) \/ Crash(w)
      BY <2>1, <3>4 DEF PublishFails, ClaimFails, MarkJobFailedLost, Crash,
                        queueVars
    <3>5. QED
      BY <2>8, <3>1, <3>2, <3>3, <3>4 DEF Conclude, Disturb
  <2>9. ASSUME NEW j \in Jobs, Upload(j)
        PROVE  [Lifecycle!Next]_(Lifecycle!vars)
    <3>1. CASE InsertJob(j)
      BY <2>2, <3>1 DEF Lifecycle!Next
    <3>2. CASE StoreUpload(j) \/ StampJob(j) \/ AbandonUpload(j)
      BY <2>1, <3>2 DEF StoreUpload, StampJob, AbandonUpload, queueVars
    <3>3. QED
      BY <2>9, <3>1, <3>2 DEF Upload
  <2>10. ASSUME NEW w \in Workers,
                Package(w) \/ PublishToTargets(w) \/ Restart(w)
         PROVE  UNCHANGED <<status, asset>>
    BY <2>10
    DEF Package, PrepareBuild, StartPackaging, FinishPackaging, ReadDuration,
        PackagingFails, PublishToTargets, BeginCopy, FinishCopy, CopyFails,
        NotifyTarget, NotifyFails, Restart, queueVars
  <2>11. CASE Tick \/ OrphanWrites \/ UNCHANGED vars
    BY <2>1, <2>11 DEF Tick, OrphanWrites, vars, queueVars
  <2>12. QED
    BY <2>1, <2>3, <2>8, <2>9, <2>10, <2>11 DEF Next, Work, Lifecycle!Next
<1>3. QED
  BY <1>1, <1>2, ShapedInvariant, LeaseInvariant, ServeInvariant, PTL
  DEF Spec, ImplementsLifecycle, Lifecycle!Spec

-----------------------------------------------------------------------------
(* A call of processJob ends.                                               *)

\* At most how many steps the call of worker w still takes, three a target.
StepsLeft(w) ==
  LET targets == 3 * (NumTargets + 1 - target[w]) IN
  CASE pc[w] = "claimed"                -> 3 * NumTargets + 6
    [] pc[w] = "prepared"               -> 3 * NumTargets + 5
    [] pc[w] = "packaging"              -> 3 * NumTargets + 4
    [] pc[w] = "packaged"               -> 3 * NumTargets + 3
    [] pc[w] = "publishing"             -> targets + 2
    [] pc[w] = "copying"                -> targets + 1
    [] pc[w] = "notifying"              -> targets
    [] pc[w] \in {"marking", "failing"} -> 1
    [] OTHER                            -> 0

CallStep ==
  \A w \in Workers : pc[w] \in Busy =>
    /\ StepsLeft(w) \in 1..(3 * NumTargets + 6)
    /\ \/ StepsLeft(w)' < StepsLeft(w)
       \/ UNCHANGED <<pc[w], job[w], audio[w], target[w], published[w]>>

\* What StepsLeft is worth depends on the worker's place only.
LEMMA StepsLeftAt ==
  ASSUME Shaped, NEW w \in Workers
  PROVE  /\ pc[w] \in Busy => StepsLeft(w) \in 1..(3 * NumTargets + 6)
         /\ pc[w] \notin Busy => StepsLeft(w) = 0
<1>1. /\ pc[w] \in PCs /\ target[w] \in 1..(NumTargets + 1)
      /\ pc[w] \in {"copying", "notifying"} => target[w] \in 1..NumTargets
  BY DEF Shaped, TypeOK, RunType, RunShape, Targets
<1>2. pc[w] \in {"claimed", "prepared", "packaging", "packaged"} =>
        StepsLeft(w) \in (3 * NumTargets + 3)..(3 * NumTargets + 6)
  BY TargetsAssumption DEF StepsLeft
<1>3. pc[w] \in {"publishing", "copying", "notifying"} =>
        StepsLeft(w) \in 1..(3 * NumTargets + 2)
  BY <1>1, TargetsAssumption DEF StepsLeft
<1>4. pc[w] \in {"marking", "failing"} => StepsLeft(w) = 1 BY DEF StepsLeft
<1>5. pc[w] \in {"down", "idle"} => StepsLeft(w) = 0 BY DEF StepsLeft
<1> QED BY <1>1, <1>2, <1>3, <1>4, <1>5, TargetsAssumption DEF PCs, Busy

\* A call of processJob takes at most 3 * NumTargets + 6 steps, whatever fails in
\* it and whatever other workers do meanwhile: each step of the worker leaves
\* fewer of them, and no step of another changes anything of the call.
THEOREM CallsEnd == Spec => [][CallStep]_vars
<1>1. Shaped /\ Shaped' /\ [Next]_vars => [CallStep]_vars
  <2> SUFFICES ASSUME Shaped, Shaped', Next, NEW w \in Workers, pc[w] \in Busy
               PROVE  \/ StepsLeft(w)' < StepsLeft(w)
                      \/ UNCHANGED <<pc[w], job[w], audio[w], target[w], published[w]>>
    BY StepsLeftAt DEF CallStep
  <2>1. /\ pc \in [Workers -> PCs] /\ job \in [Workers -> Jobs \cup {NoJob}]
        /\ audio \in [Workers -> Jobs \cup {NoJob}]
        /\ target \in [Workers -> 1..(NumTargets + 1)]
        /\ published \in [Workers -> SUBSET Targets]
        /\ pc[w] \in {"copying", "notifying"} => target[w] \in Targets
        /\ StepsLeft(w) \in 1..(3 * NumTargets + 6)
    BY StepsLeftAt DEF Shaped, TypeOK, RunType, RunShape
  <2>2. CASE UNCHANGED <<pc, job, audio, target, published>> BY <2>2
  <2>3. ASSUME NEW v \in Workers, v # w, Work(v) \/ Disturb(v) \/ Restart(v)
        PROVE  UNCHANGED <<pc[w], job[w], audio[w], target[w], published[w]>>
    <3>1. ClaimNextIngestJob(v) => pc'[w] = pc[w] /\ job'[w] = job[w]
      BY <2>1, <2>3 DEF ClaimNextIngestJob
    <3>2. (\E l \in {"idle", "down"} : Release(v, l)) =>
            UNCHANGED <<pc[w], job[w], audio[w], target[w], published[w]>>
      BY <2>1, <2>3 DEF Release
    <3> QED
      BY <2>1, <2>3, <3>1, <3>2
      DEF Work, Package, PublishToTargets, Conclude, Disturb, Restart, ClaimNextIngestJob,
          PrepareBuild, StartPackaging, FinishPackaging, ReadDuration, PackagingFails,
          BeginCopy, FinishCopy, CopyFails, NotifyTarget, NotifyFails, NextTarget, GoTo,
          UpsertPublishedAsset, PublishFails, MarkJobFailed, MarkJobPublished,
          ClaimFails, MarkJobFailedLost, MarkJobPublishedErrs, Crash
  <2>4. CASE \E l \in {"idle", "down"} : Release(w, l)
    <3>1. pc'[w] \in {"idle", "down"} BY <2>1, <2>4 DEF Release
    <3>2. StepsLeft(w)' = 0 BY <3>1 DEF StepsLeft
    <3> QED BY <2>1, <3>2
  <2>5. CASE Package(w)
    <3>1. target[w] \in 1..(NumTargets + 1) /\ target'[w] = target[w] BY <2>1, <2>5 DEF Package,
      PrepareBuild, StartPackaging, FinishPackaging, ReadDuration, PackagingFails
    <3>2. \/ pc[w] = "claimed" /\ pc'[w] = "prepared"
          \/ pc[w] = "prepared" /\ pc'[w] = "packaging"
          \/ pc[w] = "packaging" /\ pc'[w] = "packaged"
          \/ pc[w] = "packaged" /\ pc'[w] = "publishing"
          \/ /\ pc[w] \in {"claimed", "prepared", "packaging", "packaged"}
             /\ pc'[w] = "failing"
      BY <2>1, <2>5 DEF Package, PrepareBuild, StartPackaging, FinishPackaging,
         ReadDuration, PackagingFails, GoTo
    <3> QED BY <3>1, <3>2, TargetsAssumption DEF StepsLeft
  <2>6. CASE PublishToTargets(w)
    <3>1. \/ target'[w] = target[w] /\ pc[w] = "publishing" /\ pc'[w] = "copying"
          \/ target'[w] = target[w] /\ pc[w] = "copying" /\ pc'[w] = "notifying"
          \/ /\ target'[w] = target[w] + 1 /\ pc'[w] = "publishing"
             /\ pc[w] \in {"publishing", "copying", "notifying"}
      BY <2>1, <2>6 DEF PublishToTargets, BeginCopy, FinishCopy, CopyFails, NotifyTarget,
         NotifyFails, NextTarget, GoTo
    <3>2. target[w] \in 1..(NumTargets + 1) /\ NumTargets \in Nat BY <2>1, TargetsAssumption
    <3> QED BY <3>1, <3>2 DEF StepsLeft
  <2>7. CASE UpsertPublishedAsset(w) \/ PublishFails(w)
    <3>1. pc[w] = "publishing" /\ pc'[w] \in {"marking", "failing"}
      BY <2>1, <2>7 DEF UpsertPublishedAsset, PublishFails, GoTo
    <3>2. StepsLeft(w)' = 1 BY <3>1 DEF StepsLeft
    <3>3. target[w] \in 1..(NumTargets + 1) /\ NumTargets \in Nat BY <2>1, TargetsAssumption
    <3>4. StepsLeft(w) > 1 BY <3>1, <3>3 DEF StepsLeft
    <3> QED BY <3>2, <3>4
  <2>8. ~ClaimNextIngestJob(w) /\ ~ClaimFails(w)
    BY DEF ClaimNextIngestJob, ClaimFails, Busy
  <2> QED
    BY <2>2, <2>3, <2>4, <2>5, <2>6, <2>7, <2>8
    DEF Next, Tick, OrphanWrites, Upload, StoreUpload, StampJob, InsertJob, AbandonUpload, runVars,
        Work, Conclude, Disturb, Restart, MarkJobFailed, MarkJobPublished,
        MarkJobFailedLost, MarkJobPublishedErrs, Crash
<1> QED BY <1>1, ShapedInvariant, PTL DEF Spec

-----------------------------------------------------------------------------
(* One run for an asset at a time: what it finds on disk is what it left.   *)

\* No two workers are at one asset.  One worker process is enough for it, and so
\* are several that share out the assets and never overrun their claims.
OneRunPerAsset ==
  \A v, w \in Workers :
    (pc[v] \in Busy /\ pc[w] \in Busy /\ AssetAt(v) = AssetAt(w)) => v = w

\* The upload the asset's source.mp3 holds, no later one was stored, and nothing
\* but a run writes into its build directory.
Latest(j) == source[AssetOf[j]] = j /\ NoOrphan(AssetOf[j])

\* The worker's job reads processing; what it packages is whole before it is
\* copied, and whole is what it has copied.
Worked(w) ==
  /\ job[w] \in Jobs => status[job[w]] = "processing"
  /\ pc[w] \in {"publishing", "copying", "notifying"} => build[AssetAt(w)].playlist
  /\ pc[w] = "copying" => files[target[w]][AssetAt(w)].audio = {}
  /\ pc[w] = "notifying" => files[target[w]][AssetAt(w)].whole
  /\ \A t \in published[w] : t < target[w] /\ files[t][AssetAt(w)].whole
WorkShape == \A w \in Workers : Worked(w)

\* A run for the latest upload, or one after that was published, has opened
\* it and nothing else.
Serves(w, j) ==
  Latest(j) /\ pc[w] \in Busy /\ AssetAt(w) = AssetOf[j] /\ (job[w] = j \/ status[j] = "published")
Opened(w, j) ==
  /\ pc[w] = "prepared" => build[AssetAt(w)].audio = {}
  /\ pc[w] \in {"packaging", "packaged", "publishing", "copying", "notifying"} =>
       build[AssetAt(w)].audio \subseteq {j}
  /\ pc[w] = "packaging" => audio[w] = j
  /\ pc[w] = "notifying" => files[target[w]][AssetAt(w)].audio \subseteq {j}
  /\ job[w] = j => \A t \in published[w] : files[t][AssetAt(w)].audio \subseteq {j}
FreshAudio == \A w \in Workers, j \in Jobs : Serves(w, j) => Opened(w, j)

AloneInv == WorkShape /\ FreshAudio /\ LatestUploadIsServed /\ BrokenCopyShows

LEMMA UploadKeepsAlone ==
  ASSUME Shaped, LeaseInv, AloneInv, NEW j \in Jobs, Upload(j)
  PROVE  AloneInv'
<1> USE AssetOfAssumption
<1>1. /\ phase \in [Jobs -> Phases] /\ status \in [Jobs -> Statuses]
      /\ source \in [Assets -> Jobs \cup {NoJob}]
      /\ UNCHANGED <<report, build, files, announced, pc, job, audio, target, published,
                     orphans>>
  BY DEF Shaped, TypeOK, UploadType, QueueType, Upload, StoreUpload, StampJob,
         InsertJob, AbandonUpload, queueVars, runVars, diskVars
<1>2. /\ \A k \in Jobs : status'[k] # status[k] =>
                          k = j /\ status[j] = "absent" /\ status'[j] = "queued"
      /\ \A k \in Jobs : Latest(k)' => Latest(k) \/ (k = j /\ status'[j] = "absent")
  <2>1. CASE StoreUpload(j)
    BY <1>1, <2>1 DEF StoreUpload, LeaseInv, RowsInserted, Latest, NoOrphan, queueVars
  <2>2. CASE InsertJob(j)
    BY <1>1, <2>2 DEF InsertJob, LeaseInv, RowsInserted, Latest, NoOrphan
  <2>3. CASE StampJob(j) \/ AbandonUpload(j)
    BY <1>1, <2>3 DEF StampJob, AbandonUpload, Latest, NoOrphan, queueVars
  <2> QED BY <2>1, <2>2, <2>3 DEF Upload
<1>3. WorkShape' BY <1>1, <1>2 DEF AloneInv, WorkShape, Worked, AssetAt
<1>4. \A w \in Workers : pc[w] \in Busy => status'[job[w]] = "processing"
  BY <1>1, <1>2 DEF AloneInv, WorkShape, Worked, Shaped, RunShape
<1>5. FreshAudio'
  <2>1. \A w \in Workers, k \in Jobs : Serves(w, k)' => Serves(w, k)
    BY <1>1, <1>2, <1>4 DEF Serves, AssetAt
  <2>2. \A w \in Workers, k \in Jobs : Opened(w, k) => Opened(w, k)'
    BY <1>1 DEF Opened, AssetAt
  <2> QED BY <2>1, <2>2 DEF AloneInv, FreshAudio
<1>6. LatestUploadIsServed'
  BY <1>1, <1>2 DEF AloneInv, LatestUploadIsServed, Latest
<1>7. BrokenCopyShows' BY <1>1, <1>2 DEF AloneInv, BrokenCopyShows
<1> QED BY <1>3, <1>5, <1>6, <1>7 DEF AloneInv

\* What a worker does at its own asset leaves what others rely on at theirs.
LEMMA OthersKeep ==
  ASSUME OneRunPerAsset, Shaped, AloneInv,
         NEW w \in Workers, pc[w] \in Busy, NEW v \in Workers, v # w,
         UNCHANGED <<source, status, job, orphans>>,
         /\ pc'[v] = pc[v] /\ audio'[v] = audio[v]
         /\ target'[v] = target[v] /\ published'[v] = published[v],
         \A b \in Assets : b # AssetAt(w) =>
           build'[b] = build[b] /\ \A t \in Targets : files'[t][b] = files[t][b]
  PROVE  Worked(v)' /\ \A j \in Jobs : Serves(v, j)' => Opened(v, j)'
<1>1. /\ published[v] \in SUBSET Targets /\ Worked(v)
      /\ \A j \in Jobs : Serves(v, j) => Opened(v, j)
      /\ AssetAt(v)' = AssetAt(v)
  BY DEF Shaped, TypeOK, RunType, AloneInv, WorkShape, FreshAudio, AssetAt
<1>2. CASE pc[v] \notin Busy
  <2>1. job[v] \notin Jobs /\ published[v] = {} BY <1>2 DEF Shaped, RunShape
  <2> QED BY <1>1, <1>2, <2>1 DEF Worked, Serves, Busy, PCs
<1>3. CASE pc[v] \in Busy
  <2>1. /\ AssetAt(v) \in Assets /\ AssetAt(v) # AssetAt(w)
        /\ pc[v] \in {"copying", "notifying"} => target[v] \in Targets
    BY <1>3, AssetAtType DEF OneRunPerAsset, Shaped, RunShape
  <2>2. /\ build'[AssetAt(v)] = build[AssetAt(v)]
        /\ \A t \in Targets : files'[t][AssetAt(v)] = files[t][AssetAt(v)]
    BY <2>1
  <2>3. Worked(v)' BY <1>1, <2>1, <2>2 DEF Worked
  <2>4. \A j \in Jobs : Serves(v, j)' => Serves(v, j) BY <1>1 DEF Serves, Latest, NoOrphan
  <2>5. \A j \in Jobs : Opened(v, j) => Opened(v, j)' BY <1>1, <2>1, <2>2 DEF Opened
  <2> QED BY <1>1, <2>3, <2>4, <2>5
<1> QED BY <1>2, <1>3

LEMMA ClaimKeepsAlone ==
  ASSUME Shaped, AloneInv, NEW w \in Workers, ClaimNextIngestJob(w)
  PROVE  AloneInv'
<1>1. PICK j \in Jobs :
        /\ Eligible(j)
        /\ UpdateIngestJobStatus(j, "processing", {})
        /\ pc' = [pc EXCEPT ![w] = "claimed"]
        /\ job' = [job EXCEPT ![w] = j]
  BY DEF ClaimNextIngestJob
<1>2. /\ status \in [Jobs -> Statuses] /\ report \in [Jobs -> SUBSET Targets]
      /\ pc \in [Workers -> PCs] /\ job \in [Workers -> Jobs \cup {NoJob}]
      /\ UNCHANGED <<source, build, files, announced, audio, target, published, orphans>>
      /\ published[w] = {}
  BY DEF Shaped, TypeOK, QueueType, RunType, RunShape, Busy, ClaimNextIngestJob,
         uploadVars, diskVars
<1>3. /\ status' = [status EXCEPT ![j] = "processing"] /\ report' = [report EXCEPT ![j] = {}]
      /\ status[j] \in {"queued", "processing"}
  BY <1>1 DEF UpdateIngestJobStatus, Eligible
<1>4. /\ pc'[w] = "claimed" /\ job'[w] = j /\ published'[w] = {}
      /\ \A v \in Workers : v # w => pc'[v] = pc[v] /\ job'[v] = job[v]
  BY <1>1, <1>2
<1>5. WorkShape'
  <2>1. Worked(w)' BY <1>2, <1>3, <1>4 DEF Worked
  <2>2. ASSUME NEW v \in Workers, v # w PROVE Worked(v)'
    BY <1>2, <1>3, <1>4, <2>2 DEF AloneInv, WorkShape, Worked, AssetAt
  <2> QED BY <2>1, <2>2 DEF WorkShape
<1>6. FreshAudio'
  <2>1. \A k \in Jobs : Opened(w, k)' BY <1>4 DEF Opened
  <2>2. ASSUME NEW v \in Workers, v # w, NEW k \in Jobs, Serves(v, k)' PROVE Opened(v, k)'
    <3>1. Serves(v, k) BY <1>2, <1>3, <1>4, <2>2 DEF Serves, Latest, NoOrphan, AssetAt
    <3>2. Opened(v, k) BY <3>1 DEF AloneInv, FreshAudio
    <3> QED BY <1>2, <1>4, <2>2, <3>2 DEF Opened, AssetAt
  <2> QED BY <2>1, <2>2 DEF FreshAudio
<1>7. LatestUploadIsServed' BY <1>2, <1>3 DEF AloneInv, LatestUploadIsServed, NoOrphan
<1>8. BrokenCopyShows' BY <1>2, <1>3 DEF AloneInv, BrokenCopyShows
<1> QED BY <1>5, <1>6, <1>7, <1>8 DEF AloneInv

\* The call of processJob ends, with or without its outcome in the row.
LEMMA ReleaseKeepsAlone ==
  ASSUME OneRunPerAsset, Shaped, ServeInv, AloneInv, NEW w \in Workers,
         NEW l \in {"idle", "down"}, Release(w, l),
         UNCHANGED <<source, build, files, announced>>, orphans \subseteq orphans',
         \/ UNCHANGED queueVars
         \/ /\ job[w] \in Jobs
            /\ \E s \in Terminal : UpdateIngestJobStatus(job[w], s, published[w])
  PROVE  AloneInv'
<1>0. \A k \in Jobs : Latest(k)' => Latest(k) BY DEF Latest, NoOrphan
<1>1. /\ status \in [Jobs -> Statuses] /\ report \in [Jobs -> SUBSET Targets]
      /\ pc \in [Workers -> PCs] /\ job \in [Workers -> Jobs \cup {NoJob}]
      /\ published \in [Workers -> SUBSET Targets]
  BY DEF Shaped, TypeOK, QueueType, RunType
<1>2. /\ pc'[w] \notin Busy /\ job'[w] \notin Jobs /\ published'[w] = {}
      /\ \A v \in Workers : v # w =>
           /\ pc'[v] = pc[v] /\ job'[v] = job[v] /\ audio'[v] = audio[v]
           /\ target'[v] = target[v] /\ published'[v] = published[v]
  <2>1. pc'[w] \notin Busy /\ job'[w] \notin Jobs /\ published'[w] = {}
    BY <1>1, JobsAssumption DEF Release, Busy, PCs
  <2>2. ASSUME NEW v \in Workers, v # w
        PROVE  /\ pc'[v] = pc[v] /\ job'[v] = job[v] /\ audio'[v] = audio[v]
               /\ target'[v] = target[v] /\ published'[v] = published[v]
    BY <2>2 DEF Release, Shaped, TypeOK, RunType
  <2> QED BY <2>1, <2>2
<1>3. Worked(w)' /\ \A k \in Jobs : ~Serves(w, k)'
  BY <1>2 DEF Worked, Serves, Busy, PCs
<1>4. \A v \in Workers, k \in Jobs : v # w /\ Opened(v, k) => Opened(v, k)'
  BY <1>2 DEF Opened, AssetAt
<1>5. CASE UNCHANGED queueVars
  <2>1. ASSUME NEW v \in Workers, v # w
        PROVE  Worked(v)' /\ \A k \in Jobs : Serves(v, k)' => Serves(v, k)
    BY <1>0, <1>2, <1>5, <2>1
    DEF AloneInv, WorkShape, Worked, Serves, AssetAt, queueVars
  <2>2. WorkShape' BY <1>3, <2>1 DEF WorkShape
  <2>3. FreshAudio' BY <1>3, <1>4, <2>1 DEF AloneInv, FreshAudio
  <2>4. LatestUploadIsServed'
    BY <1>0, <1>5 DEF AloneInv, LatestUploadIsServed, Latest, queueVars
  <2> QED
    BY <1>5, <2>2, <2>3, <2>4 DEF AloneInv, BrokenCopyShows, queueVars
<1>6. ASSUME job[w] \in Jobs, NEW s \in Terminal,
             UpdateIngestJobStatus(job[w], s, published[w])
      PROVE  AloneInv'
  <2> DEFINE j == job[w]
  <2>1. /\ status' = [status EXCEPT ![j] = s] /\ report' = [report EXCEPT ![j] = published[w]]
        /\ pc[w] \in Busy /\ AssetAt(w) = AssetOf[j] /\ status[j] = "processing"
    BY <1>6 DEF UpdateIngestJobStatus, Shaped, RunShape, AssetAt, AloneInv, WorkShape, Worked
  <2>2. LatestUploadIsServed'
    <3> SUFFICES ASSUME NEW k \in Jobs, status'[k] = "published", Latest(k), NEW t \in report'[k]
                 PROVE  files[t][AssetOf[k]].audio \subseteq {k}
      BY <1>0 DEF LatestUploadIsServed, Latest
    <3>1. CASE k = j
      BY <1>1, <2>1, <3>1 DEF AloneInv, FreshAudio, Serves, Opened
    <3>2. CASE k # j
      BY <1>1, <2>1, <3>2 DEF AloneInv, LatestUploadIsServed, Latest
    <3> QED BY <3>1, <3>2
  <2>3. BrokenCopyShows'
    <3> SUFFICES ASSUME NEW t \in Targets, NEW a \in Assets,
                        <<t, a>> \in announced, ~files[t][a].whole
                 PROVE  \E k \in Jobs :
                          /\ AssetOf[k] = a
                          /\ \/ status'[k] \in {"processing", "failed"}
                             \/ status'[k] = "published" /\ t \notin report'[k]
      BY DEF BrokenCopyShows
    <3>1. PICK k \in Jobs :
            /\ AssetOf[k] = a
            /\ \/ status[k] \in {"processing", "failed"}
               \/ status[k] = "published" /\ t \notin report[k]
      BY DEF AloneInv, BrokenCopyShows
    <3>2. CASE k = j
      <4>1. t \notin published[w] BY <2>1, <3>1, <3>2 DEF AloneInv, WorkShape, Worked
      <4> QED BY <1>1, <2>1, <3>1, <3>2, <4>1 DEF Terminal
    <3>3. CASE k # j BY <1>1, <2>1, <3>1, <3>3
    <3> QED BY <3>2, <3>3
  <2>4. ASSUME NEW v \in Workers, v # w
        PROVE  Worked(v)' /\ \A k \in Jobs : Serves(v, k)' => Serves(v, k)
    <3>1. pc[v] \in Busy => AssetAt(v) # AssetOf[j]
      BY <2>1, <2>4 DEF OneRunPerAsset
    <3>2. job[v] \in Jobs => job[v] # j
      BY <3>1 DEF Shaped, RunShape, AssetAt
    <3>3. \A k \in Jobs : k # j => status'[k] = status[k]
      BY <1>1, <2>1
    <3>4. Worked(v)'
      BY <1>2, <2>4, <3>2, <3>3 DEF AloneInv, WorkShape, Worked, AssetAt
    <3>5. \A k \in Jobs : Serves(v, k)' => Serves(v, k)
      BY <1>0, <1>2, <2>4, <3>1, <3>3 DEF Serves, AssetAt
    <3> QED BY <3>4, <3>5
  <2>5. WorkShape' BY <1>3, <2>4 DEF WorkShape
  <2>6. FreshAudio' BY <1>3, <1>4, <2>4 DEF AloneInv, FreshAudio
  <2> QED BY <2>2, <2>3, <2>5, <2>6 DEF AloneInv
<1> QED BY <1>5, <1>6

LEMMA PackageKeepsAlone ==
  ASSUME OneRunPerAsset, Shaped, AloneInv, NEW w \in Workers, Package(w)
  PROVE  AloneInv'
<1> DEFINE a == AssetAt(w)
<1>1. /\ build \in [Assets -> [audio : SUBSET (Jobs \cup {NoJob}), playlist : BOOLEAN]]
      /\ audio \in [Workers -> Jobs \cup {NoJob}] /\ pc \in [Workers -> PCs]
      /\ UNCHANGED <<source, status, report, files, announced, job, target, published, orphans>>
      /\ pc[w] \in Busy /\ a \in Assets
  BY AssetAtType
  DEF Shaped, TypeOK, DiskType, RunType, Package, PrepareBuild, StartPackaging,
      FinishPackaging, ReadDuration, PackagingFails, GoTo, uploadVars, queueVars,
      diskVars, Busy, PCs
<1>2. LatestUploadIsServed' /\ BrokenCopyShows'
  BY <1>1 DEF AloneInv, LatestUploadIsServed, NoOrphan, BrokenCopyShows
<1>3. \A j \in Jobs : Serves(w, j)' => Serves(w, j) BY <1>1 DEF Serves, Latest, NoOrphan, AssetAt
<1>4. ASSUME NEW v \in Workers, v # w
      PROVE  Worked(v)' /\ \A j \in Jobs : Serves(v, j)' => Opened(v, j)'
  <2>1. \A b \in Assets : b # a => build'[b] = build[b]
    BY <1>1
    DEF Package, PrepareBuild, StartPackaging, FinishPackaging, ReadDuration,
        PackagingFails, diskVars
  <2>2. pc'[v] = pc[v] /\ audio'[v] = audio[v]
    BY <1>1, <1>4
    DEF Package, PrepareBuild, StartPackaging, FinishPackaging, ReadDuration,
        PackagingFails, GoTo
  <2> QED BY <1>1, <1>4, <2>1, <2>2, OthersKeep
<1>5. CASE PrepareBuild(w)
  <2>1. build'[a].audio = {} /\ pc'[w] = "prepared"
    BY <1>1, <1>5 DEF PrepareBuild, GoTo, EmptyBuild
  <2>2. Worked(w)' BY <1>1, <2>1 DEF AloneInv, WorkShape, Worked, AssetAt
  <2>3. \A j \in Jobs : Opened(w, j) => Opened(w, j)' BY <1>1, <2>1 DEF Opened, AssetAt
  <2> QED BY <1>2, <1>3, <1>4, <2>2, <2>3 DEF AloneInv, WorkShape, FreshAudio
<1>6. CASE StartPackaging(w)
  <2>1. /\ build'[a].audio = build[a].audio \cup {source[a]}
        /\ pc[w] = "prepared" /\ pc'[w] = "packaging" /\ audio'[w] = source[a]
    BY <1>1, <1>6 DEF StartPackaging, GoTo
  <2>2. Worked(w)' BY <1>1, <2>1 DEF AloneInv, WorkShape, Worked, AssetAt
  <2>3. \A j \in Jobs : Serves(w, j) /\ Opened(w, j) => Opened(w, j)'
    BY <1>1, <2>1 DEF Opened, Serves, Latest, AssetAt
  <2> QED BY <1>2, <1>3, <1>4, <2>2, <2>3 DEF AloneInv, WorkShape, FreshAudio
<1>7. CASE FinishPackaging(w)
  <2>1. /\ build'[a].audio = build[a].audio \cup {audio[w]}
        /\ pc[w] = "packaging" /\ pc'[w] = "packaged"
    BY <1>1, <1>7 DEF FinishPackaging, GoTo
  <2>2. Worked(w)' BY <1>1, <2>1 DEF AloneInv, WorkShape, Worked, AssetAt
  <2>3. \A j \in Jobs : Opened(w, j) => Opened(w, j)' BY <1>1, <2>1 DEF Opened, AssetAt
  <2> QED BY <1>2, <1>3, <1>4, <2>2, <2>3 DEF AloneInv, WorkShape, FreshAudio
<1>8. CASE ReadDuration(w)
  <2>1. build' = build /\ build[a].playlist /\ pc[w] = "packaged" /\ pc'[w] = "publishing"
    BY <1>1, <1>8 DEF ReadDuration, GoTo, diskVars
  <2>2. Worked(w)' BY <1>1, <2>1 DEF AloneInv, WorkShape, Worked, AssetAt
  <2>3. \A j \in Jobs : Opened(w, j) => Opened(w, j)' BY <1>1, <2>1 DEF Opened, AssetAt
  <2> QED BY <1>2, <1>3, <1>4, <2>2, <2>3 DEF AloneInv, WorkShape, FreshAudio
<1>9. CASE PackagingFails(w)
  <2>1. pc'[w] = "failing" BY <1>1, <1>9 DEF PackagingFails, GoTo
  <2>2. Worked(w)' BY <1>1, <2>1 DEF AloneInv, WorkShape, Worked, AssetAt
  <2>3. \A j \in Jobs : Opened(w, j) => Opened(w, j)' BY <1>1, <2>1 DEF Opened, AssetAt
  <2> QED BY <1>2, <1>3, <1>4, <2>2, <2>3 DEF AloneInv, WorkShape, FreshAudio
<1> QED BY <1>5, <1>6, <1>7, <1>8, <1>9 DEF Package

LEMMA PublishKeepsAlone ==
  ASSUME OneRunPerAsset, Shaped, AloneInv, NEW w \in Workers, PublishToTargets(w)
  PROVE  AloneInv'
<1> DEFINE a == AssetAt(w)
           t == target[w]
<1>1. /\ files \in [Targets -> [Assets -> [audio : SUBSET (Jobs \cup {NoJob}), whole : BOOLEAN]]]
      /\ pc \in [Workers -> PCs] /\ target \in [Workers -> 1..(NumTargets + 1)]
      /\ published \in [Workers -> SUBSET Targets]
      /\ build' = build /\ audio' = audio
      /\ UNCHANGED <<source, status, report, job, orphans>>
  BY DEF Shaped, TypeOK, DiskType, RunType, PublishToTargets, BeginCopy, FinishCopy,
         CopyFails, NotifyTarget, NotifyFails, NextTarget, GoTo, uploadVars, queueVars
<1>2. /\ pc[w] \in {"publishing", "copying", "notifying"} /\ t \in Targets /\ a \in Assets
      /\ pc[w] \in Busy /\ job[w] \in Jobs /\ a = AssetOf[job[w]] /\ status[job[w]] = "processing"
  BY <1>1, AssetAtType
  DEF PublishToTargets, BeginCopy, FinishCopy, CopyFails, NotifyTarget, NotifyFails,
      Shaped, RunShape, Busy, PCs, AloneInv, WorkShape, Worked, AssetAt
\* What a step leaves in the target's directory.
<1>3. \/ files' = files
      \/ \E new \in [audio : SUBSET (files[t][a].audio \cup build[a].audio), whole : BOOLEAN] :
           files' = [files EXCEPT ![t][a] = new]
  <2>0. /\ files[t][a] \in [audio : SUBSET (Jobs \cup {NoJob}), whole : BOOLEAN]
        /\ build[a] \in [audio : SUBSET (Jobs \cup {NoJob}), playlist : BOOLEAN]
    BY <1>1, <1>2 DEF Shaped, TypeOK, DiskType
  <2>1. CASE BeginCopy(w)
    <3>1. NoFiles \in [audio : SUBSET (files[t][a].audio \cup build[a].audio), whole : BOOLEAN]
      BY DEF NoFiles
    <3> QED BY <2>1, <3>1 DEF BeginCopy
  <2>2. CASE FinishCopy(w)
    <3> DEFINE new == [audio |-> files[t][a].audio \cup build[a].audio, whole |-> build[a].playlist]
    <3>1. new \in [audio : SUBSET (files[t][a].audio \cup build[a].audio), whole : BOOLEAN]
      BY <2>0
    <3>2. files' = [files EXCEPT ![t][a] = new] BY <1>1, <1>2, <2>2 DEF FinishCopy
    <3> QED BY <3>1, <3>2
  <2>3. CASE CopyFails(w)
    <3>1. ASSUME NEW S \in SUBSET build[a].audio,
                 files' = [files EXCEPT ![t][a] = [audio |-> @.audio \cup S, whole |-> FALSE]]
          PROVE  \E new \in [audio : SUBSET (files[t][a].audio \cup build[a].audio), whole : BOOLEAN] :
                   files' = [files EXCEPT ![t][a] = new]
      <4> DEFINE new == [audio |-> files[t][a].audio \cup S, whole |-> FALSE]
      <4>1. new \in [audio : SUBSET (files[t][a].audio \cup build[a].audio), whole : BOOLEAN]
        OBVIOUS
      <4>2. files' = [files EXCEPT ![t][a] = new] BY <1>1, <1>2, <2>0, <3>1
      <4> QED BY <4>1, <4>2
    <3> QED BY <2>3, <3>1 DEF CopyFails
  <2>4. CASE NotifyTarget(w) \/ NotifyFails(w) BY <2>4 DEF NotifyTarget, NotifyFails
  <2> QED BY <2>1, <2>2, <2>3, <2>4 DEF PublishToTargets
<1>4. /\ \A u \in Targets, b \in Assets : (u # t \/ b # a) =>
           files'[u][b] = files[u][b] /\ (<<u, b>> \in announced' => <<u, b>> \in announced)
      /\ files'[t][a].audio \subseteq files[t][a].audio \cup build[a].audio
  <2>1. announced' \in {announced, announced \cup {<<t, a>>}}
    BY DEF PublishToTargets, BeginCopy, FinishCopy, CopyFails, NotifyTarget, NotifyFails
  <2>2. \A u \in Targets, b \in Assets : (u # t \/ b # a) => files'[u][b] = files[u][b]
    BY <1>1, <1>2, <1>3
  <2>3. files'[t][a].audio \subseteq files[t][a].audio \cup build[a].audio
    BY <1>1, <1>2, <1>3
  <2> QED BY <2>1, <2>2, <2>3
<1>5. LatestUploadIsServed'
  <2> SUFFICES ASSUME NEW k \in Jobs, status[k] = "published", Latest(k), NEW u \in report[k]
               PROVE  files'[u][AssetOf[k]].audio \subseteq {k}
    BY <1>1 DEF LatestUploadIsServed, Latest, NoOrphan
  <2>1. u \in Targets /\ AssetOf[k] \in Assets
    BY AssetOfAssumption DEF Shaped, TypeOK, QueueType
  <2>2. files[u][AssetOf[k]].audio \subseteq {k} BY DEF AloneInv, LatestUploadIsServed, Latest
  <2>3. CASE u = t /\ AssetOf[k] = a
    <3>1. build[a].audio \subseteq {k}
      BY <1>2, <2>3 DEF AloneInv, FreshAudio, Serves, Opened
    <3> QED BY <1>4, <2>2, <2>3, <3>1
  <2>4. CASE u # t \/ AssetOf[k] # a BY <1>4, <2>1, <2>2, <2>4
  <2> QED BY <2>3, <2>4
<1>6. BrokenCopyShows'
  <2> SUFFICES ASSUME NEW u \in Targets, NEW b \in Assets,
                      <<u, b>> \in announced', ~files'[u][b].whole
               PROVE  \E j \in Jobs :
                        /\ AssetOf[j] = b
                        /\ \/ status[j] \in {"processing", "failed"}
                           \/ status[j] = "published" /\ u \notin report[j]
    BY <1>1 DEF BrokenCopyShows
  <2>1. CASE u = t /\ b = a BY <1>2, <2>1
  <2>2. CASE u # t \/ b # a BY <1>4, <2>2 DEF AloneInv, BrokenCopyShows
  <2> QED BY <2>1, <2>2
<1>7. /\ build[a].playlist /\ \A u \in published[w] : u \in Targets /\ u < t /\ files[u][a].whole
      /\ \A u \in published[w] : files'[u][a] = files[u][a]
  <2>1. build[a].playlist /\ \A u \in published[w] : u \in Targets /\ u < t /\ files[u][a].whole
    BY <1>1, <1>2 DEF AloneInv, WorkShape, Worked
  <2>2. \A u \in Targets : u < t => u # t BY <1>2, TargetsAssumption DEF Targets
  <2> QED BY <1>2, <1>4, <2>1, <2>2
<1>8. \A j \in Jobs : Serves(w, j)' => Serves(w, j) /\ Opened(w, j)
  BY <1>1, <1>2 DEF Serves, Latest, NoOrphan, AssetAt, AloneInv, FreshAudio
<1>9. ASSUME NEW v \in Workers, v # w
      PROVE  Worked(v)' /\ \A j \in Jobs : Serves(v, j)' => Opened(v, j)'
  <2>1. pc'[v] = pc[v] /\ target'[v] = target[v] /\ published'[v] = published[v]
    BY <1>1, <1>9
    DEF PublishToTargets, BeginCopy, FinishCopy, CopyFails, NotifyTarget, NotifyFails,
        NextTarget, GoTo
  <2> QED BY <1>1, <1>2, <1>4, <1>9, <2>1, OthersKeep
<1>10. CASE BeginCopy(w)
  <2>1. pc'[w] = "copying" /\ files'[t][a].audio = {} /\ UNCHANGED <<target, published>>
    BY <1>1, <1>2, <1>10 DEF BeginCopy, GoTo, NoFiles
  <2>2. Worked(w)' BY <1>1, <1>2, <1>7, <2>1 DEF Worked, AssetAt
  <2>3. \A j \in Jobs : Serves(w, j)' => Opened(w, j)'
    BY <1>1, <1>2, <1>7, <1>8, <2>1 DEF Opened, AssetAt
  <2> QED BY <1>5, <1>6, <1>9, <2>2, <2>3 DEF AloneInv, WorkShape, FreshAudio
<1>11. CASE FinishCopy(w)
  <2>1. /\ pc[w] = "copying" /\ pc'[w] = "notifying" /\ UNCHANGED <<target, published>>
        /\ files'[t][a].audio = files[t][a].audio \cup build[a].audio
        /\ files'[t][a].whole = build[a].playlist
    BY <1>1, <1>2, <1>11 DEF FinishCopy, GoTo
  <2>2. files'[t][a].audio = build[a].audio BY <2>1 DEF AloneInv, WorkShape, Worked
  <2>3. Worked(w)' BY <1>1, <1>2, <1>7, <2>1 DEF Worked, AssetAt
  <2>4. \A j \in Jobs : Serves(w, j)' => Opened(w, j)'
    BY <1>1, <1>2, <1>7, <1>8, <2>1, <2>2 DEF Opened, AssetAt
  <2> QED BY <1>5, <1>6, <1>9, <2>3, <2>4 DEF AloneInv, WorkShape, FreshAudio
<1>12. CASE CopyFails(w) \/ NotifyFails(w)
  <2>1. pc'[w] = "publishing" /\ target'[w] = t + 1 /\ published'[w] = published[w]
    BY <1>1, <1>12 DEF CopyFails, NotifyFails, NextTarget, GoTo
  <2>2. Worked(w)' BY <1>1, <1>2, <1>7, <2>1 DEF Worked, AssetAt, Targets
  <2>3. pc[w] \in {"publishing", "copying", "notifying"} BY <1>2
  <2>4. \A j \in Jobs : Serves(w, j)' => Opened(w, j)'
    BY <1>1, <1>2, <1>7, <1>8, <2>1 DEF Opened, AssetAt
  <2> QED BY <1>5, <1>6, <1>9, <2>2, <2>4 DEF AloneInv, WorkShape, FreshAudio
<1>13. CASE NotifyTarget(w)
  <2>1. /\ pc[w] = "notifying" /\ pc'[w] = "publishing" /\ files' = files
        /\ target'[w] = t + 1 /\ published'[w] = published[w] \cup {t}
    BY <1>1, <1>13 DEF NotifyTarget, NextTarget, GoTo
  <2>2. files[t][a].whole BY <2>1 DEF AloneInv, WorkShape, Worked
  <2>3. Worked(w)' BY <1>1, <1>2, <1>7, <2>1, <2>2 DEF Worked, AssetAt, Targets
  <2>4. \A j \in Jobs : Serves(w, j)' => Opened(w, j)'
    BY <1>1, <1>2, <1>8, <2>1 DEF Opened, AssetAt
  <2> QED BY <1>5, <1>6, <1>9, <2>3, <2>4 DEF AloneInv, WorkShape, FreshAudio
<1> QED BY <1>10, <1>11, <1>12, <1>13 DEF PublishToTargets

\* What an ffmpeg that outlived its worker writes only adds to a build directory
\* whose audio nothing is claimed about any more.
LEMMA OrphansKeepAlone ==
  ASSUME Shaped, AloneInv, OrphanWrites
  PROVE  AloneInv'
<1>1. PICK o \in orphans, end \in BOOLEAN :
        /\ build' = [build EXCEPT ![o.asset] =
                       [audio |-> @.audio \cup {o.audio}, playlist |-> @.playlist \/ end]]
        /\ orphans' = (orphans \ {o}) \cup {[o EXCEPT !.ended = end]}
  BY DEF OrphanWrites
<1>2. /\ build \in [Assets -> [audio : SUBSET (Jobs \cup {NoJob}), playlist : BOOLEAN]]
      /\ o \in [asset : Assets, audio : Jobs \cup {NoJob}, ended : BOOLEAN]
      /\ UNCHANGED <<source, status, report, files, announced, pc, job, audio, target, published>>
  BY DEF Shaped, TypeOK, DiskType, OrphanWrites, uploadVars, queueVars, runVars
<1>3. \A b \in Assets : (build[b].playlist => build'[b].playlist)
                         /\ (b # o.asset => build'[b] = build[b])
  BY <1>1, <1>2
<1>4. \A k \in Jobs : Latest(k)' => Latest(k) /\ AssetOf[k] # o.asset
  <2> DEFINE new == [o EXCEPT !.ended = end]
  <2>1. new.asset = o.asset BY <1>2
  <2>2. new \in orphans' /\ \A p \in orphans : p = o \/ p \in orphans' BY <1>1
  <2> HIDE DEF new
  <2>3. ASSUME NEW b, NoOrphan(b)' PROVE NoOrphan(b) /\ b # o.asset
    BY <2>1, <2>2, <2>3 DEF NoOrphan
  <2> QED BY <1>2, <2>3 DEF Latest
<1>5. WorkShape'
  <2> SUFFICES ASSUME NEW w \in Workers PROVE Worked(w)'
    BY DEF WorkShape
  <2>1. Worked(w) BY DEF AloneInv, WorkShape
  <2>2. pc[w] \in {"publishing", "copying", "notifying"} => AssetAt(w) \in Assets
    BY AssetAtType DEF Busy, PCs
  <2> QED BY <1>2, <1>3, <2>1, <2>2 DEF Worked, AssetAt
<1>6. FreshAudio'
  <2> SUFFICES ASSUME NEW w \in Workers, NEW k \in Jobs, Serves(w, k)' PROVE Opened(w, k)'
    BY DEF FreshAudio
  <2>1. Serves(w, k) /\ AssetAt(w) # o.asset /\ AssetAt(w) \in Assets
    BY <1>2, <1>4, AssetOfAssumption DEF Serves, AssetAt
  <2>2. Opened(w, k) BY <2>1 DEF AloneInv, FreshAudio
  <2>3. build'[AssetAt(w)] = build[AssetAt(w)] BY <1>3, <2>1
  <2> QED BY <1>2, <2>2, <2>3 DEF Opened, AssetAt
<1>7. LatestUploadIsServed'
  BY <1>2, <1>4 DEF AloneInv, LatestUploadIsServed, Latest
<1>8. BrokenCopyShows' BY <1>2 DEF AloneInv, BrokenCopyShows
<1> QED BY <1>5, <1>6, <1>7, <1>8 DEF AloneInv

LEMMA AloneStep ==
  OneRunPerAsset /\ Shaped /\ LeaseInv /\ ServeInv /\ AloneInv /\ [Next]_vars => AloneInv'
<1> SUFFICES ASSUME OneRunPerAsset, Shaped, LeaseInv, ServeInv, AloneInv, [Next]_vars
             PROVE  AloneInv'
  OBVIOUS
<1>1. ASSUME NEW w \in Workers,
             \/ MarkJobFailed(w) \/ MarkJobPublished(w) \/ ClaimFails(w)
             \/ MarkJobFailedLost(w) \/ MarkJobPublishedErrs(w)
             \/ Crash(w) \/ Restart(w)
      PROVE  AloneInv'
  <2>1. pc[w] \in {"failing", "marking"} => job[w] \in Jobs
    BY DEF Shaped, RunShape, Busy, PCs
  <2> QED
    BY <1>1, <2>1, ReleaseKeepsAlone
    DEF MarkJobFailed, MarkJobPublished, ClaimFails, MarkJobFailedLost,
        MarkJobPublishedErrs, Crash, Restart, uploadVars, diskVars, Terminal
<1>2. CASE UNCHANGED <<source, status, report, build, files, announced,
                       pc, job, audio, target, published, orphans>>
  <2>1. WorkShape' BY <1>2 DEF AloneInv, WorkShape, Worked, AssetAt
  <2>2. FreshAudio'
    BY <1>2 DEF AloneInv, FreshAudio, Serves, Opened, Latest, NoOrphan, AssetAt
  <2>3. LatestUploadIsServed' /\ BrokenCopyShows'
    BY <1>2 DEF AloneInv, LatestUploadIsServed, NoOrphan, BrokenCopyShows
  <2> QED BY <2>1, <2>2, <2>3 DEF AloneInv
\* The steps before an outcome is recorded write none of what the worker reads.
<1>3. ASSUME NEW w \in Workers, UpsertPublishedAsset(w) \/ PublishFails(w)
      PROVE  AloneInv'
  <2>1. /\ UNCHANGED <<source, status, report, build, files, announced,
                       job, audio, target, published, orphans>>
        /\ pc'[w] \in {"marking", "failing"} /\ pc[w] \in Busy
        /\ \A v \in Workers : v # w => pc'[v] = pc[v]
    BY <1>3 DEF UpsertPublishedAsset, PublishFails, GoTo, uploadVars, queueVars,
                diskVars, Shaped, TypeOK, RunType, Busy, PCs
  <2>2. WorkShape' BY <2>1 DEF AloneInv, WorkShape, Worked, AssetAt
  <2>3. FreshAudio'
    BY <2>1 DEF AloneInv, FreshAudio, Serves, Opened, Latest, NoOrphan, AssetAt
  <2>4. LatestUploadIsServed' /\ BrokenCopyShows'
    BY <2>1 DEF AloneInv, LatestUploadIsServed, NoOrphan, BrokenCopyShows
  <2> QED BY <2>2, <2>3, <2>4 DEF AloneInv
<1>4. CASE Tick \/ UNCHANGED vars
  BY <1>2, <1>4 DEF Tick, vars, uploadVars, queueVars, diskVars, runVars
<1> QED
  BY <1>1, <1>3, <1>4, UploadKeepsAlone, ClaimKeepsAlone, PackageKeepsAlone,
     PublishKeepsAlone, OrphansKeepAlone
  DEF Next, Work, Conclude, Disturb

LEMMA AloneInit == Init => AloneInv
BY JobsAssumption
DEF Init, AloneInv, WorkShape, Worked, FreshAudio, Serves, Busy, PCs,
    LatestUploadIsServed, BrokenCopyShows

LEMMA AloneInvariant == Spec /\ []OneRunPerAsset => []AloneInv
<1>1. Init => AloneInv
  BY AloneInit
<1>2. OneRunPerAsset /\ Shaped /\ LeaseInv /\ ServeInv /\ AloneInv /\ [Next]_vars
        => AloneInv'
  BY AloneStep
<1>3. QED
  BY <1>1, <1>2, ShapedInvariant, LeaseInvariant, ServeInvariant, PTL DEF Spec

\* As long as no two runs for one asset overlap, however often workers crash or
\* lose an outcome, and no ffmpeg for the asset outlived its worker: no target of
\* a published job keeps other audio than the upload in source.mp3, if that is the
\* job's.
THEOREM LatestServed == Spec /\ []OneRunPerAsset => []LatestUploadIsServed
<1>1. AloneInv => LatestUploadIsServed
  BY DEF AloneInv
<1>2. QED
  BY <1>1, AloneInvariant, PTL

\* As long as no two runs for one asset overlap, an incomplete copy where the
\* asset was announced is always visible in the asset's jobs.
THEOREM BrokenCopiesShow == Spec /\ []OneRunPerAsset => []BrokenCopyShows
<1>1. AloneInv => BrokenCopyShows
  BY DEF AloneInv
<1>2. QED
  BY <1>1, AloneInvariant, PTL

\* Where no asset is uploaded twice, runs for one asset overlap only when one
\* outlives the threshold of its claim: short of that, incomplete copies show,
\* for any number of workers on build/<asset> and the target directories.
THEOREM LeaseGuardsCopies == Spec => []BrokenCopyShowsWithinLease
<1> DEFINE Within == UploadedOnce /\ overran = {}
           WithinInv == Within => AloneInv
<1>1. Shaped /\ LeaseInv /\ Within => OneRunPerAsset
  BY DEF Shaped, RunShape, LeaseInv, ExclusiveUnlessOverrun, OneRunPerAsset, UploadedOnce,
         AssetAt
\* An overrun stays on record.
<1>2. [Next]_vars /\ Within' => Within
  <2>1. ASSUME [Next]_vars PROVE overran \subseteq overran'
    BY <2>1
    DEF Next, Tick, OrphanWrites, Upload, StoreUpload, StampJob, InsertJob, AbandonUpload, Work, Disturb,
        ClaimNextIngestJob, Package, PrepareBuild, StartPackaging, FinishPackaging,
        ReadDuration, PackagingFails, PublishToTargets, BeginCopy, FinishCopy, CopyFails,
        NotifyTarget, NotifyFails, Conclude, UpsertPublishedAsset, PublishFails,
        MarkJobFailed, MarkJobPublished, ClaimFails, MarkJobFailedLost,
        MarkJobPublishedErrs, Crash, Restart, vars
  <2> QED BY <2>1 DEF UploadedOnce
<1>3. Init => WithinInv BY AloneInit
<1>4. Shaped /\ LeaseInv /\ ServeInv /\ WithinInv /\ [Next]_vars => WithinInv'
  BY <1>1, <1>2, AloneStep
<1>5. WithinInv => BrokenCopyShowsWithinLease BY DEF AloneInv, BrokenCopyShowsWithinLease
<1> HIDE DEF WithinInv
<1> QED
  BY <1>3, <1>4, <1>5, ShapedInvariant, LeaseInvariant, ServeInvariant, PTL DEF Spec
=============================================================================
