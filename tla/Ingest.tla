------------------------------- MODULE Ingest -------------------------------
(***************************************************************************)
(* The upload pipeline of audistro-catalog: the admin upload handler of    *)
(* audicatalogd queues jobs in the ingest_jobs table, and the worker       *)
(* processes of audicatalog-worker claim them, package the audio, copy it  *)
(* to the provider targets and publish the catalog row.                    *)
(*                                                                         *)
(* Every SQL statement is one step (SQLite in WAL mode), the claim is one  *)
(* transaction, and everything else a process does between two statements  *)
(* or two file-system operations is a step of its own.  Time appears only  *)
(* as the age of a claim in whole seconds, saturating at StaleAfter: the   *)
(* code compares updated_at with now - StaleAfter and nothing else.        *)
(***************************************************************************)
EXTENDS Naturals

CONSTANTS
  Jobs,        \* upload requests, named by the job_id QueueUpload generates
  Assets,
  AssetOf,     \* the asset_id of each request (given, or the digest)
  Workers,     \* processes of audicatalog-worker in mode ingest
  NumTargets,  \* provider targets, visited in the order 1..NumTargets
  StaleAfter,  \* CATALOG_WORKER_STALE_SECONDS
  MaxFaults,   \* bound: crashes and failed job-table statements per behaviour
  NoJob

ASSUME JobsAssumption    == NoJob \notin Jobs
ASSUME AssetOfAssumption == AssetOf \in [Jobs -> Assets]
ASSUME TargetsAssumption == NumTargets \in Nat \ {0}
ASSUME StaleAssumption   == StaleAfter \in Nat \ {0}
ASSUME FaultsAssumption  == MaxFaults \in Nat

VARIABLES
  phase,      \* how far QueueUpload got for each request
  source,     \* whose audio uploads/<asset>/source.mp3 holds
  second,     \* rank of the last second in which a job was stamped
  createdAt,  \* ingest_jobs.created_at, as the rank of its second
  status,     \* ingest_jobs.status, "absent" before the INSERT
  age,        \* seconds since ingest_jobs.updated_at of a processing job
  report,     \* ingest_jobs.publish_report: its published_targets
  asset,      \* the job whose metadata the assets row carries
  build,      \* build/<asset>: whose segments lie there, is there a playlist
  files,      \* the asset directory of each provider target
  announced,  \* <<target, asset>> the provider was told to announce
  pc, job, target, published,  \* the call of processJob in a worker
  audio,      \* the upload the worker's ffmpeg has open
  orphans,    \* ffmpegs that outlived their worker: records [asset, audio, ended]
  held,       \* seconds since the worker's own claim, saturating
  overran,    \* history: jobs some run of which outlived StaleAfter
  faults      \* crashes and failed job-table statements so far

uploadVars == <<phase, source, second, createdAt>>
queueVars  == <<status, age, report>>
diskVars   == <<build, files, announced>>
runVars    == <<pc, job, audio, target, published, held>>
vars == <<uploadVars, queueVars, asset, diskVars, runVars, overran, orphans, faults>>

Targets  == 1..NumTargets
Terminal == {"published", "failed"}
PCs == {"down", "idle", "claimed", "prepared", "packaging", "packaged",
        "publishing", "copying", "notifying", "marking", "failing"}
Busy == PCs \ {"down", "idle"}

EmptyBuild == [audio |-> {}, playlist |-> FALSE]
NoFiles    == [audio |-> {}, whole |-> FALSE]

AssetAt(w) == AssetOf[job[w]]
Older(n)   == IF n < StaleAfter THEN n + 1 ELSE n

Init ==
  /\ phase = [j \in Jobs |-> "new"]
  /\ source = [a \in Assets |-> NoJob]
  /\ second = 0
  /\ createdAt = [j \in Jobs |-> 0]
  /\ status = [j \in Jobs |-> "absent"]
  /\ age = [j \in Jobs |-> 0]
  /\ report = [j \in Jobs |-> {}]
  /\ asset = [a \in Assets |-> NoJob]
  /\ build = [a \in Assets |-> EmptyBuild]
  /\ files = [t \in Targets |-> [a \in Assets |-> NoFiles]]
  /\ announced = {}
  /\ pc = [w \in Workers |-> "idle"]
  /\ job = [w \in Workers |-> NoJob]
  /\ audio = [w \in Workers |-> NoJob]
  /\ target = [w \in Workers |-> 1]
  /\ published = [w \in Workers |-> {}]
  /\ held = [w \in Workers |-> 0]
  /\ overran = {}
  /\ orphans = {}
  /\ faults = 0

-----------------------------------------------------------------------------
(* The upload handler of audicatalogd.                                     *)

\* The temporary file is renamed over source.mp3, before any row exists.
StoreUpload(j) ==
  /\ phase[j] = "new"
  /\ phase' = [phase EXCEPT ![j] = "stored"]
  /\ source' = [source EXCEPT ![AssetOf[j]] = j]
  /\ UNCHANGED <<second, createdAt, queueVars, asset, diskVars, runVars,
                 overran, orphans, faults>>

\* created_at is read before the INSERT runs; a second may have passed
\* since the last job was stamped, or not.
StampJob(j) ==
  /\ phase[j] = "stored"
  /\ phase' = [phase EXCEPT ![j] = "stamped"]
  /\ second' \in {second, second + 1}
  /\ createdAt' = [createdAt EXCEPT ![j] = second']
  /\ UNCHANGED <<source, queueVars, asset, diskVars, runVars, overran, orphans, faults>>

InsertJob(j) ==
  /\ phase[j] = "stamped"
  /\ phase' = [phase EXCEPT ![j] = "inserted"]
  /\ status' = [status EXCEPT ![j] = "queued"]
  /\ UNCHANGED <<source, second, createdAt, age, report, asset, diskVars,
                 runVars, overran, orphans, faults>>

\* The INSERT fails, or the server dies first: source.mp3 stays replaced.
AbandonUpload(j) ==
  /\ phase[j] \in {"stored", "stamped"}
  /\ phase' = [phase EXCEPT ![j] = "abandoned"]
  /\ UNCHANGED <<source, second, createdAt, queueVars, asset, diskVars,
                 runVars, overran, orphans, faults>>

-----------------------------------------------------------------------------
(* The job table.                                                          *)

\* Mutant: abandoned claims are never taken over.
EligibleQueuedOnly(j) == status[j] = "queued"

\* Mutant: a claim may be taken over at once.
EligibleIgnoringAge(j) == status[j] \in {"queued", "processing"}

Eligible(j) ==
  \/ status[j] = "queued"
  \/ status[j] = "processing" /\ age[j] = StaleAfter

\* Mutant: updated_at is not written.
UpdateKeepingTime(j, s, r) ==
  /\ status' = [status EXCEPT ![j] = s]
  /\ report' = [report EXCEPT ![j] = r]
  /\ UNCHANGED age

\* The UPDATE names the job only: it asks neither who holds it nor its state.
UpdateIngestJobStatus(j, s, r) ==
  /\ status' = [status EXCEPT ![j] = s]
  /\ report' = [report EXCEPT ![j] = r]
  /\ age' = [age EXCEPT ![j] = 0]

-----------------------------------------------------------------------------
(* The worker.                                                             *)

\* Mutant: the next call of processJob counts its targets from 0.
ReleaseFromZero(w, l) ==
  /\ pc' = [pc EXCEPT ![w] = l]
  /\ job' = [job EXCEPT ![w] = NoJob]
  /\ audio' = [audio EXCEPT ![w] = NoJob]
  /\ target' = [target EXCEPT ![w] = 0]
  /\ published' = [published EXCEPT ![w] = {}]
  /\ held' = [held EXCEPT ![w] = 0]

\* Worker w leaves its call of processJob and stands at l.
Release(w, l) ==
  /\ pc' = [pc EXCEPT ![w] = l]
  /\ job' = [job EXCEPT ![w] = NoJob]
  /\ audio' = [audio EXCEPT ![w] = NoJob]
  /\ target' = [target EXCEPT ![w] = 1]
  /\ published' = [published EXCEPT ![w] = {}]
  /\ held' = [held EXCEPT ![w] = 0]

GoTo(w, l) ==
  /\ pc' = [pc EXCEPT ![w] = l]
  /\ UNCHANGED <<job, held>>

Fault == faults < MaxFaults /\ faults' = faults + 1

\* One transaction: select the oldest eligible job and mark it processing.
ClaimNextIngestJob(w) ==
  /\ pc[w] = "idle"
  /\ \E j \in Jobs :
       /\ Eligible(j)
       /\ \A k \in Jobs : Eligible(k) => createdAt[j] <= createdAt[k]
       /\ UpdateIngestJobStatus(j, "processing", {})
       /\ pc' = [pc EXCEPT ![w] = "claimed"]
       /\ job' = [job EXCEPT ![w] = j]
  /\ held' = [held EXCEPT ![w] = 0]
  /\ UNCHANGED <<uploadVars, asset, diskVars, audio, target, published,
                 overran, orphans, faults>>

\* A claim that fails in the database ends Run, and with it the process.
ClaimFails(w) ==
  /\ pc[w] = "idle"
  /\ Fault
  /\ Release(w, "down")
  /\ UNCHANGED <<uploadVars, queueVars, asset, diskVars, overran, orphans>>

\* RemoveAll and MkdirAll of build/<asset>, then the packaging key.
PrepareBuild(w) ==
  /\ pc[w] = "claimed"
  /\ GoTo(w, "prepared")
  /\ build' = [build EXCEPT ![AssetAt(w)] = EmptyBuild]
  /\ UNCHANGED <<uploadVars, queueVars, asset, files, announced, audio,
                 target, published, overran, orphans, faults>>

\* ffmpeg opens the source the path names now and writes its first segment.
StartPackaging(w) ==
  /\ pc[w] = "prepared"
  /\ GoTo(w, "packaging")
  /\ audio' = [audio EXCEPT ![w] = source[AssetAt(w)]]
  /\ build' = [build EXCEPT ![AssetAt(w)].audio = @ \cup {source[AssetAt(w)]}]
  /\ UNCHANGED <<uploadVars, queueVars, asset, files, announced, target,
                 published, overran, orphans, faults>>

\* ffmpeg writes its last segments and the playlist.
FinishPackaging(w) ==
  /\ pc[w] = "packaging"
  /\ GoTo(w, "packaged")
  /\ build' = [build EXCEPT ![AssetAt(w)] =
                 [audio |-> @.audio \cup {audio[w]}, playlist |-> TRUE]]
  /\ audio' = [audio EXCEPT ![w] = NoJob]
  /\ UNCHANGED <<uploadVars, queueVars, asset, files, announced, target,
                 published, overran, orphans, faults>>

\* parsePlaylistDurationMS: without a playlist there is no way on.
ReadDuration(w) ==
  /\ pc[w] = "packaged"
  /\ build[AssetAt(w)].playlist
  /\ GoTo(w, "publishing")
  /\ UNCHANGED <<uploadVars, queueVars, asset, diskVars, audio, target,
                 published, overran, orphans, faults>>

\* Any step before the targets fails: clean build dir (RemoveAll may have
\* come first), fetch key, ffmpeg, playlist missing, zero or unreadable.
PackagingFails(w) ==
  /\ pc[w] \in {"claimed", "prepared", "packaging", "packaged"}
  /\ GoTo(w, "failing")
  /\ \/ build' = build
     \/ pc[w] = "claimed" /\ build' = [build EXCEPT ![AssetAt(w)] = EmptyBuild]
  /\ audio' = [audio EXCEPT ![w] = NoJob]
  /\ UNCHANGED <<uploadVars, queueVars, asset, files, announced, target,
                 published, overran, orphans, faults>>

\* Mutant: the old asset directory is not removed.
BeginCopyKeepingOld(w) ==
  /\ pc[w] = "publishing"
  /\ target[w] \in Targets
  /\ GoTo(w, "copying")
  /\ files' = [files EXCEPT ![target[w]][AssetAt(w)].whole = FALSE]
  /\ UNCHANGED <<uploadVars, queueVars, asset, build, announced, audio,
                 target, published, overran, orphans, faults>>

\* publishDirectory removes the target's asset directory ...
BeginCopy(w) ==
  /\ pc[w] = "publishing"
  /\ target[w] \in Targets
  /\ GoTo(w, "copying")
  /\ files' = [files EXCEPT ![target[w]][AssetAt(w)] = NoFiles]
  /\ UNCHANGED <<uploadVars, queueVars, asset, build, announced, audio,
                 target, published, overran, orphans, faults>>

\* ... and copies what build/<asset> holds by then.
FinishCopy(w) ==
  /\ pc[w] = "copying"
  /\ GoTo(w, "notifying")
  /\ files' = [files EXCEPT ![target[w]][AssetAt(w)] =
                 [audio |-> @.audio \cup build[AssetAt(w)].audio,
                  whole |-> build[AssetAt(w)].playlist]]
  /\ UNCHANGED <<uploadVars, queueVars, asset, build, announced, audio,
                 target, published, overran, orphans, faults>>

\* The next target; target w goes into published_targets when ok.
NextTarget(w, ok) ==
  /\ GoTo(w, "publishing")
  /\ target' = [target EXCEPT ![w] = @ + 1]
  /\ published' =
       [published EXCEPT ![w] = IF ok THEN @ \cup {target[w]} ELSE @]

\* Mutant: a target whose copy failed is reported published.
CopyFailsCounted(w) ==
  /\ pc[w] = "copying"
  /\ UNCHANGED files
  /\ NextTarget(w, TRUE)
  /\ UNCHANGED <<uploadVars, queueVars, asset, build, announced, audio,
                 overran, orphans, faults>>

\* The copy fails before or after the old directory is gone, having copied
\* some files or none; the target is reported failed and skipped.
CopyFails(w) ==
  /\ \/ pc[w] = "publishing" /\ target[w] \in Targets /\ files' = files
     \/ /\ pc[w] = "copying"
        /\ \E S \in SUBSET build[AssetAt(w)].audio :
             files' = [files EXCEPT ![target[w]][AssetAt(w)] =
                         [audio |-> @.audio \cup S, whole |-> FALSE]]
  /\ NextTarget(w, FALSE)
  /\ UNCHANGED <<uploadVars, queueVars, asset, build, announced, audio,
                 overran, orphans, faults>>

\* POST /internal/rescan and POST /internal/announce both answer 2xx.
NotifyTarget(w) ==
  /\ pc[w] = "notifying"
  /\ announced' = announced \cup {<<target[w], AssetAt(w)>>}
  /\ NextTarget(w, TRUE)
  /\ UNCHANGED <<uploadVars, queueVars, asset, build, files, audio, overran, orphans,
                 faults>>

\* Mutant: a target that was not notified is reported published.
NotifyFailsCounted(w) ==
  /\ pc[w] = "notifying"
  /\ NextTarget(w, TRUE)
  /\ UNCHANGED <<uploadVars, queueVars, asset, diskVars, audio, overran, orphans,
                 faults>>

\* One of them fails or its answer is lost; the copied files stay behind.
NotifyFails(w) ==
  /\ pc[w] = "notifying"
  /\ announced' \in {announced, announced \cup {<<target[w], AssetAt(w)>>}}
  /\ NextTarget(w, FALSE)
  /\ UNCHANGED <<uploadVars, queueVars, asset, build, files, audio, overran, orphans,
                 faults>>

\* Mutant: the catalog row is written although no target took the asset.
UpsertPublishedAssetAnyway(w) ==
  /\ pc[w] = "publishing"
  /\ target[w] \notin Targets
  /\ GoTo(w, "marking")
  /\ asset' = [asset EXCEPT ![AssetAt(w)] = job[w]]
  /\ UNCHANGED <<uploadVars, queueVars, diskVars, audio, target, published,
                 overran, orphans, faults>>

\* Mutant: the job is marked published without the catalog row.
UpsertSkipped(w) ==
  /\ pc[w] = "publishing"
  /\ target[w] \notin Targets
  /\ published[w] # {}
  /\ GoTo(w, "marking")
  /\ UNCHANGED <<uploadVars, queueVars, asset, diskVars, audio, target,
                 published, overran, orphans, faults>>

\* At least one target took the asset: publish the catalog row.
UpsertPublishedAsset(w) ==
  /\ pc[w] = "publishing"
  /\ target[w] \notin Targets
  /\ published[w] # {}
  /\ GoTo(w, "marking")
  /\ asset' = [asset EXCEPT ![AssetAt(w)] = job[w]]
  /\ UNCHANGED <<uploadVars, queueVars, diskVars, audio, target, published,
                 overran, orphans, faults>>

\* No target took it, or the upsert fails: the job fails, with its report.
PublishFails(w) ==
  /\ pc[w] = "publishing"
  /\ target[w] \notin Targets
  /\ GoTo(w, "failing")
  /\ UNCHANGED <<uploadVars, queueVars, asset, diskVars, audio, target,
                 published, overran, orphans, faults>>

\* Mutant: a failed job goes back to the queue.
MarkJobFailedRequeue(w) ==
  /\ pc[w] = "failing"
  /\ UpdateIngestJobStatus(job[w], "queued", published[w])
  /\ Release(w, "idle")
  /\ UNCHANGED <<uploadVars, asset, diskVars, overran, orphans, faults>>

MarkJobFailed(w) ==
  /\ pc[w] = "failing"
  /\ UpdateIngestJobStatus(job[w], "failed", published[w])
  /\ Release(w, "idle")
  /\ UNCHANGED <<uploadVars, asset, diskVars, overran, orphans, faults>>

\* ProcessNext drops the error of MarkJobFailed and goes on.
MarkJobFailedLost(w) ==
  /\ pc[w] = "failing"
  /\ Fault
  /\ Release(w, "idle")
  /\ UNCHANGED <<uploadVars, queueVars, asset, diskVars, overran, orphans>>

MarkJobPublished(w) ==
  /\ pc[w] = "marking"
  /\ UpdateIngestJobStatus(job[w], "published", published[w])
  /\ Release(w, "idle")
  /\ UNCHANGED <<uploadVars, asset, diskVars, overran, orphans, faults>>

\* The UPDATE, or the SELECT that reads the row back after it, fails:
\* ProcessNext returns the error and the process exits.
MarkJobPublishedErrs(w) ==
  /\ pc[w] = "marking"
  /\ Fault
  /\ \/ UpdateIngestJobStatus(job[w], "published", published[w])
     \/ UNCHANGED queueVars
  /\ Release(w, "down")
  /\ UNCHANGED <<uploadVars, asset, diskVars, overran, orphans>>

\* The process is killed.  Nothing ties an ffmpeg it waits for to its life:
\* one may die with it (as with its container) or go on without it.
Crash(w) ==
  /\ pc[w] # "down"
  /\ Fault
  /\ Release(w, "down")
  /\ \/ UNCHANGED orphans
     \/ /\ pc[w] = "packaging"
        /\ orphans' = orphans \cup
             {[asset |-> AssetAt(w), audio |-> audio[w], ended |-> FALSE]}
  /\ UNCHANGED <<uploadVars, queueVars, asset, diskVars, overran>>

\* Such an ffmpeg writes segments into build/<asset>, whosever it is by now,
\* and at its end a playlist.
OrphanWrites ==
  \E o \in orphans, end \in BOOLEAN :
    /\ ~o.ended
    /\ build' = [build EXCEPT ![o.asset] =
                   [audio |-> @.audio \cup {o.audio}, playlist |-> @.playlist \/ end]]
    /\ orphans' = (orphans \ {o}) \cup {[o EXCEPT !.ended = end]}
    /\ UNCHANGED <<uploadVars, queueVars, asset, files, announced, runVars,
                   overran, faults>>

Restart(w) ==
  /\ pc[w] = "down"
  /\ Release(w, "idle")
  /\ UNCHANGED <<uploadVars, queueVars, asset, diskVars, overran, orphans, faults>>

-----------------------------------------------------------------------------
\* A second passes.  A run whose claim is StaleAfter old has overrun it.
Tick ==
  /\ age' = [j \in Jobs |->
               IF status[j] = "processing" THEN Older(age[j]) ELSE age[j]]
  /\ held' = [w \in Workers |->
               IF pc[w] \in Busy THEN Older(held[w]) ELSE held[w]]
  /\ overran' = overran \cup
       {j \in Jobs : \E w \in Workers : job[w] = j /\ held'[w] = StaleAfter}
  /\ UNCHANGED <<uploadVars, status, report, asset, diskVars, pc, job, audio,
                 target, published, orphans, faults>>

Upload(j) == StoreUpload(j) \/ StampJob(j) \/ InsertJob(j) \/ AbandonUpload(j)

Package(w) ==
  \/ PrepareBuild(w) \/ StartPackaging(w) \/ FinishPackaging(w)
  \/ ReadDuration(w) \/ PackagingFails(w)

PublishToTargets(w) ==
  \/ BeginCopy(w) \/ FinishCopy(w) \/ CopyFails(w)
  \/ NotifyTarget(w) \/ NotifyFails(w)

Conclude(w) ==
  \/ UpsertPublishedAsset(w) \/ PublishFails(w)
  \/ MarkJobFailed(w) \/ MarkJobPublished(w)

Work(w) ==
  ClaimNextIngestJob(w) \/ Package(w) \/ PublishToTargets(w) \/ Conclude(w)

Disturb(w) ==
  ClaimFails(w) \/ MarkJobFailedLost(w) \/ MarkJobPublishedErrs(w) \/ Crash(w)

Next ==
  \/ Tick \/ OrphanWrites
  \/ \E j \in Jobs : Upload(j)
  \/ \E w \in Workers : Work(w) \/ Disturb(w) \/ Restart(w)

Spec == Init /\ [][Next]_vars

\* Run's loop keeps a live worker going, each command it waits for ends, a
\* process that exited is started again, and the clock runs on.
FairSpec ==
  /\ Spec
  /\ WF_vars(Tick)
  /\ \A w \in Workers : WF_vars(Work(w)) /\ WF_vars(Restart(w))

-----------------------------------------------------------------------------
(* Properties.                                                             *)

Phases == {"new", "stored", "stamped", "inserted", "abandoned"}
Statuses == {"absent", "queued", "processing"} \cup Terminal

UploadType ==
  /\ phase \in [Jobs -> Phases]
  /\ source \in [Assets -> Jobs \cup {NoJob}]
  /\ second \in Nat
  /\ createdAt \in [Jobs -> Nat]

QueueType ==
  /\ status \in [Jobs -> Statuses]
  /\ age \in [Jobs -> 0..StaleAfter]
  /\ report \in [Jobs -> SUBSET Targets]

DiskType ==
  /\ asset \in [Assets -> Jobs \cup {NoJob}]
  /\ build \in [Assets -> [audio : SUBSET (Jobs \cup {NoJob}),
                           playlist : BOOLEAN]]
  /\ files \in [Targets -> [Assets -> [audio : SUBSET (Jobs \cup {NoJob}),
                                       whole : BOOLEAN]]]
  /\ announced \in SUBSET (Targets \X Assets)

RunType ==
  /\ pc \in [Workers -> PCs]
  /\ job \in [Workers -> Jobs \cup {NoJob}]
  /\ audio \in [Workers -> Jobs \cup {NoJob}]
  /\ target \in [Workers -> 1..(NumTargets + 1)]
  /\ published \in [Workers -> SUBSET Targets]
  /\ held \in [Workers -> 0..StaleAfter]

TypeOK ==
  /\ UploadType /\ QueueType /\ DiskType /\ RunType
  /\ overran \in SUBSET Jobs
  /\ orphans \in SUBSET [asset : Assets, audio : Jobs \cup {NoJob}, ended : BOOLEAN]
  /\ faults \in 0..MaxFaults

\* Two workers hold the same job only if the claim of one of them is at
\* least StaleAfter old: the stale threshold of ClaimNextIngestJob works as
\* a lease although nothing renews or checks it later.
LeaseSeparation ==
  \A v, w \in Workers :
    (v # w /\ job[v] = job[w] /\ job[v] # NoJob)
      => held[v] = StaleAfter \/ held[w] = StaleAfter

\* While no run of a job outlives the threshold, the job has at most one
\* worker, and none once its outcome is recorded: the unguarded UPDATE of
\* UpdateIngestJobStatus then never meets another worker's result.
ExclusiveUnlessOverrun ==
  \A j \in Jobs \ overran :
    /\ \A v, w \in Workers : (job[v] = j /\ job[w] = j) => v = w
    /\ status[j] \in Terminal => \A w \in Workers : job[w] # j

\* A recorded outcome is never taken back to the queue, whatever late or
\* restarted worker writes, and is replaced by the other outcome only for a
\* job one of whose runs outlived the threshold.
OutcomeStep ==
  \A j \in Jobs :
    status[j] \in Terminal =>
      /\ status'[j] \in Terminal
      /\ (status'[j] # status[j] \/ report'[j] # report[j]) => j \in overran
OutcomeFinal == [][OutcomeStep]_vars

\* A job that reads published names at least one target, each of which was
\* told to announce the asset, and the asset has its catalog row.
PublishedIsServed ==
  \A j \in Jobs : status[j] = "published" =>
    /\ report[j] # {}
    /\ \A t \in report[j] : <<t, AssetOf[j]>> \in announced
    /\ asset[AssetOf[j]] # NoJob

\* Whatever becomes of the job afterwards, a catalog row the pipeline wrote
\* stands for an asset some target was told to announce, and carries the
\* metadata of an upload of that very asset.
CatalogRowIsBacked ==
  \A a \in Assets : asset[a] # NoJob =>
    /\ AssetOf[asset[a]] = a
    /\ \E t \in Targets : <<t, a>> \in announced

\* ffmpeg never runs on a missing source: the rename of QueueUpload comes
\* before the row a worker can claim.
SourceIsThere ==
  \A w \in Workers : pc[w] \in Busy => source[AssetAt(w)] # NoJob

\* No ffmpeg for the asset ever outlived its worker.
NoOrphan(a) == \A o \in orphans : o.asset # a

\* While no two runs for one asset overlap, as with one worker process, nor an
\* ffmpeg outlived its run: once the job of the upload that source.mp3 holds
\* reads published, no target of its report keeps audio of another upload.
LatestUploadIsServed ==
  \A j \in Jobs :
    (status[j] = "published" /\ source[AssetOf[j]] = j /\ NoOrphan(AssetOf[j])) =>
      \A t \in report[j] : files[t][AssetOf[j]].audio \subseteq {j}

\* While no two runs for one asset overlap: a target directory that a crash or
\* an error left incomplete after the asset was announced there is never hidden:
\* some job of the asset is processing, failed, or leaves the target out of its
\* report.
BrokenCopyShows ==
  \A t \in Targets, a \in Assets :
    (<<t, a>> \in announced /\ ~files[t][a].whole) =>
      \E j \in Jobs :
        /\ AssetOf[j] = a
        /\ \/ status[j] \in {"processing", "failed"}
           \/ status[j] = "published" /\ t \notin report[j]

\* The workers share build/<asset> and the target directory with nothing but
\* the stale threshold between them.  Where no asset is uploaded twice, that is
\* enough while no run outlives it: no worker then copies what another has just
\* removed, and an incomplete copy shows, across crashes and takeovers.
UploadedOnce == \A i, j \in Jobs : AssetOf[i] = AssetOf[j] => i = j
BrokenCopyShowsWithinLease == (UploadedOnce /\ overran = {}) => BrokenCopyShows

\* Every job in the table gets an outcome and keeps having one, across
\* crashes, exits on database errors and lost MarkJobFailed calls.
JobsSettle ==
  \A j \in Jobs :
    status[j] \in {"queued", "processing"} ~> [](status[j] \in Terminal)

\* The pipeline implements the lifecycle an API client may rely on.
Lifecycle == INSTANCE JobLifecycle
               WITH rows <- {a \in Assets : asset[a] # NoJob}
ImplementsLifecycle == Lifecycle!Spec
=============================================================================
