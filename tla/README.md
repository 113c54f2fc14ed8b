# Formal models of audistro-catalog

audistro-catalog keeps a catalog of artists, payees and audio assets in one
SQLite database, takes uploads, packages them as encrypted HLS and copies them to
provider targets, lets providers announce what they serve, collects abuse reports
and verifies artists. This directory holds TLA+ models of that code, the TLC
configurations that check them, and proofs checked by TLAPS. The reference is the
Go code (`internal/`, `cmd/`) with its tests and `api/openapi.v1.yaml`; the
repository has no prose documentation.

## 1. The system

| Component | State | Operations | What is hard |
|---|---|---|---|
| **Ingest pipeline**: `QueueUpload`, the `ingest_jobs` table, `audicatalog-worker` mode `ingest` | `uploads/<asset>/source.mp3`, job rows, `build/<asset>`, one directory per target, `assets` | queue an upload; claim; package with ffmpeg; publish to each target (remove, copy, rescan, announce); upsert the asset; mark the job | several worker processes, claims taken over after `CATALOG_WORKER_STALE_SECONDS` without a heartbeat, paths named by the asset and not the job, crashes between any two steps, an ffmpeg that outlives its worker, dropped errors |
| **Provider registry**: `service/providers`, `jobs/cleanup.go` | `providers`, `provider_assets` | register a key; announce (signature, limits, UPSERT); delete expired rows | count and UPSERT are separate statements of concurrent handlers; clock readings that are old when used |
| **Nonce cache**: `noncecache` | map and insertion list under a mutex, in memory | `AddIfNotExists`, janitor sweep, eviction above `MaxEntries` | two structures that must agree, old clock readings, restart |
| **Reports and moderation**: `service/reports` | `reports`, `moderation_state` | store a report, count those of seven days, decide, store | read-decide-write without a transaction |
| **Proofcheck worker and badges**: `worker/proofcheck`, `service/verification` | `artist_proofs`, `verification_state` | list pending proofs, check by DNS or HTTP, recompute the badges of the artists concerned | reads what moderation writes and vice versa; a run that dies half way |
| **Catalog**: services for artists, payees, assets, bootstrap, provider hints | `artists`, `payees`, `assets`, `provider_hints` | create, bootstrap (create or reuse), add hints, publication by the worker | look up, compare and insert in separate statements; foreign keys on one pooled connection only |
| **Migrations and opening** (`store/migrate.go`, `store/db.go`) | `schema_migrations`, the schema | run what is not yet applied | daemon and worker start at once on one file; the lookup of a version is outside of the transaction |
| **Snapshot tool** (`cmd/audicatalog-snapshot`) | database files | export, sync (backup in steps), import (copy, sync, rename, sync the directory) | writers during the backup, migrations in the middle of it, loss of power, WAL files of the replaced database |
| **Rate limiter** (`ratelimit`) | a bucket for each address, in memory | `Allow`, eviction | clock readings that are old when used, eviction refills |
| **Hint listing, playback, entity tags** | none (reads `provider_assets`) | order by region and score, cut, compute a tag | truncation before the ordering, tags that do not change with the answer |
| **Lists of the catalog** (browse artists, browse new, assets of an artist) | none (reads `artists`, `assets`, `moderation_state`) | many statements for one answer | what changes between them: an asset may be seen under two artists, under none, or before it is hidden |
| **Other reads, validation, HTTP, configuration** | none between requests | | nothing but the concurrency they lend to the others |

They interact through the database only: the upload handler hands jobs to the worker through
`ingest_jobs`, the worker writes the `assets` rows the API reads, `service/reports` reads
badges and `worker/proofcheck` reads moderation states, announcements need an `assets` row,
the lists read what all of them write, and the snapshot tool copies the file under their
hands. The nonce cache and the rate limiters live in the daemon's memory. No transaction
spans two statements, except the claim of a job (`ClaimNextIngestJob`) and each migration.
SQLite serialises statements; that is the granularity of the models: **one statement, or one
file-system operation, is one step**, and between two of them anything else may happen, the
end of the process included.

What makes each component correct is stated as properties in its module, and the
lines at which something could go wrong are listed as `hazards` in `PROJECT.json`,
those that no property covers with the reason (section 5).

## 2. Modules

| Module | Models |
|---|---|
| `JobLifecycle` | abstract: what a client may rely on about job states and `assets` rows |
| `Ingest` | the upload handler, the job table, worker processes, targets on disk; implements `JobLifecycle` |
| `Announce` | registration and announcement handlers and the cleanup goroutine, for one asset |
| `NonceGuard` | abstract: what a handler may rely on about nonces |
| `NonceCache` | `noncecache.Cache` in detail; implements `NonceGuard`, whose steps `Announce` takes |
| `Moderation` | `CreateReport`, its evaluation, and `proofcheck.Worker.RunOnce` |
| `CatalogSchema` | abstract: the catalog tables as `001_init.sql` declares them, every foreign key enforced |
| `Catalog` | the calls that fill the catalog tables, and the worker's upsert; implements `CatalogSchema` |
| `Listing` | both routes that list the providers of an asset: filter, score, order, cut, entity tag, 304 |
| `RateLimiter` | `ratelimit.Limiter.Allow` under concurrent requests, with an observer that counts |
| `Migrate` | `OpenSQLite` and `Migrate` in any number of processes |
| `Snapshot` | `audicatalog-snapshot`: the backup in steps, the import |
| `Database` | composes `Migrate` and `Snapshot` on one file, with processes that write once they have opened it |
| `Browse` | the three routes that list artists or assets |
| `MC...` | instances for TLC (requests, reports, messages, symmetry) |
| `...Proofs` | the theorems and proofs of `Ingest` (with `JobLifecycle`), `Announce`, `Moderation`, `Catalog`, `Listing`, `Database` (with `Migrate` and `Snapshot`), `Browse`; `MemoryProofs` those of what the daemon keeps in memory, `NonceCache` and `RateLimiter` |

Definitions carry the names of the code (`ClaimNextIngestJob`, `GetPayee`,
`recomputeVerificationState` is `ListByArtist`, `ReadModeration`, `UpsertBadge`);
`PROJECT.json` maps each to its lines. A definition under a comment *Mutant:* is
a plausible bug in the definition below it; each property has one that breaks it.

### Ingest

`Upload(j)` is `QueueUpload`: store `source.mp3` by rename, stamp the row, insert
it, or give up in between. `Work(w)` is the loop of a worker: `ClaimNextIngestJob`
(one transaction: the oldest queued or stale job), `PrepareBuild`,
`StartPackaging` (ffmpeg opens whatever `source.mp3` is then), `FinishPackaging`,
`ReadDuration`, for each target `BeginCopy`/`FinishCopy`/`NotifyTarget` or their
failures, `UpsertPublishedAsset`, `MarkJobPublished` or `MarkJobFailed`.
`Disturb(w)` holds what may go wrong in every step: command failures, failed
statements, crashes. `Crash` may leave the ffmpeg of a worker that was packaging
(`orphans`): `ExecRunner` ties it to the context, not to the life of the process. It then
writes on into `build/<asset>` (`OrphanWrites`), whosever that is by now.

- Time. The code compares `updated_at` with now - threshold and nothing else, so
  jobs have an *age* in seconds, saturating at `StaleAfter`, and `held` is the
  age of a worker's own claim. `created_at` is the rank of its second, since
  ties within a second are what matters. The clock does not go back; the two
  readings of it in one claim are one.
- The claim reads, then writes in one transaction; a concurrent writer makes it
  fail with BUSY, which is `ClaimFails`: the process exits.
- `build[a].audio` and `files` hold the set of uploads whose segments lie in a
  directory: more than one means a mixture.
- External: ffmpeg, the endpoints of a provider, the service that hands out
  keys, and the supervisor that starts a worker again.

### Announce and NonceCache

A handler of `Announce` is at one statement of `Register` or `Announce`, with
its request, its stamp (`now`, read once) and the expiry computed from it. The
signature check is made with `GetProvider`, the stored key being constant
(`KeyPinned`). Base URL, region and priority are left out. A message names the expiry
that was signed and the two fields of the request from which the code computes
one. `NonceCache` keeps the map and the list apart, as the code does; callers
and the janitor read the clock before they take the lock.

`NonceGuard` is what the two share: a set of nonces with the ends of their lifetimes.
A nonce that is accepted was not live at the time of the call and at most one other
leaves for it (`Accept`), ended ones leave as time passes (`Pass`), all leave at a restart.
`Announce` takes these steps, and `NonceCache` implements them with its map as the set: so
what is said of `Announce` is said of it with the real cache.

### Moderation

A handler stores its report, counts one type after the other over the reports of
its window, asks for the badge when the code does, and stores its decision. A
proofcheck run lists proofs, checks one after the other with answers that are
left open, then recomputes each artist concerned in three statements. The history
`missed` has the artists for which no run answers: a proof expired and none has taken it
up, or the run that stored a status failed before it recomputed the artist. Operators
(not this repository) submit proofs and let them expire. Every artist of the
model has a row. Reason codes are left out.

### Catalog

`Calls` are requests that may all overlap; `pc` is the statement each is at. Derived ids
(`deterministicID`), generated ids and hashes are tuples, which is all their injectivity
says. A hint's asset is looked up (`GetAsset`) before the hint is inserted (`AddHint`), in a
loop when an asset is created. No action relies on a foreign key: `PRAGMA foreign_keys` is
executed on one connection of an unlimited pool. A failing call leaves what it stored; a
call whose answer is lost counts as answered.

`CatalogSchema` has the rows only, and one action for each INSERT, with the constraints of
its table; INSERT and upsert of an asset are one, since the upsert may store over any asset
what the primary key would keep an INSERT from. Its foreign keys are always enforced. That
the calls of `Catalog` implement it says that looking up what a row refers to, in statements
before, does as much as the foreign keys would.

### Listing

One client asks for one asset with one URL, again and again, and keeps the last answer with
a body. A request is four steps: `ReadAsset`, `ReadNow` (the handler's time, used by the
score), `ReadFilterTime` (the registry's time, used by the query) and `ListActiveProviders`;
the rest is computed from the rows of that one query. `Fetched` is ORDER BY and LIMIT of the
query, `Listed` the sort and the cut of `ListProvidersForAsset`. Between the steps
announcements are stored as `Announce` leaves them (the lifetime counts from a first reading
of the clock, `seen` is a second one, `updated` the repository's after both, none more than
`MaxLag` old), rows are deleted, regions change and the worker publishes. The tick of the
clock stands for a time long enough to cross the thresholds of the score; `Weights` is any
configuration ordered like `DefaultConfig`. Left out are base URLs, parsing, and what an
answer contains beyond its hints.

### RateLimiter

Time and tokens are counted in ticks: a tick fills a bucket by one, a request takes
`Cost` (one over the rate). The middleware reads the clock (`Call`) before `Allow`
takes the lock (`Admit` or `Refuse`), so a call can run with an older time than one
before it; `MaxLag` is how old. `Filled` does what `Allow` does then: an older time
fills nothing but overwrites `lastSeen`. Every call evicts the buckets not seen for
`TTL` at *its* time, and a bucket that comes back is full. The observer is history:
`since` and `spent` count what an address was admitted in a window opened at any
moment, `patient` holds the addresses that always waited for their answer and then
for `Cost`. A behaviour is one life of the server; a restart fills every bucket.

### Migrate, Snapshot and Database

The database is its committed state: the versions in `schema_migrations` (`rows`)
and the migrations whose effects are in the schema (`schema`). A process looks a
version up, begins a deferred transaction whose first statement takes the write
lock (`Apply`), inserts the version and commits. `LoseRace` is the start that fails
because another process has committed the migration between the lookup and the
transaction: an `ALTER TABLE ADD COLUMN` finds its column, or the INSERT finds its
version; scripts made of `CREATE ... IF NOT EXISTS` fail at the INSERT only. `Fault`
is a process that dies or a statement that fails (a lock busy longer than
`busy_timeout` among them).

`Snapshot` copies the pages of the source in steps of `StepPages`. As with SQLite's
backup, a commit between two steps restarts the copy, and the target is written in
one transaction that the last step commits. The import copies, syncs, renames and
syncs the directory; `mayLeave` holds the files that a loss of power may leave at
the target path. In `Database` the pages are the schema, the versions and the data,
and `states` is the history of what was committed. A daemon that opens a replica
read-only does not migrate it: what it may find is `ReplicaWhole`.

### Browse

A request reads the artists, the moderation state of each (`BuildArtist`), the assets
of each (`ListAssetsByArtist`) and the state of each of these (`ReadAsset`). Between
any two of its statements artists are created, an asset is published under another
artist (the upsert of the worker takes it over), and targets are evaluated. Two
histories say what an answer is measured against: `standing`, what was there when the
request began and has neither moved nor been hidden since, and `opened`, what was
visible at some moment since. The order in which artists and assets are looked at is
left open, and the sorting at the end left out.

## 3. What is checked

| Run | Instance | Shows |
|---|---|---|
| `ingest_single` | 1 worker, 2 uploads of one asset, 2 targets, 2 faults, or one crash and an ffmpeg that goes on | targets of the report of a published job serve the latest upload; a half-copied directory is always visible in the jobs; `JobLifecycle` is implemented |
| `ingest_lease` | 2 workers, 1 job, 1 target, threshold 2 s, 2 faults, `FairSpec` | the threshold works as a lease, within which no half-copied directory hides; a published job names announced targets and a catalog row is backed, whatever collides; outcomes are final but for jobs that overran the threshold; the job gets an outcome and keeps having one |
| `announce` | 3 providers, 2 keys for one of them, limit 1, room for 2 nonces, 2 handlers, a restart, clock to 2 | keys are pinned, rows are authentic and bounded in time; the limit is overrun by fewer than there are handlers; cleanup removes only expired rows |
| `nonce_cache` | 3 nonces, room for 2, 2 callers, janitor, a restart | map and list agree, nonces are accepted once, the oldest makes room; `NonceGuard` is implemented |
| `moderation` | either an artist with 3 impersonation reports and 2 proofs and 1 run of the worker at a time, or an asset with 3 reports and a url with 1; 2 handlers, failures, reports leaving the window | nobody is restricted without the reports for it; badges follow the proofs that were read; a last evaluation that ran alone keeps the target restricted |
| `moderation_lost_update` | 2 scam reports in 2 handlers | **violated**: `ThresholdHolds`, below |
| `moderation_crossed_reads` | 3 impersonation reports and 2 proofs | **violated**: `DelistedHasNoBadge`, below |
| `catalog` | 3 bootstraps that disagree, a payee, an asset with 2 hints under an upload of another artist, a late hint, 1 failure anywhere | published prices are paid to the asset's artist, bootstraps agree, answered creations are complete; `CatalogSchema` is implemented |
| `listing` | the playback route, 3 providers, 2 read, 1 listed, clock to 3, 3 changes | a provider better in everything is listed first in spite of the cut; 304 never hides news, nor keeps a listing beyond the longest lifetime |
| `rate_limiter` | 2 addresses, 2 calls at once, `Cost` 2, `Burst` 3, times up to a tick old, a bucket evicted as soon as it is full again, clock to 7 | in any window an address is admitted a full bucket and what fills it, and no more than `MaxLag` besides; one that keeps to the rate is never refused |
| `database` | 2 processes, 2 migrations of which the second cannot run twice, 1 fault, 1 write, backups of 3 pages in steps of 2, imports and losses of power without bound | the schema is what the versions say, every process opens in the end; a replica is one committed state and not older than its backup; an imported file is whole; a backup ends when the source is left alone |
| `browse` | 1 request at a time, 2 artists, 2 assets, any catalog to begin with, 4 statements of others | what stands still is in a list exactly once, what is hidden all the time in none |

Why the bounds are enough. Two workers, handlers, callers or processes are the least
that can race, and every race in the code is about one row, file or directory, so all
uploads, announcements and reports aim at one. Thresholds and lifetimes are the
smallest at which "before", "at" and "after" differ. `MaxFaults`, `MaxRestarts`,
`MaxFailures` bound how often something goes wrong in one behaviour, `MaxTime` the
clock, `MaxChanges` and `MaxWrites` the statements of others, `MaxLag` the delay of a
stamp. 3 providers over a limit of 2 and 1 make both cuts drop a row.

- `ingest_single` has one worker because its two invariants do not hold of two workers
  at one asset, which share `build/<asset>` and the target directories: two that hold jobs
  of the same asset, or one job after a claim was overrun. The theorems have any number of
  workers, no two at one asset. In `ingest_lease` two are at one job, and
  `BrokenCopyShowsWithinLease` says how long the threshold keeps them apart.
- `ingest_single` has the constraint `OrphanAlone`: where an ffmpeg outlives its worker,
  nothing else goes wrong with processes or statements. `ingest_lease` and the theorems
  have no such constraint.
- `moderation` has the constraint `OneStory`: reports and proofs of the artist, or
  reports of the others. No step about a target reads or writes a row of another, so
  what can go wrong does so within a story. The theorems have no such constraint.
- `rate_limiter`: `TTL` is the smallest with `KeptUntilFull`; with a smaller one
  an evicted bucket comes back fuller than it was, and `AdmittedBound` claims nothing.
- `database` has three pages so that a backup takes two steps and can be restarted
  between them. A second fault adds states and no new kind of behaviour: what a fault
  leaves is the state of a process that has not started.
- `browse` has one request, since requests change nothing that another reads; four
  changes are enough to move an asset there and back, or to hide and show both an
  artist and an asset.

`PROJECT.json` gives for each property a plausible bug of the code (a *Mutant:* in
the module) that breaks it under the same bounds. The proofs have none of these bounds.

Deadlock is checked except in `Moderation` and `Catalog`, which really may stop:
every report is filed and aged, every call answered.

Fairness is assumed in two runs. `ingest_lease`: the worker loop goes on (WF of
`Work(w)`: the loop of `Run` has no blocking step but commands, which end), the clock
goes on, and a process that exited is started again (an assumption about the
supervisor, not about this repository). Nothing is fair that makes a command succeed.
The property is about one job: a second one only waits for its turn. `database`: a
process goes on, and is started again after a start that failed (`MigrateFairness`, the
same supervisor), and the loop of a backup goes on (`SnapshotFairness`). Nothing makes a
process write, or stop writing: since `MaxWrites` bounds the commits, `BackupEnds` says
that a backup ends once the source is left alone, and no more. Under steady writing it
never does: every commit between two steps restarts the copy, and the loop of
`backupSQLite` does not look at the context of 30 seconds its command was given.

### Where the code differs from what its tests say

- `ThresholdHolds` (`moderation_lost_update`). Reports are counted and the
  decision is stored in separate statements: of two concurrent evaluations the
  one that counted fewer reports can store last, and an asset with two answered
  scam reports reads `allow` until it is reported again. `reports_test.go` expects
  `quarantine` of the same reports one after the other.
  `ThresholdUnlessTroubled` is what remains true, and is checked. `HoldsOneByOne` proves
  that nothing else breaks it: if evaluations of a target neither overlap nor fail, it holds.
- `DelistedHasNoBadge` (`moderation_crossed_reads`). An evaluation reads the badge
  before a proofcheck run stores it, the run reads the moderation state before the
  evaluation stores it: the artist ends both delisted and verified, which
  the tests of either order exclude. `RestrictionJustified` remains true, and `HoldsUncrossed`
  proves that this crossing is the only cause.

## 4. What is proved

All theorems hold for every value of the constants allowed by the named
assumptions (`JobsAssumption`, `AssetOfAssumption`, ...): any number of jobs,
workers, targets, providers, messages, handlers, calls, reports, proofs, addresses,
processes, migrations, artists and assets, any threshold and limit. The assumptions
only say what kind of value each constant is, but for `WeightsAssumption` (the
configuration of the score is ordered like the default one) and `ThreePages` (the three
parts of the database of the model). Theorems with an ASSUME of their own name it below.

**`IngestProofs`**. The inductive invariant has three layers. *Shaped*: types,
and which variables of a worker are meaningful at which step. *LeaseInv*: a
worker that holds a job found it inserted, has held it for at least the age of
the row while the row reads processing, and has overrun once `held` reaches
`StaleAfter`; of two workers on one job, one claim is that old. The lease is not
inductive alone, because nothing in the row says whose claim it is; the link
between `held`, `age` and the history of overrun jobs is what carries it. *ServeInv*:
what a worker has in `published` was announced, so what it writes into the row and the
catalog is backed. From these follow `TypeCorrect`, `LeaseSeparates`, `ExclusiveJobs`,
`OutcomesFinal`, `PublishedServed`, `CatalogBacked`, `SourceStored`, and
`RefinesLifecycle`: each step of the pipeline is a step of `JobLifecycle` or a stutter.

Three theorems are about what lies on disk. `LatestServed` and `BrokenCopiesShow` have the
hypothesis that no two workers are ever at one asset (`[]OneRunPerAsset`), as with one worker
process. `AloneInv` adds to the two properties what build and target directories hold at
which step (`Worked`), and that a run which serves the latest upload - it is for its job, or
comes after that job was published - has opened that upload and nothing else, in the build
directory and in each target it has served (`Serves`, `Opened`, `FreshAudio`). A run for an
older upload may still serve the older audio, but then the job of the latest one is not yet
published. What a worker does at its own asset leaves all this alone at the assets of others
(`OthersKeep`). An ffmpeg that outlived its worker changes nothing but a build
directory (`OrphansKeepAlone`), so `LatestServed` leaves out its asset (`NoOrphan`) and
`BrokenCopiesShow` need not. `LeaseGuardsCopies` draws the hypothesis from the lease: where no
asset is uploaded twice, and as long as no run overruns its claim, `BrokenCopyShows` holds.

`CallsEnd` is the half of `JobsSettle` that is a safety property: each step of a worker leaves
fewer steps of its call of `processJob` (`StepsLeft`, three a target and six), and no
step of another changes that.

**`AnnounceProofs`**. `RowInv` strengthens `RowAuthentic` by what a handler has
vetted before it reaches the UPSERT; nothing that was vetted can change, since
keys are pinned and assets stay. `CapacityInv` counts places: the listed
providers together with those of handlers that passed the limit check never
exceed the limit by as many as there are handlers, and only the count can add
to them, a renewal being of a listed place. Hence `TypeCorrect`, `KeysPinned`,
`RowsAuthentic`, `CapacityBounded`.

The cleanup deletes with a reading of the clock that is never ahead (`SweepPast`):
`ListedSpared`.

**`ModerationProofs`**. `Justified` adds to `RestrictionJustified` what evaluations and
runs have in hand: a type that a handler has counted as reached is reached by the reports
ever filed, and a run that read "delist" read what was justified. As reports only get more,
neither goes stale (`MoreReports`): `OnlyJustifiedRestrictions`. For
`ThresholdUnlessTroubled` the invariant `AloneSees` says that an evaluation that shares
its target with no other misses no type that reaches its threshold in the window it looks
at: it has counted it, or has it still to count; reports leaving the window only help.
`ReachedIsRestricted` follows by what `Decision` makes of it. `BadgesFollowProofs`
has the hypothesis that no two runs of the worker recompute one artist at once
(`[]OneRecomputation`), as when runs do not overlap, and the invariant `Followed` of the
artists that are not `missed`: a run has still to recompute the artist, or its badge is the
one its verified proofs earn, or "flagged" (`Answered`); and a recomputation under way has
read the types the artist has now, unless another run has the artist in hand (`Current`).

Two theorems are about the findings of section 3, each with the race excluded by a
temporal hypothesis. Under `[]OneByOne`, that evaluations of a target do not overlap, a
target is troubled only by a failure (`FailuresOnly`), and `HoldsOneByOne` says that
`ThresholdHolds` as long as none failed. Under `[]NoCrossing`, that no evaluation which has
read the badge of an artist is still to store while a run has read the artist's state and
is still to store its badge, `Uncrossed` holds: who is about to store has read what is
there. Hence `HoldsUncrossed`.

**`CatalogProofs`**. A row is only ever added, so what a call has looked up is still true
when it inserts (`Growth`, `StillBacked`, `StillBootstrapping`). `PayInv` adds to
`PayeeOfArtist` what each call has found; `BootInv` adds the uniqueness of handles and ids,
and that a bootstrap on its way has the one artist with both and, when about to insert a
payee, that no payee it could have reused was there at its start. `HintInv` counts: the
hints of a call are numbered from 1 to their number, without a gap, that number grows to
what was wanted, and only then is the call answered; a call about to insert one has found
its asset, which stays (`Found`). Hence `TypeCorrect`, `PaysArtist`, `OneArtist`,
`ReusesWhatItSaw`, `CompleteHints`. `RefinesSchema`: by the same invariants a row that a
call inserts is one that the constraints of the schema let in.

**`ListingProofs`**. The invariant `ListInv` orders the times: a row is seen, then
updated, then now; what a request has read is not ahead of the clock; the maxima in the
tag of an answer are not newer than its query. From it follow `NewsTold` and `KeptEnds`:
where the tags agree, the newest of what would be listed is not newer than the answer.
`DominantListed` is about the two orders. The one of the registry and the one of the
score are transitive, and the score is monotone in the last sign of life, the priority
and the expiry (`ScoreGrows`, with the clamps and the product by the multiplier); so what
comes before a better provider comes before the worse one too, and there are no more of
them: neither cut drops it. `TypeCorrect` includes that no answer is longer than asked for,
since different listed providers have different ranks (`ListedBound`).

**`MemoryProofs`**, of the rate limiter. The invariant gives each address a credit: what
calls that have not run may still take of its bucket without a new tick, which is what the
bucket holds, filled up to the oldest time a call can have, and capped (`Worth`). No call
finds more than the credit, whatever its time (`FoundWithinCredit`), an eviction adds
nothing when the bucket would be full anyway (`KeptUntilFull`), and a tick adds one; what
was spent and what is left stay within `Burst`, the window and `MaxLag` together
(`WithinCredit`): `AdmittedBounded`. `PatientServed` needs that a patient address has one
call at a time (`PatientAlone`) and that its bucket misses at most one request since its
last answer (`PatientHasRest`).

Of the nonce cache. The invariant `CacheInv` says that the list holds the keys of the map, each
once, in the order of their insertion, that its length is the size of the map and
within the limit, and what the history has of each nonce. What the sweep leaves of the list is
stated by ranks instead of by its recursive definition: the rest of a list without some keys
keeps the order of the others, and is as long as there are of them (`HeldCount`). An accepted
nonce was not live, and if the cache was full exactly the first of the list leaves
(`OneLeaves`). Hence `MapAndQueueMatch`, `NoncesAcceptedOnce`, `OldestRoomFirst` and
`CacheIsGuard`, that each step of the cache is one of `NonceGuard`.

**`DatabaseProofs`**. `MigrateInv`: a process has every migration before the one it is at,
the write lock is held from script to commit, and so schema and versions grow together and
in order (`WholeMigrated`); what a process lost was won by another, and its next start skips
it (`EachRaceLostOnce`). `BackupInv`: the open transaction of a backup holds a prefix of the
state it has seen, and keeps it only while that is the current one, so what the last step
commits is one state (`ReplicasAreStates`); as every state is a committed one of the
migrations, a replica has no half migration (`ReplicasWhole`). A copy that is whole is the
state that was current when the last step began to read it, so backups only go forward
(`ReplicasAreCurrent`), and a step that does not start over gains pages (`BackupsGain`, the
safety half of `BackupEnds`). `ImportInv`: what is renamed is complete and on disk
(`ImportsWhole`).

**`BrowseProofs`**. For every asset that stands still and is covered, a request is ahead of
it, at its artist with the asset in hand, or past it with the asset listed once (`Ahead`,
`InRows`, `Listed`), and never two of these; and all that a request shows was visible when
it looked (`Seen`). Hence `StandingAreListedOnce` and `HiddenAreNotListed`.

Only model-checked: `JobsSettle`, `AllOpen` and `BackupEnds`, since liveness under fairness
and ENABLED are outside of the prover. Of each the safety half is proved: `CallsEnd`;
`EachRaceLostOnce`, which with `MaxFaults` bounds the starts of a process that fail; and
`BackupsGain`. The types of `Announce`, `Moderation`, `Catalog` and `Database` are
theorems and not invariants of a run.

## 5. What is not modelled

- Reads of one row or one table, request validation, middleware, logging, configuration:
  no state, or state only read at start; limits are CONSTANTS. The lists, which loop and
  filter, are in `Browse` and `Listing`.
- SQLite itself: statements are atomic and durable, a committed WAL is not lost, an online
  backup restarts when its source has changed. A BUSY statement is a failing statement.
- The `-wal` and `-shm` files of the database that an import replaces. They stay beside the
  new one; what SQLite makes of them depends on salts and checksums, which nothing in the
  repository refers to.
- Clocks that go back.
- The payee and price of a playback answer. Its tag leaves them out, but payees
  never change and a changed price comes with a changed `updated_at`.
- A commit to the source *while* a step of the backup runs: `LastStep` takes it as one that
  comes after the step, which copied what it began to read. A migration's script that
  finds everything there takes the write lock at its INSERT and not before, as `Apply` has
  it; when the lock is refused the start fails either way.
- What an asset serves after an ffmpeg that outlived its worker has written into its build
  directory: `LatestUploadIsServed` does not hold then and says nothing.
- `BadgeMatchesProofs` with two runs of the proofcheck worker that recompute one artist at
  once, when it does not hold: it is a one-shot command and nothing in the repository starts
  two.

Some behaviours are modelled and no property speaks of them, as the code promises nothing:
of two announcements of one provider the slower handler wins; a nonce stays used when the
request it came with is refused; a restriction outlives the reports that left the window
until its target is reported again; `GET /v1/artists/{handle}/assets` does not ask for the
moderation state of the artist, so it lists the assets of a delisted one
(`HiddenNotListed` says which lists do ask).

## 6. Plan

Done, in this order: `Ingest` with `JobLifecycle`, `Announce`, `NonceCache`,
`Moderation`, `Catalog`, `Listing`, `RateLimiter`, `Migrate` and `Snapshot` composed in
`Database`, `Browse`, and the proofs of all of them; then `NonceGuard` and `CatalogSchema`
with their refinements, and the theorems that say what excludes each race.

What is left, should this be taken further:

1. `Listing` composed with `Announce` instead of with rows as it leaves them, and
   a run of the providers route, whose tag also has the expiry.
2. Two identical bootstraps, of which one is answered 409, against what the test of
   idempotence says of one after the other.
3. The write-ahead log beside an import's target, with a model of SQLite's recovery.

## 7. Running

    tlc -workers 2 -config MCIngestSingle.cfg MCIngest
    tlapm IngestProofs.tla

Each run of section 3 takes at most about two minutes and each proof module less
than a few minutes; `PROJECT.json` lists modules, configurations, properties,
mutants, findings, hazards and theorems.
