# TLA+ models of the WCAG compliance scanner

The repository is a web service that scans pages for WCAG violations. A
Fastify API (`apps/api`) takes requests, keeps rows in PostgreSQL through
Prisma and short-lived keys in Redis, and puts jobs on BullMQ queues; a worker
process (`apps/worker`) runs the jobs. Nothing locks across two calls: what
goes wrong here goes wrong between two awaits of two processes. The models
therefore make every Prisma call outside a `$transaction`, every Redis command
and every queue call a step of its own, and keep what a process remembers
between two calls in a record of that process.

- [Components](#components)
- [Modules](#modules)
- [Runs](#runs)
- [Fairness](#fairness)
- [Proofs](#proofs)
- [Divergences](#divergences)
- [Not modelled](#not-modelled)
- [Plan](#plan)

## Components

### Batch scans

| part | source | state | operations |
|---|---|---|---|
| batch service | `apps/api/src/modules/batches/batch.service.ts` | `BatchScan` and `Scan` rows | `createBatch`, `cancelBatch` |
| scan queue | `apps/api/src/shared/queue/` | BullMQ jobs | `addScanJob`, `removeJob`; attempts 3, exponential backoff |
| scan worker | `apps/worker/src/processors/scan-page.processor.ts` | the attempt under way | `processScanPage` |
| batch status notifier | `apps/worker/src/services/batch-status.service.ts` | what it has read | `notifyScanComplete` |
| stale checker | `apps/api/src/jobs/batch-stale-checker.job.ts` | what it has found | `markStaleBatches`, every hour |
| admin | `apps/api/src/modules/admin/{batch,scan}-admin.service.ts` | the request | `cancelBatch`, `deleteBatch`, `retryFailedScans`, `deleteScan`, `retryScan` |

`createBatch` writes the batch, its scans, queues a job per scan and sets the
batch RUNNING. A worker sets the scan RUNNING, scans the page, and stores the
`ScanResult` and the status COMPLETED in one transaction; on an error it sets
the scan FAILED and throws, and BullMQ tries again. Either way it calls the
notifier, which reads the batch, then its scans, then writes the batch. The
user, the stale checker and administrators write the same rows at any time.

Hard: the notifier is three calls without a transaction; BullMQ runs a job
again after a crash, also when the crash came after the commit; most writes do
not look at the status they overwrite; rows disappear under running jobs.

Correct means: a scan is COMPLETED only with its result, which is stored once
and not lost; a final batch agrees with its scans and its counters add up; a
cancellation, a retry, a deletion or the stale checker spares what finished
before its write; every job ends, and no batch stays open for ever.

### AI campaign

`apps/api/src/modules/ai-campaign/ai-campaign.service.ts` gives away a limited
number of AI scans. The token budget is a row in PostgreSQL; the number of free
slots is a Redis counter derived from it and taken with a Lua script; the public
status is a second Redis key with a five-minute life. Reserving a slot, billing
an import (`deductTokens`), the administrators' settings and the reader of the
status work on the three copies. Correct means: not more slots are promised
than the budget pays for, no billed token is lost, and a stale status goes away.

### AI queue

`apps/api/src/modules/ai-campaign/ai-queue.service.ts` lets an administrator
export the PENDING AI scans as a CSV file (PENDING to DOWNLOADED), process it
elsewhere, and import the results (DOWNLOADED to COMPLETED, an e-mail per row,
one bill at the end). Imports are long, row by row, and may fail or die between
any two rows; files can be uploaded twice or late. Correct means: what is stored
goes back to exports, nothing is billed that was not imported, and a finished
scan stays finished.

### Discovery

`apps/api/src/modules/discovery/` finds the pages of a site: the service
creates a discovery and queues a job, the worker (in the API process,
`apps/api/src/index.ts:144`) crawls, stores pages and the final status; meanwhile
the user may cancel, add pages and remove the ones added. A Redis key caches the
result, in one form when the service writes it and in another, which the service
cannot read, when the worker does. Correct means: a finished job leaves a
finished discovery, cancellations hold, found pages are never removed, and what
the cache serves catches up with the tables.

### Scan request, status and e-mail

`apps/api/src/modules/scans/scan.service.ts` creates a scan (row, job, status
key in Redis) and answers status requests from Redis, or from the row, whose
status it then caches. The scan worker writes the row and the key in
separate steps and queues a mail when the scan ends; the import of AI results
queues another. `apps/worker/src/processors/send-email.processor.ts` sends and
then erases the address from the row, or keeps it when an AI mail is still to
come; when BullMQ gives a mail up, a handler erases the address. An administrator
may anonymize the guest's session (`sessions/session.service.ts`), which erases the
addresses of all its scans, whatever is under way.

Hard: the address is in the row, in the cached status and in the data of
several jobs; up to four kinds of job run again after errors and crashes;
everybody writes the cache. Correct means: one completion is announced once, and
is announced also after failed attempts; the mails erase an address after its use,
not before, and it does not stay; the cache catches up.

### Reports

`batches/batch-export.service.ts` and `reports/report.service.ts` answer an export
with a finished report, or queue a job that makes one
(`jobs/batch-report.job.ts`, `processors/generate-report.processor.ts`). A batch has
one row per format, written before its job is queued; a scan gets a row when
its job is done. Meanwhile the batch is run again or deleted, the scan fails
late, and the session is anonymized. Correct means: what is said to be ready can be
downloaded and is not older than the request for it, stays ready, and nothing is
"generating" for ever.

### ai-scan-cli

`tools/ai-scan-cli` is started by cron on a directory of exported CSV files.
A run takes a lock file, analyses the scans of a file in mini-batches, verifies
the criteria of each page in batches with a cache and a checkpoint per scan,
writes result files and moves the input to `processed/` or `failed/`. Runs are
killed, calls of the file system fail, and two runs can both believe they have
broken a stale lock. The outputs are named by the second, the lists of failed scans
by nothing else, and `--output <file>` gives all results one name: what is written
later may replace what was written before. Correct means: the scans of an input that
is filed as processed were written to the outputs, nothing a resumed run leaves out
is lost, no checkpoint or lock is left to spoil later runs.

### The rest

The browser pool, rate limits, admin CRUD, coverage numbers, the web application and
the shared package are listed under "components" in `PROJECT.json`;
[Not modelled](#not-modelled) says why.

## Modules

| module | models | state |
|---|---|---|
| `BatchScan` | one batch: API request, queue, workers, notifier, user's cancellation, stale checker | `scan`, `result`, `batch` (rows); `job` (BullMQ); `worker`, `api`, `cancel`, `stale` (calls under way) |
| `ScanLedger` | abstract: a set of stored results, some of them shown; a result is stored in the step that shows it, and stays | `stored`, `shown` |
| `BatchScanAdmin` | extends `BatchScan` with the administrators; every step of `BatchScan` is wrapped for rows that may be gone | and `admin` |
| `AiCampaign` | row, slot counter, reservation keys, cached status; requests, billing, settings, reader | `camp`, `slots`, `marked`, `cache`; `req`, `admin`, `reader` |
| `AiQueue` | aiStatus of every scan, exports, imports row by row, retry, clean-up | `ai`, `scanned`, `verified`; `export`, `import`, `retry`, `cleanup`; the counts `exported`, `imported`, `mails`, `billed` |
| `Discovery` | one discovery: row, pages, cache entry, job, attempt, cancel, edits, reader | `status`, `page`, `cache`, `job`; `worker`, `api`, `cancel`, `edit`, `reader` |
| `ScanRequest` | one scan from its request to the last mail, with the status cache | `row`, `cache`, `job`, `mails`; `api`, `worker`, `reader`, `import` |
| `Reports` | the reports of a batch and of one of its scans in one format | `batch`, `report`, `file`, `scan`, `listed`, `scanFile`, `session`; `ask`, `job` |
| `AiScanCli` | runs of the command-line tool on one directory | `lock`, `at`; the outputs `out`, `now`, `lost`, `failedOut`, `failedNow`, `failedLost`; `cached`, `ckpt`, `tmp`; `run` |
| `*Proofs` | the theorems about the module of that name, eight in all; `BatchScanAdminProofs` builds on `BatchScanProofs` | |
| `MC*` | symmetry and the constants that are not model values | |

How the code appears in them:

- An action is named for the call it makes; the comment above it names the
  function when the name does not. `PROJECT.json` maps every definition to its
  lines.
- A Prisma `$transaction` is one step when its first statement locks the row
  it is about (`CommitResult`, `ImportRow`). Where it reads first and writes
  later, READ COMMITTED lets others in between, and it is two steps
  (`ExportRead`/`ExportCommit`, `RetryRead`/`RetryCommit`); the `WHERE` of an
  `updateMany` is evaluated again on the rows as they are then, and an `update`
  of a row that is gone throws.
- BullMQ is external. A job waits, is active in one worker, and ends completed
  or failed. When the processor throws, `made` (attemptsMade) grows and the job
  waits again until it has been tried `attempts` times; when the process dies,
  `stalled` grows and the job waits again until it has stalled more than
  `maxStalledCount` times. Job ids are BullMQ's: `scan-<id>` is only a name.
- Redis and PostgreSQL survive a crash of the processes (Redis runs with an
  append-only file and without eviction, `docker-compose.yml:30`). A crash ends
  the calls of the process it hits and nothing else.
- `"error" \in Faults` (or `Ops`) lets any external call fail; the action that
  fails does what the surrounding `catch` does. `"crash"` lets processes die.
  In `ScanRequest` and `Reports` faults are incidents: `MaxFaults` counts jobs or
  requests that are hit, and what has hit a job may hit it again on every later
  attempt (`Again`), so that a job can fail for good within one incident.
- `ScanRequest` and `BatchScan` model the same worker twice, for a scan by itself
  and within a batch: the first with the cache and the mails, the second with the
  notifier. A cache miss in `ScanRequest` is possible at any time (`ReadRow`): the
  reader may have asked Redis long before.
- Definitions marked "Faulty variant" are not part of any specification: each is
  a plausible bug, and the model with the variant in place of the definition that
  follows it must violate a property.
- What a page contains, how many issues it has, tokens of a single scan, CSV
  text and crawled HTML are abstracted: a scan has a result or not, an import
  costs one unit per row, a page is found or manual, a batch's data is a version
  number that a report has copied, a criteria batch is answered or not.
- The files of a directory are numbers, in the order of their names: a run of the
  tool takes a set of files (`Listed`, `todo`) and always the `Least` of those left.
- An output file of the tool is the set of scans it has rows for. Of those whose name
  may come again the model keeps the file itself (`now[f]`, the result of input `f`;
  `failedNow`, the one list of failed scans); of all others only the union (`out`,
  `failedOut`); what was overwritten is in `lost` and `failedLost`. Time passes when an
  output is written: it falls in the second of the output before it or in a later one
  (`InSecond`). Naming and writing are one step, so that nothing is killed in the
  middle of a write; a call that fails leaves an output as it was, empty or written,
  and a checkpoint's temporary file as it was.
- `saveCheckpoint` is two steps, since its temporary file is shared by all runs on a
  scan: `InitCheckpoint` or `MarkComplete` writes it, `RenameInit` or `RenameMark`
  renames whatever is there, or throws if another run has renamed it.

## Runs

`tlc -config <cfg> <module>` runs one; the largest take about three minutes with two
workers.

| run | config | asks | distinct states |
|---|---|---|---|
| `batch_errors` | `BatchScanErrors` | safety of a batch when any call may fail | 1.43 million |
| `batch_live` | `BatchScanLive` | do jobs end and batches settle, and is the ledger implemented, with errors and crashes | 42 thousand |
| `batch_admin` | `BatchScanAdmin` | safety of a batch with every admin operation at work | 2.1 million |
| `campaign_reserve` | `AiCampaignReserve` | are slots oversold by concurrent requests | 1244 |
| `campaign_all` | `AiCampaignAll` | are tokens lost, does the cached status catch up | 744 thousand |
| `queue_races` | `AiQueueRaces` | are imports backed by exports, and does a final status stay, with two of either at the same time, retries, clean-ups, errors, crashes | 326 thousand |
| `queue_billing` | `AiQueueBilling` | the bill of concurrent imports of several scans | 476 thousand |
| `discovery` | `Discovery` | safety and liveness of a discovery | 391 thousand |
| `scan_request` | `ScanRequest` | is a scan announced once, its address erased, its cached status current, with errors, crashes and an anonymized session | 1.03 million |
| `reports` | `Reports` | is a ready report there and does it stay, do exports end, with errors and crashes | 1.25 million |
| `ai_cli` | `AiScanCli` | is an input accounted for, is a resumed scan complete, is a stale lock broken, with two runs, outputs that overwrite each other and a fault at any step | 1.47 million |

One more run, `batch_auto_update`, is expected to end in a counterexample; see
[Divergences](#divergences).

Bounds, and why they are enough:

- `batch_errors` has two scans, two jobs and two attempts: two workers are what
  the notifier's race needs, two attempts a retry next to a first attempt. The
  same invariants are proved for any number, with crashes, in `BatchScanProofs`. In
  general the bounds of a safety run matter only for finding mistakes early: every
  safety property is also a theorem (see [Proofs](#proofs)).
- `batch_live` has one scan and the real three attempts and one stall. The
  notifier's race needs two scans; it leaves a batch open, which the stale
  checker closes; `batch_auto_update` shows the race itself.
- `batch_admin` has one scan and two job ids, so that a retried scan has a
  second job while the first still runs, and one administrator request at a
  time besides the user's cancellation, the request that creates the batch and
  the stale checker; every request may be repeated without limit.
- `campaign_reserve` has four requests for two slots; the counter exists
  already and nothing is billed, because a cold counter and billing oversell
  (see below). `campaign_all` has two requests, a cold counter and two
  administrator calls: a lost update takes two writers, a stale status a reader
  between two of them.
- The queue runs have files of up to two rows, also with the same row twice.
  `queue_races` is about what happens to one scan: two exports at a time, each
  twice, two imports at a time, every other operation and fault. `queue_billing` is
  about sums over several scans: two scans, two imports at a time, an export that
  comes twice. The limits only keep the state spaces small: all these properties are
  also proved for any number of calls, with every operation.
- `discovery` has a site of one page, two users' requests at a time and three
  edits in total: all that the properties tell apart is one page that is found,
  added, removed and found again. `DiscoveryProofs` covers any site.
- `scan_request` gives each kind of job two attempts and one stall: enough to fail
  and succeed, to fail for good, and to be given up for stalling. Mails are not
  bounded: there are as many as the attempts of the scan queue. One incident of
  either kind may come at any call and hit the same job again; any number of
  readers, one at a time, fill the cache; the session may be anonymized at any moment
  after the row is there.
- `reports` has three requests, so that two can race for a report that a first
  one has left FAILED, two attempts per job, and two versions of the batch, which
  is what a report that is out of date needs. The requests are for the batch or for
  the scan, in any mixture.
- `ai_cli` has two processes, which are started again and again, two files of which
  one has no valid row, two scans of the same page in two mini-batches, one criteria
  batch, and one fault. With one file per run the first file leaves a stale
  lock behind (a run ends in `process.exit`, `cli.ts:949`, past its `finally`), so
  that two runs get past the lock together without any fault, save through one
  temporary file and write outputs of one name. With two criteria batches, where a run
  can resume in the middle of a scan, the invariants hold as well (4.4 million states,
  too many for the liveness property); the proofs are for any number of batches. The
  same holds of `OneOutput = TRUE`, where `--output` names a file: checked once (442
  thousand states), proved for both values, and `FALSE` in the run, because then inputs
  reach `processed/` also when a scan has failed.
- `CHECK_DEADLOCK FALSE` is in every config because these systems rest: a batch
  is done, nobody calls.

Every action of every next-state relation fires in the passing runs.

## Fairness

Safety runs use `Spec`. The liveness runs use `FairSpec`, which assumes what the
code's scheduling gives: a request that has begun is carried on (Node runs a
continuation once its await has settled), a worker takes waiting jobs and goes on
with the attempt it has begun, the stale checker comes back every hour, Redis
lets keys with a TTL expire. Nobody is assumed to *begin* a request. The one
strong assumption is `SF(StaleMark)` in `BatchScan`: the database does not
fail exactly during the stale checker's update every single hour; after an
error the checker starts over, so weak fairness would not be enough. Faults are
never fair. In `ScanRequest` and `Reports` BullMQ runs the jobs that wait and
carries on those it runs, keys expire, and nobody has to ask for anything, to import
or to anonymize; one condition covers the request, the attempts and all mails, or all
export requests, because each has finitely many steps. A reader need not even fill the
cache it has missed.
In `AiScanCli` cron comes back and a process that runs does its next step.

`batch_live`, `campaign_all`, `discovery`, `scan_request`, `reports` and `ai_cli` are without symmetry, which is not
sound for liveness.

## Proofs

TLAPS checks these for every value of the constants that satisfies the `ASSUME`s of
the modules (finite, non-empty sets, positive limits). Every safety property that a
passing run checks, invariant or action property, is among them.

| theorem | states |
|---|---|
| `TypeCorrect` | `TypeOK` of `BatchScan`; in particular no job is tried more often than `MaxAttempts` |
| `CompletedScansHaveResults`, `CompletedBatchesAreBacked`, `FinalCountsAgree`, `CompletedJobsCompleteScans` | the four invariants of `batch_errors`, with crashes |
| `CancellationPreservesFinished`, `FinishedBatchesStayFresh` | a cancellation and the stale checker spare what finished before their update (no run checks these) |
| `ResultsAreStoredOnce` | `BatchScan` implements `ScanLedger` |
| `CampaignTypeCorrect`, `TokensAreCountedOnce` | `TypeOK` and `UsedTokensExact` of `AiCampaign`, with every operation |
| `OversellHasACause` | every operation keeps promises and counter within the budget (`Fits`, which implies `NoOversell`) except four steps (`OversellCause`): a recount from a row that forgets a promise or a change, a lowered budget, a scan that cost more than the average |
| `ReservationsNeverOversell` | `NoOversell` in every behaviour without such a step |
| `QueueTypeCorrect` | `TypeOK` of `AiQueue` |
| `ImportsAreBacked` | `ImportsBackedByExports`, with every operation and fault |
| `CompletedScansStay` | `SettledStays`, with every operation and fault |
| `CampaignNeverOverbilled` | `NeverOverbilled`, with every operation and fault |
| `DiscoveryTypeCorrect`, `CompletedJobsAreDone` | the invariants of `discovery` |
| `LastAttemptIsNeverSeen` | no attempt counts itself as the last (no run checks this) |
| `FoundPagesAreKept`, `CancellationsStick` | its action properties |
| `AdminTypeCorrect`, `AdminCompletedScansHaveResults`, `DeletedRowsStayDeleted` | the properties of `batch_admin` |
| `ScanRequestTypeCorrect`, `AnnouncedOnce`, `AddressErasedAfterUse` | the safety properties of `scan_request` |
| `ReportTypeCorrect`, `ReadyReportsHaveFiles`, `ReadyReportsStay` | the safety properties of `reports` |
| `AiScanCliTypeCorrect`, `ProcessedFilesAccounted`, `LeftOutBatchesCached`, `NoCheckpointsLeft` | the invariants of `ai_cli` |

The arguments:

- **BatchScan.** The invariants the run checks are not inductive. `Inv1` adds to
  the types what BullMQ guarantees (`JobsOK`: exactly the active jobs have a
  call, and have attempts and stalls left). `Inv2` adds that a job is queued only when
  all rows exist (`CreationOK`), that a scan has one job (`OneJobPerScan`, which is
  what makes a processor past its commit still own a COMPLETED scan, `CallOK`),
  that only a cancellation makes a scan CANCELLED (`CancelOK`), and what makes the
  notifier's old reading good enough: `SnapOK`, the completed scans of a
  snapshot keep their results, and without a cancellation the snapshot accounts for
  every scan. Every action preserves them, one step per action.
- **BatchScanAdmin.** Administrators break most of `Inv2` (a retried scan has two
  jobs, a cancelled one may be deleted under its worker), so that its proofs start
  from less: `Base`, the types of the calls and `JobsOK`, does not mention the rows
  at all and is shared. A step of `AdminSpec` is an ordinary step of `BatchScan` on
  rows that are there (`Ordinary`), a process that finds none (`Bereft`), or an
  administrator's; for ordinary steps types and jobs follow from `NextBase`, and
  `CompletedHasResult` from the ledger step, which also needs no more than `Base`.
  `AbsentInv` says that what is deleted has left nothing behind. `failedCount` is an
  integer in `AdminTypeOK`, because two retries of the same scans subtract both.
- **ScanLedger.** `stored` is the set of scans with a result, `shown` the set
  that is COMPLETED. Only `CommitResult` changes `result`, and changes both; all
  others hide or stutter.
- **AiCampaign.** `UsedTokensExact` is inductive on top of the types because the
  database increments: the row a billing call has read does not enter the sum.
  That reservations oversell cannot be proved away, it happens as soon as a bill
  recounts the slots. What can be proved is that nothing else is to blame: `Fits` says
  that the tokens used and an average for every slot, promised or still in the counter
  (`Pool`), are within the budget, and each action keeps it unless it is one of the
  causes. A reservation moves a slot from the counter to the promises; a bill moves
  it to the tokens used; a recount that forgets nobody finds what is left.
- **AiQueue.** `BackedInv`: what was stored of a scan and what may still be stored
  without another export (`Claims`: any import may validate a DOWNLOADED scan; of
  another scan, those that have validated it already) is at most as many as imports for
  each export. A transaction of a row turns a claim into a result, and makes the scan
  COMPLETED, so that no further import can validate it. `SettledStays` needs no
  invariant but the types: every writer of `aiStatus` holds the scan in its hands
  before it writes, an import only to write COMPLETED.
  `NeverOverbilled` is inductive: only the transaction of a row adds to what an import
  has (`ImportBills`), together with a result. What it needs are facts about
  `SumFunction`: that the recursive function behind the fold exists and that one
  changed value changes the sum by as much (`SumExists`, `SumUpdate`). Both go by
  induction on the number of elements, taken from the well-foundedness of the
  naturals for a set of numbers (`AllNumbers`), without a theorem about predicates.
- **Discovery.** `JobInv` ties job, attempt and request together, `DoneInv` says
  what the status is from the worker's COMPLETED onwards, and `RemoveInv` that a
  removal holds an id that is not the id of a found page: ids grow, so a row the
  worker makes after the look is never the one removed.
- **ScanRequest.** `AnnounceInv`: an attempt that is about to commit has seen no
  result, one that is past its commit has one and is alone, and a completion mail in
  the queue means that there is a result and nobody is about to announce it. So the
  second mail would need a second commit, which the look at the row excludes.
  `MailInv` ties each mail job to its processor: it is about to erase only after
  it has sent, and is failed only after its last attempt; a mail that was sent or
  has failed stays so (`Kept`). `TakesAddress` are the steps of a mail that can take
  the address, of an attempt that succeeds, breaks off or dies after the erasing:
  every other step but `AnonymizeSession` leaves the address alone (`Actions`).
- **Reports.** `CopyInv`: what an attempt has read, and what is stored, is no older than
  the row's `since`, and the row is written only after the file. Its base case needs
  `FirstInv`, that nothing of the batch was made before its first row. `ReadyStays`
  follows from `JobInv`: with no request and no job under way, the steps that write
  the row have nobody to take them.
- **AiScanCli.** The state of a run is described by where it is: `RunInv` (which file,
  mini-batch and scan it has), `AccountInv` (each scan of the mini-batches behind it
  is among its results, its failures or the work left; when it comes to move the file
  these have been written and cover all its rows), `CacheInv` (unless a call failed, a
  batch that a checkpoint or its temporary file has is in the cache, and one that is
  skipped or passed over is there or in the result), `CheckpointInv`
  (without faults, a saved checkpoint belongs to a run that is about to clear it).
  Each action has an effect lemma for the one run it moves (`OnlyRun`), and the other
  runs keep theirs because the cache only grows, and so does what was ever written:
  an overwritten row goes from the outputs to `lost`, so that `ResultWritten` and
  `FailureWritten` lose nothing. That two runs may work on one file needs no case of
  its own: nothing in the invariant mentions the lock.

Only model-checked: liveness (`JobsEnd`, `BatchSettles`, `StatusCatchesUp`,
`JobEnds`, `CacheCatchesUp`, `AddressErased`, `CompletedIsMailed`, `ExportsSettle`,
`FilesAreTakenUp`), which needs fairness and ENABLED, out of the reach of these
provers. No module has a RECURSIVE operator. Each inductive invariant was an
invariant of the module's run before it was proved.

## Divergences

One run refutes a sentence of the source:

- `batch_auto_update` - "System shall auto-update batch status when all scans
  complete" (`batch-status.service.ts:9`). Two workers finish together; the
  notifier that counted one scan as open writes RUNNING over the COMPLETED of
  the other. The batch stays RUNNING until it becomes STALE.

The models contain more behaviour that the source does not describe, or describes
otherwise. It is listed here for the reader; each follows from the mapped actions.

Batches:

- `cancelBatch` removes jobs by the id `scan-<id>` (`batch.service.ts:1087`), which
  no job has: the worker still runs a cancelled scan and overwrites CANCELLED
  (requirement 7.2, line 954).
- A batch FAILED by a first attempt stays FAILED when the second attempt
  completes the scan: the notifier leaves final batches alone. The same holds
  after `retryFailedScans`, and a queue error there leaves the reset scans
  PENDING without a job (`batch-admin.service.ts:1029`).
- `createBatch` may set RUNNING over the final status of a fast worker
  (`batch.service.ts:341`).
- `retryScan` queues first and writes PENDING afterwards, over whatever the new
  job wrote (`scan-admin.service.ts:521`); two `retryFailedScans` at once can make
  `failedCount` negative (`batch-admin.service.ts:1007`).

AI campaign and queue:

- The reservation "prevents race conditions" (`ai-campaign.service.ts:434`), but
  `deductTokens` sets the counter to what `usedTokens` leaves: reservations that are
  not billed yet do not count and their slots are given away again. `NoOversell`
  fails as soon as imports take part, and with two cold initialisations
  (`OversellHasACause` names the steps that can make it fail).
- A slot taken for a scan that is never created (`scan.service.ts:156`) is never
  released ("the slot is automatically released", `ai-campaign.service.ts:438`:
  `releaseSlot` has no caller, and the key that expires is not the counter); a
  paused campaign still grants slots and cannot be resumed, because
  `getActiveCampaign` does not find it (`ai-campaign.controller.ts:491`).
- Invalidation does not ensure "consistency across the system"
  (`ai-campaign.service.ts:857`): a reader stores the old status after it. It lasts
  until the key expires, which is what `StatusCatchesUp` says.
- "Only import for scans with aiEnabled=true and aiStatus=DOWNLOADED"
  (`ai-queue.service.ts:238`): two imports of one file both validate a row before
  either commits, and results, mails and bills are doubled. `ImportsBackedByExports`
  says by how much at most: by the number of imports at the same time.
- Two exports at once hand out the same scans and can take COMPLETED back to
  DOWNLOADED (`ai-queue.service.ts:91`, `:173`), and so can a clean-up (to FAILED);
  `SettledStays` says that only a call can that found the scan before; an import that dies, or in
  which every scan also has a row with an error, is not billed (`:1173`, `:1330`); a scan that is
  imported before its page scan is done loses its verifications (`:724`), and it is
  exported as soon as it is AI-PENDING (`:110`).

Discovery:

- "mark as FAILED" after the last attempt (`discovery.worker.ts:1903`):
  `attemptsMade` is 0, 1, 2 in the three attempts and is compared with 3. The
  branch is dead (`LastAttemptIsNeverSeen`) and a discovery whose attempts all fail
  stays PENDING or RUNNING. So does one whose job the queue refused
  (`discovery.service.ts:254`).

Scan, status and e-mail:

- Of a failed scan with AI the address stays for ever: the scan_failed mail
  leaves the erasing to an AI mail that will not come. A mail job that is
  given up for stalling has attempts left, so that its handler takes it for one
  that will be retried and keeps the address (`send-email.processor.ts:178`).
  `AddressErased` is stated for the other cases.
- Addresses also live in the cached status, in the data of mail jobs that failed
  (`removeOnFail: false`), and, for a batch, in the row of every scan
  (`batch.service.ts:276`), of which the batch mail erases only the batch's.
- Every failing attempt queues a scan_failed mail, also when the result was
  committed before the attempt failed; a retry after the sending sends twice.
- `createScan`'s PENDING and a reader's old row can overwrite a newer cached status for
  up to 24 hours, and Redis is told COMPLETED inside the transaction, before it
  commits.

Reports:

- The `attempts: 3` of a batch report are hardly ever used: the catch block turns the
  failure into FAILED and returns (`batch-report.job.ts:434`).
- An export whose job was not queued (`batch-export.service.ts:281`), or whose job
  was given up for stalling, is "generating" for ever: nothing resets a PENDING row.
- A finished report is served also after the batch has been run again; an
  administrator may export a batch that is not finished, and that report is what
  guests get later. `expiresAt` is not looked at.
- Asking for a scan's report while it is made queues another job and ends in several
  rows for one file. Overlapping exports of a batch can take a ready
  report away again (`ReadyStays` says: only overlapping ones).
- `anonymizeSession` deletes the scan reports it has found before
  (`session.service.ts:117`), not those listed meanwhile, not the batch's reports or
  address; no file is ever deleted from storage. It erases a scan's address also
  before any mail was sent (`:142`), the one exception in `ErasedAfterUse`; the mails
  queued with the address in their data are sent all the same.

ai-scan-cli:

- The lock does not "prevent race conditions" (`lock-manager.ts:20`): a run that has read
  a stale lock unlinks whatever lock is there when it gets to it. Two runs then work on
  one file; `ProcessedIsAccounted` and `NoCheckpointLeftBehind` hold even so. A normal
  end leaves the lock behind (`cli.ts:949`), and a lock file that was created and not
  yet written blocks every later run.
- A resumed scan returns only the batches of the last run: what the checkpoint
  already has is skipped and not read back from the cache
  (`criteria-batch-processor.ts:1026`), although resumption is what the
  checkpoints are for (`tools/ai-scan-cli/README.md:244`).
- The "atomic write" of a checkpoint (`criteria-checkpoint-manager.ts:298`) uses one
  temporary file for all runs: of two that start a scan together, the second rename
  throws, and the scan is returned without any verification
  (`mini-batch-processor.ts:629`). It happens without any fault; `LeftOutIsCached` is
  about the results whose verification came to its end.
- Outputs overwrite each other (`csv-writer.ts:239`, `:347`). A list of failed scans has only
  the second in its name, so that two inputs, or two runs, that end in the same second
  leave one list; the same input done by two runs in one second leaves one result file;
  an `--output` that names a file is overwritten by each input of a directory. The
  inputs are in `processed/` all the same. With such an `--output` an input of which a
  scan has failed ends in `failed/`, because the list is to be written to a directory
  of that name. `ProcessedIsAccounted` excepts the rows that were overwritten (`lost`,
  `failedLost`), which TLC reaches without any fault.
- `--resume` finds no checkpoint in single-file mode, because nothing
  calls `initCheckpoint` there.

## Not modelled

- **Browser pool, page scanner** (`worker/src/utils/browser-pool.ts`): the deployed
  worker registers `processScanPage`, which invents its issues, and never opens a
  browser. Once it is wired in, a model would find: concurrent acquisitions exceed
  `maxInstances` (compared before the launch is awaited, `:133`), a waiter that
  times out leaks the page it is served, `newPage` throws with both counters raised
  (`:265`), and recycling closes a browser that others still use.
- **Rate limit and usage quota** (`rate-limit.ts:222`, `discovery.service.ts:207`): count
  read, compared and incremented in separate calls, the window prolonged by every
  request, and open on any error. Concurrent requests overshoot by their number,
  which needs no exploration.
- **The batch_complete mail, batch status cache, progress keys**: written next to the
  modelled rows; one writer, read by polling clients only.
- **Coverage numbers and result formatting**: pure functions without state.
- **ai-scan-cli in single-file mode**, its prompts and parsers; the seven-day life of
  its cache entries.
- **Parsing and rendering** (sitemaps, HTML, CSV, PDF, e-mail templates): pure
  functions of their input.
- **Admin accounts, dashboard, audit log, customers, reCAPTCHA, making of sessions**:
  single-row CRUD, aggregates and calls to external services.
- **Web application, shared package, infrastructure scripts**: no state of the
  service.

## Plan

Done, in this order: `BatchScan` with `ScanLedger` and proofs; `BatchScanAdmin`;
`AiCampaign` and proofs; `AiQueue` and proofs; `Discovery` and proofs; `ScanRequest`;
`AiScanCli`; `Reports`; proofs about `Reports`, `ScanRequest`, `BatchScanAdmin`,
`AiScanCli`, and the bill of `AiQueue`.

Next:

1. More about `AiQueue`: a mail needs a result (`mails` never exceeds `imported`); an
   abstract ledger of exports and results that the queue implements.
2. `AiCampaign` with billing: by how much concurrent imports can oversell, now that
   what can make them oversell is known.
3. Composition: `AiQueue` with the page scan of `BatchScan`, for exports that come
   before the result; `AiCampaign` with `AiQueue` for bills.
