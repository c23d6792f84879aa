------------------------------ MODULE BatchScan ------------------------------
(***************************************************************************)
(* The life of one batch of page scans: the API request that creates it    *)
(* (batch.service.ts createBatch), the BullMQ queue that carries one job   *)
(* per scan, the worker that runs the jobs (scan-page.processor.ts), the   *)
(* notifier every job calls when it ends (batch-status.service.ts), the    *)
(* user's cancellation (batch.service.ts cancelBatch) and the hourly stale *)
(* checker (batch-stale-checker.job.ts).                                   *)
(*                                                                         *)
(* Every Prisma call outside a $transaction is a step of its own; what a   *)
(* process remembers between two calls is in its record (worker, cancel,   *)
(* stale), so that the interleavings of the code are those of the model.   *)
(***************************************************************************)
EXTENDS Naturals, FiniteSets

CONSTANTS
    Scans,        \* the scan rows the batch is made of (one per URL)
    Jobs,         \* BullMQ job ids the queue may hand out
    NoScan,       \* the payload of a job id that was not handed out yet
    MaxAttempts,  \* `attempts` of the scan-page queue (3)
    MaxStalled,   \* BullMQ's maxStalledCount (1: the default, not overridden)
    Faults        \* the faults the environment may inject: "error", "crash"

ASSUME ScansFinite == IsFiniteSet(Scans) /\ Scans # {}
ASSUME NoScanIsNoScan == NoScan \notin Scans
ASSUME LimitsAreNumbers == MaxAttempts \in Nat \ {0} /\ MaxStalled \in Nat
ASSUME FaultsKnown == Faults \subseteq {"error", "crash"}

VARIABLES
    scan,     \* scan[s]: status column of the row, "ABSENT" before it exists
    result,   \* result[s]: the row has a ScanResult (scanId is @unique)
    batch,    \* the BatchScan row
    job,      \* job[j]: the BullMQ job
    worker,   \* worker[j]: the processor call that runs job j
    api,      \* the createBatch request
    cancel,   \* the cancelBatch requests, one at a time
    stale     \* the stale checker, and whether the batch is 24 hours old

vars == <<scan, result, batch, job, worker, api, cancel, stale>>

(* Row and process types *)

ScanStatus == {"PENDING", "RUNNING", "COMPLETED", "FAILED", "CANCELLED"}
BatchStatus == ScanStatus \union {"STALE"}

\* The states in which notifyScanComplete leaves the batch alone.
FinalStatus == {"COMPLETED", "FAILED", "CANCELLED"}
\* The states cancelBatch accepts and the stale checker looks for.
OpenStatus == {"PENDING", "RUNNING"}

\* `counted` stands for the aggregate columns: the scans whose statistics
\* calculateAggregateStats has added up.
BatchRow == [status : BatchStatus \union {"ABSENT"}, completedCount : Nat,
             failedCount : Nat, counted : SUBSET Scans]

JobRow == [state : {"none", "waiting", "active", "completed", "failed"},
           scan : Scans \union {NoScan}, made : 0..MaxAttempts,
           stalled : 0..(MaxStalled + 1)]

\* What findMany tells the notifier about the scans of the batch.
Snapshot == [completed : SUBSET Scans, failed : SUBSET Scans,
             pending : SUBSET Scans, counted : SUBSET Scans]
NoSnapshot == [completed |-> {}, failed |-> {}, pending |-> {}, counted |-> {}]

WorkerPc == {"idle", "load", "run", "committed", "catch",
             "notify", "count", "write", "end"}
\* `ok`: the processor is on its success path and will return normally.
WorkerCall == [pc : WorkerPc, ok : BOOLEAN, snap : Snapshot]
IdleWorker == [pc |-> "idle", ok |-> TRUE, snap |-> NoSnapshot]

ApiCall == [pc : {"start", "scans", "queue", "done", "aborted"},
            todo : SUBSET Scans]
CancelCall == [pc : {"idle", "checked", "read", "marked"}, todo : SUBSET Scans,
               used : BOOLEAN]
StaleCall == [pc : {"idle", "found"}, aged : BOOLEAN]

TypeOK ==
    /\ scan \in [Scans -> ScanStatus \union {"ABSENT"}]
    /\ result \in [Scans -> BOOLEAN]
    /\ batch \in BatchRow
    /\ job \in [Jobs -> JobRow]
    /\ worker \in [Jobs -> WorkerCall]
    /\ api \in ApiCall
    /\ cancel \in CancelCall
    /\ stale \in StaleCall

Init ==
    /\ scan = [s \in Scans |-> "ABSENT"]
    /\ result = [s \in Scans |-> FALSE]
    /\ batch = [status |-> "ABSENT", completedCount |-> 0, failedCount |-> 0,
                counted |-> {}]
    /\ job = [j \in Jobs |-> [state |-> "none", scan |-> NoScan, made |-> 0,
                              stalled |-> 0]]
    /\ worker = [j \in Jobs |-> IdleWorker]
    /\ api = [pc |-> "start", todo |-> {}]
    /\ cancel = [pc |-> "idle", todo |-> {}, used |-> FALSE]
    /\ stale = [pc |-> "idle", aged |-> FALSE]

(***************************************************************************)
(* createBatch                                                             *)
(***************************************************************************)

\* The BatchScan row, PENDING.
CreateBatchRow ==
    /\ api.pc = "start"
    /\ batch' = [batch EXCEPT !.status = "PENDING"]
    /\ api' = [pc |-> "scans", todo |-> Scans]
    /\ UNCHANGED <<scan, result, job, worker, cancel, stale>>

\* One Scan row; after the last one the request turns to the queue.
CreateScanRow(s) ==
    /\ api.pc = "scans"
    /\ s \in api.todo
    /\ scan' = [scan EXCEPT ![s] = "PENDING"]
    /\ api' = IF api.todo = {s} THEN [pc |-> "queue", todo |-> Scans]
                                ELSE [api EXCEPT !.todo = @ \ {s}]
    /\ UNCHANGED <<result, batch, job, worker, cancel, stale>>

\* addScanJob: the id is BullMQ's; `scan-<scanId>` is only the job's name.
AddScanJob(s) ==
    \E j \in Jobs :
        /\ job[j].state = "none"
        /\ job' = [job EXCEPT ![j] = [state |-> "waiting", scan |-> s,
                                      made |-> 0, stalled |-> 0]]

\* An error of the queue is logged and the scan is left without a job.
QueueScan(s) ==
    /\ api.pc = "queue"
    /\ s \in api.todo
    /\ \/ AddScanJob(s)
       \/ "error" \in Faults /\ UNCHANGED job
    /\ api' = [api EXCEPT !.todo = @ \ {s}]
    /\ UNCHANGED <<scan, result, batch, worker, cancel, stale>>

\* updateBatchStatus(id, 'RUNNING'): the row's present status is not looked at.
SetBatchRunning ==
    /\ api.pc = "queue"
    /\ api.todo = {}
    /\ batch' = [batch EXCEPT !.status = "RUNNING"]
    /\ api' = [api EXCEPT !.pc = "done"]
    /\ UNCHANGED <<scan, result, job, worker, cancel, stale>>

\* CREATE_FAILED, or the API process dies: what was written stays.
AbortCreate ==
    /\ api.pc \in {"scans", "queue"}
    /\ Faults # {}
    /\ api' = [pc |-> "aborted", todo |-> {}]
    /\ UNCHANGED <<scan, result, batch, job, worker, cancel, stale>>

Create ==
    \/ CreateBatchRow
    \/ \E s \in Scans : CreateScanRow(s) \/ QueueScan(s)
    \/ SetBatchRunning

(***************************************************************************)
(* processScanPage: one call per attempt of a job                          *)
(***************************************************************************)

Goto(j, pc) == worker' = [worker EXCEPT ![j].pc = pc]

\* The notifier is left, and what it has read with it.
Return(j) == worker' = [worker EXCEPT ![j].pc = "end", ![j].snap = NoSnapshot]

\* BullMQ hands a waiting job to a worker.
Claim(j) ==
    /\ job[j].state = "waiting"
    /\ job' = [job EXCEPT ![j].state = "active"]
    /\ worker' = [worker EXCEPT ![j] = [IdleWorker EXCEPT !.pc = "load"]]
    /\ UNCHANGED <<scan, result, batch, api, cancel, stale>>

\* The scan is set RUNNING whatever its status was.
StartScan(j) ==
    /\ worker[j].pc = "load"
    /\ scan' = [scan EXCEPT ![job[j].scan] = "RUNNING"]
    /\ Goto(j, "run")
    /\ UNCHANGED <<result, batch, job, api, cancel, stale>>

\* Faulty variant: the status is written before, and without, the result.
CommitStatusOnly(j) ==
    /\ worker[j].pc = "run"
    /\ ~result[job[j].scan]
    /\ scan' = [scan EXCEPT ![job[j].scan] = "COMPLETED"]
    /\ Goto(j, "committed")
    /\ UNCHANGED <<result, batch, job, api, cancel, stale>>

\* Faulty variant: the result is created outside the transaction that sets the
\* status.
CommitResultOnly(j) ==
    /\ worker[j].pc = "run"
    /\ ~result[job[j].scan]
    /\ result' = [result EXCEPT ![job[j].scan] = TRUE]
    /\ Goto(j, "committed")
    /\ UNCHANGED <<scan, batch, job, api, cancel, stale>>

\* The $transaction: ScanResult and issues created, scan COMPLETED.
CommitResult(j) ==
    LET s == job[j].scan IN
    /\ worker[j].pc = "run"
    /\ ~result[s]
    /\ result' = [result EXCEPT ![s] = TRUE]
    /\ scan' = [scan EXCEPT ![s] = "COMPLETED"]
    /\ Goto(j, "committed")
    /\ UNCHANGED <<batch, job, api, cancel, stale>>

\* The unique index on scan_results.scanId rejects a second result.
DuplicateResult(j) ==
    /\ worker[j].pc = "run"
    /\ result[job[j].scan]
    /\ Goto(j, "catch")
    /\ UNCHANGED <<scan, result, batch, job, api, cancel, stale>>

\* Database, Redis or fetch error inside the try block, before or after the
\* transaction.
Throw(j) ==
    /\ "error" \in Faults
    /\ worker[j].pc \in {"load", "run", "committed"}
    /\ Goto(j, "catch")
    /\ UNCHANGED <<scan, result, batch, job, api, cancel, stale>>

\* updateProgress(100) and the RESULT event went well: notify COMPLETED.
AfterCommit(j) ==
    /\ worker[j].pc = "committed"
    /\ Goto(j, "notify")
    /\ UNCHANGED <<scan, result, batch, job, api, cancel, stale>>

\* The catch block: FAILED whatever the status was, then notify FAILED.
RecordFailure(j) ==
    /\ worker[j].pc = "catch"
    /\ scan' = [scan EXCEPT ![job[j].scan] = "FAILED"]
    /\ worker' = [worker EXCEPT ![j].pc = "notify", ![j].ok = FALSE]
    /\ UNCHANGED <<result, batch, job, api, cancel, stale>>

\* The catch block itself throws: at the scan update, or at the Redis write
\* after it.  The notifier is not called.
FailureLost(j) ==
    /\ "error" \in Faults
    /\ worker[j].pc = "catch"
    /\ scan' \in {scan, [scan EXCEPT ![job[j].scan] = "FAILED"]}
    /\ worker' = [worker EXCEPT ![j].pc = "end", ![j].ok = FALSE]
    /\ UNCHANGED <<result, batch, job, api, cancel, stale>>

(* notifyScanComplete: three database calls, no transaction *)

ReadBatch(j) ==
    /\ worker[j].pc = "notify"
    /\ Goto(j, IF batch.status \in FinalStatus THEN "end" ELSE "count")
    /\ UNCHANGED <<scan, result, batch, job, api, cancel, stale>>

Having(S) == {s \in Scans : scan[s] \in S}

\* findMany, and the counting of what it returned.
Count(j, open) ==
    /\ worker[j].pc = "count"
    /\ worker' = [worker EXCEPT ![j].pc = "write",
          ![j].snap = [completed |-> Having({"COMPLETED"}),
                       failed    |-> Having({"FAILED"}),
                       pending   |-> Having(open),
                       counted   |-> {s \in Having({"COMPLETED"}) : result[s]}]]
    /\ UNCHANGED <<scan, result, batch, job, api, cancel, stale>>

\* Faulty variant: a RUNNING scan does not count as pending.
CountScansPendingOnly(j) == Count(j, {"PENDING"})

CountScans(j) == Count(j, OpenStatus)

\* Scans still open: counters refreshed, status forced to RUNNING.
WriteProgress(j) ==
    LET snap == worker[j].snap IN
    /\ worker[j].pc = "write"
    /\ snap.pending # {}
    /\ batch' = [batch EXCEPT !.status = "RUNNING",
                              !.completedCount = Cardinality(snap.completed),
                              !.failedCount = Cardinality(snap.failed)]
    /\ Return(j)
    /\ UNCHANGED <<scan, result, job, api, cancel, stale>>

\* No scan open: final status, counters and aggregates.
WriteFinal(j) ==
    LET snap == worker[j].snap IN
    /\ worker[j].pc = "write"
    /\ snap.pending = {}
    /\ batch' = [status |-> IF snap.failed # {} THEN "FAILED" ELSE "COMPLETED",
                 completedCount |-> Cardinality(snap.completed),
                 failedCount |-> Cardinality(snap.failed),
                 counted |-> snap.counted]
    /\ Return(j)
    /\ UNCHANGED <<scan, result, job, api, cancel, stale>>

\* An error of the notifier is swallowed by the processor.
NotifyError(j) ==
    /\ "error" \in Faults
    /\ worker[j].pc \in {"notify", "count", "write"}
    /\ Return(j)
    /\ UNCHANGED <<scan, result, batch, job, api, cancel, stale>>

(* How BullMQ closes an attempt *)

Close(j, made, again) ==
    /\ worker[j].pc = "end"
    /\ job' = [job EXCEPT ![j] =
          IF worker[j].ok THEN [@ EXCEPT !.state = "completed"]
          ELSE [@ EXCEPT !.made = made,
                         !.state = IF again THEN "waiting" ELSE "failed"]]
    /\ worker' = [worker EXCEPT ![j] = IdleWorker]
    /\ UNCHANGED <<scan, result, batch, api, cancel, stale>>

\* Faulty variants: no limit on the attempts; attempts that are not counted.
EndAttemptUnlimited(j) == Close(j, job[j].made + 1, TRUE)
EndAttemptUncounted(j) == Close(j, job[j].made, job[j].made + 1 < MaxAttempts)

\* The processor returned, or threw: another attempt while there are some left.
EndAttempt(j) == Close(j, job[j].made + 1, job[j].made + 1 < MaxAttempts)

\* The worker process dies: the job stalls and is run again, until it has
\* stalled more than MaxStalled times.
Crash(j) ==
    /\ "crash" \in Faults
    /\ worker[j].pc # "idle"
    /\ job' = [job EXCEPT ![j].stalled = @ + 1,
                          ![j].state = IF job[j].stalled < MaxStalled
                                       THEN "waiting" ELSE "failed"]
    /\ worker' = [worker EXCEPT ![j] = IdleWorker]
    /\ UNCHANGED <<scan, result, batch, api, cancel, stale>>

Work(j) ==
    \/ Claim(j) \/ StartScan(j) \/ CommitResult(j) \/ DuplicateResult(j)
    \/ AfterCommit(j) \/ RecordFailure(j)
    \/ ReadBatch(j) \/ CountScans(j) \/ WriteProgress(j) \/ WriteFinal(j)
    \/ EndAttempt(j)

WorkFault(j) == Throw(j) \/ FailureLost(j) \/ NotifyError(j) \/ Crash(j)

(***************************************************************************)
(* cancelBatch                                                             *)
(***************************************************************************)

CancelCheck ==
    /\ cancel.pc = "idle"
    /\ batch.status \in OpenStatus
    /\ cancel' = [cancel EXCEPT !.pc = "checked", !.used = TRUE]
    /\ UNCHANGED <<scan, result, batch, job, worker, api, stale>>

CancelRead ==
    /\ cancel.pc = "checked"
    /\ cancel' = [cancel EXCEPT !.pc = "read",
                      !.todo = {s \in Scans : scan[s] \in OpenStatus}]
    /\ UNCHANGED <<scan, result, batch, job, worker, api, stale>>

CancelIn(open) ==
    /\ cancel.pc = "read"
    /\ \/ scan' = [s \in Scans |-> IF s \in cancel.todo /\ scan[s] \in open
                                   THEN "CANCELLED" ELSE scan[s]]
       \/ "error" \in Faults /\ UNCHANGED scan
    /\ cancel' = [cancel EXCEPT !.pc = "marked"]
    /\ UNCHANGED <<result, batch, job, worker, api, stale>>

\* Faulty variant: updateMany by id only.
CancelScansById == CancelIn(ScanStatus)

\* updateMany with a status filter; an error of it is caught and counted as
\* failedToCancel, and the request goes on.
CancelScans == CancelIn(OpenStatus)

\* removeJob('scan-<id>') looks up a job *id*, finds none and returns false:
\* the jobs stay queued.  Then the batch is CANCELLED, whatever it is by now.
CancelBatchRow ==
    /\ cancel.pc = "marked"
    /\ batch' = [batch EXCEPT !.status = "CANCELLED"]
    /\ cancel' = [cancel EXCEPT !.pc = "idle", !.todo = {}]
    /\ UNCHANGED <<scan, result, job, worker, api, stale>>

\* CANCEL_FAILED, or the API process dies.
AbortCancel ==
    /\ cancel.pc # "idle"
    /\ Faults # {}
    /\ cancel' = [cancel EXCEPT !.pc = "idle", !.todo = {}]
    /\ UNCHANGED <<scan, result, batch, job, worker, api, stale>>

Cancel == CancelCheck \/ CancelRead \/ CancelScans \/ CancelBatchRow

(***************************************************************************)
(* markStaleBatches                                                        *)
(***************************************************************************)

\* 24 hours pass since createdAt; no request lasts that long.
BatchAges ==
    /\ ~stale.aged
    /\ api.pc \in {"done", "aborted"}
    /\ stale' = [stale EXCEPT !.aged = TRUE]
    /\ UNCHANGED <<scan, result, batch, job, worker, api, cancel>>

FindStale(open) ==
    /\ stale.pc = "idle"
    /\ stale.aged
    /\ batch.status \in open
    /\ stale' = [stale EXCEPT !.pc = "found"]
    /\ UNCHANGED <<scan, result, batch, job, worker, api, cancel>>

\* Faulty variants: only one of the two open states is looked for.
StaleFindRunning == FindStale({"RUNNING"})
StaleFindPending == FindStale({"PENDING"})

StaleFind == FindStale(OpenStatus)

MarkStale(open) ==
    /\ stale.pc = "found"
    /\ batch' = IF batch.status \in open
                THEN [batch EXCEPT !.status = "STALE"] ELSE batch
    /\ stale' = [stale EXCEPT !.pc = "idle"]
    /\ UNCHANGED <<scan, result, job, worker, api, cancel>>

\* updateMany filters on the status again.
StaleMark == MarkStale(OpenStatus)

\* The error is logged; the next hour's run starts over.
StaleError ==
    /\ "error" \in Faults
    /\ stale.pc = "found"
    /\ stale' = [stale EXCEPT !.pc = "idle"]
    /\ UNCHANGED <<scan, result, batch, job, worker, api, cancel>>

CheckStale == BatchAges \/ StaleFind \/ StaleMark

(***************************************************************************)
(* Specification                                                           *)
(***************************************************************************)

Next ==
    \/ Create \/ AbortCreate
    \/ \E j \in Jobs : Work(j) \/ WorkFault(j)
    \/ Cancel \/ AbortCancel
    \/ CheckStale \/ StaleError

Spec == Init /\ [][Next]_vars

\* The request handler, the workers and the hourly timer keep running; a
\* database error does not hit the stale checker every hour for ever.
Fairness ==
    /\ WF_vars(Create)
    /\ \A j \in Jobs : WF_vars(Work(j))
    /\ WF_vars(CancelRead) /\ WF_vars(CancelScans) /\ WF_vars(CancelBatchRow)
    /\ WF_vars(BatchAges) /\ WF_vars(StaleFind) /\ SF_vars(StaleMark)

FairSpec == Spec /\ Fairness

(***************************************************************************)
(* Safety                                                                  *)
(***************************************************************************)

\* A scan is shown COMPLETED only with a result behind it: retries, crashes
\* and failures after the commit never separate the two
\* (scan-page.processor.ts, the $transaction).
CompletedHasResult ==
    \A s \in Scans : scan[s] = "COMPLETED" => result[s]

\* Unless someone asked for a cancellation, a COMPLETED batch has a result for
\* every one of its scans, however old the notifier's reading was when it
\* wrote the final status (notifyScanComplete).
CompletedBatchIsBacked ==
    batch.status = "COMPLETED" /\ ~cancel.used => \A s \in Scans : result[s]

\* The counters and aggregates of a finished batch come from one reading of
\* its scans: they add up to totalUrls, the failure count agrees with the
\* status, and the aggregates cover exactly the completed scans
\* (notifyScanComplete, calculateAggregateStats).
FinalCountsAddUp ==
    batch.status \in {"COMPLETED", "FAILED"} =>
        /\ ~cancel.used =>
              batch.completedCount + batch.failedCount = Cardinality(Scans)
        /\ batch.status = "FAILED" <=> batch.failedCount > 0
        /\ Cardinality(batch.counted) = batch.completedCount

\* The queue reports a job completed only for a scan that is COMPLETED, and
\* nothing the other actors do afterwards changes that (the status filter of
\* cancelBatch's updateMany).
CompletedJobCompletedScan ==
    \A j \in Jobs : job[j].state = "completed" => scan[job[j].scan] = "COMPLETED"

\* Requirement 7.3: a cancellation preserves finished scans, also those that
\* finish between its reading of the scans and its update.
CancelPreservesFinished ==
    [][\A s \in Scans : scan[s] \in {"COMPLETED", "FAILED"} => scan'[s] # "CANCELLED"]_vars

\* The stale checker never takes a finished or cancelled batch, also when the
\* batch finishes between its query and its update.
FinishedNeverStale ==
    [][batch.status \in FinalStatus => batch'.status # "STALE"]_vars

(***************************************************************************)
(* Refinement                                                              *)
(***************************************************************************)

Ledger == INSTANCE ScanLedger
            WITH stored <- {s \in Scans : result[s]},
                 shown  <- {s \in Scans : scan[s] = "COMPLETED"}

\* The batch machinery implements the ledger of scan results: a result is
\* stored once, with the status COMPLETED and never afterwards, and never lost
\* (the $transaction of processScanPage and the unique index it relies on).
ResultStoredOnce == Ledger!Spec

(***************************************************************************)
(* Liveness, under FairSpec                                                *)
(***************************************************************************)

\* Every queued job comes to an end: completed, or failed for good.
JobsEnd ==
    \A j \in Jobs : job[j].state = "waiting" ~> job[j].state \in {"completed", "failed"}

\* A batch does not stay PENDING or RUNNING for ever: what the notifier, an
\* aborted creation or a lost update leaves open, the stale checker closes.
BatchSettles == <>[](batch.status \in FinalStatus \union {"STALE"})

(***************************************************************************)
(* What a requirement quoted in the source says and the code does not do    *)
(* (the run batch_auto_update is expected to find it violated)             *)
(***************************************************************************)

\* Requirement 2.5 (batch-status.service.ts:9): the batch becomes COMPLETED
\* once all its scans are, unless a cancellation interferes.
AutoUpdate ==
    (\A s \in Scans : scan[s] = "COMPLETED")
        ~> (batch.status = "COMPLETED" \/ cancel.used)

=============================================================================
