--------------------------- MODULE BatchScanAdmin ---------------------------
(***************************************************************************)
(* The batch of BatchScan with administrators at work on it: cancelBatch,  *)
(* deleteBatch and retryFailedScans of batch-admin.service.ts, deleteScan  *)
(* and retryScan of scan-admin.service.ts.  Rows can now disappear under a *)
(* process that is about to update them, and a scan can have two jobs.     *)
(*                                                                         *)
(* The admin transactions run at PostgreSQL's READ COMMITTED: what one     *)
(* reads is a step of its own, its writes become visible together when it  *)
(* commits, and a WHERE clause is evaluated again on the rows as they are  *)
(* then.  An `update` or `delete` of a missing row throws.                 *)
(***************************************************************************)
EXTENDS BatchScan, Integers

CONSTANTS
    Admins,     \* the requests the administrators make, one at a time each
    Ops         \* what they and the environment may do in a run, see AllOps

AllOps == {"userCancel", "aging", "cancelBatch", "deleteBatch", "deleteScan",
           "retryFailedScans", "retryScan"}

ASSUME OpsKnown == Ops \subseteq AllOps

VARIABLE admin    \* admin[a]: the request, and the scans it has read

adminVars == <<vars, admin>>

AdminPc == {"idle", "cancelChecked", "cancelRead", "retryRead", "retryQueue",
            "deleteRead", "scanRead", "scanQueued"}
AdminCall == [pc : AdminPc, todo : SUBSET Scans]
IdleAdmin == [pc |-> "idle", todo |-> {}]

\* Two retries that read the same FAILED scans both subtract them: failedCount
\* can leave the naturals.
RetriedBatchRow == [status : BatchStatus \union {"ABSENT"}, completedCount : Nat,
                    failedCount : Int, counted : SUBSET Scans]

AdminTypeOK ==
    /\ scan \in [Scans -> ScanStatus \union {"ABSENT"}]
    /\ result \in [Scans -> BOOLEAN]
    /\ batch \in RetriedBatchRow
    /\ job \in [Jobs -> JobRow]
    /\ worker \in [Jobs -> WorkerCall]
    /\ api \in ApiCall /\ cancel \in CancelCall /\ stale \in StaleCall
    /\ admin \in [Admins -> AdminCall]

AdminInit == Init /\ admin = [a \in Admins |-> IdleAdmin]

BatchThere == batch.status # "ABSENT"
RowThere(j) == job[j].scan \in Scans /\ scan[job[j].scan] # "ABSENT"

(***************************************************************************)
(* The processes of BatchScan, on rows that may be gone                    *)
(***************************************************************************)

\* The foreign key of a new scan and the update of the batch need its row.
CreateOn ==
    /\ \/ CreateBatchRow
       \/ \E s \in Scans : (BatchThere /\ CreateScanRow(s)) \/ QueueScan(s)
       \/ BatchThere /\ SetBatchRunning
    /\ UNCHANGED admin

CreateFails ==
    /\ \/ api.pc = "scans"
       \/ api.pc = "queue" /\ api.todo = {}
    /\ ~BatchThere
    /\ api' = [pc |-> "aborted", todo |-> {}]
    /\ UNCHANGED <<scan, result, batch, job, worker, cancel, stale, admin>>

\* Faulty variant: the catch block writes with upsert.
RowGoneUpsert(j) ==
    /\ ~RowThere(j)
    /\ \/ worker[j].pc \in {"load", "run"} /\ Goto(j, "catch") /\ UNCHANGED scan
       \/ /\ worker[j].pc = "catch"
          /\ scan' = [scan EXCEPT ![job[j].scan] = "FAILED"]
          /\ worker' = [worker EXCEPT ![j].pc = "end", ![j].ok = FALSE]
       \/ worker[j].pc = "notify" /\ Goto(j, "end") /\ UNCHANGED scan
    /\ UNCHANGED <<result, batch, job, api, cancel, stale>>

\* Prisma throws P2025 (or a foreign key error) when the scan is gone: before
\* the commit that leads to the catch block, in the catch block out of the
\* processor, and in the notifier back to it.
RowGone(j) ==
    /\ ~RowThere(j)
    /\ \/ worker[j].pc \in {"load", "run"} /\ Goto(j, "catch")
       \/ /\ worker[j].pc = "catch"
          /\ worker' = [worker EXCEPT ![j].pc = "end", ![j].ok = FALSE]
       \/ worker[j].pc = "notify" /\ Goto(j, "end")
    /\ UNCHANGED <<scan, result, batch, job, api, cancel, stale>>

BatchGone(j) ==
    /\ ~BatchThere
    /\ worker[j].pc = "write"
    /\ Return(j)
    /\ UNCHANGED <<scan, result, batch, job, api, cancel, stale>>

WorkOn(j) ==
    /\ \/ Claim(j) \/ AfterCommit(j) \/ CountScans(j) \/ EndAttempt(j)
       \/ RowThere(j) /\ (\/ StartScan(j) \/ CommitResult(j) \/ DuplicateResult(j)
                          \/ RecordFailure(j) \/ ReadBatch(j))
       \/ BatchThere /\ (WriteProgress(j) \/ WriteFinal(j))
       \/ RowGone(j) \/ BatchGone(j)
    /\ UNCHANGED admin

WorkOnFault(j) ==
    /\ Throw(j) \/ NotifyError(j) \/ Crash(j) \/ (RowThere(j) /\ FailureLost(j))
    /\ UNCHANGED admin

\* updateBatchStatus of a deleted batch throws CANCEL_FAILED.
CancelFails ==
    /\ cancel.pc = "marked"
    /\ ~BatchThere
    /\ cancel' = [cancel EXCEPT !.pc = "idle", !.todo = {}]
    /\ UNCHANGED <<scan, result, batch, job, worker, api, stale>>

CancelOn ==
    /\ "userCancel" \in Ops
    /\ \/ CancelCheck \/ CancelRead \/ CancelScans \/ AbortCancel \/ CancelFails
       \/ BatchThere /\ CancelBatchRow
    /\ UNCHANGED admin

StaleOn ==
    /\ "aging" \in Ops
    /\ CheckStale \/ StaleError
    /\ UNCHANGED admin

(***************************************************************************)
(* cancelBatch of the administrators: one transaction                      *)
(***************************************************************************)

AdminCancelCheck(a) ==
    /\ "cancelBatch" \in Ops
    /\ admin[a].pc = "idle"
    /\ batch.status \in OpenStatus
    /\ admin' = [admin EXCEPT ![a].pc = "cancelChecked"]
    /\ UNCHANGED vars

AdminCancelRead(a) ==
    /\ admin[a].pc = "cancelChecked"
    /\ admin' = [admin EXCEPT ![a] = [pc |-> "cancelRead",
                                      todo |-> Having(OpenStatus)]]
    /\ UNCHANGED vars

\* The guarded updateMany and the unguarded update of the batch.
AdminCancelCommit(a) ==
    /\ admin[a].pc = "cancelRead"
    /\ IF BatchThere
       THEN /\ scan' = [s \in Scans |-> IF s \in admin[a].todo /\ scan[s] \in OpenStatus
                                        THEN "CANCELLED" ELSE scan[s]]
            /\ batch' = [batch EXCEPT !.status = "CANCELLED"]
       ELSE UNCHANGED <<scan, batch>>
    /\ admin' = [admin EXCEPT ![a] = IdleAdmin]
    /\ UNCHANGED <<result, job, worker, api, cancel, stale>>

(***************************************************************************)
(* deleteScan and deleteBatch                                              *)
(***************************************************************************)

DeleteRows(S, withRows) ==
    /\ scan' = [s \in Scans |-> IF s \in S /\ withRows THEN "ABSENT" ELSE scan[s]]
    /\ result' = [s \in Scans |-> s \notin S /\ result[s]]

DeleteOneScan(a, s, withRows) ==
    /\ "deleteScan" \in Ops
    /\ admin[a].pc = "idle"
    /\ scan[s] # "ABSENT"
    /\ DeleteRows({s}, withRows)
    /\ UNCHANGED <<batch, job, worker, api, cancel, stale, admin>>

\* Faulty variant: the result goes in a transaction of its own.
DeleteResultOnly(a, s) == DeleteOneScan(a, s, FALSE)

\* Reports, issues, result and scan, in one transaction; the batch row and its
\* counters are not touched.
DeleteScan(a, s) == DeleteOneScan(a, s, TRUE)

\* deleteBatch reads the scans of the batch ...
DeleteBatchRead(a) ==
    /\ "deleteBatch" \in Ops
    /\ admin[a].pc = "idle"
    /\ BatchThere
    /\ admin' = [admin EXCEPT ![a] = [pc |-> "deleteRead", todo |-> Having(ScanStatus)]]
    /\ UNCHANGED vars

\* ... and deletes what it has read, everything below it and the batch.  A scan
\* that createBatch adds in between is not deleted, only detached (onDelete:
\* SetNull).  When the batch is gone already the transaction rolls back.
DeleteBatchCommit(a) ==
    /\ admin[a].pc = "deleteRead"
    /\ IF BatchThere
       THEN /\ DeleteRows(admin[a].todo, TRUE)
            /\ batch' = [status |-> "ABSENT", completedCount |-> 0, failedCount |-> 0,
                         counted |-> {}]
       ELSE UNCHANGED <<scan, result, batch>>
    /\ admin' = [admin EXCEPT ![a] = IdleAdmin]
    /\ UNCHANGED <<job, worker, api, cancel, stale>>

(***************************************************************************)
(* retryFailedScans                                                        *)
(***************************************************************************)

\* The transaction reads the FAILED scans; with none there is nothing to do.
RetryRead(a) ==
    /\ "retryFailedScans" \in Ops
    /\ admin[a].pc = "idle"
    /\ BatchThere
    /\ Having({"FAILED"}) # {}
    /\ admin' = [admin EXCEPT ![a] = [pc |-> "retryRead", todo |-> Having({"FAILED"})]]
    /\ UNCHANGED vars

\* The guarded updateMany; failedCount goes down by what was *read*.
RetryCommit(a) ==
    /\ admin[a].pc = "retryRead"
    /\ IF BatchThere
       THEN /\ scan' = [s \in Scans |-> IF s \in admin[a].todo /\ scan[s] = "FAILED"
                                        THEN "PENDING" ELSE scan[s]]
            /\ batch' = [batch EXCEPT !.failedCount = @ - Cardinality(admin[a].todo)]
            /\ admin' = [admin EXCEPT ![a].pc = "retryQueue"]
       ELSE /\ admin' = [admin EXCEPT ![a] = IdleAdmin]
            /\ UNCHANGED <<scan, batch>>
    /\ UNCHANGED <<result, job, worker, api, cancel, stale>>

\* After the transaction, a job for every scan that was read; an error of the
\* queue is logged.
RetryQueue(a, s) ==
    /\ admin[a].pc = "retryQueue"
    /\ s \in admin[a].todo
    /\ \/ AddScanJob(s)
       \/ "error" \in Faults /\ UNCHANGED job
    /\ admin' = IF admin[a].todo = {s} THEN [admin EXCEPT ![a] = IdleAdmin]
                                       ELSE [admin EXCEPT ![a].todo = @ \ {s}]
    /\ UNCHANGED <<scan, result, batch, worker, api, cancel, stale>>

(***************************************************************************)
(* retryScan                                                               *)
(***************************************************************************)

\* The scan is read; its status is not looked at.
ScanRead(a, s) ==
    /\ "retryScan" \in Ops
    /\ admin[a].pc = "idle"
    /\ scan[s] # "ABSENT"
    /\ admin' = [admin EXCEPT ![a] = [pc |-> "scanRead", todo |-> {s}]]
    /\ UNCHANGED vars

\* The job comes first ...
ScanQueue(a) ==
    /\ admin[a].pc = "scanRead"
    /\ \/ /\ \E s \in admin[a].todo : AddScanJob(s)
          /\ admin' = [admin EXCEPT ![a].pc = "scanQueued"]
       \/ /\ "error" \in Faults
          /\ admin' = [admin EXCEPT ![a] = IdleAdmin]
          /\ UNCHANGED job
    /\ UNCHANGED <<scan, result, batch, worker, api, cancel, stale>>

\* ... and the status PENDING afterwards, whatever the job has written by then.
ScanReset(a) ==
    /\ admin[a].pc = "scanQueued"
    /\ scan' = [s \in Scans |-> IF s \in admin[a].todo /\ scan[s] # "ABSENT"
                                THEN "PENDING" ELSE scan[s]]
    /\ admin' = [admin EXCEPT ![a] = IdleAdmin]
    /\ UNCHANGED <<result, batch, job, worker, api, cancel, stale>>

(***************************************************************************)
(* Specification                                                           *)
(***************************************************************************)

Administer(a) ==
    \/ AdminCancelCheck(a) \/ AdminCancelRead(a) \/ AdminCancelCommit(a)
    \/ DeleteBatchRead(a) \/ DeleteBatchCommit(a) \/ \E s \in Scans : DeleteScan(a, s)
    \/ RetryRead(a) \/ RetryCommit(a) \/ \E s \in Scans : RetryQueue(a, s)
    \/ \E s \in Scans : ScanRead(a, s)
    \/ ScanQueue(a) \/ ScanReset(a)

AdminNext ==
    \/ CreateOn \/ CreateFails \/ (AbortCreate /\ UNCHANGED admin)
    \/ \E j \in Jobs : WorkOn(j) \/ WorkOnFault(j)
    \/ CancelOn \/ StaleOn
    \/ \E a \in Admins : Administer(a)

AdminSpec == AdminInit /\ [][AdminNext]_adminVars

(***************************************************************************)
(* Properties                                                              *)
(***************************************************************************)

\* What is deleted stays deleted: a job, a notifier, a cancellation or a
\* request that was under way when the rows went cannot bring them back
\* (Prisma's update and create on missing rows throw).
DeletedStaysDeleted ==
    [][/\ \A s \in Scans : api.pc \in {"queue", "done", "aborted"} /\ scan[s] = "ABSENT"
             => scan'[s] = "ABSENT" /\ ~result'[s]
       /\ api.pc # "start" /\ ~BatchThere => batch'.status = "ABSENT"]_adminVars

=============================================================================
