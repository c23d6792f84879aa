------------------------ MODULE BatchScanAdminProofs ------------------------
(***************************************************************************)
(* Theorems about a batch with administrators at work on it: its types,    *)
(* that a scan shown COMPLETED has its result also when scans are deleted  *)
(* and retried under the processes, and that what is deleted stays so.     *)
(***************************************************************************)
EXTENDS BatchScanAdmin, BatchScanProofs

\* No result without its row: they are deleted together.
AbsentInv == \A s \in Scans : scan[s] = "ABSENT" => ~result[s]

AdminInv == AdminTypeOK /\ JobsOK /\ CompletedHasResult /\ AbsentInv

\* What BatchScan's proofs need of types and jobs holds with administrators too.
LEMMA AdminBase == AdminTypeOK /\ JobsOK => Base
BY DEF AdminTypeOK, Base, CallsTyped

\* The invariant holds at the beginning.
LEMMA AdminInitInv == AdminInit => AdminInv
<1> SUFFICES ASSUME AdminInit PROVE AdminInv
  OBVIOUS
<1>1. Init /\ Inv1
  BY InitInv1 DEF AdminInit
<1>2. batch \in RetriedBatchRow
  BY <1>1 DEF Init, RetriedBatchRow
<1>3. AdminTypeOK /\ JobsOK
  BY <1>1, <1>2 DEF AdminInit, Inv1, TypeOK, AdminTypeOK, IdleAdmin, AdminCall, AdminPc
<1> QED
  BY <1>1, <1>3 DEF Init, AdminInv, CompletedHasResult, AbsentInv

(* The steps of BatchScan's processes *)

\* What they do in a batch without administrators.
Ordinary ==
    /\ [Next]_vars
    /\ \/ UNCHANGED batch
       \/ CreateBatchRow
       \/ BatchThere /\ (\/ SetBatchRunning \/ CancelBatchRow
                         \/ \E j \in Jobs : WriteProgress(j) \/ WriteFinal(j))
       \/ StaleMark
    /\ \/ UNCHANGED <<scan, result>>
       \/ \E s \in Scans : CreateScanRow(s)
       \/ CancelScans
       \/ \E j \in Jobs : RowThere(j) /\ (\/ StartScan(j) \/ CommitResult(j)
                                         \/ RecordFailure(j) \/ FailureLost(j))

\* What they meet with when rows are gone.
Bereft ==
    \/ CreateFails \/ CancelFails
    \/ \E j \in Jobs : RowGone(j) \/ BatchGone(j)

\* A step is one of BatchScan on rows that are there, one of a process whose rows
\* are gone, or one of an administrator.
LEMMA ProcessSteps ==
  ASSUME AdminNext
  PROVE  \/ Ordinary /\ UNCHANGED admin
         \/ Bereft /\ UNCHANGED admin
         \/ \E a \in Admins : Administer(a)
<1>1. CASE CreateOn
  BY <1>1 DEF CreateOn, Ordinary, Next, Create, CreateBatchRow, CreateScanRow,
     QueueScan, SetBatchRunning
<1>2. CASE CreateFails \/ (AbortCreate /\ UNCHANGED admin)
  BY <1>2 DEF CreateFails, AbortCreate, Ordinary, Bereft, Next
<1>3. ASSUME NEW j \in Jobs, WorkOn(j)
      PROVE  (Ordinary \/ Bereft) /\ UNCHANGED admin
  <2>1. CASE Claim(j) \/ AfterCommit(j) \/ CountScans(j) \/ EndAttempt(j)
             \/ DuplicateResult(j) \/ ReadBatch(j)
    <3>1. UNCHANGED <<scan, result, batch>>
      BY <2>1 DEF Claim, AfterCommit, CountScans, Count, EndAttempt, Close,
         DuplicateResult, ReadBatch
    <3> QED
      BY <1>3, <2>1, <3>1 DEF WorkOn, Ordinary, Next, Work
  <2>2. CASE RowThere(j) /\ (StartScan(j) \/ CommitResult(j) \/ RecordFailure(j))
    <3>1. UNCHANGED batch
      BY <2>2 DEF StartScan, CommitResult, RecordFailure
    <3> QED
      BY <1>3, <2>2, <3>1 DEF WorkOn, Ordinary, Next, Work
  <2>3. CASE BatchThere /\ (WriteProgress(j) \/ WriteFinal(j))
    <3>1. UNCHANGED <<scan, result>>
      BY <2>3 DEF WriteProgress, WriteFinal
    <3> QED
      BY <1>3, <2>3, <3>1 DEF WorkOn, Ordinary, Next, Work
  <2>4. CASE RowGone(j) \/ BatchGone(j)
    BY <1>3, <2>4 DEF WorkOn, Bereft
  <2> QED
    BY <1>3, <2>1, <2>2, <2>3, <2>4 DEF WorkOn
<1>4. ASSUME NEW j \in Jobs, WorkOnFault(j)
      PROVE  Ordinary /\ UNCHANGED admin
  BY <1>4 DEF WorkOnFault, Ordinary, Next, WorkFault, Throw, FailureLost, NotifyError,
     Crash
<1>5. CASE CancelOn
  <2>1. CASE CancelCheck \/ CancelRead \/ AbortCancel
    <3>1. UNCHANGED <<scan, result, batch>>
      BY <2>1 DEF CancelCheck, CancelRead, AbortCancel
    <3> QED
      BY <1>5, <2>1, <3>1 DEF CancelOn, Ordinary, Next, Cancel
  <2>2. CASE CancelScans
    <3>1. UNCHANGED batch
      BY <2>2 DEF CancelScans, CancelIn
    <3> QED
      BY <1>5, <2>2, <3>1 DEF CancelOn, Ordinary, Next, Cancel
  <2>3. CASE BatchThere /\ CancelBatchRow
    <3>1. UNCHANGED <<scan, result>>
      BY <2>3 DEF CancelBatchRow
    <3> QED
      BY <1>5, <2>3, <3>1 DEF CancelOn, Ordinary, Next, Cancel
  <2>4. CASE CancelFails
    BY <1>5, <2>4 DEF CancelOn, Bereft
  <2> QED
    BY <1>5, <2>1, <2>2, <2>3, <2>4 DEF CancelOn
<1>6. CASE StaleOn
  <2>1. UNCHANGED <<scan, result>> /\ (UNCHANGED batch \/ StaleMark)
    BY <1>6 DEF StaleOn, CheckStale, BatchAges, StaleFind, FindStale, StaleMark,
       MarkStale, StaleError
  <2> QED
    BY <1>6, <2>1 DEF StaleOn, Ordinary, Next
<1> QED
  BY <1>1, <1>2, <1>3, <1>4, <1>5, <1>6 DEF AdminNext

\* What DeletedStaysDeleted says of a step.
StayDeleted ==
    /\ \A s \in Scans : api.pc \in {"queue", "done", "aborted"} /\ scan[s] = "ABSENT"
          => scan'[s] = "ABSENT" /\ ~result'[s]
    /\ api.pc # "start" /\ ~BatchThere => batch'.status = "ABSENT"

\* An ordinary step brings no row back, except the creation of the batch.
LEMMA OrdinaryRows ==
  ASSUME AdminInv, Ordinary, NEW s \in Scans
  PROVE  /\ scan'[s] = "ABSENT" => scan[s] = "ABSENT" /\ result'[s] = result[s]
         /\ scan[s] = "ABSENT" /\ api.pc # "scans" =>
              scan'[s] = "ABSENT" /\ result'[s] = result[s]
<1>1. AdminTypeOK /\ JobsOK
  BY DEF AdminInv
<1>2. CASE UNCHANGED <<scan, result>>
  BY <1>2
<1>3. ASSUME NEW r \in Scans, CreateScanRow(r)
      PROVE  /\ scan'[s] = "ABSENT" => scan[s] = "ABSENT" /\ result'[s] = result[s]
             /\ scan[s] = "ABSENT" /\ api.pc # "scans" =>
                  scan'[s] = "ABSENT" /\ result'[s] = result[s]
  BY <1>1, <1>3 DEF CreateScanRow, AdminTypeOK
<1>4. CASE CancelScans
  BY <1>1, <1>4 DEF CancelScans, CancelIn, OpenStatus
<1>5. ASSUME NEW j \in Jobs, RowThere(j),
             StartScan(j) \/ CommitResult(j) \/ RecordFailure(j) \/ FailureLost(j)
      PROVE  /\ scan'[s] = "ABSENT" => scan[s] = "ABSENT" /\ result'[s] = result[s]
             /\ scan[s] = "ABSENT" => scan'[s] = "ABSENT" /\ result'[s] = result[s]
  <2>1. /\ UNCHANGED scan
           \/ \E st \in {"RUNNING", "COMPLETED", "FAILED"} :
                 scan' = [scan EXCEPT ![job[j].scan] = st]
        /\ UNCHANGED result
           \/ /\ result' = [result EXCEPT ![job[j].scan] = TRUE]
              /\ scan' = [scan EXCEPT ![job[j].scan] = "COMPLETED"]
    BY <1>5 DEF StartScan, CommitResult, RecordFailure, FailureLost
  <2>2. job[j].scan \in Scans /\ scan[job[j].scan] # "ABSENT"
    BY <1>5 DEF RowThere
  <2> QED
    BY <1>1, <2>1, <2>2 DEF AdminTypeOK
<1> QED
  BY <1>2, <1>3, <1>4, <1>5 DEF Ordinary

\* Ordinary steps keep the invariant and bring no deleted row back: what they do
\* to results is what LedgerSteps says.
LEMMA OrdinaryStep ==
  ASSUME AdminInv, Ordinary, UNCHANGED admin
  PROVE  AdminInv' /\ StayDeleted
<1>1. AdminTypeOK /\ JobsOK /\ Base
  BY AdminBase DEF AdminInv
<1>2. Base'
  BY <1>1, NextBase DEF Ordinary
<1>3. batch' \in RetriedBatchRow
  <2>1. CASE UNCHANGED batch
    BY <1>1, <2>1 DEF AdminTypeOK
  <2>2. CASE CreateBatchRow \/ SetBatchRunning \/ CancelBatchRow \/ StaleMark
    BY <1>1, <2>2 DEF CreateBatchRow, SetBatchRunning, CancelBatchRow, StaleMark, MarkStale,
       AdminTypeOK, RetriedBatchRow, BatchStatus, ScanStatus
  <2>3. ASSUME NEW j \in Jobs, WriteProgress(j) \/ WriteFinal(j)
        PROVE  batch' \in RetriedBatchRow
    <3>1. worker[j].snap \in Snapshot
      BY <1>1 DEF AdminTypeOK, WorkerCall
    <3>4. /\ Cardinality(worker[j].snap.completed) \in Nat
          /\ Cardinality(worker[j].snap.failed) \in Int
      BY <3>1, ScanSets DEF Snapshot
    <3>2. CASE WriteProgress(j)
      <4>1. batch' = [batch EXCEPT !.status = "RUNNING",
                         !.completedCount = Cardinality(worker[j].snap.completed),
                         !.failedCount = Cardinality(worker[j].snap.failed)]
        BY <3>2 DEF WriteProgress
      <4> QED
        BY <1>1, <3>4, <4>1 DEF AdminTypeOK, RetriedBatchRow, BatchStatus, ScanStatus
    <3>3. CASE WriteFinal(j)
      BY <1>1, <3>1, <3>3, ScanSets DEF WriteFinal, AdminTypeOK, RetriedBatchRow,
         Snapshot, BatchStatus, ScanStatus
    <3> QED
      BY <2>3, <3>2, <3>3
  <2> QED
    BY <2>1, <2>2, <2>3 DEF Ordinary
<1>4. AdminTypeOK' /\ JobsOK'
  BY <1>1, <1>2, <1>3 DEF Base, CallsTyped, AdminTypeOK
<1>5. CompletedHasResult'
  <2>1. [Ledger!Next]_(Ledger!vars)
    BY <1>1, LedgerSteps DEF Ordinary
  <2>2. {s \in Scans : scan[s] = "COMPLETED"} \subseteq {s \in Scans : result[s]}
    BY DEF AdminInv, CompletedHasResult
  <2>3. {s \in Scans : scan'[s] = "COMPLETED"} \subseteq {s \in Scans : result'[s]}
    BY <2>1, <2>2 DEF Ledger!Next, Ledger!Publish, Ledger!Hide, Ledger!vars
  <2> QED
    BY <2>3 DEF CompletedHasResult
<1>6. AbsentInv' /\ \A s \in Scans : api.pc \in {"queue", "done", "aborted"}
                       /\ scan[s] = "ABSENT" => scan'[s] = "ABSENT" /\ ~result'[s]
  BY OrdinaryRows DEF AdminInv, AbsentInv
<1>7. api.pc # "start" /\ ~BatchThere => batch'.status = "ABSENT"
  BY <1>1 DEF Ordinary, BatchThere, CreateBatchRow, StaleMark, MarkStale, OpenStatus
<1> QED
  BY <1>4, <1>5, <1>6, <1>7 DEF AdminInv, StayDeleted

\* A process whose rows are gone keeps the invariant: it finds no row to write.
LEMMA BereftStep ==
  ASSUME AdminInv, Bereft, UNCHANGED admin
  PROVE  AdminInv' /\ StayDeleted
<1>1. AdminTypeOK /\ JobsOK /\ CallsTyped
  BY AdminBase DEF AdminInv, Base
<1>2. UNCHANGED <<scan, result, batch, job, stale>>
  BY DEF Bereft, CreateFails, CancelFails, RowGone, BatchGone
<1>3. api' \in ApiCall /\ cancel' \in CancelCall
  <2>1. UNCHANGED api \/ api' = [pc |-> "aborted", todo |-> {}]
    BY DEF Bereft, CreateFails, CancelFails, RowGone, BatchGone
  <2>2. UNCHANGED cancel \/ cancel' = [cancel EXCEPT !.pc = "idle", !.todo = {}]
    BY DEF Bereft, CreateFails, CancelFails, RowGone, BatchGone
  <2> QED
    <3>1. api' \in ApiCall
      BY <1>1, <2>1 DEF CallsTyped, ApiCall
    <3>2. cancel' \in CancelCall
      BY <1>1, <2>2 DEF CallsTyped, CancelCall
    <3> QED
      BY <3>1, <3>2
<1>4. worker' \in [Jobs -> WorkerCall] /\ JobsOK'
  <2>1. CASE UNCHANGED worker
    BY <1>1, <1>2, <2>1 DEF CallsTyped, JobsOK
  <2>2. ASSUME NEW j \in Jobs, RowGone(j) \/ BatchGone(j)
        PROVE  worker' \in [Jobs -> WorkerCall] /\ JobsOK'
    <3>1. worker[j].pc # "idle" /\ {"catch", "end"} \subseteq WorkerPc
      BY <2>2 DEF RowGone, BatchGone, WorkerPc
    <3>2. worker' \in [Jobs -> WorkerCall] /\ worker'[j].pc # "idle" /\ Others(j)
      <4>1. CASE Goto(j, "catch") \/ Goto(j, "end")
        BY <1>1, <3>1, <4>1, GotoEffect
      <4>2. CASE worker' = [worker EXCEPT ![j].pc = "end", ![j].ok = FALSE]
        BY <1>1, <3>1, <4>2, FailEffect
      <4>3. CASE Return(j)
        BY <1>1, <4>3, ReturnEffect
      <4> QED
        BY <2>2, <4>1, <4>2, <4>3 DEF RowGone, BatchGone
    <3> QED
      BY <1>1, <1>2, <3>1, <3>2, BusyStaysBusy
  <2> QED
    BY <2>1, <2>2 DEF Bereft, CreateFails, CancelFails
<1> QED
  BY <1>1, <1>2, <1>3, <1>4 DEF AdminInv, AdminTypeOK, CompletedHasResult, AbsentInv,
     StayDeleted, BatchThere

(* The administrators' steps *)

\* A job that a retry queues is well typed and waits.
LEMMA AddScanJobEffect ==
  ASSUME CallsTyped, JobsOK, NEW s \in Scans, AddScanJob(s), UNCHANGED worker
  PROVE  job' \in [Jobs -> JobRow] /\ JobsOK'
<1>1. PICK j \in Jobs :
          /\ job[j].state = "none"
          /\ job' = [job EXCEPT ![j] = [state |-> "waiting", scan |-> s,
                                        made |-> 0, stalled |-> 0]]
  BY DEF AddScanJob
<1> QED
  BY <1>1, LimitsAreNumbers DEF CallsTyped, JobsOK, JobRow

\* Cancelling, deleting and retrying keep the invariant and bring no deleted row
\* back.
LEMMA AdministerStep ==
  ASSUME AdminInv, NEW a \in Admins, Administer(a)
  PROVE  AdminInv' /\ StayDeleted
<1>1. AdminTypeOK /\ JobsOK /\ CallsTyped /\ CompletedHasResult /\ AbsentInv
  BY AdminBase DEF AdminInv, Base
<1>2. admin[a].todo \subseteq Scans /\ IdleAdmin \in AdminCall
  BY <1>1 DEF AdminTypeOK, AdminCall, AdminPc, IdleAdmin
<1>3. admin' \in [Admins -> AdminCall]
  <2>0. admin \in [Admins -> AdminCall] /\ \A S : Having(S) \subseteq Scans
    BY <1>1 DEF AdminTypeOK, Having
  <2>1. \/ UNCHANGED admin
        \/ admin' = [admin EXCEPT ![a] = IdleAdmin]
        \/ \E pc \in AdminPc : admin' = [admin EXCEPT ![a].pc = pc]
        \/ \E pc \in AdminPc, S \in SUBSET Scans :
              admin' = [admin EXCEPT ![a] = [pc |-> pc, todo |-> S]]
        \/ \E s \in Scans : admin' = [admin EXCEPT ![a].todo = @ \ {s}]
    BY <2>0 DEF Administer, AdminCancelCheck, AdminCancelRead, AdminCancelCommit,
       DeleteBatchRead, DeleteBatchCommit, DeleteScan, DeleteOneScan, RetryRead,
       RetryCommit, RetryQueue, ScanRead, ScanQueue, ScanReset, AdminPc
  <2> QED
    BY <1>2, <2>0, <2>1 DEF AdminCall
<1>4. UNCHANGED <<api, cancel, stale, worker>>
  BY DEF Administer, AdminCancelCheck, AdminCancelRead, AdminCancelCommit,
     DeleteBatchRead, DeleteBatchCommit, DeleteScan, DeleteOneScan, RetryRead,
     RetryCommit, RetryQueue, ScanRead, ScanQueue, ScanReset, vars
<1>5. job' \in [Jobs -> JobRow] /\ JobsOK'
  <2>1. UNCHANGED job \/ \E s \in Scans : AddScanJob(s)
    BY <1>2 DEF Administer, AdminCancelCheck, AdminCancelRead, AdminCancelCommit,
       DeleteBatchRead, DeleteBatchCommit, DeleteScan, DeleteOneScan, RetryRead,
       RetryCommit, RetryQueue, ScanRead, ScanQueue, ScanReset, vars
  <2>2. CASE UNCHANGED job
    BY <1>1, <1>4, <2>2 DEF CallsTyped, JobsOK
  <2> QED
    BY <1>1, <1>4, <2>1, <2>2, AddScanJobEffect
<1>6. /\ scan' \in [Scans -> ScanStatus \union {"ABSENT"}]
      /\ result' \in [Scans -> BOOLEAN]
      /\ \A s \in Scans :
            \/ scan'[s] = scan[s] /\ result'[s] = result[s]
            \/ scan'[s] = "ABSENT" /\ ~result'[s]
            \/ scan[s] # "ABSENT" /\ scan'[s] \in {"CANCELLED", "PENDING"}
               /\ result'[s] = result[s]
  <2>1. CASE UNCHANGED <<scan, result>>
    BY <1>1, <2>1 DEF CallsTyped
  <2>2. ASSUME NEW S, DeleteRows(S, TRUE) PROVE <1>6
    BY <1>1, <2>2 DEF DeleteRows, CallsTyped
  <2>3. CASE AdminCancelCommit(a)
    BY <1>1, <2>1, <2>3 DEF AdminCancelCommit, CallsTyped, ScanStatus, OpenStatus
  <2>4. CASE RetryCommit(a)
    BY <1>1, <2>1, <2>4 DEF RetryCommit, CallsTyped, ScanStatus
  <2>5. CASE ScanReset(a)
    BY <1>1, <2>5 DEF ScanReset, CallsTyped, ScanStatus
  <2> QED
    BY <2>1, <2>2, <2>3, <2>4, <2>5
       DEF Administer, AdminCancelCheck, AdminCancelRead,
       DeleteBatchRead, DeleteBatchCommit, DeleteScan, DeleteOneScan, RetryRead,
       RetryQueue, ScanRead, ScanQueue, vars
<1>7. batch' \in RetriedBatchRow /\ (~BatchThere => batch'.status = "ABSENT")
  <2>1. CASE UNCHANGED batch
    BY <1>1, <2>1 DEF AdminTypeOK, BatchThere
  <2>2. CASE AdminCancelCommit(a) /\ BatchThere
    BY <1>1, <2>2 DEF AdminCancelCommit, AdminTypeOK, RetriedBatchRow, BatchStatus,
       ScanStatus
  <2>3. CASE DeleteBatchCommit(a) /\ BatchThere
    BY <2>3 DEF DeleteBatchCommit, RetriedBatchRow
  <2>4. CASE RetryCommit(a) /\ BatchThere
    <3>1. Cardinality(admin[a].todo) \in Nat
      BY <1>2, ScanSets
    <3> QED
      BY <1>1, <2>4, <3>1 DEF RetryCommit, AdminTypeOK, RetriedBatchRow
  <2> QED
    BY <2>1, <2>2, <2>3, <2>4
       DEF Administer, AdminCancelCheck, AdminCancelRead, AdminCancelCommit,
       DeleteBatchRead, DeleteBatchCommit, DeleteScan, DeleteOneScan, RetryRead,
       RetryCommit, RetryQueue, ScanRead, ScanQueue, ScanReset, vars
<1>8. AdminTypeOK'
  BY <1>1, <1>3, <1>4, <1>5, <1>6, <1>7 DEF AdminTypeOK
<1>9. CompletedHasResult' /\ AbsentInv' /\ StayDeleted
  BY <1>1, <1>6, <1>7 DEF CompletedHasResult, AbsentInv, StayDeleted
<1> QED
  BY <1>5, <1>8, <1>9 DEF AdminInv

(* The theorems *)

\* Every step keeps the invariant.
LEMMA AdminNextInv == AdminInv /\ [AdminNext]_adminVars => AdminInv'
<1>1. AdminInv /\ AdminNext => AdminInv'
  BY ProcessSteps, OrdinaryStep, BereftStep, AdministerStep
<1>2. AdminInv /\ UNCHANGED adminVars => AdminInv'
  BY DEF adminVars, vars, AdminInv, AdminTypeOK, JobsOK, CompletedHasResult, AbsentInv
<1> QED
  BY <1>1, <1>2

\* With administrators at work the variables keep their types: two jobs for
\* one scan and rows that disappear included, and no job is tried more often
\* than BullMQ lets it.
THEOREM AdminTypeCorrect == AdminSpec => []AdminTypeOK
<1>1. AdminInv => AdminTypeOK
  BY DEF AdminInv
<1> QED
  BY <1>1, AdminInitInv, AdminNextInv, PTL DEF AdminSpec

\* A scan shown COMPLETED has its result although administrators delete and
\* retry scans under the processes (deleteScan, deleteBatch, retryScan).
THEOREM AdminCompletedScansHaveResults == AdminSpec => []CompletedHasResult
<1>1. AdminInv => CompletedHasResult
  BY DEF AdminInv
<1> QED
  BY <1>1, AdminInitInv, AdminNextInv, PTL DEF AdminSpec

\* What an administrator has deleted no process brings back.
THEOREM DeletedRowsStayDeleted == AdminSpec => DeletedStaysDeleted
<1>1. AdminInv /\ [AdminNext]_adminVars => [StayDeleted]_adminVars
  BY ProcessSteps, OrdinaryStep, BereftStep, AdministerStep
<1>2. [StayDeleted]_adminVars =>
        [/\ \A s \in Scans : api.pc \in {"queue", "done", "aborted"} /\ scan[s] = "ABSENT"
                => scan'[s] = "ABSENT" /\ ~result'[s]
         /\ api.pc # "start" /\ ~BatchThere => batch'.status = "ABSENT"]_adminVars
  BY DEF StayDeleted
<1> QED
  BY <1>1, <1>2, AdminInitInv, AdminNextInv, PTL DEF AdminSpec, DeletedStaysDeleted

=============================================================================
