--------------------------- MODULE BatchScanProofs ---------------------------
(***************************************************************************)
(* Proofs about BatchScan, for any set of scans and jobs, any limits and   *)
(* any faults.                                                             *)
(***************************************************************************)
EXTENDS BatchScan, FiniteSetTheorems, TLAPS

(* The parts of the inductive invariant *)

\* BullMQ's bookkeeping: a job that can still run has attempts and stalls
\* left, a job that was handed out has a scan, and exactly the active jobs
\* have a processor call.
JobsOK ==
    \A j \in Jobs :
        /\ job[j].state \in {"waiting", "active"} =>
              job[j].made < MaxAttempts /\ job[j].stalled <= MaxStalled
        /\ job[j].state # "none" => job[j].scan \in Scans
        /\ worker[j].pc # "idle" <=> job[j].state = "active"

\* createBatch makes every row before it queues the first job.
CreationOK ==
    /\ api.pc \in {"start", "scans"} => \A j \in Jobs : job[j].state = "none"
    /\ api.pc = "scans" => \A s \in Scans \ api.todo : scan[s] # "ABSENT"
    /\ api.pc \in {"queue", "done"} => \A s \in Scans : scan[s] # "ABSENT"
    /\ \A j \in Jobs : job[j].state # "none" => \A s \in Scans : scan[s] # "ABSENT"

\* ... and queues one job per scan.
OneJobPerScan ==
    /\ \A j, k \in Jobs :
          job[j].state # "none" /\ job[k].state # "none"
             /\ job[j].scan = job[k].scan => j = k
    /\ api.pc = "queue" =>
          \A j \in Jobs : job[j].state # "none" => job[j].scan \notin api.todo

\* Only a cancellation makes a scan CANCELLED.
CancelOK ==
    /\ cancel.pc # "idle" => cancel.used
    /\ ~cancel.used => \A s \in Scans : scan[s] # "CANCELLED"

\* A processor past its commit and on its success path owns a COMPLETED scan.
CallOK ==
    \A j \in Jobs :
        worker[j].ok /\ worker[j].pc \in {"committed", "notify", "count", "write", "end"}
           => scan[job[j].scan] = "COMPLETED"

\* What a notifier has read stays good enough for what it is about to write:
\* results are never lost, and without a cancellation its reading accounts
\* for every scan.
SnapOK ==
    \A j \in Jobs : worker[j].pc = "write" =>
        /\ \A s \in worker[j].snap.completed : result[s]
        /\ worker[j].snap.counted = worker[j].snap.completed
        /\ worker[j].snap.completed \cap worker[j].snap.failed = {}
        /\ ~cancel.used => Scans = worker[j].snap.completed
               \cup worker[j].snap.failed \cup worker[j].snap.pending

\* The types of all but the batch row, on which nothing here depends: the
\* administrators' module has a wider type for it.
CallsTyped ==
    /\ scan \in [Scans -> ScanStatus \union {"ABSENT"}]
    /\ result \in [Scans -> BOOLEAN]
    /\ job \in [Jobs -> JobRow]
    /\ worker \in [Jobs -> WorkerCall]
    /\ api \in ApiCall
    /\ cancel \in CancelCall
    /\ stale \in StaleCall

Base == CallsTyped /\ JobsOK
Inv1 == TypeOK /\ JobsOK

\* The first half of the invariant is about calls and jobs, whatever the rows
\* are.
LEMMA BaseOfInv1 == Inv1 => Base
  BY DEF Inv1, TypeOK, Base, CallsTyped

\* Types and jobs are right at the beginning.
LEMMA InitInv1 == Init => Inv1
  BY LimitsAreNumbers DEF Init, Inv1, TypeOK, JobsOK, BatchRow, JobRow,
     WorkerCall, WorkerPc, Snapshot, NoSnapshot, IdleWorker, ApiCall,
     CancelCall, StaleCall, BatchStatus, ScanStatus

(* What the actions do to the processor calls *)

\* Everything about the calls of the other jobs stays.
Others(j) == \A k \in Jobs \ {j} : worker'[k] = worker[k]

\* A processor call that moves on changes nothing but its place.
LEMMA GotoEffect ==
  ASSUME CallsTyped, NEW j \in Jobs, NEW pc \in WorkerPc, Goto(j, pc)
  PROVE  /\ worker' \in [Jobs -> WorkerCall]
         /\ worker'[j].pc = pc /\ worker'[j].ok = worker[j].ok
         /\ worker'[j].snap = worker[j].snap
         /\ Others(j)
  BY DEF CallsTyped, Goto, WorkerCall, Others

\* The notifier returns to the processor, which keeps whether the scan succeeded.
LEMMA ReturnEffect ==
  ASSUME CallsTyped, NEW j \in Jobs, Return(j)
  PROVE  /\ worker' \in [Jobs -> WorkerCall]
         /\ worker'[j].pc = "end" /\ worker'[j].ok = worker[j].ok
         /\ Others(j)
  <1>1. NoSnapshot \in Snapshot /\ "end" \in WorkerPc
    BY DEF NoSnapshot, Snapshot, WorkerPc
  <1> QED
    BY <1>1 DEF CallsTyped, Return, WorkerCall, Others

\* A processor call that fails remembers that it did.
LEMMA FailEffect ==
  ASSUME CallsTyped, NEW j \in Jobs, NEW pc \in WorkerPc,
         worker' = [worker EXCEPT ![j].pc = pc, ![j].ok = FALSE]
  PROVE  /\ worker' \in [Jobs -> WorkerCall]
         /\ worker'[j].pc = pc /\ ~worker'[j].ok
         /\ worker'[j].snap = worker[j].snap
         /\ Others(j)
  BY DEF CallsTyped, WorkerCall, Others

\* The notifier counts the scans of the batch by their status.
LEMMA CountEffect ==
  ASSUME CallsTyped, NEW j \in Jobs, CountScans(j)
  PROVE  /\ worker' \in [Jobs -> WorkerCall]
         /\ worker'[j].pc = "write" /\ worker'[j].ok = worker[j].ok
         /\ worker'[j].snap =
               [completed |-> Having({"COMPLETED"}), failed |-> Having({"FAILED"}),
                pending |-> Having(OpenStatus),
                counted |-> {s \in Having({"COMPLETED"}) : result[s]}]
         /\ Others(j)
  <1> DEFINE sn == [completed |-> Having({"COMPLETED"}), failed |-> Having({"FAILED"}),
                    pending |-> Having(OpenStatus),
                    counted |-> {s \in Having({"COMPLETED"}) : result[s]}]
  <1>1. sn \in Snapshot
    BY DEF Snapshot, Having
  <1>2. worker' = [worker EXCEPT ![j].pc = "write", ![j].snap = sn]
    BY DEF CountScans, Count
  <1> HIDE DEF sn
  <1>3. /\ worker' \in [Jobs -> WorkerCall]
        /\ worker'[j].pc = "write" /\ worker'[j].ok = worker[j].ok
        /\ worker'[j].snap = sn
        /\ Others(j)
    BY <1>1, <1>2 DEF CallsTyped, WorkerCall, WorkerPc, Others
  <1> QED
    BY <1>3 DEF sn

\* A processor call that ends leaves the other calls alone.
LEMMA IdleEffect ==
  ASSUME CallsTyped, NEW j \in Jobs, worker' = [worker EXCEPT ![j] = IdleWorker]
  PROVE  /\ worker' \in [Jobs -> WorkerCall]
         /\ worker'[j].pc = "idle"
         /\ Others(j)
  <1>1. IdleWorker \in WorkerCall
    BY DEF IdleWorker, WorkerCall, WorkerPc, NoSnapshot, Snapshot
  <1> QED
    BY <1>1 DEF CallsTyped, Others, IdleWorker

\* A worker that takes a job begins a new call.
LEMMA ClaimEffect ==
  ASSUME CallsTyped, NEW j \in Jobs, Claim(j)
  PROVE  /\ worker' \in [Jobs -> WorkerCall]
         /\ worker'[j].pc = "load" /\ worker'[j].ok
         /\ Others(j)
  <1>1. [IdleWorker EXCEPT !.pc = "load"] \in WorkerCall
    BY DEF IdleWorker, WorkerCall, WorkerPc, NoSnapshot, Snapshot
  <1> QED
    BY <1>1 DEF CallsTyped, Others, Claim, IdleWorker

(* Cardinalities of sets of scans are numbers *)

\* Any set of scans is finite, so that its size is a number.
LEMMA ScanSets ==
  ASSUME NEW S \in SUBSET Scans
  PROVE  IsFiniteSet(S) /\ Cardinality(S) \in Nat
  BY ScansFinite, FS_Subset, FS_CardinalityType

\* The jobs stay as they are while a call under way stays under way.
LEMMA BusyStaysBusy ==
  ASSUME JobsOK, NEW j \in Jobs, worker[j].pc # "idle", worker'[j].pc # "idle",
         Others(j), job' = job
  PROVE  JobsOK'
  BY DEF JobsOK, Others

\* Every step keeps the types of the calls and what BullMQ guarantees of the
\* jobs.
LEMMA NextBase == Base /\ [Next]_vars => Base'
<1> SUFFICES ASSUME Base, [Next]_vars PROVE Base'
  OBVIOUS
<1>0. CallsTyped /\ JobsOK
  BY DEF Base
<1> USE DEF Base
<1>1. CASE CreateBatchRow
  <2>1. CallsTyped'
    BY <1>1, <1>0 DEF CreateBatchRow, CallsTyped, ScanStatus, ApiCall
  <2>2. JobsOK'
    BY <1>1, <1>0 DEF CreateBatchRow, JobsOK
  <2> QED
    BY <2>1, <2>2
<1>2. ASSUME NEW s \in Scans, CreateScanRow(s) PROVE Base'
  <2>1. CallsTyped'
    BY <1>2, <1>0 DEF CreateScanRow, CallsTyped, ScanStatus, ApiCall
  <2>2. JobsOK'
    BY <1>2, <1>0 DEF CreateScanRow, JobsOK
  <2> QED
    BY <2>1, <2>2
<1>3. ASSUME NEW s \in Scans, QueueScan(s) PROVE Base'
  <2>1. job' \in [Jobs -> JobRow]
    BY <1>3, <1>0, LimitsAreNumbers DEF QueueScan, AddScanJob, CallsTyped, JobRow
  <2>2. CallsTyped'
    BY <1>3, <2>1, <1>0 DEF QueueScan, CallsTyped, ApiCall
  <2>3. JobsOK'
    <3>1. CASE UNCHANGED job
      BY <1>3, <3>1, <1>0 DEF QueueScan, JobsOK
    <3>2. CASE AddScanJob(s)
      BY <1>3, <3>2, <1>0, LimitsAreNumbers DEF QueueScan, AddScanJob, JobsOK, CallsTyped
    <3> QED
      BY <1>3, <3>1, <3>2 DEF QueueScan
  <2> QED
    BY <2>2, <2>3
<1>4. CASE SetBatchRunning
  <2>1. CallsTyped'
    BY <1>4, <1>0 DEF SetBatchRunning, CallsTyped, ScanStatus, ApiCall
  <2>2. JobsOK'
    BY <1>4, <1>0 DEF SetBatchRunning, JobsOK
  <2> QED
    BY <2>1, <2>2
<1>5. CASE AbortCreate
  <2>1. CallsTyped'
    BY <1>5, <1>0 DEF AbortCreate, CallsTyped, ApiCall
  <2>2. JobsOK'
    BY <1>5, <1>0 DEF AbortCreate, JobsOK
  <2> QED
    BY <2>1, <2>2
<1>6. ASSUME NEW j \in Jobs, Claim(j) PROVE Base'
  <2>1. job' \in [Jobs -> JobRow]
    BY <1>6, <1>0 DEF Claim, CallsTyped, JobRow
  <2>2. CallsTyped'
    BY <1>6, <2>1, ClaimEffect, <1>0 DEF Claim, CallsTyped
  <2>3. JobsOK'
    BY <1>6, ClaimEffect, <1>0 DEF Claim, JobsOK, CallsTyped, Others
  <2> QED
    BY <2>2, <2>3
<1>7. ASSUME NEW j \in Jobs, StartScan(j) PROVE Base'
  <2>1. Goto(j, "run") /\ worker[j].pc # "idle" /\ "run" \in WorkerPc
    BY <1>7 DEF StartScan, WorkerPc
  <2>2. /\ worker' \in [Jobs -> WorkerCall] /\ Others(j)
        /\ worker'[j].pc = "run"
    BY <2>1, <1>0, GotoEffect
  <2>3. CallsTyped'
    BY <1>7, <2>2, <1>0 DEF StartScan, CallsTyped, ScanStatus
  <2>4. JobsOK'
    BY <1>7, <2>1, <2>2, <1>0, BusyStaysBusy DEF StartScan
  <2> QED
    BY <2>3, <2>4
<1>8. ASSUME NEW j \in Jobs, CommitResult(j) PROVE Base'
  <2>1. Goto(j, "committed") /\ worker[j].pc # "idle" /\ "committed" \in WorkerPc
    BY <1>8 DEF CommitResult, WorkerPc
  <2>2. /\ worker' \in [Jobs -> WorkerCall] /\ Others(j)
        /\ worker'[j].pc = "committed"
    BY <2>1, <1>0, GotoEffect
  <2>3. CallsTyped'
    BY <1>8, <2>2, <1>0 DEF CommitResult, CallsTyped, ScanStatus
  <2>4. JobsOK'
    BY <1>8, <2>1, <2>2, <1>0, BusyStaysBusy DEF CommitResult
  <2> QED
    BY <2>3, <2>4
<1>9. ASSUME NEW j \in Jobs, DuplicateResult(j) PROVE Base'
  <2>1. Goto(j, "catch") /\ worker[j].pc # "idle" /\ "catch" \in WorkerPc
    BY <1>9 DEF DuplicateResult, WorkerPc
  <2>2. /\ worker' \in [Jobs -> WorkerCall] /\ Others(j)
        /\ worker'[j].pc = "catch"
    BY <2>1, <1>0, GotoEffect
  <2>3. CallsTyped'
    BY <1>9, <2>2, <1>0 DEF DuplicateResult, CallsTyped
  <2>4. JobsOK'
    BY <1>9, <2>1, <2>2, <1>0, BusyStaysBusy DEF DuplicateResult
  <2> QED
    BY <2>3, <2>4
<1>10. ASSUME NEW j \in Jobs, Throw(j) PROVE Base'
  <2>1. Goto(j, "catch") /\ worker[j].pc # "idle" /\ "catch" \in WorkerPc
    BY <1>10 DEF Throw, WorkerPc
  <2>2. /\ worker' \in [Jobs -> WorkerCall] /\ Others(j)
        /\ worker'[j].pc = "catch"
    BY <2>1, <1>0, GotoEffect
  <2>3. CallsTyped'
    BY <1>10, <2>2, <1>0 DEF Throw, CallsTyped
  <2>4. JobsOK'
    BY <1>10, <2>1, <2>2, <1>0, BusyStaysBusy DEF Throw
  <2> QED
    BY <2>3, <2>4
<1>11. ASSUME NEW j \in Jobs, AfterCommit(j) PROVE Base'
  <2>1. Goto(j, "notify") /\ worker[j].pc # "idle" /\ "notify" \in WorkerPc
    BY <1>11 DEF AfterCommit, WorkerPc
  <2>2. /\ worker' \in [Jobs -> WorkerCall] /\ Others(j)
        /\ worker'[j].pc = "notify"
    BY <2>1, <1>0, GotoEffect
  <2>3. CallsTyped'
    BY <1>11, <2>2, <1>0 DEF AfterCommit, CallsTyped
  <2>4. JobsOK'
    BY <1>11, <2>1, <2>2, <1>0, BusyStaysBusy DEF AfterCommit
  <2> QED
    BY <2>3, <2>4
<1>12. ASSUME NEW j \in Jobs, RecordFailure(j) PROVE Base'
  <2>1. /\ worker' = [worker EXCEPT ![j].pc = "notify", ![j].ok = FALSE]
        /\ worker[j].pc # "idle" /\ "notify" \in WorkerPc
    BY <1>12 DEF RecordFailure, WorkerPc
  <2>2. /\ worker' \in [Jobs -> WorkerCall] /\ Others(j)
        /\ worker'[j].pc = "notify"
    BY <2>1, <1>0, FailEffect
  <2>3. scan' \in [Scans -> ScanStatus \union {"ABSENT"}]
    BY <1>12, <1>0 DEF RecordFailure, CallsTyped, ScanStatus
  <2>4. CallsTyped'
    BY <1>12, <2>2, <2>3, <1>0 DEF RecordFailure, CallsTyped
  <2>5. JobsOK'
    BY <1>12, <2>1, <2>2, <1>0, BusyStaysBusy DEF RecordFailure
  <2> QED
    BY <2>4, <2>5
<1>13. ASSUME NEW j \in Jobs, FailureLost(j) PROVE Base'
  <2>1. /\ worker' = [worker EXCEPT ![j].pc = "end", ![j].ok = FALSE]
        /\ worker[j].pc # "idle" /\ "end" \in WorkerPc
    BY <1>13 DEF FailureLost, WorkerPc
  <2>2. /\ worker' \in [Jobs -> WorkerCall] /\ Others(j)
        /\ worker'[j].pc = "end"
    BY <2>1, <1>0, FailEffect
  <2>3. scan' \in [Scans -> ScanStatus \union {"ABSENT"}]
    BY <1>13, <1>0 DEF FailureLost, CallsTyped, ScanStatus
  <2>4. CallsTyped'
    BY <1>13, <2>2, <2>3, <1>0 DEF FailureLost, CallsTyped
  <2>5. JobsOK'
    BY <1>13, <2>1, <2>2, <1>0, BusyStaysBusy DEF FailureLost
  <2> QED
    BY <2>4, <2>5
<1>14. ASSUME NEW j \in Jobs, ReadBatch(j) PROVE Base'
  <2> DEFINE pc == IF batch.status \in FinalStatus THEN "end" ELSE "count"
  <2>1. Goto(j, pc) /\ worker[j].pc # "idle" /\ pc \in WorkerPc
    BY <1>14 DEF ReadBatch, WorkerPc
  <2>2. /\ worker' \in [Jobs -> WorkerCall] /\ Others(j)
        /\ worker'[j].pc = pc
    BY <2>1, <1>0, GotoEffect
  <2>3. CallsTyped'
    BY <1>14, <2>2, <1>0 DEF ReadBatch, CallsTyped
  <2>4. JobsOK'
    BY <1>14, <2>1, <2>2, <1>0, BusyStaysBusy DEF ReadBatch
  <2> QED
    BY <2>3, <2>4
<1>15. ASSUME NEW j \in Jobs, CountScans(j) PROVE Base'
  <2>1. worker[j].pc # "idle"
    BY <1>15 DEF CountScans, Count
  <2>2. CallsTyped'
    BY <1>15, <1>0, CountEffect DEF CountScans, Count, CallsTyped
  <2>3. JobsOK'
    BY <1>15, <2>1, <1>0, CountEffect, BusyStaysBusy DEF CountScans, Count
  <2> QED
    BY <2>2, <2>3
<1>16. ASSUME NEW j \in Jobs, WriteProgress(j) PROVE Base'
  <2>1. Return(j) /\ worker[j].pc # "idle"
    BY <1>16 DEF WriteProgress
  <2>2. /\ worker' \in [Jobs -> WorkerCall] /\ Others(j)
        /\ worker'[j].pc = "end"
    BY <2>1, <1>0, ReturnEffect
  <2>3. CallsTyped'
    BY <1>16, <2>2, <1>0 DEF WriteProgress, CallsTyped
  <2>4. JobsOK'
    BY <1>16, <2>1, <2>2, <1>0, BusyStaysBusy DEF WriteProgress
  <2> QED
    BY <2>3, <2>4
<1>17. ASSUME NEW j \in Jobs, WriteFinal(j) PROVE Base'
  <2>1. Return(j) /\ worker[j].pc # "idle"
    BY <1>17 DEF WriteFinal
  <2>2. /\ worker' \in [Jobs -> WorkerCall] /\ Others(j)
        /\ worker'[j].pc = "end"
    BY <2>1, <1>0, ReturnEffect
  <2>3. CallsTyped'
    BY <1>17, <2>2, <1>0 DEF WriteFinal, CallsTyped
  <2>4. JobsOK'
    BY <1>17, <2>1, <2>2, <1>0, BusyStaysBusy DEF WriteFinal
  <2> QED
    BY <2>3, <2>4
<1>18. ASSUME NEW j \in Jobs, NotifyError(j) PROVE Base'
  <2>1. Return(j) /\ worker[j].pc # "idle"
    BY <1>18 DEF NotifyError
  <2>2. /\ worker' \in [Jobs -> WorkerCall] /\ Others(j)
        /\ worker'[j].pc = "end"
    BY <2>1, <1>0, ReturnEffect
  <2>3. CallsTyped'
    BY <1>18, <2>2, <1>0 DEF NotifyError, CallsTyped
  <2>4. JobsOK'
    BY <1>18, <2>1, <2>2, <1>0, BusyStaysBusy DEF NotifyError
  <2> QED
    BY <2>3, <2>4
<1>19. ASSUME NEW j \in Jobs, EndAttempt(j) PROVE Base'
  <2>1. job[j].state = "active" /\ job[j] \in JobRow
    BY <1>19, <1>0 DEF EndAttempt, Close, JobsOK, CallsTyped
  <2>2. job[j].made < MaxAttempts /\ job[j].stalled <= MaxStalled
    BY <2>1, <1>0 DEF JobsOK
  <2> DEFINE Closed == /\ job' \in [Jobs -> JobRow]
                       /\ \A k \in Jobs \ {j} : job'[k] = job[k]
                       /\ job'[j].scan = job[j].scan
                       /\ job'[j].state \notin {"none", "active"}
                       /\ job'[j].state = "waiting" =>
                             /\ job'[j].made < MaxAttempts
                             /\ job'[j].stalled <= MaxStalled
  <2>3. Closed
    <3>1. CASE worker[j].ok
      <4>1. job' = [job EXCEPT ![j] = [job[j] EXCEPT !.state = "completed"]]
        BY <1>19, <3>1 DEF EndAttempt, Close
      <4> QED
        BY <4>1, <2>1, <1>0 DEF CallsTyped, JobRow
    <3>2. CASE ~worker[j].ok
      <4> DEFINE st == IF job[j].made + 1 < MaxAttempts THEN "waiting" ELSE "failed"
      <4>1. job' = [job EXCEPT ![j] = [job[j] EXCEPT !.made = job[j].made + 1, !.state = st]]
        BY <1>19, <3>2 DEF EndAttempt, Close
      <4>2. job[j].made + 1 \in 0..MaxAttempts
        BY <2>1, <2>2, LimitsAreNumbers DEF JobRow
      <4> QED
        BY <4>1, <4>2, <2>1, <2>2, <1>0 DEF CallsTyped, JobRow
    <3> QED
      BY <3>1, <3>2
  <2> HIDE DEF Closed
  <2>4. worker' = [worker EXCEPT ![j] = IdleWorker]
    BY <1>19 DEF EndAttempt, Close
  <2>5. CallsTyped'
    BY <1>19, <2>3, <2>4, <1>0, IdleEffect DEF EndAttempt, Close, CallsTyped, Closed
  <2>6. JobsOK'
    BY <2>1, <2>3, <2>4, <1>0, IdleEffect DEF JobsOK, Others, Closed
  <2> QED
    BY <2>5, <2>6
<1>20. ASSUME NEW j \in Jobs, Crash(j) PROVE Base'
  <2>1. job[j].state = "active" /\ job[j] \in JobRow
    BY <1>20, <1>0 DEF Crash, JobsOK, CallsTyped
  <2>2. job[j].made < MaxAttempts /\ job[j].stalled <= MaxStalled
    BY <2>1, <1>0 DEF JobsOK
  <2> DEFINE Closed == /\ job' \in [Jobs -> JobRow]
                       /\ \A k \in Jobs \ {j} : job'[k] = job[k]
                       /\ job'[j].scan = job[j].scan
                       /\ job'[j].state \notin {"none", "active"}
                       /\ job'[j].state = "waiting" =>
                             /\ job'[j].made < MaxAttempts
                             /\ job'[j].stalled <= MaxStalled
  <2>3. Closed
    BY <1>20, <2>1, <2>2, <1>0, LimitsAreNumbers DEF Crash, CallsTyped, JobRow
  <2> HIDE DEF Closed
  <2>4. worker' = [worker EXCEPT ![j] = IdleWorker]
    BY <1>20 DEF Crash
  <2>5. CallsTyped'
    BY <1>20, <2>3, <2>4, <1>0, IdleEffect DEF Crash, CallsTyped, Closed
  <2>6. JobsOK'
    BY <2>1, <2>3, <2>4, <1>0, IdleEffect DEF JobsOK, Others, Closed
  <2> QED
    BY <2>5, <2>6
<1>21. CASE CancelCheck
  <2>1. CallsTyped'
    BY <1>21, <1>0 DEF CancelCheck, CallsTyped, CancelCall
  <2>2. JobsOK'
    BY <1>21, <1>0 DEF CancelCheck, JobsOK
  <2> QED
    BY <2>1, <2>2
<1>22. CASE CancelRead
  <2>1. CallsTyped'
    BY <1>22, <1>0 DEF CancelRead, CallsTyped, CancelCall
  <2>2. JobsOK'
    BY <1>22, <1>0 DEF CancelRead, JobsOK
  <2> QED
    BY <2>1, <2>2
<1>23. CASE CancelScans
  <2>1. scan' \in [Scans -> ScanStatus \union {"ABSENT"}]
    BY <1>23, <1>0 DEF CancelScans, CancelIn, CallsTyped, ScanStatus
  <2>2. CallsTyped'
    BY <1>23, <2>1, <1>0 DEF CancelScans, CancelIn, CallsTyped, CancelCall
  <2>3. JobsOK'
    BY <1>23, <1>0 DEF CancelScans, CancelIn, JobsOK
  <2> QED
    BY <2>2, <2>3
<1>24. CASE CancelBatchRow
  <2>1. CallsTyped'
    BY <1>24, <1>0 DEF CancelBatchRow, CallsTyped, CancelCall
  <2>2. JobsOK'
    BY <1>24, <1>0 DEF CancelBatchRow, JobsOK
  <2> QED
    BY <2>1, <2>2
<1>25. CASE AbortCancel
  <2>1. CallsTyped'
    BY <1>25, <1>0 DEF AbortCancel, CallsTyped, CancelCall
  <2>2. JobsOK'
    BY <1>25, <1>0 DEF AbortCancel, JobsOK
  <2> QED
    BY <2>1, <2>2
<1>26. CASE BatchAges
  <2>1. CallsTyped'
    BY <1>26, <1>0 DEF BatchAges, CallsTyped, StaleCall
  <2>2. JobsOK'
    BY <1>26, <1>0 DEF BatchAges, JobsOK
  <2> QED
    BY <2>1, <2>2
<1>27. CASE StaleFind
  <2>1. CallsTyped'
    BY <1>27, <1>0 DEF StaleFind, FindStale, CallsTyped, StaleCall
  <2>2. JobsOK'
    BY <1>27, <1>0 DEF StaleFind, FindStale, JobsOK
  <2> QED
    BY <2>1, <2>2
<1>28. CASE StaleMark
  <2>1. CallsTyped'
    BY <1>28, <1>0 DEF StaleMark, MarkStale, CallsTyped, StaleCall
  <2>2. JobsOK'
    BY <1>28, <1>0 DEF StaleMark, MarkStale, JobsOK
  <2> QED
    BY <2>1, <2>2
<1>29. CASE StaleError
  <2>1. CallsTyped'
    BY <1>29, <1>0 DEF StaleError, CallsTyped, StaleCall
  <2>2. JobsOK'
    BY <1>29, <1>0 DEF StaleError, JobsOK
  <2> QED
    BY <2>1, <2>2
<1>30. CASE UNCHANGED vars
  <2>1. CallsTyped'
    BY <1>30, <1>0 DEF vars, CallsTyped
  <2>2. JobsOK'
    BY <1>30, <1>0 DEF vars, JobsOK
  <2> QED
    BY <2>1, <2>2
<1> QED
  BY <1>1, <1>2, <1>3, <1>4, <1>5, <1>6, <1>7, <1>8, <1>9, <1>10, <1>11, <1>12, <1>13, <1>14, <1>15, <1>16, <1>17, <1>18, <1>19, <1>20, <1>21, <1>22, <1>23, <1>24, <1>25, <1>26, <1>27, <1>28, <1>29, <1>30
     DEF Next, Create, Work, WorkFault, Cancel, CheckStale

\* The batch row.
LEMMA NextInv1 == Inv1 /\ [Next]_vars => Inv1'
<1> SUFFICES ASSUME Inv1, [Next]_vars PROVE Inv1'
  OBVIOUS
<1>1. Base' /\ TypeOK
  BY BaseOfInv1, NextBase DEF Inv1
<1>2. CASE UNCHANGED batch
  BY <1>1, <1>2 DEF Inv1, TypeOK, Base, CallsTyped
<1>3. SUFFICES batch' \in BatchRow
  BY <1>1 DEF Inv1, TypeOK, Base, CallsTyped
<1>4. CASE CreateBatchRow \/ SetBatchRunning \/ CancelBatchRow \/ StaleMark
  BY <1>1, <1>4 DEF CreateBatchRow, SetBatchRunning, CancelBatchRow, StaleMark, MarkStale,
     TypeOK, BatchRow, BatchStatus, ScanStatus
<1>5. ASSUME NEW j \in Jobs, WriteProgress(j) \/ WriteFinal(j)
      PROVE  batch' \in BatchRow
  <2>1. worker[j].snap \in Snapshot
    BY <1>1 DEF TypeOK, WorkerCall
  <2>2. CASE WriteProgress(j)
    BY <1>1, <2>1, <2>2, ScanSets DEF WriteProgress, TypeOK, BatchRow, Snapshot,
       BatchStatus, ScanStatus
  <2>3. CASE WriteFinal(j)
    BY <1>1, <2>1, <2>3, ScanSets DEF WriteFinal, TypeOK, BatchRow, Snapshot,
       BatchStatus, ScanStatus
  <2> QED
    BY <1>5, <2>2, <2>3
<1>6. CASE ~UNCHANGED batch
  <2>1. Next
    BY <1>6 DEF vars
  <2>2. Create \/ AbortCreate => CreateBatchRow \/ SetBatchRunning
    BY <1>6 DEF Create, CreateScanRow, QueueScan, AbortCreate
  <2>3. \A j \in Jobs : Work(j) \/ WorkFault(j) => WriteProgress(j) \/ WriteFinal(j)
    BY <1>6 DEF Work, Claim, StartScan, CommitResult, DuplicateResult, AfterCommit,
       RecordFailure, ReadBatch, CountScans, Count, EndAttempt, Close,
       WorkFault, Throw, FailureLost, NotifyError, Crash
  <2>4. Cancel \/ AbortCancel => CancelBatchRow
    BY <1>6 DEF Cancel, CancelCheck, CancelRead, CancelScans, CancelIn, AbortCancel
  <2>5. CheckStale \/ StaleError => StaleMark
    BY <1>6 DEF CheckStale, BatchAges, StaleFind, FindStale, StaleError
  <2> QED
    BY <2>1, <2>2, <2>3, <2>4, <2>5, <1>4, <1>5 DEF Next
<1> QED
  BY <1>1, <1>2, <1>6 DEF Inv1, TypeOK, Base, CallsTyped

\* The model's state always has its declared shape: in particular no job is
\* ever tried more than MaxAttempts times, and none stalls more than
\* MaxStalled + 1 times, whatever the faults.
THEOREM TypeCorrect == Spec => []TypeOK
<1>1. Inv1 => TypeOK
  BY DEF Inv1
<1> QED
  BY <1>1, InitInv1, NextInv1, PTL DEF Spec

(* The second part of the inductive invariant *)

\* What is said of the rows and the queue alone.
RowsOK ==
    /\ CreationOK /\ OneJobPerScan /\ CancelOK
    /\ CompletedHasResult /\ CompletedBatchIsBacked /\ FinalCountsAddUp
    /\ CompletedJobCompletedScan

Inv2 == RowsOK /\ CallOK /\ SnapOK

\* The rows and the calls agree at the beginning.
LEMMA InitInv2 == Init => Inv2
  BY DEF Init, Inv2, RowsOK, CreationOK, OneJobPerScan, CancelOK, CallOK, SnapOK,
     CompletedHasResult, CompletedBatchIsBacked, FinalCountsAddUp,
     CompletedJobCompletedScan, IdleWorker

\* What is invariant of the rows survives a step that leaves the rows alone.
LEMMA RowsFrame ==
  ASSUME RowsOK, UNCHANGED <<scan, result, batch, job, api, cancel>>
  PROVE  RowsOK'
  BY DEF RowsOK, CreationOK, OneJobPerScan, CancelOK, CompletedHasResult,
     CompletedBatchIsBacked, FinalCountsAddUp, CompletedJobCompletedScan

\* What is invariant of the calls survives a step that leaves what they rely on
\* alone.
LEMMA CallsFrame ==
  ASSUME CallOK, SnapOK, UNCHANGED <<scan, result, worker, job, cancel>>
  PROVE  CallOK' /\ SnapOK'
  BY DEF CallOK, SnapOK

\* The step of one processor call that does not touch the rows it relies on.
LEMMA CallStep ==
  ASSUME CallOK, SnapOK, NEW j \in Jobs, Others(j),
         \A k \in Jobs \ {j} : job'[k].scan = job[k].scan,
         UNCHANGED <<scan, result, cancel>>,
         worker'[j].ok /\ worker'[j].pc \in {"committed", "notify", "count", "write", "end"}
            => scan[job'[j].scan] = "COMPLETED",
         worker'[j].pc # "write"
  PROVE  CallOK' /\ SnapOK'
  BY DEF CallOK, SnapOK, Others

\* Every step keeps rows and calls in agreement.
LEMMA NextInv2 == Inv1 /\ Inv2 /\ [Next]_vars => Inv2'
<1> SUFFICES ASSUME Inv1, Inv2, [Next]_vars PROVE Inv2'
  OBVIOUS
<1>0. /\ TypeOK /\ CallsTyped /\ JobsOK /\ RowsOK /\ CallOK /\ SnapOK
      /\ CreationOK /\ OneJobPerScan /\ CancelOK /\ CompletedHasResult
      /\ CompletedBatchIsBacked /\ FinalCountsAddUp /\ CompletedJobCompletedScan
  BY BaseOfInv1 DEF Base, Inv1, Inv2, RowsOK
<1> USE DEF Inv2, RowsOK
<1>1. CASE CreateBatchRow
  <2>1. RowsOK'
    BY <1>1, <1>0 DEF CreateBatchRow, CreationOK, OneJobPerScan, CancelOK, CompletedHasResult, CompletedBatchIsBacked, FinalCountsAddUp, CompletedJobCompletedScan
  <2>2. CallOK' /\ SnapOK'
    BY <1>1, <1>0, CallsFrame DEF CreateBatchRow
  <2> QED
    BY <2>1, <2>2
<1>2. ASSUME NEW s \in Scans, CreateScanRow(s) PROVE Inv2'
  <2>0. \A j \in Jobs : job[j].state = "none" /\ worker[j].pc = "idle"
    BY <1>2, <1>0 DEF CreateScanRow, CreationOK, JobsOK
  <2>1. RowsOK'
    BY <1>2, <2>0, <1>0 DEF CreateScanRow, TypeOK, ApiCall, CreationOK, OneJobPerScan, CancelOK, CompletedHasResult, CompletedBatchIsBacked, FinalCountsAddUp, CompletedJobCompletedScan
  <2>2. CallOK' /\ SnapOK'
    BY <1>2, <2>0, <1>0 DEF CreateScanRow, CallOK, SnapOK
  <2> QED
    BY <2>1, <2>2
<1>3. ASSUME NEW s \in Scans, QueueScan(s) PROVE Inv2'
  <2>1. CASE UNCHANGED job
    <3>1. RowsOK'
      BY <1>3, <2>1, <1>0 DEF QueueScan, CreationOK, OneJobPerScan, CancelOK, CompletedHasResult, CompletedBatchIsBacked, FinalCountsAddUp, CompletedJobCompletedScan
    <3> QED
      BY <1>3, <2>1, <3>1, <1>0, CallsFrame DEF QueueScan
  <2>2. CASE AddScanJob(s)
    <3>1. PICK j \in Jobs :
             /\ job[j].state = "none"
             /\ job' = [job EXCEPT ![j] = [state |-> "waiting", scan |-> s,
                                         made |-> 0, stalled |-> 0]]
      BY <2>2 DEF AddScanJob
    <3>2. /\ job'[j].state = "waiting" /\ job'[j].scan = s
          /\ \A k \in Jobs \ {j} : job'[k] = job[k]
      BY <3>1, <1>0 DEF TypeOK
    <3>3. worker[j].pc = "idle"
      BY <3>1, <1>0 DEF JobsOK
    <3>4. CreationOK' /\ CancelOK' /\ CompletedHasResult' /\ CompletedBatchIsBacked'
      BY <1>3, <3>2, <1>0 DEF QueueScan, CreationOK, CancelOK, CompletedHasResult,
         CompletedBatchIsBacked
    <3>5. OneJobPerScan'
      BY <1>3, <3>1, <3>2, <1>0 DEF QueueScan, OneJobPerScan, TypeOK, ApiCall
    <3>6. FinalCountsAddUp' /\ CompletedJobCompletedScan'
      BY <1>3, <3>2, <1>0 DEF QueueScan, FinalCountsAddUp, CompletedJobCompletedScan
    <3>7. CallOK' /\ SnapOK'
      BY <1>3, <3>2, <3>3, <1>0 DEF QueueScan, CallOK, SnapOK
    <3> QED
      BY <3>4, <3>5, <3>6, <3>7
  <2> QED
    BY <1>3, <2>1, <2>2 DEF QueueScan
<1>4. CASE SetBatchRunning
  <2>1. RowsOK'
    BY <1>4, <1>0 DEF SetBatchRunning, TypeOK, BatchRow, CreationOK, OneJobPerScan, CancelOK, CompletedHasResult, CompletedBatchIsBacked, FinalCountsAddUp, CompletedJobCompletedScan
  <2>2. CallOK' /\ SnapOK'
    BY <1>4, <1>0, CallsFrame DEF SetBatchRunning
  <2> QED
    BY <2>1, <2>2
<1>5. CASE AbortCreate
  <2>1. RowsOK'
    BY <1>5, <1>0 DEF AbortCreate, CreationOK, OneJobPerScan, CancelOK, CompletedHasResult, CompletedBatchIsBacked, FinalCountsAddUp, CompletedJobCompletedScan
  <2>2. CallOK' /\ SnapOK'
    BY <1>5, <1>0, CallsFrame DEF AbortCreate
  <2> QED
    BY <2>1, <2>2
<1>6. ASSUME NEW j \in Jobs, Claim(j) PROVE Inv2'
  <2>0. /\ \A k \in Jobs : job'[k].scan = job[k].scan
        /\ \A k \in Jobs : job'[k].state = "none" <=> job[k].state = "none"
        /\ \A k \in Jobs : job'[k].state = "completed" => job[k].state = "completed"
    BY <1>6, <1>0 DEF Claim, TypeOK, JobRow, JobsOK
  <2>1. RowsOK'
    BY <1>6, <2>0, <1>0 DEF Claim, CreationOK, OneJobPerScan, CancelOK, CompletedHasResult, CompletedBatchIsBacked, FinalCountsAddUp, CompletedJobCompletedScan
  <2>2. CallOK' /\ SnapOK'
    <3>1. Others(j) /\ worker'[j].pc = "load"
      BY <1>6, <1>0, ClaimEffect
    <3>2. UNCHANGED <<scan, result, cancel>>
      BY <1>6 DEF Claim
    <3> QED
      BY <2>0, <3>1, <3>2, <1>0, CallStep
  <2> QED
    BY <2>1, <2>2
<1>7. ASSUME NEW j \in Jobs, StartScan(j) PROVE Inv2'
  <2>0. /\ Others(j) /\ worker'[j].pc = "run" /\ worker'[j].ok = worker[j].ok
        /\ worker'[j].snap = worker[j].snap
    BY <1>7, <1>0, GotoEffect DEF StartScan, WorkerPc
  <2>3. /\ job[j].state = "active" /\ job[j].scan \in Scans
        /\ \A k \in Jobs \ {j} : job[k].state # "none" => job[k].scan # job[j].scan
        /\ \A k \in Jobs \ {j} : worker[k].pc # "idle" => job[k].scan # job[j].scan
    BY <1>7, <1>0 DEF StartScan, JobsOK, OneJobPerScan
  <2>1. RowsOK'
    BY <1>7, <2>3, <1>0 DEF StartScan, TypeOK, CreationOK, OneJobPerScan, CancelOK, CompletedHasResult, CompletedBatchIsBacked, FinalCountsAddUp, CompletedJobCompletedScan
  <2>2. CallOK' /\ SnapOK'
    BY <1>7, <2>0, <2>3, <1>0 DEF StartScan, TypeOK, CallOK, SnapOK, Others
  <2> QED
    BY <2>1, <2>2
<1>8. ASSUME NEW j \in Jobs, CommitResult(j) PROVE Inv2'
  <2>0. /\ Others(j) /\ worker'[j].pc = "committed" /\ worker'[j].ok = worker[j].ok
        /\ worker'[j].snap = worker[j].snap
    BY <1>8, <1>0, GotoEffect DEF CommitResult, WorkerPc
  <2>3. /\ job[j].state = "active" /\ job[j].scan \in Scans
        /\ \A k \in Jobs \ {j} : job[k].state # "none" => job[k].scan # job[j].scan
        /\ \A k \in Jobs \ {j} : worker[k].pc # "idle" => job[k].scan # job[j].scan
    BY <1>8, <1>0 DEF CommitResult, JobsOK, OneJobPerScan
  <2>1. RowsOK'
    BY <1>8, <2>3, <1>0 DEF CommitResult, TypeOK, CreationOK, OneJobPerScan, CancelOK, CompletedHasResult, CompletedBatchIsBacked, FinalCountsAddUp, CompletedJobCompletedScan
  <2>2. CallOK' /\ SnapOK'
    BY <1>8, <2>0, <2>3, <1>0 DEF CommitResult, TypeOK, CallOK, SnapOK, Others
  <2> QED
    BY <2>1, <2>2
<1>9. ASSUME NEW j \in Jobs, DuplicateResult(j) PROVE Inv2'
  <2>0. /\ Others(j) /\ worker'[j].pc = "catch" /\ worker'[j].ok = worker[j].ok
        /\ worker'[j].snap = worker[j].snap
    BY <1>9, <1>0, GotoEffect DEF DuplicateResult, WorkerPc
  <2>1. RowsOK'
    BY <1>9, <1>0, RowsFrame DEF DuplicateResult
  <2>2. CallOK' /\ SnapOK'
    BY <1>9, <2>0, <1>0, CallStep DEF DuplicateResult
  <2> QED
    BY <2>1, <2>2
<1>10. ASSUME NEW j \in Jobs, Throw(j) PROVE Inv2'
  <2>0. /\ Others(j) /\ worker'[j].pc = "catch" /\ worker'[j].ok = worker[j].ok
        /\ worker'[j].snap = worker[j].snap
    BY <1>10, <1>0, GotoEffect DEF Throw, WorkerPc
  <2>1. RowsOK'
    BY <1>10, <1>0, RowsFrame DEF Throw
  <2>2. CallOK' /\ SnapOK'
    BY <1>10, <2>0, <1>0, CallStep DEF Throw
  <2> QED
    BY <2>1, <2>2
<1>11. ASSUME NEW j \in Jobs, AfterCommit(j) PROVE Inv2'
  <2>0. /\ Others(j) /\ worker'[j].pc = "notify" /\ worker'[j].ok = worker[j].ok
        /\ worker'[j].snap = worker[j].snap
    BY <1>11, <1>0, GotoEffect DEF AfterCommit, WorkerPc
  <2>1. RowsOK'
    BY <1>11, <1>0, RowsFrame DEF AfterCommit
  <2>2. CallOK' /\ SnapOK'
    BY <1>11, <2>0, <1>0, CallStep DEF AfterCommit, CallOK
  <2> QED
    BY <2>1, <2>2
<1>12. ASSUME NEW j \in Jobs, RecordFailure(j) PROVE Inv2'
  <2>0. Others(j) /\ worker'[j].pc = "notify" /\ ~worker'[j].ok
    BY <1>12, <1>0, FailEffect DEF RecordFailure, WorkerPc
  <2>3. /\ job[j].state = "active" /\ job[j].scan \in Scans
        /\ \A k \in Jobs \ {j} : job[k].state # "none" => job[k].scan # job[j].scan
        /\ \A k \in Jobs \ {j} : worker[k].pc # "idle" => job[k].scan # job[j].scan
    BY <1>12, <1>0 DEF RecordFailure, JobsOK, OneJobPerScan
  <2>4. /\ UNCHANGED <<result, batch, job, api, cancel>>
        /\ \A s \in Scans \ {job[j].scan} : scan'[s] = scan[s]
        /\ scan'[job[j].scan] \in {scan[job[j].scan], "FAILED"}
    <3>1. UNCHANGED <<result, batch, job, api, cancel>>
      BY <1>12 DEF RecordFailure
    <3>2. CASE scan' = [scan EXCEPT ![job[j].scan] = "FAILED"]
      BY <3>1, <3>2, <2>3, <1>0 DEF TypeOK
    <3>3. CASE scan' = scan
      BY <3>1, <3>3
    <3> QED
      BY <1>12, <3>2, <3>3 DEF RecordFailure
  <2>1. RowsOK'
    <3>1. \A s \in Scans : scan[s] = "ABSENT" <=> scan'[s] = "ABSENT"
      BY <2>3, <2>4, <1>0, <1>12 DEF RecordFailure, TypeOK, CreationOK, JobsOK
    <3>2. CreationOK' /\ OneJobPerScan' /\ CancelOK'
      BY <2>4, <3>1, <1>0 DEF CreationOK, OneJobPerScan, CancelOK
    <3>3. CompletedHasResult' /\ CompletedBatchIsBacked' /\ FinalCountsAddUp'
      BY <2>3, <2>4, <1>0 DEF CompletedHasResult, CompletedBatchIsBacked, FinalCountsAddUp
    <3>4. CompletedJobCompletedScan'
      BY <2>3, <2>4, <1>0 DEF CompletedJobCompletedScan, TypeOK, JobRow, JobsOK
    <3> QED
      BY <3>2, <3>3, <3>4
  <2>2. CallOK' /\ SnapOK'
    <3>1. CallOK'
      <4> SUFFICES ASSUME NEW k \in Jobs, worker'[k].ok,
                          worker'[k].pc \in {"committed", "notify", "count", "write", "end"}
                   PROVE  scan'[job[k].scan] = "COMPLETED"
        BY <2>4 DEF CallOK
      <4>1. k # j /\ worker'[k] = worker[k] /\ worker[k].pc # "idle"
        BY <2>0 DEF Others
      <4>2. job[k].scan \in Scans /\ job[k].scan # job[j].scan
        BY <4>1, <2>3, <1>0 DEF JobsOK
      <4> QED
        BY <4>1, <4>2, <2>4, <1>0 DEF CallOK
    <3>2. SnapOK'
      BY <2>0, <2>4, <1>0 DEF SnapOK, Others
    <3> QED
      BY <3>1, <3>2
  <2> QED
    BY <2>1, <2>2
<1>13. ASSUME NEW j \in Jobs, FailureLost(j) PROVE Inv2'
  <2>0. Others(j) /\ worker'[j].pc = "end" /\ ~worker'[j].ok
    BY <1>13, <1>0, FailEffect DEF FailureLost, WorkerPc
  <2>3. /\ job[j].state = "active" /\ job[j].scan \in Scans
        /\ \A k \in Jobs \ {j} : job[k].state # "none" => job[k].scan # job[j].scan
        /\ \A k \in Jobs \ {j} : worker[k].pc # "idle" => job[k].scan # job[j].scan
    BY <1>13, <1>0 DEF FailureLost, JobsOK, OneJobPerScan
  <2>4. /\ UNCHANGED <<result, batch, job, api, cancel>>
        /\ \A s \in Scans \ {job[j].scan} : scan'[s] = scan[s]
        /\ scan'[job[j].scan] \in {scan[job[j].scan], "FAILED"}
    <3>1. UNCHANGED <<result, batch, job, api, cancel>>
      BY <1>13 DEF FailureLost
    <3>2. CASE scan' = [scan EXCEPT ![job[j].scan] = "FAILED"]
      BY <3>1, <3>2, <2>3, <1>0 DEF TypeOK
    <3>3. CASE scan' = scan
      BY <3>1, <3>3
    <3> QED
      BY <1>13, <3>2, <3>3 DEF FailureLost
  <2>1. RowsOK'
    <3>1. \A s \in Scans : scan[s] = "ABSENT" <=> scan'[s] = "ABSENT"
      BY <2>3, <2>4, <1>0, <1>13 DEF FailureLost, TypeOK, CreationOK, JobsOK
    <3>2. CreationOK' /\ OneJobPerScan' /\ CancelOK'
      BY <2>4, <3>1, <1>0 DEF CreationOK, OneJobPerScan, CancelOK
    <3>3. CompletedHasResult' /\ CompletedBatchIsBacked' /\ FinalCountsAddUp'
      BY <2>3, <2>4, <1>0 DEF CompletedHasResult, CompletedBatchIsBacked, FinalCountsAddUp
    <3>4. CompletedJobCompletedScan'
      BY <2>3, <2>4, <1>0 DEF CompletedJobCompletedScan, TypeOK, JobRow, JobsOK
    <3> QED
      BY <3>2, <3>3, <3>4
  <2>2. CallOK' /\ SnapOK'
    <3>1. CallOK'
      <4> SUFFICES ASSUME NEW k \in Jobs, worker'[k].ok,
                          worker'[k].pc \in {"committed", "notify", "count", "write", "end"}
                   PROVE  scan'[job[k].scan] = "COMPLETED"
        BY <2>4 DEF CallOK
      <4>1. k # j /\ worker'[k] = worker[k] /\ worker[k].pc # "idle"
        BY <2>0 DEF Others
      <4>2. job[k].scan \in Scans /\ job[k].scan # job[j].scan
        BY <4>1, <2>3, <1>0 DEF JobsOK
      <4> QED
        BY <4>1, <4>2, <2>4, <1>0 DEF CallOK
    <3>2. SnapOK'
      BY <2>0, <2>4, <1>0 DEF SnapOK, Others
    <3> QED
      BY <3>1, <3>2
  <2> QED
    BY <2>1, <2>2
<1>14. ASSUME NEW j \in Jobs, ReadBatch(j) PROVE Inv2'
  <2>0. /\ Others(j) /\ worker'[j].pc \in {"end", "count"}
        /\ worker'[j].ok = worker[j].ok
    BY <1>14, <1>0, GotoEffect DEF ReadBatch, WorkerPc
  <2>1. RowsOK'
    BY <1>14, <1>0, RowsFrame DEF ReadBatch
  <2>2. CallOK' /\ SnapOK'
    BY <1>14, <2>0, <1>0, CallStep DEF ReadBatch, CallOK
  <2> QED
    BY <2>1, <2>2
<1>15. ASSUME NEW j \in Jobs, CountScans(j) PROVE Inv2'
  <2>0. worker[j].pc = "count" /\ UNCHANGED <<scan, result, batch, job, api, cancel>>
    BY <1>15 DEF CountScans, Count
  <2>1. RowsOK'
    BY <2>0, <1>0, RowsFrame
  <2>2. CallOK'
    BY <1>15, <2>0, <1>0, CountEffect DEF CallOK, Others
  <2>3. /\ Having({"COMPLETED"}) = {s \in Having({"COMPLETED"}) : result[s]}
        /\ Having({"COMPLETED"}) \cap Having({"FAILED"}) = {}
    BY <1>0 DEF Having, CompletedHasResult
  <2>4. ~cancel.used => Scans = Having({"COMPLETED"}) \cup Having({"FAILED"})
                                  \cup Having(OpenStatus)
    <3>1. \A s \in Scans : scan[s] # "ABSENT"
      BY <1>15, <1>0 DEF CountScans, Count, CreationOK, JobsOK
    <3>2. ~cancel.used => \A s \in Scans : scan[s] \in {"COMPLETED", "FAILED"} \cup OpenStatus
      BY <3>1, <1>0 DEF TypeOK, ScanStatus, CancelOK, OpenStatus
    <3> QED
      BY <3>2 DEF Having
  <2>5. SnapOK'
    <3> DEFINE C == Having({"COMPLETED"})
               F == Having({"FAILED"})
               P == Having(OpenStatus)
    <3>0. /\ worker'[j].snap = [completed |-> C, failed |-> F, pending |-> P,
                               counted |-> {s \in C : result[s]}]
          /\ Others(j)
      BY <1>15, <1>0, CountEffect DEF CountScans
    <3>1. /\ worker'[j].snap.completed = C /\ worker'[j].snap.failed = F
          /\ worker'[j].snap.pending = P /\ worker'[j].snap.counted = C
          /\ Others(j)
      BY <3>0, <2>3
    <3>2. \A s \in C : result[s]
      BY <2>3
    <3> HIDE DEF C, F, P
    <3>3. C \cap F = {} /\ (~cancel.used => Scans = C \cup F \cup P)
      BY <2>3, <2>4 DEF C, F, P
    <3> QED
      BY <2>0, <3>1, <3>2, <3>3, <1>0 DEF SnapOK, Others
  <2> QED
    BY <2>1, <2>2, <2>5
<1>16. ASSUME NEW j \in Jobs, WriteProgress(j) PROVE Inv2'
  <2>0. /\ Others(j) /\ worker'[j].pc = "end" /\ worker'[j].ok = worker[j].ok
    BY <1>16, <1>0, ReturnEffect DEF WriteProgress
  <2>1. RowsOK'
    BY <1>16, <1>0 DEF WriteProgress, TypeOK, BatchRow, CreationOK, OneJobPerScan, CancelOK, CompletedHasResult, CompletedBatchIsBacked, FinalCountsAddUp, CompletedJobCompletedScan
  <2>2. CallOK' /\ SnapOK'
    BY <1>16, <2>0, <1>0, CallStep DEF WriteProgress, CallOK
  <2> QED
    BY <2>1, <2>2
<1>17. ASSUME NEW j \in Jobs, WriteFinal(j) PROVE Inv2'
  <2>0. /\ Others(j) /\ worker'[j].pc = "end" /\ worker'[j].ok = worker[j].ok
    BY <1>17, <1>0, ReturnEffect DEF WriteFinal
  <2> DEFINE C == worker[j].snap.completed
             F == worker[j].snap.failed
  <2>1. /\ C \in SUBSET Scans /\ F \in SUBSET Scans
    BY <1>0 DEF TypeOK, WorkerCall, Snapshot
  <2>2. /\ \A s \in C : result[s]
        /\ worker[j].snap.counted = C
        /\ C \cap F = {}
        /\ ~cancel.used => Scans = C \cup F
    BY <1>17, <1>0 DEF WriteFinal, SnapOK
  <2>3. /\ batch'.status = (IF F # {} THEN "FAILED" ELSE "COMPLETED")
        /\ batch'.completedCount = Cardinality(C)
        /\ batch'.failedCount = Cardinality(F)
        /\ batch'.counted = C
    BY <1>17, <2>2 DEF WriteFinal
  <2> HIDE DEF C, F
  <2>4. CompletedBatchIsBacked'
    BY <1>17, <2>2, <2>3 DEF WriteFinal, CompletedBatchIsBacked
  <2>5. F # {} <=> Cardinality(F) > 0
    BY <2>1, ScanSets, FS_EmptySet
  <2>6. ~cancel.used => Cardinality(C) + Cardinality(F) = Cardinality(Scans)
    <3>1. Cardinality(C \cup F) = Cardinality(C) + Cardinality(F) - Cardinality(C \cap F)
      BY <2>1, ScanSets, FS_Union
    <3>2. Cardinality(C \cap F) = 0
      BY <2>2, FS_EmptySet
    <3>3. Cardinality(C) \in Nat /\ Cardinality(F) \in Nat
      BY <2>1, ScanSets
    <3>4. Cardinality(C \cup F) = Cardinality(C) + Cardinality(F)
      BY <3>1, <3>2, <3>3
    <3> QED
      BY <2>2, <3>4
  <2>7. FinalCountsAddUp'
    BY <1>17, <2>3, <2>5, <2>6 DEF WriteFinal, FinalCountsAddUp
  <2>8. RowsOK'
    BY <1>17, <2>4, <2>7, <1>0 DEF WriteFinal, CreationOK, OneJobPerScan, CancelOK,
       CompletedHasResult, CompletedJobCompletedScan
  <2>9. CallOK' /\ SnapOK'
    BY <1>17, <2>0, <1>0, CallStep DEF WriteFinal, CallOK
  <2> QED
    BY <2>8, <2>9
<1>18. ASSUME NEW j \in Jobs, NotifyError(j) PROVE Inv2'
  <2>0. /\ Others(j) /\ worker'[j].pc = "end" /\ worker'[j].ok = worker[j].ok
    BY <1>18, <1>0, ReturnEffect DEF NotifyError
  <2>1. RowsOK'
    BY <1>18, <1>0, RowsFrame DEF NotifyError
  <2>2. CallOK' /\ SnapOK'
    BY <1>18, <2>0, <1>0, CallStep DEF NotifyError, CallOK
  <2> QED
    BY <2>1, <2>2
<1>19. ASSUME NEW j \in Jobs, EndAttempt(j) PROVE Inv2'
  <2>0. /\ \A k \in Jobs : job'[k].scan = job[k].scan
        /\ \A k \in Jobs : job'[k].state = "none" <=> job[k].state = "none"
        /\ \A k \in Jobs \ {j} : job'[k] = job[k]
        /\ job'[j].state = "completed" => worker[j].ok
    <3>1. CASE worker[j].ok
      BY <1>19, <3>1, <1>0 DEF EndAttempt, Close, TypeOK, JobRow, JobsOK
    <3>2. CASE ~worker[j].ok
      BY <1>19, <3>2, <1>0 DEF EndAttempt, Close, TypeOK, JobRow, JobsOK
    <3> QED
      BY <3>1, <3>2
  <2>1. worker' = [worker EXCEPT ![j] = IdleWorker] /\ worker[j].pc = "end"
    BY <1>19 DEF EndAttempt, Close
  <2>2. CompletedJobCompletedScan'
    BY <1>19, <2>0, <2>1, <1>0 DEF EndAttempt, Close, CallOK, CompletedJobCompletedScan
  <2>3. RowsOK'
    BY <1>19, <2>0, <2>2, <1>0 DEF EndAttempt, Close, CreationOK, OneJobPerScan,
       CancelOK, CompletedHasResult, CompletedBatchIsBacked, FinalCountsAddUp
  <2>4. CallOK' /\ SnapOK'
    BY <1>19, <2>0, <2>1, <1>0, IdleEffect, CallStep DEF EndAttempt, Close
  <2> QED
    BY <2>3, <2>4
<1>20. ASSUME NEW j \in Jobs, Crash(j) PROVE Inv2'
  <2>0. /\ \A k \in Jobs : job'[k].scan = job[k].scan
        /\ \A k \in Jobs : job'[k].state = "none" <=> job[k].state = "none"
        /\ \A k \in Jobs : job'[k].state = "completed" => job[k].state = "completed"
    BY <1>20, <1>0 DEF Crash, TypeOK, JobRow, JobsOK
  <2>1. RowsOK'
    <3>1. UNCHANGED <<scan, result, batch, api, cancel>>
      BY <1>20 DEF Crash
    <3>2. CreationOK' /\ OneJobPerScan' /\ CancelOK'
      BY <2>0, <3>1, <1>0 DEF CreationOK, OneJobPerScan, CancelOK
    <3>3. CompletedHasResult' /\ CompletedBatchIsBacked' /\ FinalCountsAddUp'
      BY <3>1, <1>0 DEF CompletedHasResult, CompletedBatchIsBacked, FinalCountsAddUp
    <3>4. CompletedJobCompletedScan'
      BY <2>0, <3>1, <1>0 DEF CompletedJobCompletedScan
    <3> QED
      BY <3>2, <3>3, <3>4
  <2>2. CallOK' /\ SnapOK'
    BY <1>20, <2>0, <1>0, IdleEffect, CallStep DEF Crash
  <2> QED
    BY <2>1, <2>2
<1>21. CASE CancelCheck
  <2>1. RowsOK'
    BY <1>21, <1>0 DEF CancelCheck, TypeOK, CancelCall, CreationOK, OneJobPerScan, CancelOK, CompletedHasResult, CompletedBatchIsBacked, FinalCountsAddUp, CompletedJobCompletedScan
  <2>2. CallOK' /\ SnapOK'
    BY <1>21, <1>0 DEF CancelCheck, TypeOK, CancelCall, CallOK, SnapOK
  <2> QED
    BY <2>1, <2>2
<1>22. CASE CancelRead
  <2>1. RowsOK'
    BY <1>22, <1>0 DEF CancelRead, TypeOK, CancelCall, CreationOK, OneJobPerScan, CancelOK, CompletedHasResult, CompletedBatchIsBacked, FinalCountsAddUp, CompletedJobCompletedScan
  <2>2. CallOK' /\ SnapOK'
    BY <1>22, <1>0 DEF CancelRead, TypeOK, CancelCall, CallOK, SnapOK
  <2> QED
    BY <2>1, <2>2
<1>23. CASE CancelScans
  <2>0. /\ cancel.used /\ cancel'.used /\ cancel'.pc = "marked"
        /\ \A s \in Scans : \/ (scan'[s] = scan[s])
                          \/ (scan[s] \in OpenStatus /\ scan'[s] = "CANCELLED")
    <3>1. cancel.used /\ cancel'.used /\ cancel'.pc = "marked"
      <4>1. cancel.pc = "read" /\ cancel' = [cancel EXCEPT !.pc = "marked"]
        BY <1>23 DEF CancelScans, CancelIn
      <4> QED
        BY <4>1, <1>0 DEF CancelOK, TypeOK, CancelCall
    <3>2. CASE UNCHANGED scan
      BY <3>1, <3>2
    <3>3. CASE scan' = [s \in Scans |-> IF s \in cancel.todo /\ scan[s] \in OpenStatus
                                        THEN "CANCELLED" ELSE scan[s]]
      <4>1. \A s \in Scans : \/ (scan'[s] = scan[s])
                           \/ (scan[s] \in OpenStatus /\ scan'[s] = "CANCELLED")
        BY <3>3
      <4> QED
        BY <3>1, <4>1
    <3> QED
      BY <1>23, <3>2, <3>3 DEF CancelScans, CancelIn
  <2>1. CreationOK' /\ OneJobPerScan' /\ CancelOK'
    BY <1>23, <2>0, <1>0 DEF CancelScans, CancelIn, CreationOK, OneJobPerScan, CancelOK
  <2>2. CompletedHasResult' /\ CompletedBatchIsBacked' /\ FinalCountsAddUp'
    BY <1>23, <2>0, <1>0 DEF CancelScans, CancelIn, CompletedHasResult,
       CompletedBatchIsBacked, FinalCountsAddUp
  <2>3. CompletedJobCompletedScan'
    BY <1>23, <2>0, <1>0 DEF CancelScans, CancelIn, CompletedJobCompletedScan, OpenStatus, JobsOK
  <2>4. CallOK' /\ SnapOK'
    BY <1>23, <2>0, <1>0 DEF CancelScans, CancelIn, CallOK, SnapOK, OpenStatus, JobsOK
  <2> QED
    BY <2>1, <2>2, <2>3, <2>4
<1>24. CASE CancelBatchRow
  <2>1. RowsOK'
    BY <1>24, <1>0 DEF CancelBatchRow, TypeOK, BatchRow, CancelCall, CreationOK, OneJobPerScan, CancelOK, CompletedHasResult, CompletedBatchIsBacked, FinalCountsAddUp, CompletedJobCompletedScan
  <2>2. CallOK' /\ SnapOK'
    BY <1>24, <1>0 DEF CancelBatchRow, TypeOK, CancelCall, CallOK, SnapOK
  <2> QED
    BY <2>1, <2>2
<1>25. CASE AbortCancel
  <2>1. RowsOK'
    BY <1>25, <1>0 DEF AbortCancel, TypeOK, CancelCall, CreationOK, OneJobPerScan, CancelOK, CompletedHasResult, CompletedBatchIsBacked, FinalCountsAddUp, CompletedJobCompletedScan
  <2>2. CallOK' /\ SnapOK'
    BY <1>25, <1>0 DEF AbortCancel, TypeOK, CancelCall, CallOK, SnapOK
  <2> QED
    BY <2>1, <2>2
<1>26. CASE BatchAges
  <2>1. RowsOK'
    BY <1>26, <1>0, RowsFrame DEF BatchAges
  <2>2. CallOK' /\ SnapOK'
    BY <1>26, <1>0, CallsFrame DEF BatchAges
  <2> QED
    BY <2>1, <2>2
<1>27. CASE StaleFind
  <2>1. RowsOK'
    BY <1>27, <1>0, RowsFrame DEF StaleFind, FindStale
  <2>2. CallOK' /\ SnapOK'
    BY <1>27, <1>0, CallsFrame DEF StaleFind, FindStale
  <2> QED
    BY <2>1, <2>2
<1>28. CASE StaleMark
  <2>1. RowsOK'
    BY <1>28, <1>0 DEF StaleMark, MarkStale, TypeOK, BatchRow, CreationOK, OneJobPerScan, CancelOK, CompletedHasResult, CompletedBatchIsBacked, FinalCountsAddUp, CompletedJobCompletedScan
  <2>2. CallOK' /\ SnapOK'
    BY <1>28, <1>0, CallsFrame DEF StaleMark, MarkStale
  <2> QED
    BY <2>1, <2>2
<1>29. CASE StaleError
  <2>1. RowsOK'
    BY <1>29, <1>0, RowsFrame DEF StaleError
  <2>2. CallOK' /\ SnapOK'
    BY <1>29, <1>0, CallsFrame DEF StaleError
  <2> QED
    BY <2>1, <2>2
<1>30. CASE UNCHANGED vars
  <2>1. RowsOK'
    BY <1>30, <1>0, RowsFrame DEF vars
  <2>2. CallOK' /\ SnapOK'
    BY <1>30, <1>0, CallsFrame DEF vars
  <2> QED
    BY <2>1, <2>2
<1> QED
  BY <1>1, <1>2, <1>3, <1>4, <1>5, <1>6, <1>7, <1>8, <1>9, <1>10, <1>11, <1>12, <1>13, <1>14, <1>15, <1>16, <1>17, <1>18, <1>19, <1>20, <1>21, <1>22, <1>23, <1>24, <1>25, <1>26, <1>27, <1>28, <1>29, <1>30
     DEF Next, Create, Work, WorkFault, Cancel, CheckStale

\* The whole invariant holds in every behaviour.
LEMMA InvariantHolds == Spec => [](Inv1 /\ Inv2)
  BY InitInv1, InitInv2, NextInv1, NextInv2, PTL DEF Spec

\* A scan shown COMPLETED has its result, whatever is retried, crashes or
\* fails after the commit.
THEOREM CompletedScansHaveResults == Spec => []CompletedHasResult
<1>1. Inv1 /\ Inv2 => CompletedHasResult
  BY DEF Inv2, RowsOK
<1> QED
  BY <1>1, InvariantHolds, PTL

\* A COMPLETED batch nobody tried to cancel has a result for every scan,
\* although the notifier writes the status from an old reading.
THEOREM CompletedBatchesAreBacked == Spec => []CompletedBatchIsBacked
<1>1. Inv1 /\ Inv2 => CompletedBatchIsBacked
  BY DEF Inv2, RowsOK
<1> QED
  BY <1>1, InvariantHolds, PTL

\* The counters and the aggregates of a finished batch add up.
THEOREM FinalCountsAgree == Spec => []FinalCountsAddUp
<1>1. Inv1 /\ Inv2 => FinalCountsAddUp
  BY DEF Inv2, RowsOK
<1> QED
  BY <1>1, InvariantHolds, PTL

\* A completed job leaves a COMPLETED scan behind, for good.
THEOREM CompletedJobsCompleteScans == Spec => []CompletedJobCompletedScan
<1>1. Inv1 /\ Inv2 => CompletedJobCompletedScan
  BY DEF Inv2, RowsOK
<1> QED
  BY <1>1, InvariantHolds, PTL

\* A cancellation never takes a scan that is COMPLETED or FAILED by the time
\* its update runs (the status filter of cancelBatch's updateMany).
THEOREM CancellationPreservesFinished == Spec => CancelPreservesFinished
<1>1. TypeOK /\ [Next]_vars =>
        [\A s \in Scans : scan[s] \in {"COMPLETED", "FAILED"} => scan'[s] # "CANCELLED"]_vars
  <2> SUFFICES ASSUME TypeOK, Next, NEW s \in Scans, scan[s] \in {"COMPLETED", "FAILED"}
               PROVE  scan'[s] # "CANCELLED"
    BY DEF vars
  <2>1. CASE UNCHANGED scan
    BY <2>1
  <2>2. ASSUME NEW r \in Scans, CreateScanRow(r) PROVE scan'[s] # "CANCELLED"
    BY <2>2 DEF CreateScanRow, TypeOK
  <2>3. ASSUME NEW j \in Jobs,
               \E st \in {"RUNNING", "COMPLETED", "FAILED"} :
                  scan' = [scan EXCEPT ![job[j].scan] = st]
        PROVE  scan'[s] # "CANCELLED"
    BY <2>3 DEF TypeOK
  <2>4. CASE CancelScans
    BY <2>4 DEF CancelScans, CancelIn, OpenStatus
  <2>5. ASSUME NEW j \in Jobs, Work(j) \/ WorkFault(j) PROVE scan'[s] # "CANCELLED"
    BY <2>5, <2>1, <2>3
       DEF Work, Claim, StartScan, CommitResult, DuplicateResult, AfterCommit,
           RecordFailure, ReadBatch, CountScans, Count, WriteProgress, WriteFinal,
           EndAttempt, Close, WorkFault, Throw, FailureLost, NotifyError, Crash
  <2>6. CASE Create \/ AbortCreate
    BY <2>6, <2>1, <2>2
       DEF Create, CreateBatchRow, QueueScan, SetBatchRunning, AbortCreate
  <2>7. CASE Cancel \/ AbortCancel
    BY <2>7, <2>1, <2>4 DEF Cancel, CancelCheck, CancelRead, CancelBatchRow, AbortCancel
  <2>8. CASE CheckStale \/ StaleError
    BY <2>8, <2>1 DEF CheckStale, BatchAges, StaleFind, FindStale, StaleMark, MarkStale, StaleError
  <2> QED
    BY <2>5, <2>6, <2>7, <2>8 DEF Next
<1> QED
  BY <1>1, TypeCorrect, PTL DEF Spec, CancelPreservesFinished

\* The stale checker never takes a batch that is final by the time its update
\* runs (the status filter of markStaleBatches' updateMany).
THEOREM FinishedBatchesStayFresh == Spec => FinishedNeverStale
<1>1. TypeOK /\ [Next]_vars =>
        [batch.status \in FinalStatus => batch'.status # "STALE"]_vars
  <2> SUFFICES ASSUME TypeOK, Next, batch.status \in FinalStatus
               PROVE  batch'.status # "STALE"
    BY DEF vars
  <2>1. CASE UNCHANGED batch
    BY <2>1 DEF FinalStatus
  <2>3. CASE StaleMark
    BY <2>3, <2>1 DEF StaleMark, MarkStale, FinalStatus, OpenStatus
  <2>4. ASSUME NEW j \in Jobs, Work(j) \/ WorkFault(j) PROVE batch'.status # "STALE"
    <3>1. CASE WriteProgress(j)
      BY <3>1 DEF WriteProgress, TypeOK, BatchRow
    <3>2. CASE WriteFinal(j)
      BY <3>2 DEF WriteFinal
    <3> QED
      BY <2>4, <2>1, <3>1, <3>2
         DEF Work, Claim, StartScan, CommitResult, DuplicateResult, AfterCommit,
             RecordFailure, ReadBatch, CountScans, Count, EndAttempt, Close,
             WorkFault, Throw, FailureLost, NotifyError, Crash
  <2>5. CASE Create \/ AbortCreate
    BY <2>5, <2>1
       DEF Create, CreateBatchRow, CreateScanRow, QueueScan, SetBatchRunning,
           AbortCreate, TypeOK, BatchRow
  <2>6. CASE Cancel \/ AbortCancel
    BY <2>6, <2>1
       DEF Cancel, CancelCheck, CancelRead, CancelScans, CancelIn, CancelBatchRow,
           AbortCancel, TypeOK, BatchRow
  <2>7. CASE CheckStale \/ StaleError
    BY <2>7, <2>1, <2>3 DEF CheckStale, BatchAges, StaleFind, FindStale, StaleError
  <2> QED
    BY <2>4, <2>5, <2>6, <2>7 DEF Next
<1> QED
  BY <1>1, TypeCorrect, PTL DEF Spec, FinishedNeverStale

(* The batch machinery implements the ledger of results *)

\* Every step is a step of the abstract ledger or hides from it.
LEMMA LedgerSteps == Base /\ [Next]_vars => [Ledger!Next]_(Ledger!vars)
<1> SUFFICES ASSUME Base, [Next]_vars
             PROVE  [Ledger!Next]_(Ledger!vars)
  OBVIOUS
<1>0. CallsTyped /\ JobsOK
  BY DEF Base
<1> DEFINE stored == {s \in Scans : result[s]}
           shown == {s \in Scans : scan[s] = "COMPLETED"}
<1>1. ASSUME UNCHANGED <<scan, result>> PROVE UNCHANGED <<stored, shown>>
  BY <1>1
\* A step that gives one scan a status other than COMPLETED.
<1>2. ASSUME NEW r \in Scans, NEW st \in {"PENDING", "RUNNING", "FAILED"},
             scan' = [scan EXCEPT ![r] = st], UNCHANGED result
      PROVE  Ledger!Next \/ UNCHANGED <<stored, shown>>
  <2>1. stored' = stored
    BY <1>2
  <2>2. \A s \in Scans : scan'[s] = IF s = r THEN st ELSE scan[s]
    BY <1>2, <1>0 DEF CallsTyped
  <2>3. shown' = shown \ {r}
    BY <2>2
  <2>4. CASE r \in shown
    BY <2>1, <2>3, <2>4 DEF Ledger!Next, Ledger!Hide
  <2>5. CASE r \notin shown
    BY <2>1, <2>3, <2>5
  <2> QED
    BY <2>4, <2>5
<1>3. ASSUME NEW j \in Jobs, job[j].scan \in Scans, CommitResult(j)
      PROVE  Ledger!Next
  <2>1. \A s \in Scans : /\ scan'[s] = IF s = job[j].scan THEN "COMPLETED" ELSE scan[s]
                         /\ result'[s] = IF s = job[j].scan THEN TRUE ELSE result[s]
    BY <1>3, <1>0 DEF CommitResult, CallsTyped
  <2>2. job[j].scan \notin stored
    BY <1>3 DEF CommitResult
  <2>3. stored' = stored \union {job[j].scan} /\ shown' = shown \union {job[j].scan}
    BY <2>1, <1>3
  <2> QED
    BY <2>2, <2>3, <1>3 DEF Ledger!Next, Ledger!Publish
<1>4. ASSUME CancelScans PROVE UNCHANGED <<stored, shown>>
  BY <1>4 DEF CancelScans, CancelIn, OpenStatus
<1>5. ASSUME NEW j \in Jobs, Work(j) \/ WorkFault(j)
      PROVE  Ledger!Next \/ UNCHANGED <<stored, shown>>
  <2>1. CASE UNCHANGED <<scan, result>>
    BY <2>1, <1>1
  <2>2. CASE job[j].scan \in Scans
             /\ UNCHANGED result
             /\ \E st \in {"RUNNING", "FAILED"} : scan' = [scan EXCEPT ![job[j].scan] = st]
    BY <2>2, <1>2
  <2>3. worker[j].pc # "idle" => job[j].scan \in Scans
    BY <1>0 DEF JobsOK
  <2>4. CASE CommitResult(j)
    BY <2>3, <2>4, <1>3 DEF CommitResult
  <2> QED
    BY <1>5, <2>1, <2>2, <2>3, <2>4
       DEF Work, Claim, StartScan, DuplicateResult, AfterCommit, RecordFailure,
           ReadBatch, CountScans, Count, WriteProgress, WriteFinal, EndAttempt, Close,
           WorkFault, Throw, FailureLost, NotifyError, Crash
<1>6. CASE Create \/ AbortCreate
  <2>1. CASE UNCHANGED <<scan, result>>
    BY <2>1, <1>1 DEF Ledger!vars
  <2>2. ASSUME NEW s \in Scans, CreateScanRow(s) PROVE [Ledger!Next]_(Ledger!vars)
    BY <2>2, <1>2 DEF CreateScanRow, Ledger!vars
  <2> QED
    BY <1>6, <2>1, <2>2
       DEF Create, CreateBatchRow, QueueScan, SetBatchRunning, AbortCreate
<1>7. CASE Cancel \/ AbortCancel
  BY <1>7, <1>1, <1>4
     DEF Cancel, CancelCheck, CancelRead, CancelBatchRow, AbortCancel, Ledger!vars
<1>8. CASE CheckStale \/ StaleError
  BY <1>8, <1>1
     DEF CheckStale, BatchAges, StaleFind, FindStale, StaleMark, MarkStale, StaleError,
         Ledger!vars
<1>9. CASE UNCHANGED vars
  BY <1>9, <1>1 DEF vars, Ledger!vars
<1> QED
  BY <1>5, <1>6, <1>7, <1>8, <1>9 DEF Next, Ledger!vars

\* The machinery of a batch - queue, retries, crashes, cancellation, stale
\* checker - implements the ledger: a result is stored once, in the step that
\* shows its scan COMPLETED, and is never lost.
THEOREM ResultsAreStoredOnce == Spec => ResultStoredOnce
<1>1. Init => Ledger!Init
  BY DEF Init, Ledger!Init
<1> QED
  BY <1>1, LedgerSteps, BaseOfInv1, InitInv1, NextInv1, PTL DEF Spec, ResultStoredOnce, Ledger!Spec

=============================================================================
