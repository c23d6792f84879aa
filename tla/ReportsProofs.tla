---------------------------- MODULE ReportsProofs ----------------------------
(***************************************************************************)
(* Theorems about Reports: its types, that a report which is ready has a   *)
(* file that is not older than the request for it, and that a report which *)
(* is ready while no export is on its way stays ready.                     *)
(***************************************************************************)
EXTENDS Reports, TLAPS

AskRow == [kind : {"none", "batch", "scan"}, pc : AskPc]
JobRow == [state : {"none", "waiting", "active", "completed", "failed"},
           pc : JobPc, made : 0..MaxAttempts,
           stalled : 0..(MaxStalled + 1), copy : 0..MaxVersion]

\* A job is active exactly while the processor runs, has attempts and stalls
\* left until it is over, and exists only once its request has queued it; what
\* a request is about to do says what it is about.
JobInv ==
    \A r \in Requests :
        /\ job[r].pc # "idle" <=> job[r].state = "active"
        /\ job[r].state \in {"waiting", "active"} =>
             job[r].made < MaxAttempts /\ job[r].stalled <= MaxStalled
        /\ ask[r].pc # "generating" => job[r] = NoJob
        /\ ask[r].pc \in {"idle", "over"} <=> ask[r].kind = "none"
        /\ ask[r].pc \in {"reset", "create", "abandoned"} => ask[r].kind = "batch"

\* As long as the batch never had a row, no job of the batch has run.  (A
\* batch that is gone does not come back, and a row that goes with it neither.)
FirstInv ==
    report.status = "NONE" /\ batch.state # "gone" =>
        /\ file = 0
        /\ \A r \in Requests : ask[r].kind = "batch" => ask[r].pc = "create"

\* Every copy and every file was made after the row.
CopyInv ==
    /\ report.since <= batch.version
    /\ file # 0 => file >= report.since
    /\ \A r \in Requests :
        /\ ask[r].kind = "batch" /\ job[r].pc = "upload" =>
             job[r].copy # 0 /\ job[r].copy >= report.since
        /\ ask[r].kind = "batch" /\ job[r].pc = "record" => file # 0
        /\ ask[r].kind = "scan" /\ job[r].pc = "record" => scanFile

\* (MaxVersion bounds how often a batch is run again.)
OpenInv == batch.state = "open" => batch.version < MaxVersion

IInv == TypeOK /\ OpenInv /\ JobInv /\ FirstInv /\ CopyInv /\ ReadyHasFile

\* The limits are numbers.
LEMMA Constants ==
    /\ Requests \subseteq Nat
    /\ MaxAttempts \in Nat \ {0} /\ MaxVersion \in Nat \ {0}
    /\ BatchAttempts \in Nat /\ ScanAttempts \in Nat
    /\ BatchAttempts <= MaxAttempts /\ ScanAttempts <= MaxAttempts
    /\ MaxStalled \in Nat /\ MaxFaults \in Nat
BY LimitsAreNumbers DEF MaxAttempts, Requests

\* The rows of jobs and requests that do not exist are well typed.
LEMMA Rows ==
    /\ NoJob \in JobRow /\ NoJob.state = "none" /\ NoJob.pc = "idle"
    /\ NoJob.made = 0 /\ NoJob.stalled = 0
    /\ Over \in AskRow /\ Over.kind = "none" /\ Over.pc = "over"
    /\ NoReport.status = "NONE" /\ NoReport.since = 0
BY Constants DEF NoJob, JobRow, JobPc, Over, AskRow, AskPc, NoReport

\* The invariant holds at the beginning.
LEMMA InitInv == Init => IInv
<1> SUFFICES ASSUME Init PROVE IInv
  OBVIOUS
<1>1. TypeOK
  <2>1. batch \in [state : {"open", "completed", "gone"}, version : 1..MaxVersion]
    BY Constants DEF Init
  <2>2. report \in [status : {"NONE", "PENDING", "COMPLETED", "FAILED"},
                    since : 0..MaxVersion]
    BY Constants DEF Init, NoReport
  <2>3. /\ ask \in [Requests -> [kind : {"none", "batch", "scan"}, pc : AskPc]]
        /\ job \in [Requests -> JobRow]
    BY Rows DEF Init, AskPc
  <2>4. session \in [state : {"live", "anonymizing", "anonymized"},
                     found : SUBSET ReportRow]
    BY DEF Init
  <2>5. file \in 0..MaxVersion /\ faults \in 0..MaxFaults
    BY Constants DEF Init
  <2> QED
    BY <2>1, <2>2, <2>3, <2>4, <2>5 DEF Init, TypeOK, JobRow
<1>2. JobInv
  BY Rows DEF Init, JobInv
<1>3. FirstInv /\ CopyInv /\ ReadyHasFile
  BY Rows DEF Init, FirstInv, CopyInv, ReadyHasFile
<1>4. OpenInv
  BY DEF Init, OpenInv
<1> QED
  BY <1>1, <1>2, <1>3, <1>4 DEF IInv

(* Types, and what a step does to requests and jobs *)

\* A request moves on, jobs do not.
LEMMA AskMoves ==
  ASSUME TypeOK, JobInv, NEW r \in Requests, NEW a \in AskRow,
         ask' = [ask EXCEPT ![r] = a], UNCHANGED job,
         ask[r].pc # "generating",
         a.pc # "generating",
         a.pc \in {"idle", "over"} <=> a.kind = "none",
         a.pc \in {"reset", "create", "abandoned"} => a.kind = "batch"
  PROVE  JobInv' /\ ask' \in [Requests -> AskRow]
BY DEF TypeOK, JobInv, AskRow

\* The request has queued its job, and the job moves on.
LEMMA JobMoves ==
  ASSUME TypeOK, JobInv, NEW r \in Requests, NEW j \in JobRow,
         job' = [job EXCEPT ![r] = j], UNCHANGED ask,
         ask[r].pc = "generating",
         j.pc # "idle" <=> j.state = "active",
         j.state \in {"waiting", "active"} =>
             j.made < MaxAttempts /\ j.stalled <= MaxStalled
  PROVE  JobInv' /\ job' \in [Requests -> JobRow]
BY DEF TypeOK, JobInv, JobRow

\* An active job, and what FailAttempt, End and Step make of it.
LEMMA ActiveJob ==
  ASSUME TypeOK, JobInv, NEW r \in Requests, job[r].pc # "idle"
  PROVE  /\ job[r] \in JobRow /\ job[r].state = "active"
         /\ ask[r].pc = "generating"
         /\ job[r].made < MaxAttempts /\ job[r].stalled <= MaxStalled
<1>1. job[r] \in JobRow
  BY DEF TypeOK, JobRow
<1>2. job[r] # NoJob
  BY Rows
<1> QED
  BY <1>1, <1>2 DEF JobInv

\* An attempt that goes on keeps its job active.
LEMMA StepEffect ==
  ASSUME TypeOK, JobInv, NEW r \in Requests, job[r].pc # "idle",
         NEW pc \in JobPc \ {"idle"}, Step(r, pc), UNCHANGED ask
  PROVE  JobInv' /\ job' \in [Requests -> JobRow]
<1> DEFINE j == [job[r] EXCEPT !.pc = pc]
<1>1. job' = [job EXCEPT ![r] = j]
  BY DEF Step
<1>2. job[r] \in JobRow /\ job[r].state = "active" /\ ask[r].pc = "generating"
      /\ job[r].made < MaxAttempts /\ job[r].stalled <= MaxStalled
  BY ActiveJob
<1>3. j \in JobRow /\ j.pc = pc /\ j.state = "active" /\ j.made = job[r].made
      /\ j.stalled = job[r].stalled
  BY <1>2 DEF JobRow
<1> HIDE DEF j
<1> QED
  BY <1>1, <1>2, <1>3, JobMoves

\* A job that ends leaves the others alone.
LEMMA EndEffect ==
  ASSUME TypeOK, JobInv, NEW r \in Requests, job[r].pc # "idle",
         NEW state \in {"completed", "failed"}, End(r, state), UNCHANGED ask
  PROVE  JobInv' /\ job' \in [Requests -> JobRow]
<1> DEFINE j == [NoJob EXCEPT !.state = state]
<1>1. job' = [job EXCEPT ![r] = j]
  BY DEF End
<1>2. ask[r].pc = "generating"
  BY ActiveJob
<1>3. j \in JobRow /\ j.pc = "idle" /\ j.state = state
  BY Rows DEF JobRow, NoJob
<1> HIDE DEF j
<1> QED
  BY <1>1, <1>2, <1>3, JobMoves

\* An attempt that fails gives its job back to the queue, or ends it after the
\* last.
LEMMA FailAttemptEffect ==
  ASSUME TypeOK, JobInv, NEW r \in Requests, job[r].pc # "idle",
         NEW attempts \in {BatchAttempts, ScanAttempts}, FailAttempt(r, attempts),
         UNCHANGED ask
  PROVE  JobInv' /\ job' \in [Requests -> JobRow]
<1>2. job[r] \in JobRow /\ job[r].state = "active" /\ ask[r].pc = "generating"
      /\ job[r].made < MaxAttempts /\ job[r].stalled <= MaxStalled
  BY ActiveJob
<1>3. CASE job[r].made + 1 < attempts
  <2> DEFINE j == [job[r] EXCEPT !.state = "waiting", !.pc = "idle",
                                 !.made = job[r].made + 1, !.copy = 0]
  <2>1. job' = [job EXCEPT ![r] = j]
    BY <1>3 DEF FailAttempt
  <2>0. attempts \in Nat /\ attempts <= MaxAttempts /\ job[r].made \in Nat
    BY <1>2, Constants DEF JobRow
  <2>2. job[r].made + 1 < MaxAttempts /\ job[r].made + 1 \in 0..MaxAttempts
    BY <2>0, <1>3, Constants
  <2>3. 0 \in 0..MaxVersion
    BY Constants
  <2>4. j \in JobRow
    BY <1>2, <2>2, <2>3 DEF JobRow, JobPc
  <2>5. /\ j.pc = "idle" /\ j.state = "waiting"
        /\ j.made = job[r].made + 1 /\ j.stalled = job[r].stalled
    BY <1>2 DEF JobRow
  <2> HIDE DEF j
  <2> QED
    BY <1>2, <2>1, <2>2, <2>4, <2>5, JobMoves
<1>4. CASE ~(job[r].made + 1 < attempts)
  BY <1>4, EndEffect DEF FailAttempt
<1> QED
  BY <1>3, <1>4

\* A request before its job touches its own state only.
LEMMA AskEffect ==
  ASSUME IInv, NEW r \in Requests,
         FindReport(r) \/ FindScanReport(r) \/ ResetReport(r) \/ CreateReport(r)
         \/ FailRequest(r)
  PROVE  /\ UNCHANGED job /\ JobInv' /\ ask' \in [Requests -> AskRow]
         /\ \E a \in AskRow : ask' = [ask EXCEPT ![r] = a]
<1>1. TypeOK /\ JobInv /\ ask[r] \in AskRow
  BY DEF IInv, TypeOK, AskRow
<1>2. ASSUME FindReport(r)
      PROVE  \E a \in AskRow :
                /\ ask' = [ask EXCEPT ![r] = a] /\ UNCHANGED job
                /\ ask[r].pc # "generating" /\ a.pc # "generating"
                /\ a.pc \in {"idle", "over"} <=> a.kind = "none"
                /\ a.pc \in {"reset", "create", "abandoned"} => a.kind = "batch"
  <2> DEFINE a == Reaction(report.status)
  <2>1. a = Over \/ a = [kind |-> "batch", pc |-> "reset"]
        \/ a = [kind |-> "batch", pc |-> "create"]
    BY <1>1 DEF Reaction, TypeOK
  <2>2. a \in AskRow
    BY <2>1, Rows DEF AskRow, AskPc
  <2>3. /\ a.pc # "generating"
        /\ a.pc \in {"idle", "over"} <=> a.kind = "none"
        /\ a.pc \in {"reset", "create", "abandoned"} => a.kind = "batch"
    BY <2>1, Rows
  <2>4. ask' = [ask EXCEPT ![r] = a] /\ UNCHANGED job /\ ask[r].pc # "generating"
    BY <1>2 DEF FindReport, Comes
  <2> HIDE DEF a
  <2> QED
    BY <2>2, <2>3, <2>4
<1>3. ASSUME FindScanReport(r)
      PROVE  \E a \in AskRow :
                /\ ask' = [ask EXCEPT ![r] = a] /\ UNCHANGED job
                /\ ask[r].pc # "generating" /\ a.pc # "generating"
                /\ a.pc \in {"idle", "over"} <=> a.kind = "none"
                /\ a.pc \in {"reset", "create", "abandoned"} => a.kind = "batch"
  <2> DEFINE a == IF listed # {} THEN Over ELSE [kind |-> "scan", pc |-> "add"]
  <2>2. a \in AskRow
    BY Rows DEF AskRow, AskPc
  <2>3. /\ a.pc # "generating"
        /\ a.pc \in {"idle", "over"} <=> a.kind = "none"
        /\ a.pc \in {"reset", "create", "abandoned"} => a.kind = "batch"
    BY Rows
  <2>4. ask' = [ask EXCEPT ![r] = a] /\ UNCHANGED job /\ ask[r].pc # "generating"
    BY <1>3 DEF FindScanReport, Comes
  <2> HIDE DEF a
  <2> QED
    BY <2>2, <2>3, <2>4
<1>4. ASSUME ResetReport(r) \/ CreateReport(r) \/ FailRequest(r)
      PROVE  \E a \in AskRow :
                /\ ask' = [ask EXCEPT ![r] = a] /\ UNCHANGED job
                /\ ask[r].pc # "generating" /\ a.pc # "generating"
                /\ a.pc \in {"idle", "over"} <=> a.kind = "none"
                /\ a.pc \in {"reset", "create", "abandoned"} => a.kind = "batch"
  <2>0. ask[r].pc # "generating" /\ UNCHANGED job
    BY <1>4 DEF ResetReport, CreateReport, FailRequest
  <2>1. CASE GiveUp(r)
    BY <2>0, <2>1, Rows DEF GiveUp
  <2>2. ASSUME NEW pc \in {"add", "abandoned"}, Goto(r, pc), ask[r].kind # "none",
               pc = "abandoned" => ask[r].kind = "batch"
        PROVE  \E a \in AskRow :
                /\ ask' = [ask EXCEPT ![r] = a]
                /\ a.pc # "generating"
                /\ a.pc \in {"idle", "over"} <=> a.kind = "none"
                /\ a.pc \in {"reset", "create", "abandoned"} => a.kind = "batch"
    <3> DEFINE a == [ask[r] EXCEPT !.pc = pc]
    <3>1. a \in AskRow /\ a.pc = pc /\ a.kind = ask[r].kind
      BY <1>1 DEF AskRow, AskPc
    <3>2. ask' = [ask EXCEPT ![r] = a]
      BY <2>2 DEF Goto
    <3> HIDE DEF a
    <3> QED
      BY <2>2, <3>1, <3>2
  <2>3. ask[r].kind # "none"
    BY <1>1, <1>4 DEF JobInv, ResetReport, CreateReport, FailRequest
  <2>4. GiveUp(r) \/ Goto(r, "add")
        \/ (Goto(r, "abandoned") /\ ask[r].kind = "batch")
    BY <1>4 DEF ResetReport, CreateReport, FailRequest
  <2> QED
    BY <2>0, <2>1, <2>2, <2>3, <2>4
<1>5. PICK a \in AskRow :
                /\ ask' = [ask EXCEPT ![r] = a] /\ UNCHANGED job
                /\ ask[r].pc # "generating" /\ a.pc # "generating"
                /\ a.pc \in {"idle", "over"} <=> a.kind = "none"
                /\ a.pc \in {"reset", "create", "abandoned"} => a.kind = "batch"
  BY <1>2, <1>3, <1>4
<1> QED
  BY <1>1, <1>5, AskMoves

\* A request queues one job and is generating from then on.
LEMMA AddJobEffect ==
  ASSUME IInv, NEW r \in Requests, AddJob(r)
  PROVE  /\ JobInv' /\ ask' \in [Requests -> AskRow] /\ job' \in [Requests -> JobRow]
         /\ \A q \in Requests : job'[q].pc = job[q].pc /\ ask'[q].kind = ask[q].kind
<1>1. TypeOK /\ JobInv /\ ask[r] \in AskRow /\ job[r] = NoJob /\ ask[r].pc = "add"
  BY DEF IInv, TypeOK, AskRow, JobInv, AddJob
<1> DEFINE a == [ask[r] EXCEPT !.pc = "generating"]
           j == [job[r] EXCEPT !.state = "waiting"]
<1>2. ask' = [ask EXCEPT ![r] = a] /\ job' = [job EXCEPT ![r] = j]
  BY DEF AddJob, Goto
<1>3. a \in AskRow /\ a.pc = "generating" /\ a.kind = ask[r].kind
  BY <1>1 DEF AskRow, AskPc
<1>4. j \in JobRow /\ j.state = "waiting" /\ j.pc = "idle" /\ j.made = 0
      /\ j.stalled = 0
  BY <1>1, Rows DEF JobRow
<1>5. ask[r].kind # "none"
  BY <1>1 DEF JobInv
<1> HIDE DEF a, j
<1>6. job[r].pc = "idle"
  BY <1>1, Rows
<1> QED
  BY <1>1, <1>2, <1>3, <1>4, <1>5, <1>6, Constants DEF TypeOK, JobInv, AskRow, JobRow

\* A step of a job leaves the requests and the other jobs alone.
LEMMA JobEffect ==
  ASSUME IInv, NEW r \in Requests,
         Claim(r) \/ Run(r) \/ Throw(r) \/ FailureNotRecorded(r) \/ ThrowScan(r)
         \/ Crash(r)
  PROVE  /\ UNCHANGED ask /\ JobInv' /\ job' \in [Requests -> JobRow]
         /\ \A q \in Requests \ {r} : job'[q] = job[q]
<1>1. TypeOK /\ JobInv /\ job[r] \in JobRow
  BY DEF IInv, TypeOK, JobRow
<1>2. UNCHANGED ask
  BY DEF Claim, Run, Throw, FailureNotRecorded, ThrowScan, Crash, Fetch, Upload,
     RecordSuccess, RecordFailure, CheckScan, UploadScan, ListReport, Return
<1>3. \A q \in Requests \ {r} : job'[q] = job[q]
  BY <1>1 DEF Claim, Run, Throw, FailureNotRecorded, ThrowScan, Crash, Fetch, Upload,
     RecordSuccess, RecordFailure, CheckScan, UploadScan, ListReport, Return,
     FailAttempt, End, Step, TypeOK
<1>4. CASE Claim(r)
  <2> DEFINE j == [job[r] EXCEPT !.state = "active", !.pc = "fetch"]
  <2>1. job' = [job EXCEPT ![r] = j] /\ job[r].state = "waiting"
    BY <1>4 DEF Claim
  <2>2. /\ j \in JobRow /\ j.pc = "fetch" /\ j.state = "active"
        /\ j.made = job[r].made /\ j.stalled = job[r].stalled
    BY <1>1 DEF JobRow, JobPc
  <2>3. ask[r].pc = "generating" /\ job[r].made < MaxAttempts
        /\ job[r].stalled <= MaxStalled
    BY <1>1, <2>1, Rows DEF JobInv
  <2> HIDE DEF j
  <2> QED
    BY <1>1, <1>2, <1>3, <2>1, <2>2, <2>3, JobMoves
<1>5. CASE Fetch(r)
  <2> DEFINE copy == IF batch.state = "gone" THEN 0 ELSE batch.version
             pc == IF batch.state = "gone" THEN "catch" ELSE "upload"
             j == [job[r] EXCEPT !.copy = copy, !.pc = pc]
  <2>1. job' = [job EXCEPT ![r] = j] /\ job[r].pc = "fetch"
    BY <1>5 DEF Fetch, At
  <2>2. copy \in 0..MaxVersion /\ pc \in JobPc \ {"idle"}
    BY <1>1, Constants DEF TypeOK, JobPc
  <2>3. /\ ask[r].pc = "generating" /\ job[r].made < MaxAttempts
        /\ job[r].stalled <= MaxStalled /\ job[r].state = "active"
    BY <1>1, <2>1, ActiveJob
  <2> HIDE DEF copy, pc
  <2>4. /\ j \in JobRow /\ j.pc = pc /\ j.state = "active"
        /\ j.made = job[r].made /\ j.stalled = job[r].stalled
    BY <1>1, <2>2, <2>3 DEF JobRow
  <2> HIDE DEF j
  <2> QED
    BY <1>1, <1>2, <1>3, <2>1, <2>2, <2>3, <2>4, JobMoves
<1>6. CASE Upload(r) \/ RecordSuccess(r) \/ UploadScan(r) \/ Throw(r)
  <2>1. job[r].pc # "idle"
        /\ \E pc \in {"record", "catch", "return"} : Step(r, pc)
    BY <1>6 DEF Upload, RecordSuccess, UploadScan, Throw, At
  <2>2. PICK pc \in JobPc \ {"idle"} : Step(r, pc)
    BY <2>1 DEF JobPc
  <2> QED
    BY <1>1, <1>2, <1>3, <2>1, <2>2, StepEffect
<1>7. CASE RecordFailure(r) \/ FailureNotRecorded(r) \/ CheckScan(r) \/ ListReport(r)
           \/ ThrowScan(r)
  <2>1. /\ job[r].pc # "idle"
        /\ \/ \E pc \in {"upload", "return"} : Step(r, pc)
           \/ \E attempts \in {BatchAttempts, ScanAttempts} : FailAttempt(r, attempts)
    BY <1>7 DEF RecordFailure, FailureNotRecorded, CheckScan, ListReport, ThrowScan, At
  <2>2. \/ \E pc \in JobPc \ {"idle"} : Step(r, pc)
        \/ \E attempts \in {BatchAttempts, ScanAttempts} : FailAttempt(r, attempts)
    BY <2>1 DEF JobPc
  <2> QED
    BY <1>1, <1>2, <1>3, <2>1, <2>2, StepEffect, FailAttemptEffect
<1>8. CASE Return(r)
  <2>1. job[r].pc # "idle" /\ End(r, "completed")
    BY <1>8 DEF Return
  <2> QED
    BY <1>1, <1>2, <1>3, <2>1, EndEffect
<1>9. CASE Crash(r)
  <2>1. job[r].state = "active"
    BY <1>9 DEF Crash
  <2>2. job[r].pc # "idle"
    BY <1>1, <2>1 DEF JobInv
  <2>3. CASE job[r].stalled < MaxStalled
    <3> DEFINE j == [job[r] EXCEPT !.state = "waiting", !.pc = "idle",
                                   !.stalled = job[r].stalled + 1, !.copy = 0]
    <3>1. job' = [job EXCEPT ![r] = j]
      BY <1>9, <2>3 DEF Crash
    <3>2. ask[r].pc = "generating" /\ job[r].made < MaxAttempts
      BY <1>1, <2>2, ActiveJob
    <3>3. job[r].stalled \in Nat
      BY <1>1, Constants DEF JobRow
    <3>4. job[r].stalled + 1 \in 0..(MaxStalled + 1) /\ job[r].stalled + 1 <= MaxStalled
      BY <2>3, <3>3, Constants
    <3>5. 0 \in 0..MaxVersion
      BY Constants
    <3>6. j \in JobRow
      BY <1>1, <3>4, <3>5 DEF JobRow, JobPc
    <3>7. /\ j.pc = "idle" /\ j.state = "waiting"
          /\ j.made = job[r].made /\ j.stalled = job[r].stalled + 1
      BY <1>1 DEF JobRow
    <3> HIDE DEF j
    <3> QED
      BY <1>1, <1>2, <1>3, <3>1, <3>2, <3>4, <3>6, <3>7, JobMoves
  <2>4. CASE ~(job[r].stalled < MaxStalled)
    <3>1. End(r, "failed")
      BY <1>9, <2>4 DEF Crash
    <3> QED
      BY <1>1, <1>2, <1>3, <2>2, <3>1, EndEffect
  <2> QED
    BY <2>3, <2>4
<1> QED
  BY <1>4, <1>5, <1>6, <1>7, <1>8, <1>9 DEF Run

\* The requests and the jobs in a step.
LEMMA ProcessStep ==
  ASSUME IInv, [Next]_vars
  PROVE  JobInv' /\ ask' \in [Requests -> AskRow] /\ job' \in [Requests -> JobRow]
<1>0. TypeOK /\ JobInv /\ ask \in [Requests -> AskRow] /\ job \in [Requests -> JobRow]
  BY DEF IInv, TypeOK, AskRow, JobRow
<1>1. CASE UNCHANGED <<ask, job>>
  BY <1>0, <1>1 DEF JobInv
<1>2. ASSUME NEW r \in Requests,
             FindReport(r) \/ FindScanReport(r) \/ Answer(r) \/ FailRequest(r)
             \/ Claim(r) \/ Run(r)
             \/ Throw(r) \/ FailureNotRecorded(r) \/ ThrowScan(r) \/ Crash(r)
      PROVE  JobInv' /\ ask' \in [Requests -> AskRow] /\ job' \in [Requests -> JobRow]
  <2>1. CASE AddJob(r)
    BY <2>1, AddJobEffect
  <2>2. CASE FindReport(r) \/ FindScanReport(r) \/ ResetReport(r) \/ CreateReport(r)
             \/ FailRequest(r)
    BY <1>0, <2>2, AskEffect
  <2>3. CASE Claim(r) \/ Run(r) \/ Throw(r) \/ FailureNotRecorded(r) \/ ThrowScan(r)
             \/ Crash(r)
    BY <1>0, <2>3, JobEffect
  <2> QED
    BY <1>2, <2>1, <2>2, <2>3 DEF Answer
<1>3. CASE Reopen \/ Settle \/ LateFailure \/ DeleteBatch \/ FindReports \/ Anonymize
  BY <1>1, <1>3 DEF Reopen, Settle, LateFailure, DeleteBatch, FindReports, Anonymize
<1>4. CASE UNCHANGED vars
  BY <1>1, <1>4 DEF vars
<1> QED
  BY <1>2, <1>3, <1>4 DEF Next

\* A list of the actions in which something other than requests and jobs
\* changes.
LEMMA DataActions ==
  ASSUME [Next]_vars
  PROVE  \/ /\ UNCHANGED <<data, batchReport, scanReport>>
            /\ faults' = faults \/ \E kind \in {"error", "crash"} : Fault(kind)
         \/ \E r \in Requests :
               \/ ResetReport(r) \/ CreateReport(r) \/ Upload(r) \/ RecordSuccess(r)
               \/ RecordFailure(r) \/ UploadScan(r) \/ ListReport(r)
         \/ Reopen \/ Settle \/ LateFailure \/ DeleteBatch \/ FindReports \/ Anonymize
<1>1. ASSUME NEW r \in Requests,
             FindReport(r) \/ FindScanReport(r) \/ AddJob(r) \/ Claim(r)
             \/ Fetch(r) \/ CheckScan(r) \/ Return(r)
      PROVE  UNCHANGED <<data, batchReport, scanReport, faults>>
  BY <1>1 DEF FindReport, FindScanReport, AddJob, Claim, Fetch, CheckScan, Return
<1>2. ASSUME NEW r \in Requests,
             FailRequest(r) \/ Throw(r) \/ FailureNotRecorded(r) \/ ThrowScan(r)
             \/ Crash(r)
      PROVE  /\ UNCHANGED <<data, batchReport, scanReport>>
             /\ faults' = faults \/ \E kind \in {"error", "crash"} : Fault(kind)
  BY <1>2, FaultsKnown DEF FailRequest, Throw, FailureNotRecorded, ThrowScan, Crash,
     Again
<1>3. CASE UNCHANGED vars
  BY <1>3 DEF vars
<1>4. CASE Next
  BY <1>1, <1>2, <1>4 DEF Next, Answer, Run
<1> QED
  BY <1>3, <1>4

\* Every step keeps the types, and the version of a batch that may be run again
\* below its bound.
LEMMA TypeStep ==
  ASSUME IInv, [Next]_vars
  PROVE  TypeOK' /\ OpenInv'
<1>0. TypeOK /\ JobInv
  BY DEF IInv
<1>1. ask' \in [Requests -> AskRow] /\ job' \in [Requests -> JobRow]
  BY ProcessStep
<1>2. /\ batch' \in [state : {"open", "completed", "gone"}, version : 1..MaxVersion]
      /\ scan' \in {"COMPLETED", "FAILED", "GONE"} /\ OpenInv'
  <2>1. UNCHANGED <<batch, scan>> \/ Reopen \/ Settle \/ LateFailure \/ DeleteBatch
    BY DataActions DEF data, ResetReport, CreateReport, Upload, RecordSuccess,
       RecordFailure, UploadScan, ListReport, FindReports, Anonymize
  <2> QED
    <3>1. batch.version \in Nat /\ batch.version >= 1 /\ batch.version <= MaxVersion
      BY <1>0, Constants DEF TypeOK
    <3>2. ASSUME Settle PROVE batch.version + 1 \in 1..MaxVersion
      BY <3>1, <3>2, Constants DEF IInv, OpenInv, Settle
    <3> QED
      BY <1>0, <2>1, <3>2, Constants DEF IInv, OpenInv, TypeOK, Reopen, Settle, LateFailure, DeleteBatch
<1>3. /\ report' \in [status : {"NONE", "PENDING", "COMPLETED", "FAILED"},
                      since : 0..MaxVersion]
      /\ file' \in 0..MaxVersion
  <2>1. CASE UNCHANGED batchReport
    BY <1>0, <2>1 DEF batchReport, TypeOK
  <2>2. ASSUME NEW r \in Requests,
               ResetReport(r) \/ CreateReport(r) \/ Upload(r) \/ RecordSuccess(r)
               \/ RecordFailure(r)
        PROVE  <1>3
    <3>1. job[r].copy \in 0..MaxVersion /\ batch.version \in 0..MaxVersion
      BY <1>0, Constants DEF TypeOK
    <3> QED
      BY <1>0, <2>2, <3>1 DEF TypeOK, ResetReport, CreateReport, Upload,
         RecordSuccess, RecordFailure
  <2>3. CASE DeleteBatch
    BY <1>0, <2>3, Rows, Constants DEF TypeOK, DeleteBatch, NoReport
  <2>4. \/ UNCHANGED batchReport \/ DeleteBatch
        \/ \E r \in Requests :
              ResetReport(r) \/ CreateReport(r) \/ Upload(r) \/ RecordSuccess(r)
              \/ RecordFailure(r)
    BY DataActions DEF UploadScan, ListReport, Reopen, Settle, LateFailure,
       FindReports, Anonymize
  <2> QED
    BY <2>1, <2>2, <2>3, <2>4
<1>4. /\ listed' \subseteq ReportRow /\ scanFile' \in BOOLEAN
      /\ session' \in [state : {"live", "anonymizing", "anonymized"},
                       found : SUBSET ReportRow]
  <2>1. CASE UNCHANGED <<listed, scanFile, session>>
    BY <1>0, <2>1 DEF TypeOK
  <2>2. ASSUME NEW r \in Requests, UploadScan(r) \/ ListReport(r)
        PROVE  <1>4
    <3>1. job[r].pc # "idle" /\ UNCHANGED session
      BY <2>2 DEF UploadScan, ListReport, At, data
    <3>2. /\ job[r].made \in Nat /\ job[r].stalled \in Nat
          /\ job[r].made < MaxAttempts /\ job[r].stalled <= MaxStalled
      BY <1>0, <3>1, ActiveJob, Constants DEF TypeOK
    <3>3. job[r].made + job[r].stalled + 1 \in 1..(MaxAttempts + MaxStalled)
      BY <3>2, Constants
    <3>4. <<r, job[r].made + job[r].stalled + 1>> \in ReportRow
      BY <3>3 DEF ReportRow
    <3> QED
      BY <1>0, <2>2, <3>1, <3>4 DEF TypeOK, UploadScan, ListReport
  <2>3. CASE DeleteBatch \/ FindReports \/ Anonymize
    <3>1. /\ listed \subseteq ReportRow /\ scanFile \in BOOLEAN
          /\ session \in [state : {"live", "anonymizing", "anonymized"},
                          found : SUBSET ReportRow]
      BY <1>0 DEF TypeOK
    <3>2. CASE DeleteBatch
      BY <3>1, <3>2 DEF DeleteBatch
    <3>3. CASE FindReports
      BY <3>1, <3>3 DEF FindReports, scanReport
    <3>4. CASE Anonymize
      BY <3>1, <3>4 DEF Anonymize
    <3> QED
      BY <2>3, <3>2, <3>3, <3>4
  <2>4. \/ UNCHANGED <<listed, scanFile, session>>
        \/ DeleteBatch \/ FindReports \/ Anonymize
        \/ \E r \in Requests : UploadScan(r) \/ ListReport(r)
    BY DataActions DEF data, scanReport, ResetReport, CreateReport, Upload,
       RecordSuccess, RecordFailure, Reopen, Settle, LateFailure
  <2> QED
    BY <2>1, <2>2, <2>3, <2>4
<1>5. faults' \in 0..MaxFaults
  <2>1. UNCHANGED faults \/ \E kind \in {"error", "crash"} : Fault(kind)
    BY DataActions DEF ResetReport, CreateReport, Upload, RecordSuccess,
       RecordFailure, UploadScan, ListReport, Reopen, Settle, LateFailure,
       DeleteBatch, FindReports, Anonymize
  <2> QED
    BY <1>0, <2>1, Constants DEF TypeOK, Fault
<1> QED
  BY <1>1, <1>2, <1>3, <1>4, <1>5 DEF TypeOK, AskRow, JobRow

(* The row, the files and the copies *)

\* A request keeps rows, files and the copies in jobs in agreement.
LEMMA AskStep ==
  ASSUME IInv, NEW r \in Requests,
         FindReport(r) \/ FindScanReport(r) \/ ResetReport(r) \/ CreateReport(r)
         \/ FailRequest(r)
  PROVE  FirstInv' /\ CopyInv' /\ ReadyHasFile'
<1>1. TypeOK /\ JobInv /\ FirstInv /\ CopyInv /\ ReadyHasFile
  BY DEF IInv
<1>2. PICK a \in AskRow : ask' = [ask EXCEPT ![r] = a]
  BY AskEffect
<1>3. UNCHANGED <<batch, file, scanReport, job>>
  BY DEF FindReport, FindScanReport, ResetReport, CreateReport, FailRequest, data,
     batchReport
<1>4. /\ ask'[r] = a /\ \A q \in Requests \ {r} : ask'[q] = ask[q]
      /\ ask[r].pc # "generating" /\ job[r].pc = "idle"
  BY <1>1, <1>2, Rows DEF TypeOK, JobInv, FindReport, FindScanReport, Comes,
     ResetReport, CreateReport, FailRequest
<1>5. CASE UNCHANGED report
  <2>1. CopyInv' /\ ReadyHasFile'
    BY <1>1, <1>3, <1>4, <1>5 DEF CopyInv, ReadyHasFile, scanReport
  <2>2. ASSUME report.status = "NONE", batch.state # "gone", a.kind = "batch"
        PROVE  a.pc = "create"
    <3>1. CASE FindReport(r)
      BY <1>1, <1>2, <1>4, <2>2, <3>1, Rows DEF FindReport, Reaction, TypeOK
    <3>2. CASE FindScanReport(r)
      BY <1>1, <1>2, <1>4, <2>2, <3>2, Rows DEF FindScanReport, TypeOK
    <3>3. CASE ResetReport(r) \/ CreateReport(r) \/ FailRequest(r)
      <4>1. ask[r].kind = "batch" => ask[r].pc = "create"
        BY <1>1, <2>2 DEF FirstInv
      <4>2. ask[r].pc = "add" => ask[r].kind # "batch"
        BY <4>1
      <4>3. ask[r].pc # "reset"
        BY <1>1, <4>1 DEF JobInv
      <4>4. GiveUp(r)
        BY <1>5, <2>2, <3>3, <4>2, <4>3, Rows
           DEF ResetReport, CreateReport, FailRequest
      <4> QED
        BY <1>1, <1>4, <2>2, <4>4, Rows DEF GiveUp, TypeOK
    <3> QED
      BY <3>1, <3>2, <3>3
  <2> QED
    BY <1>1, <1>3, <1>4, <1>5, <2>1, <2>2 DEF FirstInv
<1>6. CASE ~UNCHANGED report
  <2>0. ResetReport(r) \/ CreateReport(r)
    BY <1>6 DEF FindReport, FindScanReport, FailRequest, batchReport
  <2>1. report'.status = "PENDING"
        /\ \/ report'.since = report.since
           \/ report.status = "NONE" /\ batch.state # "gone"
              /\ report'.since = batch.version
    <3>1. CASE ResetReport(r)
      <4>1. report' = [report EXCEPT !.status = "PENDING"]
        BY <1>6, <3>1 DEF ResetReport
      <4>2. report \in [status : {"NONE", "PENDING", "COMPLETED", "FAILED"},
                        since : 0..MaxVersion]
        BY <1>1 DEF TypeOK
      <4> QED
        BY <4>1, <4>2
    <3>2. CASE CreateReport(r)
      BY <1>6, <3>2 DEF CreateReport
    <3> QED
      BY <2>0, <3>1, <3>2
  <2>2. \/ report'.since = report.since
        \/ report.status = "NONE" /\ batch.state # "gone" /\ report'.since = batch.version
    BY <2>1
  <2>3. CASE report'.since = report.since
    BY <1>1, <1>3, <1>4, <2>1, <2>3 DEF FirstInv, CopyInv, ReadyHasFile, scanReport
  <2>4. CASE report.status = "NONE" /\ batch.state # "gone"
             /\ report'.since = batch.version
    <3>1. file = 0 /\ \A q \in Requests : ask[q].kind = "batch" => job[q].pc = "idle"
      BY <1>1, <2>4, Rows DEF FirstInv, JobInv
    <3>2. batch.version \in Nat
      BY <1>1, Constants DEF TypeOK
    <3> QED
      BY <1>1, <1>3, <1>4, <2>1, <2>4, <3>1, <3>2
         DEF FirstInv, CopyInv, ReadyHasFile, scanReport
  <2> QED
    BY <2>2, <2>3, <2>4
<1> QED
  BY <1>5, <1>6

\* What a job does that leaves the row, the files and the copies alone.
LEMMA QuietJob ==
  ASSUME IInv, NEW r \in Requests, UNCHANGED <<batch, report, file, scanReport, ask>>,
         \A q \in Requests \ {r} : job'[q] = job[q],
         job'[r].pc \notin {"upload", "record"} \/ ask[r].kind # "batch",
         job'[r].pc # "record" \/ ask[r].kind # "scan"
  PROVE  FirstInv' /\ CopyInv' /\ ReadyHasFile'
<1>1. CopyInv'
  BY DEF IInv, CopyInv, scanReport
<1> QED
  BY <1>1 DEF IInv, FirstInv, ReadyHasFile, scanReport

\* A job keeps rows, files and the copies in jobs in agreement: it stores the
\* file before it writes the row.
LEMMA JobStep ==
  ASSUME IInv, NEW r \in Requests,
         Claim(r) \/ Run(r) \/ Throw(r) \/ FailureNotRecorded(r) \/ ThrowScan(r)
         \/ Crash(r)
  PROVE  FirstInv' /\ CopyInv' /\ ReadyHasFile'
<1>1. TypeOK /\ JobInv /\ FirstInv /\ CopyInv /\ ReadyHasFile
  BY DEF IInv
<1>2. UNCHANGED ask /\ \A q \in Requests \ {r} : job'[q] = job[q]
  BY JobEffect
<1>3. ASSUME NEW j, job' = [job EXCEPT ![r] = j] PROVE job'[r] = j
  BY <1>1, <1>3 DEF TypeOK
<1>4. ASSUME NEW pc, Step(r, pc)
      PROVE  job'[r].pc = pc /\ job'[r].copy = job[r].copy
  BY <1>1, <1>4 DEF TypeOK, Step
<1>5. ASSUME NEW state, End(r, state) PROVE job'[r].pc = "idle"
  BY <1>1, <1>5, Rows DEF TypeOK, End, NoJob
<1>6. ASSUME NEW attempts, FailAttempt(r, attempts) PROVE job'[r].pc = "idle"
  BY <1>1, <1>5, <1>6 DEF TypeOK, FailAttempt
<1>7. ASSUME job[r].pc # "idle", ask[r].kind = "batch"
      PROVE  ~(report.status = "NONE" /\ batch.state # "gone")
  <2>1. ask[r].pc = "generating"
    BY <1>1, <1>7, ActiveJob
  <2> QED
    BY <1>1, <1>7, <2>1 DEF FirstInv
<1>8. CASE Claim(r)
  <2>1. job'[r].pc = "fetch" /\ UNCHANGED <<batch, report, file, scanReport>>
    BY <1>1, <1>8 DEF TypeOK, Claim, data, batchReport
  <2> QED
    BY <1>2, <2>1, QuietJob
<1>9. CASE Fetch(r)
  <2>1. /\ UNCHANGED <<batch, report, file, scanReport>>
        /\ ask[r].kind = "batch"
        /\ job'[r].pc = "catch"
           \/ (job'[r].pc = "upload" /\ job'[r].copy = batch.version)
    BY <1>1, <1>9 DEF TypeOK, Fetch, data, batchReport, At
  <2>2. batch.version # 0
    BY <1>1, Constants DEF TypeOK
  <2>3. CopyInv'
    BY <1>1, <1>2, <2>1, <2>2 DEF CopyInv, scanReport
  <2> QED
    BY <1>1, <1>2, <2>1, <2>3 DEF FirstInv, ReadyHasFile, scanReport
<1>10. CASE Upload(r)
  <2>1. /\ UNCHANGED <<batch, report, scanReport>> /\ file' = job[r].copy
        /\ ask[r].kind = "batch" /\ job[r].pc = "upload" /\ job'[r].pc = "record"
    BY <1>4, <1>10 DEF Upload, data, At
  <2>2. file' # 0 /\ file' >= report.since
    BY <1>1, <2>1 DEF CopyInv
  <2>3. CopyInv'
    BY <1>1, <1>2, <2>1, <2>2 DEF CopyInv, scanReport
  <2> QED
    BY <1>1, <1>2, <1>7, <2>1, <2>2, <2>3 DEF FirstInv, ReadyHasFile, scanReport
<1>11. CASE RecordSuccess(r) \/ RecordFailure(r)
  <2>1. /\ UNCHANGED <<batch, file, scanReport>> /\ ask[r].kind = "batch"
        /\ job[r].pc # "idle" /\ job'[r].pc \notin {"upload", "record"}
        /\ report'.since = report.since
        /\ report.status = "NONE" => report'.status = "NONE"
        /\ report'.status = "NONE" => report.status = "NONE"
        /\ report'.status = "COMPLETED" =>
             report.status = "COMPLETED" \/ job[r].pc = "record"
    BY <1>1, <1>4, <1>6, <1>11
       DEF TypeOK, RecordSuccess, RecordFailure, data, At
  <2>2. CopyInv'
    BY <1>1, <1>2, <2>1 DEF CopyInv, scanReport
  <2>3. ReadyHasFile'
    BY <1>1, <2>1 DEF CopyInv, ReadyHasFile, scanReport
  <2> QED
    BY <1>1, <1>2, <1>7, <2>1, <2>2, <2>3 DEF FirstInv
<1>12. CASE UploadScan(r)
  <2>1. /\ UNCHANGED <<batch, report, file, listed>> /\ scanFile'
        /\ ask[r].kind = "scan" /\ job'[r].pc = "record"
    BY <1>4, <1>12 DEF UploadScan, data, batchReport, At
  <2> QED
    BY <1>1, <1>2, <2>1 DEF FirstInv, CopyInv, ReadyHasFile
<1>13. CASE ListReport(r)
  <2>1. /\ UNCHANGED <<batch, report, file, scanFile>>
        /\ ask[r].kind = "scan" /\ job[r].pc = "record"
        /\ job'[r].pc \in {"return", "idle"}
    BY <1>4, <1>6, <1>13 DEF ListReport, data, batchReport, At
  <2> QED
    BY <1>1, <1>2, <2>1 DEF FirstInv, CopyInv, ReadyHasFile
<1>14. CASE CheckScan(r)
  <2>1. /\ UNCHANGED <<batch, report, file, scanReport>>
        /\ ask[r].kind = "scan" /\ job'[r].pc \in {"upload", "idle"}
    BY <1>4, <1>6, <1>14 DEF CheckScan, data, batchReport, At
  <2> QED
    BY <1>2, <2>1, QuietJob
<1>15. CASE Return(r) \/ ThrowScan(r) \/ FailureNotRecorded(r)
  <2>1. UNCHANGED <<batch, report, file, scanReport>> /\ job'[r].pc = "idle"
    BY <1>5, <1>6, <1>15
       DEF Return, ThrowScan, FailureNotRecorded, data, batchReport
  <2> QED
    BY <1>2, <2>1, QuietJob
<1>16. CASE Throw(r) \/ Crash(r)
  <2>1. UNCHANGED <<batch, report, file, scanReport>> /\ job'[r].pc \in {"catch", "idle"}
    BY <1>1, <1>4, <1>5, <1>16 DEF TypeOK, Throw, Crash, data, batchReport
  <2> QED
    BY <1>2, <2>1, QuietJob
<1> QED
  BY <1>8, <1>9, <1>10, <1>11, <1>12, <1>13, <1>14, <1>15, <1>16 DEF Run

\* Every step keeps rows, files and the copies in jobs in agreement.
LEMMA InvStep ==
  ASSUME IInv, [Next]_vars
  PROVE  FirstInv' /\ CopyInv' /\ ReadyHasFile'
<1>1. TypeOK /\ JobInv /\ FirstInv /\ CopyInv /\ ReadyHasFile
  BY DEF IInv
<1>2. CASE UNCHANGED vars
  BY <1>1, <1>2 DEF vars, data, batchReport, scanReport, FirstInv, CopyInv, ReadyHasFile
<1>3. ASSUME NEW r \in Requests, AddJob(r)
      PROVE  FirstInv' /\ CopyInv' /\ ReadyHasFile'
  <2>1. /\ UNCHANGED <<batch, report, file, scanReport>>
        /\ ask[r].pc = "add" /\ job[r] = NoJob
        /\ \A q \in Requests : ask'[q].kind = ask[q].kind /\ job'[q].pc = job[q].pc
        /\ \A q \in Requests \ {r} : ask'[q] = ask[q] /\ job'[q] = job[q]
    BY <1>1, <1>3, AddJobEffect DEF AddJob, Goto, data, batchReport, TypeOK, JobInv
  <2>2. job'[r].pc = "idle"
    BY <2>1, Rows
  <2>3. CopyInv' /\ ReadyHasFile'
    BY <1>1, <2>1, <2>2 DEF CopyInv, ReadyHasFile, scanReport
  <2> QED
    BY <1>1, <2>1, <2>3 DEF FirstInv
<1>4. ASSUME Reopen \/ Settle \/ LateFailure \/ DeleteBatch \/ FindReports \/ Anonymize
      PROVE  FirstInv' /\ CopyInv' /\ ReadyHasFile'
  <2>1. batch.version \in Nat /\ report.since \in Nat /\ file \in Nat
        /\ \A r \in Requests : job[r].copy \in Nat
    BY <1>1, Constants DEF TypeOK
  <2>2. CASE Reopen \/ Settle
    <3>1. /\ UNCHANGED <<report, file, scanReport, ask, job>>
          /\ batch.state # "gone" /\ batch'.version >= batch.version
          /\ batch'.version \in Nat
      BY <1>1, <2>1, <2>2 DEF Reopen, Settle, batchReport, TypeOK
    <3> QED
      BY <1>1, <2>1, <3>1 DEF FirstInv, CopyInv, ReadyHasFile, scanReport
  <2>3. CASE DeleteBatch
    <3>1. /\ UNCHANGED <<file, scanFile, ask, job>>
          /\ batch'.state = "gone" /\ batch'.version = batch.version
          /\ report'.status = "NONE" /\ report'.since = 0 /\ listed' = {}
      BY <1>1, <2>3, Rows DEF DeleteBatch, TypeOK
    <3> QED
      BY <1>1, <2>1, <3>1 DEF FirstInv, CopyInv, ReadyHasFile
  <2>4. CASE LateFailure \/ FindReports \/ Anonymize
    <3>1. /\ UNCHANGED <<batch, report, file, scanFile, ask, job>>
          /\ listed' \subseteq listed
      BY <2>4 DEF LateFailure, FindReports, Anonymize, batchReport, scanReport
    <3> QED
      BY <1>1, <3>1 DEF FirstInv, CopyInv, ReadyHasFile
  <2> QED
    BY <1>4, <2>2, <2>3, <2>4
<1> QED
  BY <1>2, <1>3, <1>4, AskStep, JobStep DEF Next, Answer

\* When a batch report is ready and no export is on its way, no step but the
\* deletion of the batch touches the row, and none sets out for a new export.
LEMMA RestStep ==
  ASSUME IInv, [Next]_vars, ReadyAtRest
  PROVE  ReadyAtRest' \/ batch'.state = "gone"
<1>1. TypeOK /\ JobInv
  BY DEF IInv
<1>2. SUFFICES ASSUME batch'.state # "gone"
               PROVE  /\ report' = report
                      /\ \A q \in Requests : ask'[q].kind = "batch" =>
                            ask'[q] = ask[q] /\ job'[q] = job[q]
  BY <1>2 DEF ReadyAtRest, InFlight
<1>3. ASSUME NEW q \in Requests, ask[q].kind = "batch"
      PROVE  ask[q].pc \notin {"reset", "create", "add"}
             /\ job[q].state \notin {"waiting", "active"} /\ job[q].pc = "idle"
  BY <1>1, <1>3 DEF ReadyAtRest, InFlight, JobInv
<1>4. CASE UNCHANGED vars
  BY <1>4 DEF vars, batchReport
<1>5. CASE Reopen \/ Settle \/ LateFailure \/ DeleteBatch \/ FindReports \/ Anonymize
  BY <1>2, <1>5 DEF Reopen, Settle, LateFailure, DeleteBatch, FindReports, Anonymize,
     batchReport, TypeOK, IInv
<1>6. ASSUME NEW r \in Requests, FindReport(r) \/ FindScanReport(r)
      PROVE  /\ report' = report
             /\ \A q \in Requests : ask'[q].kind = "batch" =>
                   ask'[q] = ask[q] /\ job'[q] = job[q]
  <2>1. Reaction(report.status) = Over
    BY DEF ReadyAtRest, Reaction
  <2>2. /\ UNCHANGED <<report, job>>
        /\ \E a \in {Over, [kind |-> "scan", pc |-> "add"]} :
              ask' = [ask EXCEPT ![r] = a]
    BY <1>6, <2>1 DEF FindReport, FindScanReport, batchReport
  <2> QED
    BY <1>1, <2>2, Rows DEF TypeOK
<1>7. ASSUME NEW r \in Requests, Answer(r) \/ FailRequest(r)
      PROVE  /\ report' = report
             /\ \A q \in Requests : ask'[q].kind = "batch" =>
                   ask'[q] = ask[q] /\ job'[q] = job[q]
  <2>1. ask[r].pc \in {"reset", "create", "add"}
    BY <1>7 DEF Answer, ResetReport, CreateReport, AddJob, FailRequest
  <2>2. ask[r].kind # "batch" /\ ask[r].pc = "add"
    BY <1>1, <1>3, <2>1 DEF JobInv
  <2>3. UNCHANGED report
    BY <1>7, <2>2 DEF Answer, ResetReport, CreateReport, AddJob, FailRequest, batchReport
  <2>4. \A q \in Requests \ {r} : ask'[q] = ask[q] /\ job'[q] = job[q]
    BY <1>1, <1>7, <2>2 DEF TypeOK, Answer, ResetReport, CreateReport, AddJob,
       FailRequest, Goto, GiveUp
  <2>5. ask'[r].kind # "batch"
    BY <1>1, <1>7, <2>2, Rows DEF TypeOK, Answer, ResetReport, CreateReport, AddJob,
       FailRequest, Goto, GiveUp
  <2> QED
    BY <2>3, <2>4, <2>5
<1>8. ASSUME NEW r \in Requests,
             Claim(r) \/ Run(r) \/ Throw(r) \/ FailureNotRecorded(r) \/ ThrowScan(r)
             \/ Crash(r)
      PROVE  /\ report' = report
             /\ \A q \in Requests : ask'[q].kind = "batch" =>
                   ask'[q] = ask[q] /\ job'[q] = job[q]
  <2>1. UNCHANGED ask /\ \A q \in Requests \ {r} : job'[q] = job[q]
    BY <1>8, JobEffect
  <2>2. job[r].state \in {"waiting", "active"}
    BY <1>1, <1>8 DEF JobInv, Claim, Run, Throw, FailureNotRecorded, ThrowScan, Crash,
       Fetch, Upload, RecordSuccess, RecordFailure, CheckScan, UploadScan, ListReport,
       Return, At
  <2>3. ask[r].kind # "batch"
    BY <1>3, <2>2
  <2>4. UNCHANGED report
    BY <1>8, <2>3 DEF Claim, Run, Throw, FailureNotRecorded, ThrowScan, Crash,
       Fetch, Upload, RecordSuccess, RecordFailure, CheckScan, UploadScan, ListReport,
       Return, At, batchReport
  <2> QED
    BY <2>1, <2>3, <2>4
<1> QED
  BY <1>4, <1>5, <1>6, <1>7, <1>8 DEF Next

(* The theorems *)

\* The inductive invariant: with the types and the two clauses of ReadyHasFile
\* the facts about requests, jobs, rows and files that they need
\* (requestBatchExport, processBatchReportJob, processGenerateReport).
THEOREM ReportInvariant == Spec => []IInv
<1>1. Init => IInv
  BY InitInv
<1>2. IInv /\ [Next]_vars => IInv'
  BY ProcessStep, TypeStep, InvStep DEF IInv
<1> QED
  BY <1>1, <1>2, PTL DEF Spec

\* The variables of Reports keep their types: no job makes more attempts or
\* stalls more often than BullMQ lets it.
THEOREM ReportTypeCorrect == Spec => []TypeOK
<1>1. IInv => TypeOK
  BY DEF IInv
<1> QED
  BY <1>1, ReportInvariant, PTL

\* A report that is said to be ready can be downloaded, and the report of a
\* batch shows it as it was at the first request or later, however many
\* requests and attempts there are (processBatchReportJob,
\* processGenerateReport).
THEOREM ReadyReportsHaveFiles == Spec => []ReadyHasFile
<1>1. IInv => ReadyHasFile
  BY DEF IInv
<1> QED
  BY <1>1, ReportInvariant, PTL

\* A batch report that is ready while no export is on its way stays ready
\* until the batch is deleted, and nothing sets out to make it again
\* (requestBatchExport).
THEOREM ReadyReportsStay == Spec => ReadyStays
<1>1. IInv /\ [Next]_vars => [ReadyAtRest => ReadyAtRest' \/ batch'.state = "gone"]_vars
  BY RestStep
<1> QED
  BY <1>1, ReportInvariant, PTL DEF Spec, ReadyStays

=============================================================================
