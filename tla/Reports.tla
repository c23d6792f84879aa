------------------------------- MODULE Reports -------------------------------
(***************************************************************************)
(* Reports in one format, of one batch and of one scan of that batch: the  *)
(* export requests of guests and administrators (batch-export.service.ts   *)
(* requestBatchExport, report.service.ts getOrGenerateReport), the jobs    *)
(* they queue (batch-report.job.ts, generate-report.processor.ts), and     *)
(* what happens to the data meanwhile: an administrator retries or deletes *)
(* the batch, the scan fails after it was completed, the guest's session   *)
(* is anonymized.                                                          *)
(*                                                                         *)
(* A batch has one row per format, written before the job is queued and    *)
(* updated by it; a scan has one row per job that came to its end.  Either *)
(* way the file has a fixed key: a later upload replaces it, and nothing   *)
(* deletes it.  A request adds at most one job, so that the job of request *)
(* r is job[r].                                                            *)
(***************************************************************************)
EXTENDS Naturals

CONSTANTS
    NRequests,      \* bound: the export requests, numbered as they come in
    BatchAttempts,  \* `attempts` of a batch-report job (3)
    ScanAttempts,   \* `attempts` of the generate-report queue (2)
    MaxStalled,     \* BullMQ's maxStalledCount (1: the default)
    MaxVersion,     \* bound: states of the batch's data worth a report of its own
    Faults,         \* the faults that may be injected: "error", "crash"
    MaxFaults       \* bound: how many faults there are, not counting repetitions

ASSUME LimitsAreNumbers ==
    /\ {NRequests, BatchAttempts, ScanAttempts, MaxVersion} \subseteq Nat \ {0}
    /\ {MaxStalled, MaxFaults} \subseteq Nat
ASSUME FaultsKnown == Faults \subseteq {"error", "crash"}

VARIABLES
    batch,     \* the BatchScan row, and the version of its data
    report,    \* the batch's Report row, and the batch's version when it was made
    file,      \* the version in the batch's report file; 0: there is none
    scan,      \* the Scan row
    listed,    \* the scan's Report rows: <<request, run of its job>>
    scanFile,  \* whether the scan's report file is there
    session,   \* the guest's session, and the rows that anonymizing it has found
    ask,       \* the requests
    job,       \* their jobs
    faults     \* faults so far

Requests == 1..NRequests

data == <<batch, scan, session>>
batchReport == <<report, file>>
scanReport == <<listed, scanFile>>
vars == <<data, batchReport, scanReport, ask, job, faults>>

MaxAttempts == IF BatchAttempts > ScanAttempts THEN BatchAttempts ELSE ScanAttempts
ReportRow == Requests \X (1..(MaxAttempts + MaxStalled))

\* "generating": its job was queued.  "abandoned": the row was written, its job
\* was not queued.  "over": answered, or refused, with nothing left to do.
AskPc == {"idle", "reset", "create", "add", "generating", "abandoned", "over"}
JobPc == {"idle", "fetch", "upload", "record", "catch", "return"}

TypeOK ==
    /\ batch \in [state : {"open", "completed", "gone"}, version : 1..MaxVersion]
    /\ report \in [status : {"NONE", "PENDING", "COMPLETED", "FAILED"},
                   since : 0..MaxVersion]
    /\ file \in 0..MaxVersion
    /\ scan \in {"COMPLETED", "FAILED", "GONE"}
    /\ listed \subseteq ReportRow
    /\ scanFile \in BOOLEAN
    /\ session \in [state : {"live", "anonymizing", "anonymized"},
                    found : SUBSET ReportRow]
    /\ ask \in [Requests -> [kind : {"none", "batch", "scan"}, pc : AskPc]]
    /\ job \in [Requests ->
                  [state : {"none", "waiting", "active", "completed", "failed"},
                   pc : JobPc, made : 0..MaxAttempts,
                   stalled : 0..(MaxStalled + 1), copy : 0..MaxVersion]]
    /\ faults \in 0..MaxFaults

NoJob == [state |-> "none", pc |-> "idle", made |-> 0, stalled |-> 0, copy |-> 0]
NoReport == [status |-> "NONE", since |-> 0]

Init ==
    /\ batch = [state |-> "completed", version |-> 1]
    /\ report = NoReport
    /\ file = 0
    /\ scan = "COMPLETED"
    /\ listed = {}
    /\ scanFile = FALSE
    /\ session = [state |-> "live", found |-> {}]
    /\ ask = [r \in Requests |-> [kind |-> "none", pc |-> "idle"]]
    /\ job = [r \in Requests |-> NoJob]
    /\ faults = 0

Fault(kind) ==
    /\ kind \in Faults
    /\ faults < MaxFaults
    /\ faults' = faults + 1

\* What has hit a job before may hit it again.
Again(kind, before) ==
    \/ Fault(kind)
    \/ kind \in Faults /\ before /\ UNCHANGED faults

(***************************************************************************)
(* The requests                                                            *)
(***************************************************************************)

Over == [kind |-> "none", pc |-> "over"]
Goto(r, pc) == ask' = [ask EXCEPT ![r].pc = pc]
GiveUp(r) == ask' = [ask EXCEPT ![r] = Over]

\* A guest's export needs the session and, for a batch, that it is COMPLETED
\* (409); an administrator's needs neither.
MayAsk(complete) ==
    \E who \in {"guest", "admin"} :
        who = "guest" => complete /\ session.state # "anonymized"

\* Request r is the next to come in.
Comes(r) == ask[r].pc = "idle" /\ \A q \in 1..(r - 1) : ask[q].pc # "idle"

\* What requestBatchExport does about the row it finds: of one that is
\* COMPLETED or PENDING it only tells.
Reaction(status) ==
    CASE status = "FAILED" -> [kind |-> "batch", pc |-> "reset"]
      [] status = "NONE"   -> [kind |-> "batch", pc |-> "create"]
      [] OTHER             -> Over

\* Faulty variant: a report that is ready is made anew.
FindReportAnew(r) ==
    /\ Comes(r)
    /\ MayAsk(batch.state = "completed")
    /\ ask' = [ask EXCEPT ![r] = IF report.status = "COMPLETED"
                                 THEN Reaction("FAILED")
                                 ELSE Reaction(report.status)]
    /\ UNCHANGED <<data, batchReport, scanReport, job, faults>>

\* getReportByBatchAndFormat.
FindReport(r) ==
    /\ Comes(r)
    /\ MayAsk(batch.state = "completed")
    /\ ask' = [ask EXCEPT ![r] = Reaction(report.status)]
    /\ UNCHANGED <<data, batchReport, scanReport, job, faults>>

\* resetReportToPending: whatever the row says by now; it may be gone.
ResetReport(r) ==
    /\ ask[r].pc = "reset"
    /\ IF report.status = "NONE"
       THEN GiveUp(r) /\ UNCHANGED report
       ELSE Goto(r, "add") /\ report' = [report EXCEPT !.status = "PENDING"]
    /\ UNCHANGED <<data, file, scanReport, job, faults>>

\* createPendingBatchReport: the batch must be there, and no other row of this
\* batch and format (the unique index).
CreateReport(r) ==
    /\ ask[r].pc = "create"
    /\ IF batch.state = "gone" \/ report.status # "NONE"
       THEN GiveUp(r) /\ UNCHANGED report
       ELSE /\ Goto(r, "add")
            /\ report' = [status |-> "PENDING", since |-> batch.version]
    /\ UNCHANGED <<data, file, scanReport, job, faults>>

\* getOrGenerateReport and its twin for administrators: the newest row, or a
\* job.
FindScanReport(r) ==
    /\ Comes(r)
    /\ scan = "COMPLETED"
    /\ MayAsk(TRUE)
    /\ ask' = [ask EXCEPT ![r] = IF listed # {} THEN Over
                                 ELSE [kind |-> "scan", pc |-> "add"]]
    /\ UNCHANGED <<data, batchReport, scanReport, job, faults>>

\* queue.add, addReportJob.
AddJob(r) ==
    /\ ask[r].pc = "add"
    /\ Goto(r, "generating")
    /\ job' = [job EXCEPT ![r].state = "waiting"]
    /\ UNCHANGED <<data, batchReport, scanReport, faults>>

\* A call fails or the API process dies: the request is answered with an error
\* or not at all, and what it has written stays.
FailRequest(r) ==
    /\ ask[r].pc \in {"reset", "create", "add"}
    /\ \E kind \in Faults : Fault(kind)
    /\ IF ask[r].kind = "batch" /\ ask[r].pc = "add"
       THEN Goto(r, "abandoned") ELSE GiveUp(r)
    /\ UNCHANGED <<data, batchReport, scanReport, job>>

Answer(r) == ResetReport(r) \/ CreateReport(r) \/ AddJob(r)

(***************************************************************************)
(* The jobs                                                                *)
(***************************************************************************)

At(r, kind, pc) == ask[r].kind = kind /\ job[r].pc = pc
Step(r, pc) == job' = [job EXCEPT ![r].pc = pc]

\* The job ended one way or the other: nobody looks at its counters any more.
End(r, state) == job' = [job EXCEPT ![r] = [NoJob EXCEPT !.state = state]]

Claim(r) ==
    /\ job[r].state = "waiting"
    /\ job' = [job EXCEPT ![r].state = "active", ![r].pc = "fetch"]
    /\ UNCHANGED <<data, batchReport, scanReport, ask, faults>>

\* Faulty variant: no limit on the attempts.
FailAttemptUnlimited(r, attempts) ==
    job' = [job EXCEPT ![r].state = "waiting", ![r].pc = "idle",
                       ![r].made = @ + 1, ![r].copy = 0]

\* The processor threw: another attempt, or none.
FailAttempt(r, attempts) ==
    IF job[r].made + 1 < attempts
    THEN job' = [job EXCEPT ![r].state = "waiting", ![r].pc = "idle",
                            ![r].made = @ + 1, ![r].copy = 0]
    ELSE End(r, "failed")

\* fetchBatchData: the batch and all its scans in one query, finished or not.
Fetch(r) ==
    /\ At(r, "batch", "fetch")
    /\ job' = [job EXCEPT ![r].copy = IF batch.state = "gone" THEN 0
                                      ELSE batch.version,
                          ![r].pc = IF batch.state = "gone" THEN "catch"
                                    ELSE "upload"]
    /\ UNCHANGED <<data, batchReport, scanReport, ask, faults>>

\* uploadBatchPdfToS3, uploadBatchJsonToS3.
Upload(r) ==
    /\ At(r, "batch", "upload")
    /\ file' = job[r].copy
    /\ Step(r, "record")
    /\ UNCHANGED <<data, report, scanReport, ask, faults>>

\* updateReportRecord COMPLETED; of a row that is gone the update throws.
RecordSuccess(r) ==
    /\ At(r, "batch", "record")
    /\ IF report.status = "NONE"
       THEN Step(r, "catch") /\ UNCHANGED report
       ELSE Step(r, "return") /\ report' = [report EXCEPT !.status = "COMPLETED"]
    /\ UNCHANGED <<data, file, scanReport, ask, faults>>

\* Faulty variant: an upload that fails is logged, and the row is updated all
\* the same.
ThrowPastUpload(r) ==
    /\ ask[r].kind = "batch"
    /\ job[r].pc \in {"fetch", "upload", "record"}
    /\ Again("error", job[r].made > 0)
    /\ Step(r, IF job[r].pc = "upload" THEN "record" ELSE "catch")
    /\ UNCHANGED <<data, batchReport, scanReport, ask>>

\* A call in the try block fails.
Throw(r) ==
    /\ ask[r].kind = "batch"
    /\ job[r].pc \in {"fetch", "upload", "record"}
    /\ Again("error", job[r].made > 0)
    /\ Step(r, "catch")
    /\ UNCHANGED <<data, batchReport, scanReport, ask>>

\* Faulty variant: the catch block logs and returns.
RecordFailureLogged(r) ==
    /\ At(r, "batch", "catch")
    /\ Step(r, "return")
    /\ UNCHANGED <<data, batchReport, scanReport, ask, faults>>

\* updateReportRecord FAILED, over any status, and a normal return: BullMQ has
\* nothing to retry.  Only when this update throws too is there an attempt more.
RecordFailure(r) ==
    /\ At(r, "batch", "catch")
    /\ IF report.status = "NONE"
       THEN FailAttempt(r, BatchAttempts) /\ UNCHANGED report
       ELSE Step(r, "return") /\ report' = [report EXCEPT !.status = "FAILED"]
    /\ UNCHANGED <<data, file, scanReport, ask, faults>>

FailureNotRecorded(r) ==
    /\ At(r, "batch", "catch")
    /\ Again("error", job[r].made > 0)
    /\ FailAttempt(r, BatchAttempts)
    /\ UNCHANGED <<data, batchReport, scanReport, ask>>

\* processGenerateReport: the scan must be COMPLETED with a result.
CheckScan(r) ==
    /\ At(r, "scan", "fetch")
    /\ IF scan = "COMPLETED" THEN Step(r, "upload")
                             ELSE FailAttempt(r, ScanAttempts)
    /\ UNCHANGED <<data, batchReport, scanReport, ask, faults>>

UploadScan(r) ==
    /\ At(r, "scan", "upload")
    /\ scanFile' = TRUE
    /\ Step(r, "record")
    /\ UNCHANGED <<data, batchReport, listed, ask, faults>>

\* report.create: a new row each time; the scan must be there.
ListReport(r) ==
    /\ At(r, "scan", "record")
    /\ IF scan = "GONE"
       THEN FailAttempt(r, ScanAttempts) /\ UNCHANGED listed
       ELSE /\ listed' = listed \cup {<<r, job[r].made + job[r].stalled + 1>>}
            /\ Step(r, "return")
    /\ UNCHANGED <<data, batchReport, scanFile, ask, faults>>

\* Any call, updateProgress among them: also after the row was written.
ThrowScan(r) ==
    /\ ask[r].kind = "scan"
    /\ job[r].pc # "idle"
    /\ Again("error", job[r].made > 0)
    /\ FailAttempt(r, ScanAttempts)
    /\ UNCHANGED <<data, batchReport, scanReport, ask>>

Return(r) ==
    /\ job[r].pc = "return"
    /\ End(r, "completed")
    /\ UNCHANGED <<data, batchReport, scanReport, ask, faults>>

\* The worker process dies: the job stalls and is run again, or given up.
Crash(r) ==
    /\ job[r].state = "active"
    /\ Again("crash", job[r].stalled > 0)
    /\ IF job[r].stalled < MaxStalled
       THEN job' = [job EXCEPT ![r].state = "waiting", ![r].pc = "idle",
                               ![r].stalled = @ + 1, ![r].copy = 0]
       ELSE End(r, "failed")
    /\ UNCHANGED <<data, batchReport, scanReport, ask>>

Run(r) ==
    \/ Fetch(r) \/ Upload(r) \/ RecordSuccess(r) \/ RecordFailure(r)
    \/ CheckScan(r) \/ UploadScan(r) \/ ListReport(r)
    \/ Return(r)

(***************************************************************************)
(* The data meanwhile                                                      *)
(***************************************************************************)

\* retryFailedScans: the batch runs again; its reports are left alone.
Reopen ==
    /\ batch.state = "completed"
    /\ batch.version < MaxVersion
    /\ batch' = [batch EXCEPT !.state = "open"]
    /\ UNCHANGED <<batchReport, scan, scanReport, session, ask, job, faults>>

\* Its scans end, with other results.
Settle ==
    /\ batch.state = "open"
    /\ batch' = [state |-> "completed", version |-> batch.version + 1]
    /\ UNCHANGED <<batchReport, scan, scanReport, session, ask, job, faults>>

\* The scan worker's catch block, after the scan was committed as COMPLETED.
LateFailure ==
    /\ scan = "COMPLETED"
    /\ Fault("error")
    /\ scan' = "FAILED"
    /\ UNCHANGED <<batch, batchReport, scanReport, session, ask, job>>

\* deleteBatch: the scans' Report rows, the scans and the batch, whose Report
\* rows go with it; no file and no job.
DeleteBatch ==
    /\ batch.state # "gone"
    /\ batch' = [batch EXCEPT !.state = "gone"]
    /\ scan' = "GONE"
    /\ report' = NoReport
    /\ listed' = {}
    /\ UNCHANGED <<file, scanFile, session, ask, job, faults>>

\* anonymizeSession: the scans' Report rows are looked up ...
FindReports ==
    /\ session.state = "live"
    /\ session' = [state |-> "anonymizing", found |-> listed]
    /\ UNCHANGED <<batch, batchReport, scan, scanReport, ask, job, faults>>

\* ... and these are deleted, in one transaction with the session's new token.
\* Rows made meanwhile and the reports of the batch stay, and so does the file.
Anonymize ==
    /\ session.state = "anonymizing"
    /\ session' = [state |-> "anonymized", found |-> {}]
    /\ listed' = listed \ session.found
    /\ UNCHANGED <<batch, batchReport, scan, scanFile, ask, job, faults>>

Next ==
    \/ \E r \in Requests :
          \/ FindReport(r) \/ FindScanReport(r) \/ Answer(r) \/ FailRequest(r)
          \/ Claim(r) \/ Run(r)
          \/ Throw(r) \/ FailureNotRecorded(r) \/ ThrowScan(r) \/ Crash(r)
    \/ Reopen \/ Settle \/ LateFailure \/ DeleteBatch
    \/ FindReports \/ Anonymize

Spec == Init /\ [][Next]_vars

\* A request that was started does its next call; BullMQ has workers for the
\* jobs that wait, and a worker runs on.  Nobody has to ask for a report.
\* (Requests and jobs have finitely many steps, so that one condition for all
\* of them says that each goes on.)
FairSpec ==
    /\ Spec
    /\ WF_vars(\E r \in Requests : Answer(r))
    /\ WF_vars(\E r \in Requests : Claim(r) \/ Run(r))

(***************************************************************************)
(* Properties                                                              *)
(***************************************************************************)
\* A report that is said to be ready can be downloaded, and it shows the batch
\* as it was when the report was first asked for, or later: whatever failed,
\* was retried or ran twice (processBatchReportJob, processGenerateReport).
ReadyHasFile ==
    /\ report.status = "COMPLETED" => file # 0 /\ file >= report.since
    /\ listed # {} => scanFile

InFlight(r) ==
    /\ ask[r].kind = "batch"
    /\ \/ ask[r].pc \in {"reset", "create", "add"}
       \/ job[r].state \in {"waiting", "active"}

\* A batch report that is ready when no export is on its way stays ready, as
\* long as there is a batch, and nothing sets out to make it again, whoever
\* asks (requestBatchExport).  While exports overlap, a reset or a failure can
\* take it away.
ReadyAtRest == report.status = "COMPLETED" /\ \A r \in Requests : ~InFlight(r)
ReadyStays == [][ReadyAtRest => ReadyAtRest' \/ batch'.state = "gone"]_vars

\* The row waits for a job that does not exist: it was not queued, or BullMQ
\* gave it up before it could write the row.
Abandoned ==
    \E r \in Requests :
        /\ ask[r].kind = "batch"
        /\ ask[r].pc = "abandoned" \/ job[r].state = "failed"

\* "generating" does not last: when nobody asks any more, the batch's row is
\* COMPLETED or FAILED unless its job was lost, and a scan report is listed, or
\* its job has failed, or the row was deleted (processBatchReportJob,
\* processGenerateReport).
ExportsSettle ==
    <>[](/\ report.status = "PENDING" => Abandoned
         /\ \A r \in Requests :
               ask[r].kind = "scan" /\ ask[r].pc = "generating" =>
                   \/ \E row \in listed : row[1] = r
                   \/ job[r].state = "failed"
                   \/ scan = "GONE" \/ session.state = "anonymized")

=============================================================================
