----------------------------- MODULE ScanRequest -----------------------------
(***************************************************************************)
(* One scan asked for by a guest who may leave an e-mail address: the      *)
(* request (scan.service.ts createScan), the status that is cached in      *)
(* Redis and read through (getScanStatus), the attempts of the scan job as *)
(* far as they write the row, the cache and the mail queue                 *)
(* (scan-page.processor.ts), the mail jobs (send-email.processor.ts) and   *)
(* the AI import that sends the last mail (ai-queue.service.ts), and an    *)
(* administrator's call that anonymises the guest's session                *)
(* (session.service.ts).  BatchScan models the same worker inside a batch. *)
(*                                                                         *)
(* The address lives in three places: the row, the cached status and the   *)
(* data of the jobs.  Sending, and anonymising the session, erase it from  *)
(* the row only.                                                           *)
(***************************************************************************)
EXTENDS Naturals, Sequences

CONSTANTS
    MaxAttempts,      \* `attempts` of the scan-page queue (3)
    MaxMailAttempts,  \* `attempts` of the send-email queue (5)
    MaxStalled,       \* BullMQ's maxStalledCount (1: the default)
    Faults,           \* the faults that may be injected: "error", "crash"
    MaxFaults         \* bound: how many faults there are, not counting repetitions

ASSUME LimitsAreNumbers ==
    /\ MaxAttempts \in Nat \ {0}
    /\ MaxMailAttempts \in Nat \ {0}
    /\ MaxStalled \in Nat
    /\ MaxFaults \in Nat
ASSUME FaultsKnown == Faults \subseteq {"error", "crash"}

VARIABLES
    row,      \* the Scan row
    cache,    \* scan:<id>:status in Redis
    api,      \* the createScan request
    job,      \* the scan-page job
    worker,   \* the processScanPage call that runs it
    reader,   \* a getScanStatus request, one at a time, any number of them
    import,   \* the AI import of this scan
    mails,    \* the send-email jobs, in the order they were added
    faults    \* faults so far

vars == <<row, cache, api, job, worker, reader, import, mails, faults>>

Status == {"ABSENT", "PENDING", "RUNNING", "COMPLETED", "FAILED"}
AiStatus == {"NONE", "PENDING", "COMPLETED"}

\* What a status answer tells: the address is there (TRUE) or erased.
Entry == [status : Status, email : BOOLEAN]
NoEntry == [status |-> "ABSENT", email |-> FALSE]

MailType == {"scan_complete", "scan_failed", "ai_scan_complete"}

\* "erasing": failed for good, handleSendEmailFailure is running.
\* "abandoned": failed for good and the handler did not erase the address.
\* "lost": the queue refused the job; the error was logged.
MailState == {"waiting", "active", "completed", "erasing", "failed",
              "abandoned", "lost"}
MailJob == [type : MailType, state : MailState, made : Nat, stalled : Nat,
            pc : {"idle", "send", "erase"}, sent : BOOLEAN]

TypeOK ==
    /\ row \in [status : Status, result : BOOLEAN, ai : AiStatus,
                email : BOOLEAN]
    /\ cache \in Entry
    /\ api \in [pc : {"start", "queue", "cache", "done"}, address : BOOLEAN]
    /\ job \in [state : {"none", "waiting", "active", "completed", "failed"},
                made : 0..MaxAttempts, stalled : 0..(MaxStalled + 1)]
    /\ worker \in [pc : {"idle", "load", "running", "run", "commit",
                         "committed", "catch", "failing", "failed", "end"},
                   ok : BOOLEAN, email : BOOLEAN]
    /\ reader \in [pc : {"idle", "fill"}, copy : Entry]
    /\ import \in {"idle", "stored", "done"}
    /\ mails \in Seq(MailJob)
    /\ \A m \in DOMAIN mails : mails[m].made <= MaxMailAttempts
                               /\ mails[m].stalled <= MaxStalled + 1
    /\ faults \in 0..MaxFaults

\* `email`: the address is there in the row that was read, as long as the
\* worker needs it.
IdleWorker == [pc |-> "idle", ok |-> TRUE, email |-> FALSE]

Init ==
    /\ row = [status |-> "ABSENT", result |-> FALSE, ai |-> "NONE",
              email |-> FALSE]
    /\ cache = NoEntry
    /\ api \in [pc : {"start"}, address : BOOLEAN]
    /\ job = [state |-> "none", made |-> 0, stalled |-> 0]
    /\ worker = IdleWorker
    /\ reader = [pc |-> "idle", copy |-> NoEntry]
    /\ import = "idle"
    /\ mails = <<>>
    /\ faults = 0

Fault(kind) ==
    /\ kind \in Faults
    /\ faults < MaxFaults
    /\ faults' = faults + 1

\* What has hit a job before may hit it again: a provider that stays down, a
\* page that always fails.
Again(kind, before) ==
    \/ Fault(kind)
    \/ kind \in Faults /\ before /\ UNCHANGED faults

\* addEmailJob of the worker, sendEmailQueue.add of the import; both callers
\* log an error of the queue and go on.
AddMail(type) ==
    LET new(state) == [type |-> type, state |-> state, made |-> 0,
                       stalled |-> 0, pc |-> "idle", sent |-> FALSE]
    IN  \/ mails' = Append(mails, new("waiting")) /\ UNCHANGED faults
        \/ mails' = Append(mails, new("lost")) /\ Fault("error")

(***************************************************************************)
(* createScan                                                              *)
(***************************************************************************)

\* The row.  The AI slot was reserved or not (AiCampaign); only a request
\* with an address may ask for one.
CreateRow ==
    /\ api.pc = "start"
    /\ \E ai \in {"NONE", "PENDING"} :
          /\ ai = "PENDING" => api.address
          /\ row' = [status |-> "PENDING", result |-> FALSE, ai |-> ai,
                     email |-> api.address]
    /\ api' = [api EXCEPT !.pc = "queue"]
    /\ UNCHANGED <<cache, job, worker, reader, import, mails, faults>>

\* addScanJob, the address in its data; an error is logged only.
QueueScan ==
    /\ api.pc = "queue"
    /\ \/ job' = [job EXCEPT !.state = "waiting"] /\ UNCHANGED faults
       \/ UNCHANGED job /\ Fault("error")
    /\ api' = [api EXCEPT !.pc = "cache"]
    /\ UNCHANGED <<row, cache, worker, reader, import, mails>>

\* setex PENDING, over whatever the worker has cached meanwhile; an error is
\* logged only.
CacheNewScan ==
    /\ api.pc = "cache"
    /\ \/ /\ cache' = [status |-> "PENDING", email |-> api.address]
          /\ UNCHANGED faults
       \/ UNCHANGED cache /\ Fault("error")
    /\ api' = [api EXCEPT !.pc = "done"]
    /\ UNCHANGED <<row, job, worker, reader, import, mails>>

\* The API process dies between two calls.
AbortCreate ==
    /\ api.pc \in {"queue", "cache"}
    /\ Fault("crash")
    /\ api' = [api EXCEPT !.pc = "done"]
    /\ UNCHANGED <<row, cache, job, worker, reader, import, mails>>

Create == CreateRow \/ QueueScan \/ CacheNewScan

(***************************************************************************)
(* getScanStatus                                                           *)
(***************************************************************************)

\* The key was not there when Redis was asked, or Redis did not answer; by
\* the time the row is read the cache may be anything.  (A hit changes
\* nothing.)
ReadRow ==
    /\ reader.pc = "idle"
    /\ row.status # "ABSENT"
    /\ reader' = [pc |-> "fill", copy |-> [status |-> row.status,
                                           email |-> row.email]]
    /\ UNCHANGED <<row, cache, api, job, worker, import, mails, faults>>

\* setex with what was read then; an error is logged only.
FillCache ==
    /\ reader.pc = "fill"
    /\ \/ cache' = reader.copy /\ UNCHANGED faults
       \/ UNCHANGED cache /\ Fault("error")
    /\ reader' = [pc |-> "idle", copy |-> NoEntry]
    /\ UNCHANGED <<row, api, job, worker, import, mails>>

\* Faulty variant: only a final status is written with a time to live.
ExpireFinal ==
    /\ cache.status \in {"COMPLETED", "FAILED"}
    /\ cache' = NoEntry
    /\ UNCHANGED <<row, api, job, worker, reader, import, mails, faults>>

\* Every writer uses setex with the same 24 hours.
Expire ==
    /\ cache # NoEntry
    /\ cache' = NoEntry
    /\ UNCHANGED <<row, api, job, worker, reader, import, mails, faults>>

(***************************************************************************)
(* processScanPage                                                         *)
(***************************************************************************)

Claim ==
    /\ job.state = "waiting"
    /\ job' = [job EXCEPT !.state = "active"]
    /\ worker' = [IdleWorker EXCEPT !.pc = "load"]
    /\ UNCHANGED <<row, cache, api, reader, import, mails, faults>>

\* findUnique and the update to RUNNING.  (Between the two only the address
\* can change, which the update does not touch.)
StartScan ==
    /\ worker.pc = "load"
    /\ row' = [row EXCEPT !.status = "RUNNING"]
    /\ worker' = [worker EXCEPT !.pc = "running", !.email = row.email]
    /\ UNCHANGED <<cache, api, job, reader, import, mails, faults>>

\* updateRedisStatus with what findUnique returned.
CacheAs(status) == cache' = [status |-> status, email |-> worker.email]

CacheRunning ==
    /\ worker.pc = "running"
    /\ CacheAs("RUNNING")
    /\ worker' = [worker EXCEPT !.pc = "run"]
    /\ UNCHANGED <<row, api, job, reader, import, mails, faults>>

\* Inside the transaction, before it commits: Redis says COMPLETED.
CacheCompleted ==
    /\ worker.pc = "run"
    /\ ~row.result
    /\ CacheAs("COMPLETED")
    /\ worker' = [IdleWorker EXCEPT !.pc = "commit"]
    /\ UNCHANGED <<row, api, job, reader, import, mails, faults>>

\* Faulty variant: a result that is there already is taken for this
\* attempt's.
DuplicateAccepted ==
    /\ worker.pc = "run"
    /\ row.result
    /\ worker' = [worker EXCEPT !.pc = "committed"]
    /\ row' = [row EXCEPT !.status = "COMPLETED"]
    /\ UNCHANGED <<cache, api, job, reader, import, mails, faults>>

\* The unique index on scan_results.scanId rejects a second result.
DuplicateResult ==
    /\ worker.pc = "run"
    /\ row.result
    /\ worker' = [IdleWorker EXCEPT !.pc = "catch"]
    /\ UNCHANGED <<row, cache, api, job, reader, import, mails, faults>>

Commit ==
    /\ worker.pc = "commit"
    /\ row' = [row EXCEPT !.status = "COMPLETED", !.result = TRUE]
    /\ worker' = [worker EXCEPT !.pc = "committed"]
    /\ UNCHANGED <<cache, api, job, reader, import, mails, faults>>

\* A call in the try block fails; before the commit the transaction is rolled
\* back, what Redis was told stays.
Throw ==
    /\ worker.pc \in {"load", "running", "run", "commit", "committed"}
    /\ Again("error", job.made > 0)
    /\ worker' = [IdleWorker EXCEPT !.pc = "catch"]
    /\ UNCHANGED <<row, cache, api, job, reader, import, mails>>

\* The catch block: findUnique, then FAILED, whatever the status was.
RecordFailure ==
    /\ worker.pc = "catch"
    /\ row' = [row EXCEPT !.status = "FAILED"]
    /\ worker' = [pc |-> "failing", ok |-> FALSE, email |-> row.email]
    /\ UNCHANGED <<cache, api, job, reader, import, mails, faults>>

CacheFailed ==
    /\ worker.pc = "failing"
    /\ CacheAs("FAILED")
    /\ worker' = [worker EXCEPT !.pc = "failed", !.email = FALSE]
    /\ UNCHANGED <<row, api, job, reader, import, mails, faults>>

\* The catch block throws itself, at the latest when it writes the progress
\* after the status: no mail is queued.  If the job has not stalled it was an
\* error that led here, and the database may still be down.
FailureLost ==
    /\ worker.pc \in {"catch", "failing", "failed"}
    /\ Again("error", job.stalled = 0)
    /\ worker' = [pc |-> "end", ok |-> FALSE, email |-> FALSE]
    /\ UNCHANGED <<row, cache, api, job, reader, import, mails>>

MailIf(address) ==
    /\ worker.pc \in {"committed", "failed"}
    /\ IF address
       THEN AddMail(IF worker.ok THEN "scan_complete" ELSE "scan_failed")
       ELSE UNCHANGED <<mails, faults>>
    /\ worker' = [worker EXCEPT !.pc = "end"]
    /\ UNCHANGED <<row, cache, api, job, reader, import>>

\* Faulty variant: the row is asked for the address, not the job.
MailFromRow == MailIf(row.email)

\* "Queue email notification if email provided": the job's data, so an
\* address the mail of an earlier attempt has erased is used again.
QueueMail == MailIf(api.address)

\* Of a job that is over nobody looks at the attempts any more.
Over(state) == [state |-> state, made |-> 0, stalled |-> 0]

CloseAttempt(again) ==
    /\ worker.pc = "end"
    /\ job' = IF worker.ok THEN Over("completed")
              ELSE IF again THEN [job EXCEPT !.made = @ + 1, !.state = "waiting"]
              ELSE Over("failed")
    /\ worker' = IdleWorker
    /\ UNCHANGED <<row, cache, api, reader, import, mails, faults>>

\* Faulty variant: no limit on the attempts.
EndAttemptUnlimited == CloseAttempt(TRUE)

\* BullMQ closes the attempt.
EndAttempt == CloseAttempt(job.made + 1 < MaxAttempts)

\* The worker process dies; the job stalls and is run again, or given up.
Crash ==
    /\ worker.pc # "idle"
    /\ Again("crash", job.stalled > 0)
    /\ job' = IF job.stalled < MaxStalled
              THEN [job EXCEPT !.stalled = @ + 1, !.state = "waiting"]
              ELSE Over("failed")
    /\ worker' = IdleWorker
    /\ UNCHANGED <<row, cache, api, reader, import, mails>>

Work ==
    \/ Claim \/ StartScan \/ CacheRunning \/ CacheCompleted \/ DuplicateResult
    \/ Commit \/ RecordFailure \/ CacheFailed \/ QueueMail
    \/ EndAttempt

(***************************************************************************)
(* The AI import, as far as it concerns this scan (AiQueue has the rest)   *)
(***************************************************************************)

\* Exported while it is COMPLETED, and stored when the results come back,
\* whatever the status is then.
AiStore ==
    /\ row.ai = "PENDING"
    /\ row.status = "COMPLETED"
    /\ row' = [row EXCEPT !.ai = "COMPLETED"]
    /\ import' = "stored"
    /\ UNCHANGED <<cache, api, job, worker, reader, mails, faults>>

\* The row is read again for the address; without one there is no mail.
AiMail ==
    /\ import = "stored"
    /\ IF row.email THEN AddMail("ai_scan_complete")
                    ELSE UNCHANGED <<mails, faults>>
    /\ import' = "done"
    /\ UNCHANGED <<row, cache, api, job, worker, reader>>

\* The process that imports dies before it has queued the mail.
AiMailLost ==
    /\ import = "stored"
    /\ Fault("crash")
    /\ import' = "done"
    /\ UNCHANGED <<row, cache, api, job, worker, reader, mails>>

(***************************************************************************)
(* anonymizeSession                                                        *)
(***************************************************************************)

\* The transaction: the addresses of all scans of the session, wherever the
\* scan, its job or its mails are.  A row that is created later, by a request
\* that was under way, keeps its address: the session's token is replaced and
\* a second call refused.
AnonymizeSession ==
    /\ row.status # "ABSENT"
    /\ row' = [row EXCEPT !.email = FALSE]
    /\ UNCHANGED <<cache, api, job, worker, reader, import, mails, faults>>

(***************************************************************************)
(* processSendEmail, processAiScanCompleteEmail: one call per attempt      *)
(***************************************************************************)

Set(m, mail) == mails' = [mails EXCEPT ![m] = mail]

End(m, state) ==
    Set(m, [mails[m] EXCEPT !.state = state, !.pc = "idle", !.made = 0,
                            !.stalled = 0])

MailClaim(m) ==
    /\ mails[m].state = "waiting"
    /\ Set(m, [mails[m] EXCEPT !.state = "active", !.pc = "send"])
    /\ UNCHANGED <<row, cache, api, job, worker, reader, import, faults>>

\* What the processor insists on before it sends.
Sendable(type) ==
    /\ type # "scan_failed" => row.result
    /\ type = "ai_scan_complete" => row.ai = "COMPLETED"

Send(m) ==
    /\ mails[m].pc = "send"
    /\ Sendable(mails[m].type)
    /\ Set(m, [mails[m] EXCEPT !.pc = "erase", !.sent = TRUE])
    /\ UNCHANGED <<row, cache, api, job, worker, reader, import, faults>>

\* What a mail that was sent leaves of the row: of a scan with AI only the AI
\* mail erases the address.
AfterMail(m) ==
    IF row.ai # "NONE" /\ mails[m].type # "ai_scan_complete"
    THEN row ELSE [row EXCEPT !.email = FALSE]

\* Faulty variant: every mail erases the address, also when AI is still to
\* come.
EraseAlways(m) ==
    /\ mails[m].pc = "erase"
    /\ row' = [row EXCEPT !.email = FALSE]
    /\ End(m, "completed")
    /\ UNCHANGED <<cache, api, job, worker, reader, import, faults>>

\* The address is erased and the processor returns; between the two nobody
\* looks at the job.
Erase(m) ==
    /\ mails[m].pc = "erase"
    /\ row' = AfterMail(m)
    /\ End(m, "completed")
    /\ UNCHANGED <<cache, api, job, worker, reader, import, faults>>

\* An attempt that breaks off after it has sent may have erased the address.
BreakOff(m) == row' = row \/ (mails[m].pc = "erase" /\ row' = AfterMail(m))

\* A call fails: before the mail is out, after it, or after the address is
\* erased (updateProgress).  Another attempt sends again; after the last one
\* comes the `failed` event.
MailError(m) ==
    /\ mails[m].pc # "idle"
    /\ \/ Again("error", mails[m].made > 0)
       \/ mails[m].pc = "send" /\ ~Sendable(mails[m].type) /\ UNCHANGED faults
    /\ Set(m, [mails[m] EXCEPT
          !.pc = "idle", !.made = @ + 1,
          !.state = IF mails[m].made + 1 < MaxMailAttempts
                    THEN "waiting" ELSE "erasing"])
    /\ BreakOff(m)
    /\ UNCHANGED <<cache, api, job, worker, reader, import>>

\* Faulty variant: a permanent failure is only logged.
HandleFailureLogged(m) ==
    /\ mails[m].state = "erasing"
    /\ End(m, "failed")
    /\ UNCHANGED <<row, cache, api, job, worker, reader, import, faults>>

\* handleSendEmailFailure: the address is erased, with AI or without.
HandleSendEmailFailure(m) ==
    /\ mails[m].state = "erasing"
    /\ row' = [row EXCEPT !.email = FALSE]
    /\ End(m, "failed")
    /\ UNCHANGED <<cache, api, job, worker, reader, import, faults>>

\* Its error is logged, nothing tries again.
HandlerFails(m) ==
    /\ mails[m].state = "erasing"
    /\ \E kind \in Faults : Again(kind, TRUE)
    /\ End(m, "abandoned")
    /\ UNCHANGED <<row, cache, api, job, worker, reader, import>>

\* The worker process dies.  A job given up for stalling has attempts left,
\* so that the handler takes the failure for one that will be retried.
MailCrash(m) ==
    /\ mails[m].state = "active"
    /\ Again("crash", mails[m].stalled > 0)
    /\ IF mails[m].stalled < MaxStalled
       THEN Set(m, [mails[m] EXCEPT !.state = "waiting", !.pc = "idle",
                                    !.stalled = @ + 1])
       ELSE End(m, "abandoned")
    /\ BreakOff(m)
    /\ UNCHANGED <<cache, api, job, worker, reader, import>>

Deliver(m) ==
    \/ MailClaim(m) \/ Send(m) \/ Erase(m) \/ HandleSendEmailFailure(m)

Next ==
    \/ Create \/ AbortCreate
    \/ ReadRow \/ FillCache \/ Expire
    \/ Work \/ Throw \/ FailureLost \/ Crash
    \/ AiStore \/ AiMail \/ AiMailLost
    \/ AnonymizeSession
    \/ \E m \in DOMAIN mails :
          Deliver(m) \/ MailError(m) \/ HandlerFails(m) \/ MailCrash(m)

Spec == Init /\ [][Next]_vars

\* A request does its next call, BullMQ runs its jobs, Redis lets keys expire.
\* Nobody has to ask for the status, and no administrator has to import or to
\* anonymise.  (A request, an attempt and a mail have finitely many steps, so
\* that one condition for all of them says that each is done.)
FairSpec ==
    /\ Spec
    /\ WF_vars(Expire)
    /\ WF_vars(Create \/ Work \/ AiMail \/ \E m \in DOMAIN mails : Deliver(m))

(***************************************************************************)
(* Properties                                                              *)
(***************************************************************************)
\* One scan is announced as complete once, whatever is retried or run again
\* after a crash: the transaction that comes before the mail cannot commit
\* twice (processScanPage).
OneCompleteMail ==
    \A m, n \in DOMAIN mails :
        mails[m].type = "scan_complete" /\ mails[n].type = "scan_complete"
            => m = n

\* The address has served: a mail was sent, the AI mail when there is AI, or
\* one has failed for good.
Served ==
    \E m \in DOMAIN mails :
        \/ mails[m].state = "failed"
        \/ mails[m].sent /\ (row.ai # "NONE" => mails[m].type = "ai_scan_complete")

\* The mails take the address from the row only when it has served; before
\* that only an administrator's anonymizeSession does (processSendEmail,
\* handleSendEmailFailure).
ErasedAfterUse ==
    [][row.email /\ ~row'.email => AnonymizeSession \/ Served']_vars

\* The mail that has to erase the address.
ErasingMail(m) ==
    /\ mails[m].state \notin {"lost", "abandoned"}
    /\ row.ai # "NONE" => mails[m].type = "ai_scan_complete"

\* As soon as such a mail was queued, and whether it can be sent or not, the
\* row loses the address in the end ("email addresses are deleted after use"),
\* unless the job was given up without its handler.
AddressErased ==
    <>[]((\E m \in DOMAIN mails : ErasingMail(m)) => ~row.email)

\* Redis stops telling an old status, and an address that is erased, although
\* the request and readers write over newer entries (getScanStatus, setex).
CacheCatchesUp ==
    <>[](cache # NoEntry => cache = [status |-> row.status, email |-> row.email])

\* A scan job that ends well is announced to an address that was left, also
\* when the mail about an earlier, failed attempt has erased it from the row;
\* or the mail was refused by the queue or failed for good.
CompletedIsMailed ==
    <>[](job.state = "completed" /\ api.address =>
           \E m \in DOMAIN mails :
              /\ mails[m].type = "scan_complete"
              /\ mails[m].sent \/ mails[m].state \in {"lost", "failed", "abandoned"})

=============================================================================
