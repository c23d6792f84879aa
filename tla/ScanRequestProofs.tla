-------------------------- MODULE ScanRequestProofs --------------------------
(***************************************************************************)
(* Theorems about ScanRequest: its types, that a scan is announced as      *)
(* complete at most once, and that the guest's address is erased only      *)
(* after it has served, or by anonymizeSession.                            *)
(***************************************************************************)
EXTENDS ScanRequest, TLAPS, SequenceTheorems

\* The job is active exactly while the processor runs, has attempts and stalls
\* left until it is over, and is queued by the request, which writes the row
\* first.
JobInv ==
    /\ worker.pc # "idle" <=> job.state = "active"
    /\ job.state \in {"none", "waiting", "active"} =>
         job.made < MaxAttempts /\ job.stalled <= MaxStalled
    /\ api.pc \in {"start", "queue"} => job.state = "none"
    /\ row.status = "ABSENT" <=> api.pc = "start"
    /\ api.pc = "start" => mails = <<>> /\ import = "idle" /\ ~row.email

\* The same for a mail job, whose processor erases the address after it has
\* sent the mail.
MailOk(mail) ==
    /\ mail.made <= MaxMailAttempts /\ mail.stalled <= MaxStalled + 1
    /\ mail.pc # "idle" <=> mail.state = "active"
    /\ mail.state \in {"waiting", "active"} =>
         mail.made < MaxMailAttempts /\ mail.stalled <= MaxStalled
    /\ mail.pc = "erase" => mail.sent
MailInv == \A m \in DOMAIN mails : MailOk(mails[m])

\* An attempt commits only where there is no result, and announces only what
\* it has committed: where a scan was announced, nothing can commit any more.
AnnounceInv ==
    /\ worker.pc \in {"load", "running", "run", "commit", "committed"} => worker.ok
    /\ worker.pc \in {"failing", "failed"} => ~worker.ok
    /\ worker.pc = "commit" => ~row.result
    /\ worker.pc = "committed" => row.result
    /\ \A m \in DOMAIN mails :
          mails[m].type = "scan_complete" => row.result /\ worker.pc # "committed"

IInv == TypeOK /\ JobInv /\ MailInv /\ AnnounceInv /\ OneCompleteMail

\* The invariant holds at the beginning.
LEMMA InitInv == Init => IInv
BY LimitsAreNumbers DEF Init, IInv, TypeOK, Status, AiStatus, Entry, NoEntry, IdleWorker,
   JobInv, MailInv, AnnounceInv, OneCompleteMail

(* The mail jobs *)

\* What no step takes from a mail job: its place, its type, that it was sent
\* and that it has failed for good.
Kept ==
    /\ DOMAIN mails \subseteq DOMAIN mails'
    /\ \A n \in DOMAIN mails :
          /\ mails'[n].type = mails[n].type
          /\ mails[n].sent => mails'[n].sent
          /\ mails[n].state = "failed" => mails'[n].state = "failed"

\* A mail job that moves on leaves the others alone and does not un-send.
LEMMA MailMoves ==
  ASSUME TypeOK, MailInv, NEW m \in DOMAIN mails, NEW x \in MailJob, Set(m, x),
         MailOk(x), x.type = mails[m].type, mails[m].sent => x.sent,
         mails[m].state # "failed"
  PROVE  /\ mails' \in Seq(MailJob) /\ MailInv' /\ Kept
         /\ DOMAIN mails' = DOMAIN mails
<1>1. mails \in Seq(MailJob) /\ m \in 1..Len(mails)
  BY DEF TypeOK
<1>2. mails' \in Seq(MailJob) /\ Len(mails') = Len(mails)
      /\ \A n \in 1..Len(mails) : mails'[n] = IF n = m THEN x ELSE mails[n]
  BY <1>1, ExceptSeq DEF Set
<1>3. DOMAIN mails' = DOMAIN mails /\ DOMAIN mails = 1..Len(mails)
  BY <1>1, <1>2
<1> QED
  BY <1>2, <1>3 DEF Kept, MailInv

\* Delivery, errors, failures and crashes of a mail job keep what is known of the
\* mails.
LEMMA MailStep ==
  ASSUME IInv, NEW m \in DOMAIN mails,
         Deliver(m) \/ MailError(m) \/ HandlerFails(m) \/ MailCrash(m)
  PROVE  /\ mails' \in Seq(MailJob) /\ MailInv' /\ Kept
         /\ DOMAIN mails' = DOMAIN mails
<1>1. TypeOK /\ MailInv /\ MailOk(mails[m]) /\ mails[m] \in MailJob
  BY DEF IInv, MailInv, TypeOK
<1>2. mails[m].made \in Nat /\ mails[m].stalled \in Nat
  BY <1>1 DEF MailJob
<1>3. CASE MailClaim(m)
  <2> DEFINE x == [mails[m] EXCEPT !.state = "active", !.pc = "send"]
  <2>1. Set(m, x) /\ mails[m].state = "waiting"
    BY <1>3 DEF MailClaim
  <2>2. x \in MailJob /\ x.type = mails[m].type /\ x.sent = mails[m].sent
        /\ x.made = mails[m].made /\ x.stalled = mails[m].stalled
        /\ x.state = "active" /\ x.pc = "send"
    BY <1>1 DEF MailJob, MailState
  <2> HIDE DEF x
  <2>3. MailOk(x)
    BY <1>1, <2>1, <2>2 DEF MailOk
  <2> QED
    BY <1>1, <2>1, <2>2, <2>3, MailMoves
<1>4. CASE Send(m)
  <2> DEFINE x == [mails[m] EXCEPT !.pc = "erase", !.sent = TRUE]
  <2>1. Set(m, x) /\ mails[m].pc = "send"
    BY <1>4 DEF Send
  <2>2. x \in MailJob /\ x.type = mails[m].type /\ x.sent
        /\ x.made = mails[m].made /\ x.stalled = mails[m].stalled
        /\ x.state = mails[m].state /\ x.pc = "erase"
    BY <1>1 DEF MailJob
  <2> HIDE DEF x
  <2>3. MailOk(x) /\ mails[m].state # "failed"
    BY <1>1, <2>1, <2>2 DEF MailOk
  <2> QED
    BY <1>1, <2>1, <2>2, <2>3, MailMoves
<1>6. ASSUME NEW state \in {"completed", "failed", "abandoned"}, End(m, state),
             mails[m].state # "failed"
      PROVE  /\ mails' \in Seq(MailJob) /\ MailInv' /\ Kept
             /\ DOMAIN mails' = DOMAIN mails
  <2> DEFINE x == [mails[m] EXCEPT !.state = state, !.pc = "idle", !.made = 0,
                                   !.stalled = 0]
  <2>1. Set(m, x)
    BY <1>6 DEF End
  <2>2. x \in MailJob /\ x.type = mails[m].type /\ x.sent = mails[m].sent
        /\ x.made = 0 /\ x.stalled = 0 /\ x.state = state /\ x.pc = "idle"
    BY <1>1 DEF MailJob, MailState
  <2> HIDE DEF x
  <2>3. MailOk(x)
    BY <2>2, LimitsAreNumbers DEF MailOk
  <2> QED
    BY <1>1, <1>6, <2>1, <2>2, <2>3, MailMoves
<1>7. CASE Erase(m) \/ HandleSendEmailFailure(m) \/ HandlerFails(m)
  <2>1. mails[m].state # "failed"
    BY <1>1, <1>7 DEF Erase, HandleSendEmailFailure, HandlerFails, MailOk
  <2> QED
    BY <1>6, <1>7, <2>1 DEF Erase, HandleSendEmailFailure, HandlerFails
<1>8. CASE MailError(m)
  <2> DEFINE state == IF mails[m].made + 1 < MaxMailAttempts THEN "waiting" ELSE "erasing"
             made == mails[m].made + 1
             x == [mails[m] EXCEPT !.pc = "idle", !.made = made, !.state = state]
  <2>1. Set(m, x) /\ mails[m].pc # "idle"
    BY <1>8 DEF MailError
  <2>2. /\ made \in Nat /\ made <= MaxMailAttempts /\ state \in {"waiting", "erasing"}
        /\ state = "waiting" => made < MaxMailAttempts
    BY <1>1, <1>2, <2>1, LimitsAreNumbers DEF MailOk
  <2> HIDE DEF state, made
  <2>3. x \in MailJob /\ x.type = mails[m].type /\ x.sent = mails[m].sent
        /\ x.made = made /\ x.stalled = mails[m].stalled
        /\ x.state = state /\ x.pc = "idle"
    BY <1>1, <2>2 DEF MailJob, MailState
  <2> HIDE DEF x
  <2>4. MailOk(x) /\ mails[m].state # "failed"
    BY <1>1, <2>1, <2>2, <2>3 DEF MailOk
  <2> QED
    BY <1>1, <2>1, <2>3, <2>4, MailMoves
<1>9. CASE MailCrash(m)
  <2>0. mails[m].state = "active"
    BY <1>9 DEF MailCrash
  <2>1. CASE mails[m].stalled < MaxStalled
    <3> DEFINE stalled == mails[m].stalled + 1
               x == [mails[m] EXCEPT !.state = "waiting", !.pc = "idle",
                                     !.stalled = stalled]
    <3>1. Set(m, x)
      BY <1>9, <2>1 DEF MailCrash
    <3>2. stalled \in Nat /\ stalled <= MaxStalled
      BY <1>2, <2>1, LimitsAreNumbers
    <3> HIDE DEF stalled
    <3>3. x \in MailJob /\ x.type = mails[m].type /\ x.sent = mails[m].sent
          /\ x.made = mails[m].made /\ x.stalled = stalled
          /\ x.state = "waiting" /\ x.pc = "idle"
      BY <1>1, <3>2 DEF MailJob, MailState
    <3> HIDE DEF x
    <3>4. MailOk(x)
      BY <1>1, <2>0, <3>2, <3>3, LimitsAreNumbers DEF MailOk
    <3> QED
      BY <1>1, <2>0, <3>1, <3>3, <3>4, MailMoves
  <2>2. CASE ~(mails[m].stalled < MaxStalled)
    BY <1>6, <1>9, <2>0, <2>2 DEF MailCrash
  <2> QED
    BY <2>1, <2>2
<1> QED
  BY <1>3, <1>4, <1>7, <1>8, <1>9 DEF Deliver

\* A new mail job is added after the others, or the queue refuses it.
LEMMA AddMailEffect ==
  ASSUME IInv, NEW type \in MailType, AddMail(type)
  PROVE  /\ mails' \in Seq(MailJob) /\ MailInv' /\ Kept
         /\ DOMAIN mails' = DOMAIN mails \cup {Len(mails) + 1}
         /\ mails'[Len(mails) + 1].type = type
         /\ faults' = faults \/ Fault("error")
<1> DEFINE new(state) == [type |-> type, state |-> state, made |-> 0,
                          stalled |-> 0, pc |-> "idle", sent |-> FALSE]
<1>1. mails \in Seq(MailJob) /\ MailInv
  BY DEF IInv, TypeOK
<1>2. PICK state \in {"waiting", "lost"} : mails' = Append(mails, new(state))
  BY DEF AddMail
<1>3. new(state) \in MailJob /\ MailOk(new(state)) /\ new(state).type = type
  BY LimitsAreNumbers DEF MailJob, MailState, MailOk
<1> HIDE DEF new
<1>4. /\ mails' \in Seq(MailJob) /\ Len(mails') = Len(mails) + 1
      /\ \A n \in 1..Len(mails) : mails'[n] = mails[n]
      /\ mails'[Len(mails) + 1] = new(state)
  BY <1>1, <1>2, <1>3, AppendProperties
<1>5. DOMAIN mails = 1..Len(mails) /\ DOMAIN mails' = 1..(Len(mails) + 1)
      /\ Len(mails) \in Nat
  BY <1>1, <1>4
<1>6. DOMAIN mails' = DOMAIN mails \cup {Len(mails) + 1}
  BY <1>5
<1>7. Kept
  BY <1>4, <1>5, <1>6 DEF Kept
<1>8. MailInv'
  BY <1>1, <1>3, <1>4, <1>5, <1>6 DEF MailInv
<1>9. faults' = faults \/ Fault("error")
  BY DEF AddMail
<1> QED
  BY <1>3, <1>4, <1>6, <1>7, <1>8, <1>9

\* The steps of a mail job that may take the address from the row.
TakesAddress(m) ==
    \/ HandleSendEmailFailure(m)
    \/ /\ Erase(m) \/ MailError(m) \/ MailCrash(m)
       /\ mails[m].pc = "erase" /\ row' = AfterMail(m)

\* What a step leaves alone, and which actions change what.
LEMMA Actions ==
  ASSUME [Next]_vars
  PROVE  /\ UNCHANGED row \/ CreateRow \/ StartScan \/ Commit \/ RecordFailure \/ AiStore
            \/ AnonymizeSession \/ \E m \in DOMAIN mails : TakesAddress(m)
         /\ UNCHANGED cache \/ CacheNewScan \/ FillCache \/ Expire \/ CacheRunning
            \/ CacheCompleted \/ CacheFailed
         /\ UNCHANGED <<api, reader, import>> \/ Create \/ AbortCreate \/ ReadRow
            \/ FillCache \/ AiStore \/ AiMail \/ AiMailLost
         /\ UNCHANGED <<job, worker>> \/ QueueScan \/ Work \/ Throw \/ FailureLost \/ Crash
         /\ UNCHANGED mails \/ QueueMail \/ AiMail
            \/ \E m \in DOMAIN mails :
                  Deliver(m) \/ MailError(m) \/ HandlerFails(m) \/ MailCrash(m)
         /\ UNCHANGED faults \/ (\E kind \in {"error", "crash"} : Fault(kind))
            \/ QueueMail \/ AiMail
<1>1. CASE UNCHANGED vars
  BY <1>1 DEF vars
<1>2. CASE Create \/ AbortCreate \/ ReadRow \/ FillCache \/ Expire
  BY <1>2 DEF Create, CreateRow, QueueScan, CacheNewScan, AbortCreate, ReadRow,
     FillCache, Expire
<1>3. CASE Work
  BY <1>3 DEF Work, Claim, StartScan, CacheRunning, CacheCompleted, DuplicateResult,
     Commit, RecordFailure, CacheFailed, QueueMail, MailIf, EndAttempt, CloseAttempt
<1>4. CASE Throw \/ FailureLost \/ Crash
  BY <1>4 DEF Throw, FailureLost, Crash, Again
<1>5. CASE AiStore \/ AiMail \/ AiMailLost \/ AnonymizeSession
  BY <1>5 DEF AiStore, AiMail, AiMailLost, AnonymizeSession
<1>6. ASSUME NEW m \in DOMAIN mails,
             Deliver(m) \/ MailError(m) \/ HandlerFails(m) \/ MailCrash(m)
      PROVE  /\ UNCHANGED <<cache, api, reader, import, job, worker>>
             /\ UNCHANGED row \/ TakesAddress(m)
             /\ UNCHANGED faults \/ (\E kind \in {"error", "crash"} : Fault(kind))
  BY <1>6, FaultsKnown DEF Deliver, MailClaim, Send, Erase,
     HandleSendEmailFailure, MailError, HandlerFails, MailCrash, BreakOff, TakesAddress, Again
<1> QED
  BY <1>1, <1>2, <1>3, <1>4, <1>5, <1>6 DEF Next

\* Every step keeps what is known of the mails.
LEMMA MailsStep ==
  ASSUME IInv, [Next]_vars
  PROVE  mails' \in Seq(MailJob) /\ MailInv' /\ Kept
<1>1. TypeOK /\ MailInv
  BY DEF IInv
<1>2. CASE UNCHANGED mails
  BY <1>1, <1>2 DEF TypeOK, MailInv, Kept
<1>3. CASE QueueMail \/ AiMail
  BY <1>2, <1>3, AddMailEffect DEF QueueMail, MailIf, AiMail, MailType
<1> QED
  BY <1>2, <1>3, MailStep, Actions

(* Types, and the scan job *)

\* An attempt that goes on has a worker at its next call.
LEMMA WorkerGoesOn ==
  ASSUME TypeOK,
         \/ StartScan \/ RecordFailure \/ CacheRunning \/ CacheCompleted
         \/ DuplicateResult \/ Commit \/ CacheFailed \/ QueueMail \/ Throw \/ FailureLost
  PROVE  /\ UNCHANGED job /\ worker.pc # "idle" /\ worker'.pc # "idle"
         /\ worker' \in [pc : {"idle", "load", "running", "run", "commit",
                               "committed", "catch", "failing", "failed", "end"},
                         ok : BOOLEAN, email : BOOLEAN]
<1>1. /\ worker \in [pc : {"idle", "load", "running", "run", "commit",
                           "committed", "catch", "failing", "failed", "end"},
                     ok : BOOLEAN, email : BOOLEAN]
      /\ row.email \in BOOLEAN
  BY DEF TypeOK
<1>2. CASE StartScan
  BY <1>1, <1>2 DEF StartScan
<1>6. CASE RecordFailure
  BY <1>1, <1>6 DEF RecordFailure
<1>3. CASE CacheRunning \/ Commit \/ QueueMail
  <2>1. UNCHANGED job /\ worker.pc # "idle"
        /\ \E pc \in {"run", "committed", "end"} : worker' = [worker EXCEPT !.pc = pc]
    BY <1>3 DEF CacheRunning, Commit, QueueMail, MailIf
  <2> QED
    BY <1>1, <2>1
<1>4. CASE CacheFailed
  BY <1>1, <1>4 DEF CacheFailed
<1>5. CASE CacheCompleted \/ DuplicateResult \/ Throw
  <2>1. UNCHANGED job /\ worker.pc # "idle"
        /\ \E pc \in {"commit", "catch"} : worker' = [IdleWorker EXCEPT !.pc = pc]
    BY <1>5 DEF CacheCompleted, DuplicateResult, Throw
  <2> QED
    BY <2>1 DEF IdleWorker
<1>7. CASE FailureLost
  BY <1>7 DEF FailureLost
<1> QED
  BY <1>2, <1>3, <1>4, <1>5, <1>6, <1>7

\* Every step keeps the types.
LEMMA TypeStep ==
  ASSUME IInv, [Next]_vars
  PROVE  TypeOK'
<1>0. TypeOK /\ JobInv
  BY DEF IInv
<1>1. row' \in [status : Status, result : BOOLEAN, ai : AiStatus, email : BOOLEAN]
  <2>0. row \in [status : Status, result : BOOLEAN, ai : AiStatus, email : BOOLEAN]
        /\ api.address \in BOOLEAN
    BY <1>0 DEF TypeOK
  <2>1. CASE CreateRow
    BY <2>0, <2>1 DEF CreateRow, Status, AiStatus
  <2>2. CASE StartScan \/ Commit \/ RecordFailure \/ AiStore \/ AnonymizeSession
    BY <2>0, <2>2 DEF StartScan, Commit, RecordFailure, AiStore, AnonymizeSession, Status,
       AiStatus
  <2>3. CASE \E m \in DOMAIN mails : TakesAddress(m)
    BY <2>0, <2>3 DEF TakesAddress, AfterMail, HandleSendEmailFailure
  <2> QED
    BY <2>0, <2>1, <2>2, <2>3, Actions
<1>2. cache' \in Entry
  <2>0. cache \in Entry /\ reader.copy \in Entry /\ api.address \in BOOLEAN
        /\ worker.email \in BOOLEAN
    BY <1>0 DEF TypeOK
  <2>1. NoEntry \in Entry
        /\ \A s \in Status, e \in BOOLEAN : [status |-> s, email |-> e] \in Entry
    BY DEF Entry, NoEntry, Status
  <2>2. {"PENDING", "RUNNING", "COMPLETED", "FAILED"} \subseteq Status
    BY DEF Status
  <2>3. CASE CacheNewScan \/ FillCache \/ Expire
    BY <2>0, <2>1, <2>2, <2>3 DEF CacheNewScan, FillCache, Expire
  <2>4. CASE CacheRunning \/ CacheCompleted \/ CacheFailed
    BY <2>0, <2>1, <2>2, <2>4 DEF CacheRunning, CacheCompleted, CacheFailed, CacheAs
  <2> QED
    BY <2>0, <2>3, <2>4, Actions
<1>3. /\ api' \in [pc : {"start", "queue", "cache", "done"}, address : BOOLEAN]
      /\ reader' \in [pc : {"idle", "fill"}, copy : Entry]
      /\ import' \in {"idle", "stored", "done"}
  <2>1. CASE UNCHANGED <<api, reader, import>>
    BY <1>0, <2>1 DEF TypeOK
  <2>2. CASE Create \/ AbortCreate
    BY <1>0, <2>2 DEF TypeOK, Create, CreateRow, QueueScan, CacheNewScan, AbortCreate
  <2>3. CASE ReadRow \/ FillCache
    <3>1. NoEntry \in Entry
          /\ \A s \in Status, e \in BOOLEAN : [status |-> s, email |-> e] \in Entry
      BY DEF Entry, NoEntry, Status
    <3>2. row.status \in Status /\ row.email \in BOOLEAN
      BY <1>0 DEF TypeOK
    <3> HIDE DEF NoEntry
    <3> QED
      BY <1>0, <2>3, <3>1, <3>2 DEF TypeOK, ReadRow, FillCache
  <2>4. CASE AiStore \/ AiMail \/ AiMailLost
    BY <1>0, <2>4 DEF TypeOK, AiStore, AiMail, AiMailLost
  <2> QED
    BY <2>1, <2>2, <2>3, <2>4, Actions
<1>4. /\ job' \in [state : {"none", "waiting", "active", "completed", "failed"},
                   made : 0..MaxAttempts, stalled : 0..(MaxStalled + 1)]
      /\ worker' \in [pc : {"idle", "load", "running", "run", "commit",
                            "committed", "catch", "failing", "failed", "end"},
                      ok : BOOLEAN, email : BOOLEAN]
  <2>0. /\ job \in [state : {"none", "waiting", "active", "completed", "failed"},
                    made : 0..MaxAttempts, stalled : 0..(MaxStalled + 1)]
        /\ worker \in [pc : {"idle", "load", "running", "run", "commit",
                             "committed", "catch", "failing", "failed", "end"},
                       ok : BOOLEAN, email : BOOLEAN]
        /\ row.email \in BOOLEAN
    BY <1>0 DEF TypeOK
  <2>1. CASE UNCHANGED <<job, worker>>
    BY <2>0, <2>1
  <2>2. CASE QueueScan
    BY <2>0, <2>2 DEF QueueScan
  <2>3. CASE Claim
    BY <2>0, <2>3 DEF Claim, IdleWorker
  <2>7. CASE StartScan \/ RecordFailure \/ CacheRunning \/ CacheCompleted
             \/ DuplicateResult \/ Commit \/ CacheFailed \/ QueueMail \/ Throw
             \/ FailureLost
    BY <1>0, <2>0, <2>7, WorkerGoesOn
  <2>4. CASE EndAttempt
    <3>1. job.made < MaxAttempts
      BY <1>0, <2>4 DEF JobInv, EndAttempt, CloseAttempt
    <3>2. job.made + 1 \in 0..MaxAttempts
      BY <2>0, <3>1, LimitsAreNumbers
    <3>3. Over("completed") \in [state : {"none", "waiting", "active", "completed", "failed"},
                                 made : 0..MaxAttempts, stalled : 0..(MaxStalled + 1)]
          /\ Over("failed") \in [state : {"none", "waiting", "active", "completed", "failed"},
                                 made : 0..MaxAttempts, stalled : 0..(MaxStalled + 1)]
      BY LimitsAreNumbers DEF Over
    <3>4. \/ job' = Over("completed") \/ job' = Over("failed")
          \/ job' = [job EXCEPT !.made = @ + 1, !.state = "waiting"]
      BY <2>4 DEF EndAttempt, CloseAttempt
    <3>5. worker' = IdleWorker
      BY <2>4 DEF EndAttempt, CloseAttempt
    <3>6. job' \in [state : {"none", "waiting", "active", "completed", "failed"},
                    made : 0..MaxAttempts, stalled : 0..(MaxStalled + 1)]
      BY <2>0, <3>2, <3>3, <3>4
    <3> QED
      BY <3>5, <3>6 DEF IdleWorker
  <2>6. CASE Crash
    <3>1. job.stalled <= MaxStalled
      BY <1>0, <2>6 DEF JobInv, Crash
    <3>2. job.stalled + 1 \in 0..(MaxStalled + 1)
      BY <2>0, <3>1, LimitsAreNumbers
    <3>3. Over("failed") \in [state : {"none", "waiting", "active", "completed", "failed"},
                              made : 0..MaxAttempts, stalled : 0..(MaxStalled + 1)]
      BY LimitsAreNumbers DEF Over
    <3>4. \/ job' = Over("failed")
          \/ job' = [job EXCEPT !.stalled = @ + 1, !.state = "waiting"]
      BY <2>6 DEF Crash
    <3>5. worker' = IdleWorker
      BY <2>6 DEF Crash
    <3>6. job' \in [state : {"none", "waiting", "active", "completed", "failed"},
                    made : 0..MaxAttempts, stalled : 0..(MaxStalled + 1)]
      BY <2>0, <3>2, <3>3, <3>4
    <3> QED
      BY <3>5, <3>6 DEF IdleWorker
  <2> QED
    BY <2>1, <2>2, <2>3, <2>4, <2>6, <2>7, Actions DEF Work
<1>5. mails' \in Seq(MailJob)
      /\ \A m \in DOMAIN mails' : mails'[m].made <= MaxMailAttempts
                                  /\ mails'[m].stalled <= MaxStalled + 1
  BY MailsStep DEF MailInv, MailOk
<1>6. faults' \in 0..MaxFaults
  <2>1. UNCHANGED faults \/ \E kind \in {"error", "crash"} : Fault(kind)
    BY Actions DEF QueueMail, MailIf, AiMail, AddMail
  <2> QED
    BY <1>0, <2>1, LimitsAreNumbers DEF TypeOK, Fault
<1> QED
  BY <1>1, <1>2, <1>3, <1>4, <1>5, <1>6 DEF TypeOK

\* Every step keeps the scan job and its attempt together.
LEMMA JobStep ==
  ASSUME IInv, [Next]_vars
  PROVE  JobInv'
<1>0. TypeOK /\ JobInv
  BY DEF IInv
<1>1. /\ worker'.pc # "idle" <=> job'.state = "active"
      /\ job'.state \in {"none", "waiting", "active"} =>
           job'.made < MaxAttempts /\ job'.stalled <= MaxStalled
      /\ UNCHANGED <<job, worker>> \/ QueueScan \/ job.state # "none"
  <2>1. CASE UNCHANGED <<job, worker>>
    BY <1>0, <2>1 DEF JobInv
  <2>2. CASE QueueScan
    BY <1>0, <2>2 DEF TypeOK, JobInv, QueueScan
  <2>3. CASE Claim
    BY <1>0, <2>3 DEF TypeOK, JobInv, Claim, IdleWorker
  <2>7. CASE StartScan \/ RecordFailure \/ CacheRunning \/ CacheCompleted
             \/ DuplicateResult \/ Commit \/ CacheFailed \/ QueueMail \/ Throw
             \/ FailureLost
    BY <1>0, <2>7, WorkerGoesOn DEF JobInv
  <2>4. CASE EndAttempt
    <3>1. job.made < MaxAttempts /\ job.stalled <= MaxStalled /\ job.state = "active"
          /\ job.made \in Nat /\ job.stalled \in Nat
      BY <1>0, <2>4, LimitsAreNumbers DEF TypeOK, JobInv, EndAttempt, CloseAttempt
    <3> QED
      BY <1>0, <2>4, <3>1, LimitsAreNumbers
         DEF TypeOK, EndAttempt, CloseAttempt, IdleWorker, Over
  <2>6. CASE Crash
    <3>1. job.made < MaxAttempts /\ job.stalled <= MaxStalled /\ job.state = "active"
          /\ job.made \in Nat /\ job.stalled \in Nat
      BY <1>0, <2>6, LimitsAreNumbers DEF TypeOK, JobInv, Crash
    <3> QED
      BY <1>0, <2>6, <3>1, LimitsAreNumbers DEF TypeOK, Crash, IdleWorker, Over
  <2> QED
    BY <2>1, <2>2, <2>3, <2>4, <2>6, <2>7, Actions DEF Work
<1>2. /\ api'.pc \in {"start", "queue"} => api.pc = "start" \/ UNCHANGED api
      /\ api'.pc = "start" => UNCHANGED api
      /\ QueueScan => api'.pc = "cache"
  BY <1>0, Actions DEF TypeOK, Create, CreateRow, QueueScan, CacheNewScan, AbortCreate,
     ReadRow, FillCache, AiStore, AiMail, AiMailLost
<1>3. api'.pc \in {"start", "queue"} => job'.state = "none"
  BY <1>0, <1>1, <1>2 DEF JobInv
<1>4. /\ row'.status = "ABSENT" <=> api'.pc = "start"
      /\ api'.pc = "start" => mails' = <<>> /\ import' = "idle" /\ ~row'.email
  <2>1. CASE api.pc = "start"
    <3>1. CASE CreateRow
      BY <1>0, <3>1 DEF TypeOK, CreateRow
    <3>2. CASE ~CreateRow
      <4>1. /\ worker.pc = "idle" /\ row.status = "ABSENT" /\ DOMAIN mails = {}
            /\ import = "idle" /\ mails = <<>> /\ ~row.email
        BY <1>0, <2>1 DEF JobInv
      <4>2. UNCHANGED <<row, mails>>
        BY <3>2, <4>1, Actions DEF StartScan, Commit, RecordFailure, AiStore,
           AnonymizeSession, QueueMail, MailIf, AiMail
      <4>3. UNCHANGED api /\ UNCHANGED import
        BY <2>1, <3>2, <4>1, Actions DEF Create, QueueScan, CacheNewScan, AbortCreate,
           ReadRow, FillCache, AiStore, AiMail, AiMailLost
      <4> QED
        BY <2>1, <4>1, <4>2, <4>3
    <3> QED
      BY <3>1, <3>2
  <2>2. CASE api.pc # "start"
    <3>1. api'.pc # "start"
      BY <1>2, <2>2
    <3>2. row'.status # "ABSENT"
      BY <1>0, <2>2, Actions DEF TypeOK, JobInv, CreateRow, StartScan, Commit,
         RecordFailure, AiStore, AnonymizeSession, TakesAddress, AfterMail,
         HandleSendEmailFailure
    <3> QED
      BY <3>1, <3>2
  <2> QED
    BY <2>1, <2>2
<1> QED
  BY <1>1, <1>3, <1>4 DEF JobInv

(* The announcement *)

\* A result stays, and so does what decides which mail erases the address.
LEMMA RowKeeps ==
  ASSUME IInv, [Next]_vars
  PROVE  /\ row.status # "ABSENT" /\ row.result => row'.result
         /\ row.status # "ABSENT" => (row'.ai = "NONE" <=> row.ai = "NONE")
         /\ row'.result => row.result \/ Commit
         /\ UNCHANGED api \/ api'.address = api.address
<1>1. TypeOK /\ (row.status = "ABSENT" <=> api.pc = "start")
  BY DEF IInv, JobInv
<1>2. CASE UNCHANGED row
  BY <1>1, <1>2, Actions DEF TypeOK, Create, CreateRow, QueueScan, CacheNewScan,
     AbortCreate, ReadRow, FillCache, AiStore, AiMail, AiMailLost
<1>3. UNCHANGED api \/ api'.address = api.address
  BY <1>1, Actions DEF TypeOK, Create, CreateRow, QueueScan, CacheNewScan,
     AbortCreate, ReadRow, FillCache, AiStore, AiMail, AiMailLost
<1>4. CASE CreateRow
  BY <1>1, <1>3, <1>4 DEF CreateRow
<1>5. CASE StartScan \/ Commit \/ RecordFailure \/ AiStore \/ AnonymizeSession
  BY <1>1, <1>3, <1>5 DEF TypeOK, StartScan, Commit, RecordFailure, AiStore,
     AnonymizeSession
<1>6. CASE \E m \in DOMAIN mails : TakesAddress(m)
  BY <1>1, <1>3, <1>6 DEF TypeOK, TakesAddress, AfterMail, HandleSendEmailFailure
<1> QED
  BY <1>2, <1>4, <1>5, <1>6, Actions

\* An attempt commits only while there is no result, and is past the commit only
\* after it.
LEMMA WorkerMoves ==
  ASSUME IInv, [Next]_vars
  PROVE  /\ worker'.pc \in {"load", "running", "run", "commit", "committed"} => worker'.ok
         /\ worker'.pc \in {"failing", "failed"} => ~worker'.ok
         /\ worker'.pc = "commit" => ~row.result /\ ~row'.result
         /\ worker'.pc = "committed" => Commit \/ worker.pc = "committed"
<1>1. TypeOK /\ JobInv /\ AnnounceInv
  BY DEF IInv
<1>2. worker \in [pc : {"idle", "load", "running", "run", "commit",
                        "committed", "catch", "failing", "failed", "end"},
                  ok : BOOLEAN, email : BOOLEAN]
  BY <1>1 DEF TypeOK
<1>3. row'.result => row.result \/ Commit
  BY RowKeeps
<1>4. CASE UNCHANGED worker
  <2>1. Commit => worker'.pc = "committed"
    BY <1>2 DEF Commit
  <2> QED
    BY <1>1, <1>3, <1>4, <2>1 DEF AnnounceInv
<1>5. CASE Claim \/ EndAttempt \/ Crash
  <2>1. worker'.pc = "idle" \/ (worker'.pc = "load" /\ worker'.ok)
    BY <1>5 DEF Claim, EndAttempt, CloseAttempt, Crash, IdleWorker, Over
  <2> QED
    BY <2>1
<1>6. CASE RecordFailure
  BY <1>6 DEF RecordFailure
<1>7. CASE StartScan \/ CacheRunning \/ CacheCompleted \/ DuplicateResult
           \/ Commit \/ CacheFailed
  <2>1. CASE StartScan \/ CacheRunning \/ DuplicateResult \/ CacheFailed
    BY <1>1, <1>2, <2>1
       DEF AnnounceInv, StartScan, CacheRunning, DuplicateResult, CacheFailed, IdleWorker
  <2>2. CASE CacheCompleted
    <3>1. worker'.pc = "commit" /\ worker'.ok /\ worker.pc = "run"
          /\ ~row.result /\ UNCHANGED row
      BY <1>2, <2>2 DEF CacheCompleted, IdleWorker
    <3> QED
      BY <1>1, <3>1 DEF AnnounceInv
  <2>3. CASE Commit
    <3>1. worker'.pc = "committed" /\ worker'.ok = worker.ok /\ worker.pc = "commit"
      BY <1>2, <2>3 DEF Commit
    <3> QED
      BY <1>1, <2>3, <3>1 DEF AnnounceInv
  <2> QED
    BY <1>7, <2>1, <2>2, <2>3
<1>8. CASE QueueMail \/ Throw \/ FailureLost
  <2>1. worker'.pc \in {"end", "catch"}
    BY <1>2, <1>8 DEF QueueMail, MailIf, Throw, FailureLost, IdleWorker
  <2> QED
    BY <2>1
<1>9. CASE QueueScan
  BY <1>4, <1>9 DEF QueueScan
<1> QED
  BY <1>4, <1>5, <1>6, <1>7, <1>8, <1>9, Actions DEF Work

\* The mail that a step adds.
LEMMA NewMail ==
  ASSUME IInv, [Next]_vars, NEW m \in DOMAIN mails' \ DOMAIN mails
  PROVE  /\ m = Len(mails) + 1
         /\ mails'[m].type = "scan_complete" =>
              worker.pc = "committed" /\ worker'.pc = "end" /\ UNCHANGED row
<1>1. TypeOK /\ AnnounceInv
  BY DEF IInv
<1>2. QueueMail \/ AiMail
  BY MailStep, Actions
<1>3. CASE AiMail
  <2>1. AddMail("ai_scan_complete")
    BY <1>3 DEF AiMail
  <2> QED
    BY <2>1, AddMailEffect DEF MailType
<1>4. CASE QueueMail
  <2> DEFINE type == IF worker.ok THEN "scan_complete" ELSE "scan_failed"
  <2>1. /\ AddMail(type) /\ worker.pc \in {"committed", "failed"}
        /\ worker' = [worker EXCEPT !.pc = "end"] /\ UNCHANGED row
    BY <1>4 DEF QueueMail, MailIf
  <2>2. type \in MailType
    BY DEF MailType
  <2>3. type = "scan_complete" => worker.pc = "committed"
    BY <1>1, <2>1 DEF AnnounceInv
  <2>4. worker'.pc = "end"
    BY <1>1, <2>1 DEF TypeOK
  <2> HIDE DEF type
  <2> QED
    BY <2>1, <2>2, <2>3, <2>4, AddMailEffect
<1> QED
  BY <1>2, <1>3, <1>4

\* Every step keeps what a second announcement would need impossible.
LEMMA AnnounceStep ==
  ASSUME IInv, [Next]_vars
  PROVE  AnnounceInv' /\ OneCompleteMail'
<1>1. TypeOK /\ JobInv /\ AnnounceInv /\ OneCompleteMail
  BY DEF IInv
<1>2. Kept
  BY MailsStep
<1>3. \A m \in DOMAIN mails' : mails'[m].type = "scan_complete" =>
        \/ m \in DOMAIN mails /\ mails[m].type = "scan_complete"
        \/ m = Len(mails) + 1 /\ worker.pc = "committed" /\ worker'.pc = "end"
           /\ UNCHANGED row
  BY <1>2, NewMail DEF Kept
<1>4. \A m \in DOMAIN mails : row.status # "ABSENT"
  BY <1>1 DEF JobInv
<1>5. OneCompleteMail'
  BY <1>1, <1>3 DEF AnnounceInv, OneCompleteMail
<1>6. worker'.pc = "committed" => row'.result
  <2>1. Commit => row'.result
    BY <1>1 DEF TypeOK, Commit
  <2>2. worker.pc = "committed" => row.status # "ABSENT" /\ row.result
    BY <1>1 DEF JobInv, AnnounceInv
  <2> QED
    BY <2>1, <2>2, WorkerMoves, RowKeeps
<1>7. ASSUME NEW m \in DOMAIN mails', mails'[m].type = "scan_complete"
      PROVE  row'.result /\ worker'.pc # "committed"
  <2>1. CASE m \in DOMAIN mails /\ mails[m].type = "scan_complete"
    <3>1. row.result /\ worker.pc # "committed" /\ row.status # "ABSENT"
      BY <1>1, <1>4, <2>1 DEF AnnounceInv
    <3>2. ~Commit
      BY <1>1, <3>1 DEF AnnounceInv, Commit
    <3> QED
      BY <3>1, <3>2, WorkerMoves, RowKeeps
  <2>2. CASE worker.pc = "committed" /\ worker'.pc = "end" /\ UNCHANGED row
    BY <1>1, <2>2 DEF AnnounceInv
  <2> QED
    BY <1>3, <1>7, <2>1, <2>2
<1> QED
  BY <1>5, <1>6, <1>7, WorkerMoves DEF AnnounceInv

(* The address *)

\* A step that takes the address from the row is anonymizeSession, or follows
\* a mail that has served.
LEMMA EraseStep ==
  ASSUME IInv, [Next]_vars, row.email, ~row'.email
  PROVE  AnonymizeSession \/ Served'
<1>1. TypeOK /\ JobInv /\ MailInv
  BY DEF IInv
<1>2. Kept
  BY MailsStep
<1>3. row.status # "ABSENT"
  BY <1>1 DEF JobInv
<1>4. AnonymizeSession \/ \E m \in DOMAIN mails : TakesAddress(m)
  BY <1>1, <1>3, Actions DEF TypeOK, JobInv, CreateRow, StartScan, Commit, RecordFailure,
     AiStore
<1>5. ASSUME NEW m \in DOMAIN mails, HandleSendEmailFailure(m)
      PROVE  Served'
  <2>1. mails[m] \in MailJob /\ mails \in Seq(MailJob)
    BY <1>1 DEF TypeOK
  <2>2. mails' = [mails EXCEPT ![m] = [mails[m] EXCEPT
                     !.state = "failed", !.pc = "idle", !.made = 0, !.stalled = 0]]
    BY <1>5 DEF HandleSendEmailFailure, End, Set
  <2>3. mails'[m] = [mails[m] EXCEPT
                     !.state = "failed", !.pc = "idle", !.made = 0, !.stalled = 0]
    BY <2>1, <2>2
  <2>4. mails'[m].state = "failed" /\ m \in DOMAIN mails'
    BY <1>2, <2>1, <2>3 DEF MailJob, Kept
  <2> QED
    BY <2>4 DEF Served
<1>6. ASSUME NEW m \in DOMAIN mails, mails[m].pc = "erase", row' = AfterMail(m)
      PROVE  Served'
  <2>1. mails[m].sent
    BY <1>1, <1>6 DEF MailInv, MailOk
  <2>2. row.ai # "NONE" => mails[m].type = "ai_scan_complete"
    BY <1>6 DEF AfterMail
  <2> QED
    BY <1>2, <1>3, <2>1, <2>2, RowKeeps DEF Kept, Served
<1> QED
  BY <1>4, <1>5, <1>6 DEF TakesAddress

(* The theorems *)

\* The inductive invariant: with the types, the single announcement and the
\* erasing after use the facts about the scan job, the mail jobs and the
\* result that these need (processScanPage, processSendEmail).
THEOREM ScanRequestInvariant == Spec => []IInv
<1>1. Init => IInv
  BY InitInv
<1>2. IInv /\ [Next]_vars => IInv'
  BY TypeStep, JobStep, MailsStep, AnnounceStep DEF IInv
<1> QED
  BY <1>1, <1>2, PTL DEF Spec

\* The variables of ScanRequest keep their types: neither the scan job nor a
\* mail job makes more attempts or stalls more often than BullMQ lets it.
THEOREM ScanRequestTypeCorrect == Spec => []TypeOK
<1>1. IInv => TypeOK
  BY DEF IInv
<1> QED
  BY <1>1, ScanRequestInvariant, PTL

\* However often the scan job is retried or run again after a crash, at most
\* one mail that the scan is complete is ever queued (processScanPage).
THEOREM AnnouncedOnce == Spec => []OneCompleteMail
<1>1. IInv => OneCompleteMail
  BY DEF IInv
<1> QED
  BY <1>1, ScanRequestInvariant, PTL

\* The address that was left with the request is erased from the row by
\* anonymizeSession, at any moment, or after the mail it was left for was sent
\* or has failed for good (processSendEmail, handleSendEmailFailure).
THEOREM AddressErasedAfterUse == Spec => ErasedAfterUse
<1>1. IInv /\ [Next]_vars =>
        [row.email /\ ~row'.email => AnonymizeSession \/ Served']_vars
  BY EraseStep
<1> QED
  BY <1>1, ScanRequestInvariant, PTL DEF Spec, ErasedAfterUse

=============================================================================
