------------------------------- MODULE AiQueue -------------------------------
(***************************************************************************)
(* The offline processing of AI scans (ai-queue.service.ts): scans that    *)
(* opted in wait as PENDING, an export turns them into rows of a CSV file  *)
(* and DOWNLOADED, an import of the processed file turns them COMPLETED,   *)
(* queues the e-mails and bills the tokens to the campaign in the end.     *)
(* retryFailedScan and the stale clean-up (ai-stale-cleanup.job.ts, which  *)
(* no entry point starts at this commit: it runs only with "cleanup" in    *)
(* Ops) are the other writers of aiStatus.                                 *)
(*                                                                         *)
(* An import validates a row, imports it and queues its e-mail in separate *)
(* steps; the transaction of a row is one step, because its first          *)
(* statement locks the scan.  Every processed scan costs one unit.         *)
(***************************************************************************)
EXTENDS Naturals, FiniteSets, Sequences, SequencesExt

CONSTANTS
    Scans,      \* the scans for which a slot was reserved
    Exports,    \* export requests that may be under way at the same time
    Imports,    \* import requests that may be under way at the same time
    Files,      \* what may be uploaded: sequences of scan ids
    Ops,        \* "retry", "cleanup", "error", "crash"
    MaxExports, \* bounds on the calls
    MaxImports

ASSUME OpsKnown == Ops \subseteq {"retry", "cleanup", "error", "crash"}
ASSUME FilesAreRows == Files \subseteq Seq(Scans)
ASSUME CallsFinite == IsFiniteSet(Scans) /\ IsFiniteSet(Imports)
ASSUME BoundsAreNumbers == MaxExports \in Nat /\ MaxImports \in Nat

VARIABLES
    ai,        \* ai[s]: aiStatus, "NONE" before the scan exists
    scanned,   \* scanned[s]: the page scan has stored its ScanResult
    verified,  \* verified[s]: AI verifications are stored below the result
    export,    \* export[e]: an exportPendingScans call
    import,    \* import[i]: an importAiResults call
    retry,     \* a retryFailedScan call: the scan it found FAILED
    cleanup,   \* cleanupStaleAiScans: the scans it has found
    exported,  \* how often a scan has been handed out in a file
    imported,  \* how often a result was stored for a scan
    mails,     \* how many ai_scan_complete mails were queued for it
    billed     \* tokens deducted from the campaign

vars == <<ai, scanned, verified, export, import, retry, cleanup, exported,
          imported, mails, billed>>
counts == <<exported, imported, mails, billed>>

AiStatus == {"PENDING", "DOWNLOADED", "COMPLETED", "FAILED"}
ExportCall == [pc : {"idle", "read"}, ids : SUBSET Scans, calls : 0..MaxExports]
\* `got`: tokens of the rows processed; `errors`: the scans reported as errors.
ImportCall == [pc : {"idle", "row", "update", "mail"}, todo : Seq(Scans),
               all : SUBSET Scans, got : Nat, errors : SUBSET Scans,
               calls : 0..MaxImports]

TypeOK ==
    /\ ai \in [Scans -> AiStatus \union {"NONE"}]
    /\ scanned \in [Scans -> BOOLEAN] /\ verified \in [Scans -> BOOLEAN]
    /\ export \in [Exports -> ExportCall]
    /\ import \in [Imports -> ImportCall]
    /\ \A i \in Imports : import[i].pc \in {"update", "mail"} => import[i].todo # <<>>
    /\ retry \in SUBSET Scans /\ cleanup \in SUBSET Scans
    /\ exported \in [Scans -> Nat] /\ imported \in [Scans -> Nat]
    /\ mails \in [Scans -> Nat] /\ billed \in Nat

Init ==
    /\ ai = [s \in Scans |-> "NONE"]
    /\ scanned = [s \in Scans |-> FALSE] /\ verified = [s \in Scans |-> FALSE]
    /\ export = [e \in Exports |-> [pc |-> "idle", ids |-> {}, calls |-> 0]]
    /\ import = [i \in Imports |-> [pc |-> "idle", todo |-> <<>>, all |-> {},
                                    got |-> 0, errors |-> {}, calls |-> 0]]
    /\ retry = {} /\ cleanup = {}
    /\ exported = [s \in Scans |-> 0] /\ imported = [s \in Scans |-> 0]
    /\ mails = [s \in Scans |-> 0] /\ billed = 0

\* createScan, with a slot reserved.
CreateAiScan(s) ==
    /\ ai[s] = "NONE"
    /\ ai' = [ai EXCEPT ![s] = "PENDING"]
    /\ UNCHANGED <<scanned, verified, export, import, retry, cleanup, counts>>

\* The worker commits the result of the page scan, at its own pace.
ScanPage(s) ==
    /\ ai[s] # "NONE"
    /\ ~scanned[s]
    /\ scanned' = [scanned EXCEPT ![s] = TRUE]
    /\ UNCHANGED <<ai, verified, export, import, retry, cleanup, counts>>

(***************************************************************************)
(* exportPendingScans: one transaction at READ COMMITTED                   *)
(***************************************************************************)

Having(S) == {s \in Scans : ai[s] \in S}

\* Nothing pending is NO_PENDING_SCANS.
ExportFrom(e, S) ==
    /\ export[e].pc = "idle"
    /\ export[e].calls < MaxExports
    /\ Having(S) # {}
    /\ export' = [export EXCEPT ![e] = [pc |-> "read", ids |-> Having(S),
                                        calls |-> @.calls + 1]]
    /\ UNCHANGED <<ai, scanned, verified, import, retry, cleanup, counts>>

ExportRead(e) == ExportFrom(e, {"PENDING"})

\* updateMany by id; the file is handed out when the transaction has committed.
ExportCommit(e) ==
    LET ids == export[e].ids IN
    /\ export[e].pc = "read"
    /\ ai' = [s \in Scans |-> IF s \in ids THEN "DOWNLOADED" ELSE ai[s]]
    /\ exported' = [s \in Scans |-> IF s \in ids THEN exported[s] + 1 ELSE exported[s]]
    /\ export' = [export EXCEPT ![e].pc = "idle", ![e].ids = {}]
    /\ UNCHANGED <<scanned, verified, import, retry, cleanup, imported, mails, billed>>

\* EXPORT_FAILED, or the process dies: rolled back.
ExportFails(e) ==
    /\ Ops \intersect {"error", "crash"} # {}
    /\ export[e].pc = "read"
    /\ export' = [export EXCEPT ![e].pc = "idle", ![e].ids = {}]
    /\ UNCHANGED <<ai, scanned, verified, import, retry, cleanup, counts>>

(***************************************************************************)
(* importAiResults                                                         *)
(***************************************************************************)

Upload(i, file) ==
    /\ import[i].pc = "idle"
    /\ import[i].calls < MaxImports
    /\ import' = [import EXCEPT ![i] =
          [pc |-> "row", todo |-> file, all |-> ToSet(file), got |-> 0,
           errors |-> {}, calls |-> @.calls + 1]]
    /\ UNCHANGED <<ai, scanned, verified, export, retry, cleanup, counts>>

InRow(i, pc) == import[i].pc = pc /\ import[i].todo # <<>>
Row(i) == Head(import[i].todo)

\* Faulty variant: the next row is taken up where the last one was left.
NextRowHalfway(i, got, errors) ==
    import' = [import EXCEPT ![i].todo = Tail(@), ![i].got = got, ![i].errors = errors]

NextRow(i, got, errors) ==
    import' = [import EXCEPT ![i].pc = "row", ![i].todo = Tail(@),
                             ![i].got = got, ![i].errors = errors]
RowFails(i) == NextRow(i, import[i].got, import[i].errors \union {Row(i)})

ValidateFor(i, S) ==
    /\ InRow(i, "row")
    /\ IF ai[Row(i)] \in S THEN import' = [import EXCEPT ![i].pc = "update"]
                           ELSE RowFails(i)
    /\ UNCHANGED <<ai, scanned, verified, export, retry, cleanup, counts>>

\* Faulty variant: a scan that has its result is valid, too.
ValidateAgain(i) == ValidateFor(i, {"DOWNLOADED", "COMPLETED"})

\* validateScanEligibility, outside the transaction.
Validate(i) == ValidateFor(i, {"DOWNLOADED"})

\* The transaction of a row, whatever the status is by now; verifications
\* need a ScanResult and are left out without one.
ImportRow(i) ==
    /\ InRow(i, "update")
    /\ ai' = [ai EXCEPT ![Row(i)] = "COMPLETED"]
    /\ imported' = [imported EXCEPT ![Row(i)] = @ + 1]
    /\ verified' = [verified EXCEPT ![Row(i)] = @ \/ scanned[Row(i)]]
    /\ import' = [import EXCEPT ![i].pc = "mail", ![i].got = @ + 1]
    /\ UNCHANGED <<scanned, export, retry, cleanup, exported, mails, billed>>

\* Faulty variant: the tokens are counted before the transaction.
RowErrorCounted(i) ==
    /\ "error" \in Ops
    /\ \E pc \in {"row", "update", "mail"} : InRow(i, pc)
    /\ NextRow(i, import[i].got + (IF import[i].pc = "update" THEN 1 ELSE 0),
               import[i].errors)
    /\ UNCHANGED <<ai, scanned, verified, export, retry, cleanup, counts>>

\* A database error: DATABASE_ERROR of the validation, the rollback of the
\* transaction, or the look-up of the address after it.
RowError(i) ==
    /\ "error" \in Ops
    /\ \E pc \in {"row", "update", "mail"} : InRow(i, pc)
    /\ RowFails(i)
    /\ UNCHANGED <<ai, scanned, verified, export, retry, cleanup, counts>>

\* Every scan has an address here; an error of the queue is logged.
QueueMail(i) ==
    /\ InRow(i, "mail")
    /\ \/ mails' = [mails EXCEPT ![Row(i)] = @ + 1]
       \/ "error" \in Ops /\ UNCHANGED mails
    /\ NextRow(i, import[i].got, import[i].errors)
    /\ UNCHANGED <<ai, scanned, verified, export, retry, cleanup, exported,
                   imported, billed>>

Leave(i) == import' = [import EXCEPT ![i] = [pc |-> "idle", todo |-> <<>>,
                all |-> {}, got |-> 0, errors |-> {}, calls |-> @.calls]]

\* After the last row: deductTokens for the sum, if some row's scan is not
\* among the errors.  Its failure (no active campaign, database) is logged.
BillImport(i) ==
    LET c == import[i]
        firstSuccessful == c.all \ c.errors IN
    /\ c.pc = "row" /\ c.todo = <<>>
    /\ \/ billed' = billed + (IF firstSuccessful # {} THEN c.got ELSE 0)
       \/ "error" \in Ops /\ UNCHANGED billed
    /\ Leave(i)
    /\ UNCHANGED <<ai, scanned, verified, export, retry, cleanup, exported,
                   imported, mails>>

\* The API process dies; the rows imported so far stay imported.
ImportCrash(i) ==
    /\ "crash" \in Ops
    /\ import[i].pc # "idle"
    /\ Leave(i)
    /\ UNCHANGED <<ai, scanned, verified, export, retry, cleanup, counts>>

(***************************************************************************)
(* retryFailedScan and cleanupStaleAiScans                                 *)
(***************************************************************************)

\* Faulty variant: the status is not looked at.
RetryCheckAny(s) ==
    /\ "retry" \in Ops
    /\ retry = {}
    /\ ai[s] # "NONE"
    /\ retry' = {s}
    /\ UNCHANGED <<ai, scanned, verified, export, import, cleanup, counts>>

RetryCheck(s) ==
    /\ "retry" \in Ops
    /\ retry = {}
    /\ ai[s] = "FAILED"
    /\ retry' = {s}
    /\ UNCHANGED <<ai, scanned, verified, export, import, cleanup, counts>>

RetryReset(s) ==
    /\ s \in retry
    /\ ai' = [ai EXCEPT ![s] = "PENDING"]
    /\ retry' = {}
    /\ UNCHANGED <<scanned, verified, export, import, cleanup, counts>>

\* Some of the scans that are still open are older than 48 hours.
CleanupFind ==
    /\ "cleanup" \in Ops
    /\ cleanup = {}
    /\ cleanup' \in (SUBSET Having({"PENDING", "DOWNLOADED"})) \ {{}}
    /\ UNCHANGED <<ai, scanned, verified, export, import, retry, counts>>

\* One after the other; releaseSlot finds no reservation under the scan's id
\* (see AiCampaign).  FAILED whatever the status is by now, or an error.
CleanupScan(s) ==
    /\ s \in cleanup
    /\ \/ ai' = [ai EXCEPT ![s] = "FAILED"]
       \/ "error" \in Ops /\ UNCHANGED ai
    /\ cleanup' = cleanup \ {s}
    /\ UNCHANGED <<scanned, verified, export, import, retry, counts>>

(***************************************************************************)
(* Specification                                                           *)
(***************************************************************************)

Next ==
    \/ \E s \in Scans : CreateAiScan(s) \/ ScanPage(s)
    \/ \E e \in Exports : ExportRead(e) \/ ExportCommit(e) \/ ExportFails(e)
    \/ \E i \in Imports :
          \/ \E file \in Files : Upload(i, file)
          \/ Validate(i) \/ ImportRow(i) \/ RowError(i) \/ QueueMail(i)
          \/ BillImport(i) \/ ImportCrash(i)
    \/ \E s \in Scans : RetryCheck(s) \/ RetryReset(s) \/ CleanupScan(s)
    \/ CleanupFind

Spec == Init /\ [][Next]_vars

(***************************************************************************)
(* Properties                                                              *)
(***************************************************************************)

\* REQ-4 AC 4, as far as it is true: uploading a file again, or an old one,
\* stores nothing again once the result is there.  Of one export at most as
\* many results are stored as imports run at the same time (each may have
\* validated its row before the first one commits), whatever exports, retries,
\* clean-ups and crashes come in between; with one import at a time every
\* result goes back to an export of its own.
ImportsBackedByExports ==
    \A s \in Scans : imported[s] <= Cardinality(Imports) * exported[s]

\* The campaign is never billed for more than was imported, with errors,
\* crashes and concurrent imports (the sum is counted after the commit).
NeverOverbilled ==
    billed + SumFunction([i \in Imports |-> import[i].got]) <= SumFunction(imported)

\* The scan has its result and no call is under way that found it before.
Settled(s) ==
    /\ ai[s] = "COMPLETED"
    /\ \A e \in Exports : s \notin export[e].ids
    /\ s \notin retry /\ s \notin cleanup

\* Only a call that found the scan before its result was stored takes the
\* result's status back (an export, a clean-up: they update by id): once all
\* such calls are over, no later export, import, retry or clean-up does.
SettledStays == [][\A s \in Scans : Settled(s) => Settled(s)']_vars

=============================================================================
