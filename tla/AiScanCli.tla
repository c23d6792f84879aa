----------------------------- MODULE AiScanCli -----------------------------
(***************************************************************************)
(* tools/ai-scan-cli in directory mode: cron starts runs, which take       *)
(* exported CSV files, download and analyse the scans of each, mini-batch  *)
(* by mini-batch, verify the WCAG criteria of every analysed page in       *)
(* criteria batches, and write CSV files for the import.  Runs share a     *)
(* directory, and with it the lock file, the cache of criteria batches and *)
(* the checkpoint of every scan.                                           *)
(*                                                                         *)
(* One file-system call or one AI call is one step.  These are coarser: a  *)
(* mini-batch is downloaded in one step, markBatchComplete reads the       *)
(* checkpoint and writes its temporary file in one, and an output file is  *)
(* named, written and chmodded in one (nobody is killed in the middle of a *)
(* write).  Retries within an AI call, and the pauses, are left out: a     *)
(* call ends with an answer or without one.  Cache entries live for seven  *)
(* days and are not seen to expire here.                                   *)
(***************************************************************************)
EXTENDS Naturals, FiniteSets, Sequences

CONSTANTS
    Runs,        \* processes; one that has ended may be started again
    Files,       \* input files, numbered in the order of their names
    Scans,
    MiniBatches, \* MiniBatches[f]: the rows of f, as organizeBatches groups them
    Content,     \* Content[s]: what the page of s looks like (the cache key)
    NBatches,    \* criteria batches of a scan
    MaxFiles,    \* --max-files
    OneOutput,   \* whether --output names a file; else it is a directory
    Faults,      \* "error": a file-system call fails; "kill"; "old": 24 hours
    MaxFaults    \* bound on their number

ASSUME FilesAreNumbered == Files \subseteq Nat /\ IsFiniteSet(Files)
ASSUME RowsAreScans == MiniBatches \in [Files -> Seq(SUBSET Scans)]
ASSUME PagesHaveContent == DOMAIN Content = Scans
ASSUME OutputIsKnown == OneOutput \in BOOLEAN
ASSUME LimitsAreNumbers == {NBatches, MaxFiles, MaxFaults} \subseteq Nat

VARIABLES
    lock,       \* .ai-scan.lock: whose it is, and whether its text is written
    at,         \* at[f]: the directory f is in
    out,        \* scans in the result files whose names are not used again
    now,        \* now[f]: in the file that the next result of f may overwrite
    lost,       \* in a result file once, overwritten, and in none now
    failedOut,  \* the same for the files of failed scans; they have the second
    failedNow,  \*   alone in their names, and so at most one may be overwritten
    failedLost,
    cached,     \* verification results by content and batch
    ckpt,       \* ckpt[s]: the criteria checkpoint of s, if saved
    tmp,        \* tmp[s]: the temporary file it is written to, if there
    run,        \* run[p]: what process p remembers
    errors,     \* faults so far
    kills

outputs == <<out, now, lost, failedOut, failedNow, failedLost>>
files == <<at, outputs>>
faults == <<errors, kills>>
vars == <<lock, files, cached, ckpt, tmp, run, faults>>

Batches == 1 .. NBatches
\* A row: a scan, the batches verified, and whether that came to its end.
Row == [scan : Scans, ver : SUBSET Batches, whole : BOOLEAN]
ScansOf(rows) == {r.scan : r \in rows}
RowsOf(f) == UNION {MiniBatches[f][i] : i \in DOMAIN MiniBatches[f]}

Dead == "dead"     \* the owner of a lock that has ended
Free == [by |-> "nobody", written |-> FALSE]
Checkpoint == [saved : BOOLEAN, done : SUBSET Batches]
NoCheckpoint == [saved |-> FALSE, done |-> {}]
Idle == [pc |-> "idle", todo |-> {}, mini |-> 1, scans |-> {},
         results |-> {}, failed |-> {}, scan |-> {}, batch |-> 1, ver |-> {},
         skip |-> {}]

LockPcs == {"create", "write", "read", "unlink"}
WorkPcs == {"list", "release", "parse", "mini", "scans", "init", "initrename",
            "verify", "mark", "markrename", "csv", "failcsv", "move", "empty",
            "tofailed", "rescue"}

RunState ==
    [pc : {"idle"} \union LockPcs \union WorkPcs,
     todo : SUBSET Files, mini : Nat \ {0}, scans : SUBSET Scans,
     results : SUBSET Row, failed : SUBSET Scans, scan : SUBSET Scans,
     batch : 1 .. NBatches + 1, ver : SUBSET Batches, skip : SUBSET Batches]

TypeOK ==
    /\ lock \in [by : Runs \union {"nobody", Dead}, written : BOOLEAN]
    /\ at \in [Files -> {"input", "processed", "failed"}]
    /\ out \subseteq Scans /\ now \in [Files -> SUBSET Scans] /\ lost \subseteq Scans
    /\ failedOut \subseteq Scans /\ failedNow \subseteq Scans /\ failedLost \subseteq Scans
    /\ cached \subseteq {Content[s] : s \in Scans} \X Batches
    /\ ckpt \in [Scans -> Checkpoint] /\ tmp \in [Scans -> Checkpoint]
    /\ run \in [Runs -> RunState]
    /\ \A p \in Runs : Cardinality(run[p].todo) <= MaxFiles
                       /\ (run[p].scan = {} \/ \E s \in Scans : run[p].scan = {s})
    /\ errors \in Nat /\ kills \in Nat /\ errors + kills <= MaxFaults

Init ==
    /\ lock = Free /\ at = [f \in Files |-> "input"]
    /\ out = {} /\ now = [f \in Files |-> {}] /\ lost = {}
    /\ failedOut = {} /\ failedNow = {} /\ failedLost = {} /\ cached = {}
    /\ ckpt = [s \in Scans |-> NoCheckpoint] /\ tmp = ckpt
    /\ run = [p \in Runs |-> Idle]
    /\ errors = 0 /\ kills = 0

\* Process p goes on at pc.
Goto(p, pc) == run' = [run EXCEPT ![p].pc = pc]

\* p ends.  A lock file that it leaves behind names a process that is gone.
Ends(p) ==
    /\ run' = [run EXCEPT ![p] = Idle]
    /\ lock' = IF lock.by = p THEN [lock EXCEPT !.by = Dead] ELSE lock

\* A file-system call fails.
Fails == "error" \in Faults /\ errors + kills < MaxFaults /\ errors' = errors + 1
Works == UNCHANGED errors

(***************************************************************************)
(* The lock file                                                           *)
(***************************************************************************)
StartDirectory(p) ==
    /\ run[p].pc = "idle"
    /\ Goto(p, "create")
    /\ UNCHANGED <<lock, files, cached, ckpt, tmp, faults>>

\* writeFile with flag "wx": creates the file, and writes it in the next step.
CreateLock(p) ==
    /\ run[p].pc = "create"
    /\ \/ /\ lock = Free /\ Works
          /\ lock' = [by |-> p, written |-> FALSE]
          /\ Goto(p, "write")
       \/ /\ lock # Free /\ Works
          /\ Goto(p, "read")
          /\ UNCHANGED lock
       \/ Fails /\ Ends(p)
    /\ UNCHANGED <<files, cached, ckpt, tmp, kills>>

\* The text goes to the file p has created, even if it is unlinked by now.
WriteLock(p) ==
    /\ run[p].pc = "write"
    /\ \/ /\ Works
          /\ lock' = IF lock.by = p THEN [lock EXCEPT !.written = TRUE] ELSE lock
          /\ Goto(p, "list")
       \/ Fails /\ Ends(p)
    /\ UNCHANGED <<files, cached, ckpt, tmp, kills>>

Stale == lock.by = Dead \/ ("old" \in Faults /\ lock.by \in Runs)

\* Faulty variant: nobody looks whether the owner is alive.
ReadLockTrusting(p) ==
    /\ run[p].pc = "read" /\ Ends(p)
    /\ UNCHANGED <<files, cached, ckpt, tmp, faults>>

\* readLockInfo returns null for a file that is gone or is not JSON, and p
\* takes that, as a live owner, for a lock that is held.
ReadLock(p) ==
    /\ run[p].pc = "read"
    /\ \/ lock.written /\ Stale /\ Goto(p, "unlink") /\ UNCHANGED lock
       \/ ~(lock.written /\ lock.by = Dead) /\ Ends(p)
    /\ UNCHANGED <<files, cached, ckpt, tmp, faults>>

\* releaseLock unlinks whatever file is there, then acquireLock starts over.
UnlinkStale(p) ==
    /\ run[p].pc = "unlink"
    /\ \/ Works /\ lock' = Free /\ Goto(p, "create")
       \/ Fails /\ Ends(p)
    /\ UNCHANGED <<files, cached, ckpt, tmp, kills>>

(***************************************************************************)
(* The files of a run                                                      *)
(***************************************************************************)
Pending == {f \in Files : at[f] = "input"}
\* Faulty variant: without --max-files.
ListedAll == Pending
\* scanDirectory: the first MaxFiles in the order of their names.
Listed == {f \in Pending : Cardinality({g \in Pending : g < f}) < MaxFiles}

\* A run that finds nothing ends in process.exit: its `finally` does not run.
ListFiles(p) ==
    /\ run[p].pc = "list"
    /\ \/ /\ Works /\ Listed # {}
          /\ run' = [run EXCEPT ![p].pc = "parse", ![p].todo = Listed]
          /\ UNCHANGED lock
       \/ Works /\ Listed = {} /\ Ends(p)
       \/ Fails /\ Goto(p, "release") /\ UNCHANGED lock
    /\ UNCHANGED <<files, cached, ckpt, tmp, kills>>

\* The `finally` after an error: unlinks whatever lock is there.
ReleaseLock(p) ==
    /\ run[p].pc = "release"
    /\ lock' = Free /\ run' = [run EXCEPT ![p] = Idle]
    /\ UNCHANGED <<files, cached, ckpt, tmp, faults>>

Least(S) == CHOOSE n \in S : \A m \in S : n <= m
File(p) == Least(run[p].todo)

\* The next file of the list; after the last, process.exit.
NextFile(p) ==
    LET rest == run[p].todo \ {File(p)}
    IN IF rest # {}
       THEN /\ run' = [run EXCEPT ![p] = [Idle EXCEPT !.pc = "parse", !.todo = rest]]
            /\ UNCHANGED lock
       ELSE Ends(p)

\* An error while a file is processed makes the file a failure.
ParseFile(p) ==
    /\ run[p].pc = "parse"
    /\ \/ /\ at[File(p)] = "input" /\ Works
          /\ Goto(p, IF RowsOf(File(p)) = {} THEN "empty" ELSE "mini")
       \/ ((at[File(p)] # "input" /\ Works) \/ Fails) /\ Goto(p, "tofailed")
    /\ UNCHANGED <<lock, files, cached, ckpt, tmp, kills>>

(***************************************************************************)
(* The scans of a file                                                     *)
(***************************************************************************)
\* processMiniBatch, phase 1: some of the pages can be downloaded.
Download(p) ==
    /\ run[p].pc = "mini"
    /\ \E pages \in SUBSET MiniBatches[File(p)][run[p].mini] :
         run' = [run EXCEPT ![p].pc = "scans", ![p].scans = pages,
                     ![p].failed = @ \union (MiniBatches[File(p)][run[p].mini] \ pages)]
    /\ UNCHANGED <<lock, files, cached, ckpt, tmp, faults>>

\* analyzeSiteWithRetry returns null.
AnalysisFails(p, s) ==
    /\ run[p].pc = "scans" /\ s \in run[p].scans
    /\ run' = [run EXCEPT ![p].scans = @ \ {s}, ![p].failed = @ \union {s}]
    /\ UNCHANGED <<lock, files, cached, ckpt, tmp, faults>>

\* The first batch from b on that the checkpoint does not have.
Following(b, done) == Least((b .. NBatches + 1) \ done)
\* It returns a result; processCriteriaBatches looks for a checkpoint and, when
\* there is one, will skip the batches completed in it.
Analyse(p, s) ==
    /\ run[p].pc = "scans" /\ s \in run[p].scans
    /\ run' = [run EXCEPT ![p].pc = IF ckpt[s].saved THEN "verify" ELSE "init",
                   ![p].scans = @ \ {s}, ![p].scan = {s},
                   ![p].batch = Following(1, ckpt[s].done),
                   ![p].ver = {}, ![p].skip = ckpt[s].done]
    /\ UNCHANGED <<lock, files, cached, ckpt, tmp, faults>>

Scan(p) == CHOOSE s \in run[p].scan : TRUE
Key(p) == <<Content[Scan(p)], run[p].batch>>
\* The scan is a result of the run, with the batches in ver.
Result(p, ver, whole) ==
    run' = [run EXCEPT ![p].pc = "scans", ![p].scan = {}, ![p].skip = {}, ![p].ver = {},
                ![p].batch = 1,
                ![p].results = @ \union {[scan |-> Scan(p), ver |-> ver, whole |-> whole]}]
\* performCriteriaVerification catches the error that has left
\* processCriteriaBatches: a result without verifications.
Broken(p) == Result(p, {}, FALSE)
\* The batch is in the result now; on to the next.
NextBatch(p) ==
    run' = [run EXCEPT ![p].pc = "verify", ![p].ver = @ \union {run[p].batch},
                ![p].batch = Following(@ + 1, run[p].skip)]

\* A name that the runs share; the rename finds nothing if another run has
\* renamed it, as its own.
Rename(p) == /\ ckpt' = [ckpt EXCEPT ![Scan(p)] = tmp[Scan(p)]]
             /\ tmp' = [tmp EXCEPT ![Scan(p)] = NoCheckpoint]
\* The rename fails: the file is gone, or the call does.
RenameFails(p) == IF tmp[Scan(p)].saved THEN Fails ELSE Works

\* saveCheckpoint of a new checkpoint: writes the temporary file ...
InitCheckpoint(p) ==
    /\ run[p].pc = "init"
    /\ \/ /\ Works
          /\ tmp' = [tmp EXCEPT ![Scan(p)] = [saved |-> TRUE, done |-> {}]]
          /\ Goto(p, "initrename")
       \/ Fails /\ Broken(p) /\ UNCHANGED tmp
    /\ UNCHANGED <<lock, files, cached, ckpt, kills>>

\* ... and renames it.
RenameInit(p) ==
    /\ run[p].pc = "initrename"
    /\ \/ tmp[Scan(p)].saved /\ Works /\ Rename(p) /\ Goto(p, "verify")
       \/ RenameFails(p) /\ Broken(p) /\ UNCHANGED <<ckpt, tmp>>
    /\ UNCHANGED <<lock, files, cached, kills>>

Due(p) == run[p].pc = "verify" /\ run[p].batch <= NBatches

\* A batch from the cache is not marked in the checkpoint.
CacheHit(p) ==
    /\ Due(p) /\ Key(p) \in cached
    /\ NextBatch(p)
    /\ UNCHANGED <<lock, files, cached, ckpt, tmp, faults>>

\* Faulty variant: a batch that failed counts as completed.
BatchFailsMarked(p) ==
    /\ Due(p) /\ Key(p) \notin cached
    /\ ckpt' = [ckpt EXCEPT ![Scan(p)].done = @ \union {run[p].batch}]
    /\ NextBatch(p)
    /\ UNCHANGED <<lock, files, cached, tmp, faults>>

\* Rate limit, timeout, an answer that cannot be parsed: NOT_TESTED for all
\* criteria of the batch, neither cached nor marked.
BatchFails(p) ==
    /\ Due(p) /\ Key(p) \notin cached
    /\ NextBatch(p)
    /\ UNCHANGED <<lock, files, cached, ckpt, tmp, faults>>

\* The answer of the AI, and cache.set.  Errors of the cache and of the
\* checkpoint are logged, nothing more.
VerifyBatch(p) ==
    /\ Due(p) /\ Key(p) \notin cached
    /\ \/ Works /\ cached' = cached \union {Key(p)}
       \/ Fails /\ UNCHANGED cached
    /\ Goto(p, "mark")
    /\ UNCHANGED <<lock, files, ckpt, tmp, kills>>

\* markBatchComplete throws if another run has cleared the checkpoint; else
\* saveCheckpoint writes the temporary file ...
MarkComplete(p) ==
    /\ run[p].pc = "mark"
    /\ \/ /\ Works /\ ckpt[Scan(p)].saved
          /\ tmp' = [tmp EXCEPT ![Scan(p)] =
                       [ckpt[Scan(p)] EXCEPT !.done = @ \union {run[p].batch}]]
          /\ Goto(p, "markrename")
       \/ /\ IF ckpt[Scan(p)].saved THEN Fails ELSE Works
          /\ NextBatch(p) /\ UNCHANGED tmp
    /\ UNCHANGED <<lock, files, cached, ckpt, kills>>

\* ... and renames it.
RenameMark(p) ==
    /\ run[p].pc = "markrename"
    /\ \/ tmp[Scan(p)].saved /\ Works /\ Rename(p)
       \/ RenameFails(p) /\ UNCHANGED <<ckpt, tmp>>
    /\ NextBatch(p)
    /\ UNCHANGED <<lock, files, cached, kills>>

\* Faulty variant: cleared only if every batch is marked.
ClearCheckpointIfMarked(p) ==
    /\ run[p].pc = "verify" /\ run[p].batch > NBatches
    /\ ckpt' = IF ckpt[Scan(p)].done = Batches
               THEN [ckpt EXCEPT ![Scan(p)] = NoCheckpoint] ELSE ckpt
    /\ Result(p, run[p].ver, TRUE)
    /\ UNCHANGED <<lock, files, cached, tmp, faults>>

\* After the last batch.  The result holds the batches of this run only.
ClearCheckpoint(p) ==
    /\ run[p].pc = "verify" /\ run[p].batch > NBatches
    /\ \/ /\ Works
          /\ ckpt' = [ckpt EXCEPT ![Scan(p)] = NoCheckpoint]
          /\ Result(p, run[p].ver, TRUE)
       \/ Fails /\ Broken(p) /\ UNCHANGED ckpt
    /\ UNCHANGED <<lock, files, cached, tmp, kills>>

EndMiniBatch(p) ==
    /\ run[p].pc = "scans" /\ run[p].scans = {}
    /\ run' = IF run[p].mini < Len(MiniBatches[File(p)])
              THEN [run EXCEPT ![p].pc = "mini", ![p].mini = @ + 1]
              ELSE [run EXCEPT ![p].pc = "csv"]
    /\ UNCHANGED <<lock, files, cached, ckpt, tmp, faults>>

(***************************************************************************)
(* The end of a file                                                       *)
(***************************************************************************)
\* generateOutputPath: the file whose results a result of f would overwrite.
\* In a directory the name has f's and the second.
Path(f) == IF OneOutput THEN Least(Files) ELSE f

\* An output has the second it is written in in its name.  That is the second
\* of the output before it (same), or a later one, and then the names of all
\* files so far are not used again; but --output <file> always is.
Reused(same) == IF same \/ OneOutput THEN now ELSE [f \in Files |-> {}]
FailedReused(same) == IF same THEN failedNow ELSE {}
InSecond(same) ==
    /\ out' = IF same \/ OneOutput THEN out ELSE out \union UNION {now[f] : f \in Files}
    /\ failedOut' = IF same THEN failedOut ELSE failedOut \union failedNow

\* The scans become all that the result file of f has.
PutResults(f, scans) ==
    \E same \in BOOLEAN :
        /\ InSecond(same)
        /\ now' = [Reused(same) EXCEPT ![Path(f)] = scans]
        /\ lost' = (lost \union Reused(same)[Path(f)])
                   \ (out' \union UNION {now'[g] : g \in Files})
        /\ failedNow' = FailedReused(same)
        /\ UNCHANGED failedLost

\* So with failed-scans-<second>.csv, whatever the input.
PutFailed(scans) ==
    \E same \in BOOLEAN :
        /\ InSecond(same)
        /\ now' = Reused(same)
        /\ failedNow' = scans
        /\ failedLost' = (failedLost \union FailedReused(same)) \ (failedOut' \union scans)
        /\ UNCHANGED lost

\* Faulty variant: the failed scans are not written.
WriteResultsOnly(p) ==
    /\ run[p].pc = "csv"
    /\ PutResults(File(p), ScansOf(run[p].results))
    /\ Goto(p, "move")
    /\ UNCHANGED <<lock, at, cached, ckpt, tmp, faults>>

\* writeCsv truncates and writes, then chmods: an error may leave the file as
\* it was, empty, or written.
WriteResults(p) ==
    /\ run[p].pc = "csv"
    /\ \/ /\ Works
          /\ PutResults(File(p), ScansOf(run[p].results))
          /\ Goto(p, IF run[p].failed # {} THEN "failcsv" ELSE "move")
       \/ /\ Fails /\ Goto(p, "tofailed")
          /\ \/ \E scans \in {{}, ScansOf(run[p].results)} : PutResults(File(p), scans)
             \/ UNCHANGED outputs
    /\ UNCHANGED <<lock, at, cached, ckpt, tmp, kills>>

\* writeFailedScansCsv takes --output for a directory: if it is a file, the
\* write throws.
WriteFailed(p) ==
    /\ run[p].pc = "failcsv"
    /\ \/ ~OneOutput /\ Works /\ PutFailed(run[p].failed) /\ Goto(p, "move")
       \/ /\ IF OneOutput
             THEN Works /\ UNCHANGED outputs
             ELSE /\ Fails
                  /\ \/ \E scans \in {{}, run[p].failed} : PutFailed(scans)
                     \/ UNCHANGED outputs
          /\ Goto(p, "tofailed")
    /\ UNCHANGED <<lock, at, cached, ckpt, tmp, kills>>

\* moveToProcessed or moveToFailed: a rename, which throws if another run has
\* moved the file.  An error is followed by up to two attempts to move the
\* file to failed/, after which the run goes on without it.
Move(p) ==
    LET target == IF run[p].pc = "move" /\ run[p].results # {}
                  THEN "processed" ELSE "failed"
        next == IF run[p].pc = "empty" THEN "tofailed" ELSE "rescue"
    IN /\ run[p].pc \in {"move", "empty", "tofailed", "rescue"}
       /\ \/ /\ at[File(p)] = "input" /\ Works
             /\ at' = [at EXCEPT ![File(p)] = target]
             /\ NextFile(p)
          \/ /\ (at[File(p)] # "input" /\ Works) \/ Fails
             /\ IF run[p].pc = "rescue" THEN NextFile(p)
                                        ELSE Goto(p, next) /\ UNCHANGED lock
             /\ UNCHANGED at
    /\ UNCHANGED <<outputs, cached, ckpt, tmp, kills>>

(***************************************************************************)
(* How a run is ended from outside                                         *)
(***************************************************************************)
MayKill == "kill" \in Faults /\ errors + kills < MaxFaults /\ kills' = kills + 1

Killed(p) ==
    /\ MayKill /\ run[p].pc # "idle"
    /\ Ends(p)
    /\ UNCHANGED <<files, cached, ckpt, tmp, errors>>

\* SIGTERM, once the lock is acquired: the handler unlinks the lock
\* file, whoever's it is, and exits.  At any other time it has nothing to
\* release: Killed.
Terminate(p) ==
    /\ MayKill /\ run[p].pc \in WorkPcs
    /\ lock' = Free /\ run' = [run EXCEPT ![p] = Idle]
    /\ UNCHANGED <<files, cached, ckpt, tmp, errors>>

\* One step of main.
Work(p) ==
    \/ CreateLock(p) \/ WriteLock(p) \/ ReadLock(p) \/ UnlinkStale(p)
    \/ ListFiles(p) \/ ReleaseLock(p) \/ ParseFile(p) \/ Download(p)
    \/ \E s \in Scans : Analyse(p, s) \/ AnalysisFails(p, s)
    \/ InitCheckpoint(p) \/ RenameInit(p) \/ CacheHit(p) \/ BatchFails(p)
    \/ VerifyBatch(p) \/ MarkComplete(p) \/ RenameMark(p) \/ ClearCheckpoint(p)
    \/ EndMiniBatch(p) \/ WriteResults(p) \/ WriteFailed(p) \/ Move(p)

Next ==
    \E p \in Runs :
      \/ StartDirectory(p)
      \/ Work(p)
      \/ Killed(p) \/ Terminate(p)

Spec == Init /\ [][Next]_vars

\* Cron comes back, and a process that was started does its next step (the
\* two are never enabled together).
FairSpec ==
    Spec /\ \A p \in Runs : WF_vars(StartDirectory(p) \/ Work(p))

(***************************************************************************)
(* Properties                                                              *)
(***************************************************************************)
\* The scans that have a row in a result file, or had one until a later output
\* of the same name was written over it.
ResultWritten == out \union lost \union UNION {now[f] : f \in Files}
\* So with the files of failed scans.
FailureWritten == failedOut \union failedNow \union failedLost

\* A file reaches processed/ only when every scan in it is accounted for, in a
\* result file or in a file of failed scans, and at least one has a result;
\* whatever was killed, failed, or worked on the same file (processDirectory
\* moves the input after the outputs are written).  Except what a later output
\* of the same name has overwritten: the names have the second only, and with
\* --output <file> there is one name.
ProcessedIsAccounted ==
    \A f \in Files : at[f] = "processed" =>
        /\ RowsOf(f) \subseteq ResultWritten \union FailureWritten
        /\ RowsOf(f) \intersect ResultWritten # {}

\* What the runs have found and are about to write.
Found == UNION {run[p].results : p \in Runs}

\* A run that resumes skips the batches of the checkpoint and does not return
\* them.  Unless a file-system call failed, what it leaves out of the result
\* is at least in the cache, for the week that entries last there
\* (processSingleBatch stores before it marks).  Except a result whose
\* verification broke off: two runs that save the checkpoint of a scan at the
\* same time share its temporary file, and the second rename fails.
LeftOutIsCached ==
    errors = 0 =>
        \A r \in Found, b \in Batches :
            r.whole => b \in r.ver \/ <<Content[r.scan], b>> \in cached

\* Unless a process was killed or a call failed, no checkpoint outlives the
\* runs: a later export of the same scan is verified from the beginning
\* (processCriteriaBatches clears what it initialised, also when two runs
\* got past the lock).
NoCheckpointLeftBehind ==
    errors = 0 /\ kills = 0 /\ (\A p \in Runs : run[p].scan = {}) =>
        \A s \in Scans : ~ckpt[s].saved

\* The lock names a process that died before it wrote the file.
Blocked == lock.by = Dead /\ ~lock.written

\* Every input file is taken up by some run and moved away, whatever is killed
\* and fails on the way, because a stale lock is broken (acquireLock); unless
\* the lock file was left empty, which nobody ever takes for stale.
FilesAreTakenUp == <>(Pending = {} \/ Blocked)

=============================================================================
