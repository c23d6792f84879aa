------------------------------ MODULE Discovery ------------------------------
(***************************************************************************)
(* The life of one website discovery: the request that creates it, the     *)
(* requests that cancel it, that add and remove pages by hand and that     *)
(* read it through the Redis cache (discovery.service.ts), and the job     *)
(* that looks for the pages (discovery.worker.ts).  The worker runs in the *)
(* API process, one job at a time: when the process dies, everything under *)
(* way dies with it.                                                       *)
(*                                                                         *)
(* Every Prisma call and every Redis command is a step of its own.  A page *)
(* row is known by its URL, which is unique in a discovery, and by an id   *)
(* that tells it from the rows deleted before it.                          *)
(***************************************************************************)
EXTENDS Naturals

CONSTANTS
    Urls,         \* the URLs of the site
    Users,        \* the requests that add or remove a page, at the same time
    MaxEdits,     \* bound on such requests
    MaxAttempts,  \* `attempts` of DISCOVERY_JOB_OPTIONS (3)
    MaxStalled,   \* BullMQ's maxStalledCount (1: the default, not overridden)
    Faults        \* the faults the environment may inject: "error", "crash"

ASSUME SiteHasPages == Urls # {}
ASSUME BoundsAreNumbers ==
    MaxEdits \in Nat /\ MaxAttempts \in Nat \ {0} /\ MaxStalled \in Nat
ASSUME FaultsKnown == Faults \subseteq {"error", "crash"}

VARIABLES
    status,   \* the status column of the row, "ABSENT" before it exists
    page,     \* page[u]: the DiscoveredPage row of URL u
    cache,    \* Redis discovery:<id>:result
    job,      \* the BullMQ job; its id is the discovery's
    worker,   \* the processor call
    api,      \* the createDiscovery request
    cancel,   \* the cancelDiscovery requests, one at a time
    edit,     \* edit[c]: an addManualUrl or removeManualUrl request
    edits,    \* how many of them there were
    reader    \* a getDiscovery request

vars == <<status, page, cache, job, worker, api, cancel, edit, edits, reader>>

DiscoveryStatus == {"PENDING", "RUNNING", "COMPLETED", "FAILED", "CANCELLED"}
\* The states in which a discovery can be cancelled and pages added to it.
Open == {"PENDING", "RUNNING"}

\* The worker and the service store different shapes under the same key.
CacheEntry == [form : {"none", "worker", "service"},
               status : DiscoveryStatus \union {"ABSENT"}, pages : SUBSET Urls]
PageRow == [source : {"none", "found", "manual"}, id : Nat]
JobRow == [state : {"none", "waiting", "active", "completed", "failed"},
           made : 0..MaxAttempts, stalled : 0..(MaxStalled + 1)]

\* The states of the processor between its look at the row and COMPLETED.
Started == {"run", "find", "save", "complete"}
WorkerCall == [pc : Started \union {"idle", "load", "reread", "cache", "catch", "end"},
               found : SUBSET Urls]
EditCall == [pc : {"idle", "checked", "read", "invalidate"}, url : Urls, id : Nat]
ReadCall == [pc : {"idle", "row", "pages", "store"},
             status : DiscoveryStatus \union {"ABSENT"}, pages : SUBSET Urls]

TypeOK ==
    /\ status \in DiscoveryStatus \union {"ABSENT"}
    /\ page \in [Urls -> PageRow]
    /\ cache \in CacheEntry
    /\ job \in JobRow
    /\ worker \in WorkerCall
    /\ api \in {"start", "queue", "done"}
    /\ cancel \in {"idle", "checked", "invalidate"}
    /\ edit \in [Users -> EditCall]
    /\ edits \in 0..MaxEdits
    /\ reader \in ReadCall

Stored == {u \in Urls : page[u].source # "none"}

NoEntry == [form |-> "none", status |-> "ABSENT", pages |-> {}]
IdleWorker == [pc |-> "idle", found |-> {}]
IdleEdit == [pc |-> "idle", url |-> CHOOSE u \in Urls : TRUE, id |-> 0]
IdleReader == [pc |-> "idle", status |-> "ABSENT", pages |-> {}]

Init ==
    /\ status = "ABSENT"
    /\ page = [u \in Urls |-> [source |-> "none", id |-> 0]]
    /\ cache = NoEntry
    /\ job = [state |-> "none", made |-> 0, stalled |-> 0]
    /\ worker = IdleWorker
    /\ api = "start"
    /\ cancel = "idle"
    /\ edit = [c \in Users |-> IdleEdit]
    /\ edits = 0
    /\ reader = IdleReader

Exists == status # "ABSENT"

\* A new row for u, with an id of its own.
Row(u, source) == [source |-> source, id |-> page[u].id + 1]

\* DEL of the result key; an error of it is logged.
Invalidate == cache' = NoEntry \/ ("error" \in Faults /\ UNCHANGED cache)

(***************************************************************************)
(* createDiscovery                                                         *)
(***************************************************************************)

CreateRow ==
    /\ api = "start"
    /\ status' = "PENDING"
    /\ api' = "queue"
    /\ UNCHANGED <<page, cache, job, worker, cancel, edit, edits, reader>>

\* An error of the queue is logged: the row stays, without a job.
QueueJob ==
    /\ api = "queue"
    /\ \/ job' = [job EXCEPT !.state = "waiting"]
       \/ "error" \in Faults /\ UNCHANGED job
    /\ api' = "done"
    /\ UNCHANGED <<status, page, cache, worker, cancel, edit, edits, reader>>

(***************************************************************************)
(* processDiscoveryJob                                                     *)
(***************************************************************************)

Goto(pc) == worker' = [worker EXCEPT !.pc = pc]

Take(made) ==
    /\ job.state = "waiting"
    /\ worker.pc = "idle"
    /\ job' = [job EXCEPT !.state = "active", !.made = made]
    /\ Goto("load")
    /\ UNCHANGED <<status, page, cache, api, cancel, edit, edits, reader>>

\* BullMQ hands the job out; attemptsMade counts the attempts that have ended.
Claim == Take(job.made)

\* Faulty variant: the status is not looked at.
LoadAny ==
    /\ worker.pc = "load"
    /\ Goto("run")
    /\ UNCHANGED <<status, page, cache, job, api, cancel, edit, edits, reader>>

\* A CANCELLED discovery is left alone; every other one is run, also one that
\* is COMPLETED.
Load ==
    /\ worker.pc = "load"
    /\ Goto(IF status = "CANCELLED" THEN "end" ELSE "run")
    /\ UNCHANGED <<status, page, cache, job, api, cancel, edit, edits, reader>>

SetRunning ==
    /\ worker.pc = "run"
    /\ status' = "RUNNING"
    /\ Goto("find")
    /\ UNCHANGED <<page, cache, job, api, cancel, edit, edits, reader>>

\* The phases swallow their errors, and at least the homepage is found.
FindPages ==
    /\ worker.pc = "find"
    /\ \E found \in (SUBSET Urls) \ {{}} :
          worker' = [pc |-> "save", found |-> found]
    /\ UNCHANGED <<status, page, cache, job, api, cancel, edit, edits, reader>>

\* addPages: createMany with skipDuplicates.
SavePages ==
    /\ worker.pc = "save"
    /\ page' = [u \in Urls |-> IF u \in worker.found \ Stored
                               THEN Row(u, "found") ELSE page[u]]
    /\ Goto("complete")
    /\ UNCHANGED <<status, cache, job, api, cancel, edit, edits, reader>>

SetStatus(outcomes) ==
    /\ worker.pc = "complete"
    /\ status' \in outcomes
    /\ Goto("reread")
    /\ UNCHANGED <<page, cache, job, api, cancel, edit, edits, reader>>

\* Faulty variant: an error of updateStatus is logged.
CompleteLogged == SetStatus({"COMPLETED", status})

\* updateStatus: COMPLETED whatever the status is by now.
Complete == SetStatus({"COMPLETED"})

\* The row is read again ...
Reread ==
    /\ worker.pc = "reread"
    /\ Goto("cache")
    /\ UNCHANGED <<status, page, cache, job, api, cancel, edit, edits, reader>>

\* ... and stored in the worker's shape, which getCachedDiscovery cannot read;
\* an error is logged.
CacheResult ==
    /\ worker.pc = "cache"
    /\ \/ cache' = [NoEntry EXCEPT !.form = "worker"]
       \/ "error" \in Faults /\ UNCHANGED cache
    /\ Goto("end")
    /\ UNCHANGED <<status, page, job, api, cancel, edit, edits, reader>>

\* A database error, also after COMPLETED was written.
Throw ==
    /\ "error" \in Faults
    /\ worker.pc \in (Started \ {"find"}) \union {"load", "reread"}
    /\ Goto("catch")
    /\ UNCHANGED <<status, page, cache, job, api, cancel, edit, edits, reader>>

\* The catch block throws the error again, unless it takes this attempt for
\* the last one (attemptsMade >= attempts): LastAttemptNeverSeen says that it
\* never does, so the branch that would save partial results or write FAILED
\* has no action here.
Rethrow(again, made) ==
    /\ worker.pc = "catch"
    /\ job' = [job EXCEPT !.made = made, !.state = IF again THEN "waiting" ELSE "failed"]
    /\ worker' = IdleWorker
    /\ UNCHANGED <<status, page, cache, api, cancel, edit, edits, reader>>

\* Faulty variants: no limit on the attempts; attempts that are not counted.
FailAttemptUnlimited == Rethrow(TRUE, job.made + 1)
FailAttemptUncounted == Rethrow(job.made + 1 < MaxAttempts, job.made)

\* BullMQ runs the job again while there are attempts left.
FailAttempt == Rethrow(job.made + 1 < MaxAttempts, job.made + 1)

EndAttempt ==
    /\ worker.pc = "end"
    /\ job' = [job EXCEPT !.state = "completed"]
    /\ worker' = IdleWorker
    /\ UNCHANGED <<status, page, cache, api, cancel, edit, edits, reader>>

Work == \/ Claim \/ Load \/ SetRunning \/ FindPages \/ SavePages
        \/ Complete \/ Reread \/ CacheResult \/ FailAttempt \/ EndAttempt

(***************************************************************************)
(* cancelDiscovery                                                         *)
(***************************************************************************)

CancelCheck ==
    /\ cancel = "idle"
    /\ status \in Open
    /\ cancel' = "checked"
    /\ UNCHANGED <<status, page, cache, job, worker, api, edit, edits, reader>>

\* updateStatus: CANCELLED whatever the status is by now; the job stays queued.
CancelWrite ==
    /\ cancel = "checked"
    /\ \/ status' = "CANCELLED" /\ cancel' = "invalidate"
       \/ "error" \in Faults /\ UNCHANGED status /\ cancel' = "idle"
    /\ UNCHANGED <<page, cache, job, worker, api, edit, edits, reader>>

CancelInvalidate ==
    /\ cancel = "invalidate"
    /\ Invalidate
    /\ cancel' = "idle"
    /\ UNCHANGED <<status, page, job, worker, api, edit, edits, reader>>

Cancel == CancelCheck \/ CancelWrite \/ CancelInvalidate

(***************************************************************************)
(* addManualUrl and removeManualUrl                                        *)
(***************************************************************************)

Begin(c, pc, u) ==
    /\ edit[c].pc = "idle"
    /\ edits < MaxEdits
    /\ edits' = edits + 1
    /\ edit' = [edit EXCEPT ![c] = [pc |-> pc, url |-> u, id |-> page[u].id]]
    /\ UNCHANGED <<status, page, cache, job, worker, api, cancel, reader>>

\* Pages are added to an open discovery only ...
AddCheck(c, u) == status \in Open /\ Begin(c, "checked", u)

\* ... which it may no longer be; the unique index rejects a URL that is there.
AddPage(c) ==
    LET u == edit[c].url IN
    /\ edit[c].pc = "checked"
    /\ u \notin Stored
    /\ page' = [page EXCEPT ![u] = Row(u, "manual")]
    /\ edit' = [edit EXCEPT ![c].pc = "invalidate"]
    /\ UNCHANGED <<status, cache, job, worker, api, cancel, edits, reader>>

\* The URL is invalid, of another site or there already, or a call fails.
AddRefused(c) ==
    /\ edit[c].pc = "checked"
    /\ edit' = [edit EXCEPT ![c] = IdleEdit]
    /\ UNCHANGED <<status, page, cache, job, worker, api, cancel, edits, reader>>

\* The page is looked up by its id; it has to be a manual one, but the status
\* of the discovery does not matter.
RemoveRead(c, u) == page[u].source = "manual" /\ Begin(c, "read", u)

Remove(c, same) ==
    LET u == edit[c].url IN
    /\ edit[c].pc = "read"
    /\ IF u \in Stored /\ same
       THEN /\ page' = [page EXCEPT ![u].source = "none"]
            /\ edit' = [edit EXCEPT ![c].pc = "invalidate"]
       ELSE /\ edit' = [edit EXCEPT ![c] = IdleEdit]
            /\ UNCHANGED page
    /\ UNCHANGED <<status, cache, job, worker, api, cancel, edits, reader>>

\* Faulty variant: the row is deleted by its URL.
RemoveByUrl(c) == Remove(c, TRUE)

\* The row with the id that was read is deleted, or there is none (P2025).
RemovePage(c) == Remove(c, page[edit[c].url].id = edit[c].id)

EditInvalidate(c) ==
    /\ edit[c].pc = "invalidate"
    /\ Invalidate
    /\ edit' = [edit EXCEPT ![c] = IdleEdit]
    /\ UNCHANGED <<status, page, job, worker, api, cancel, edits, reader>>

Edit(c) == AddPage(c) \/ AddRefused(c) \/ RemovePage(c) \/ EditInvalidate(c)

(***************************************************************************)
(* getDiscovery                                                            *)
(***************************************************************************)

\* A hit returns at once; the worker's entry is a miss.
ReadMiss ==
    /\ reader.pc = "idle"
    /\ Exists
    /\ cache.form # "service"
    /\ reader' = [reader EXCEPT !.pc = "row"]
    /\ UNCHANGED <<status, page, cache, job, worker, api, cancel, edit, edits>>

\* findByIdWithPages is one Prisma call and two queries, the row ...
ReadRow ==
    /\ reader.pc = "row"
    /\ reader' = [reader EXCEPT !.pc = "pages", !.status = status]
    /\ UNCHANGED <<status, page, cache, job, worker, api, cancel, edit, edits>>

\* ... and its pages.  Only a COMPLETED or FAILED discovery is cached.
ReadPages ==
    /\ reader.pc = "pages"
    /\ reader' = IF reader.status \in {"COMPLETED", "FAILED"}
                 THEN [reader EXCEPT !.pc = "store", !.pages = Stored]
                 ELSE IdleReader
    /\ UNCHANGED <<status, page, cache, job, worker, api, cancel, edit, edits>>

StoreEntry ==
    /\ reader.pc = "store"
    /\ \/ cache' = [form |-> "service", status |-> reader.status, pages |-> reader.pages]
       \/ "error" \in Faults /\ UNCHANGED cache
    /\ reader' = IdleReader
    /\ UNCHANGED <<status, page, job, worker, api, cancel, edit, edits>>

Read == ReadMiss \/ ReadRow \/ ReadPages \/ StoreEntry

\* Faulty variant: SET instead of SETEX.
EntryKept == FALSE /\ UNCHANGED vars

\* 24 hours.
EntryExpires ==
    /\ cache.form # "none"
    /\ cache' = NoEntry
    /\ UNCHANGED <<status, page, job, worker, api, cancel, edit, edits, reader>>

(***************************************************************************)
(* Specification                                                           *)
(***************************************************************************)

\* The process dies: the job stalls, and is run again or has stalled too often.
Crash ==
    /\ "crash" \in Faults
    /\ Exists
    /\ job' = IF worker.pc = "idle" THEN job
              ELSE [job EXCEPT !.stalled = @ + 1,
                               !.state = IF job.stalled < MaxStalled
                                         THEN "waiting" ELSE "failed"]
    /\ worker' = IdleWorker
    /\ api' = "done"
    /\ cancel' = "idle"
    /\ edit' = [c \in Users |-> IdleEdit]
    /\ reader' = IdleReader
    /\ UNCHANGED <<status, page, cache, edits>>

Next ==
    \/ CreateRow \/ QueueJob
    \/ Work \/ Throw
    \/ Cancel
    \/ \E c \in Users :
          \/ Edit(c)
          \/ \E u \in Urls : AddCheck(c, u) \/ RemoveRead(c, u)
    \/ Read \/ EntryExpires
    \/ Crash

Spec == Init /\ [][Next]_vars

\* What is under way goes on, and Redis lets keys expire; nobody has to call.
Fairness ==
    /\ WF_vars(QueueJob)
    /\ WF_vars(Work)
    /\ WF_vars(CancelWrite \/ CancelInvalidate)
    /\ \A c \in Users : WF_vars(Edit(c))
    /\ WF_vars(ReadRow \/ ReadPages \/ StoreEntry)
    /\ WF_vars(EntryExpires)

FairSpec == Spec /\ Fairness

(***************************************************************************)
(* Properties                                                              *)
(***************************************************************************)

\* The handling of the last attempt in the catch block of processDiscoveryJob
\* is never reached: while an attempt is failing, attemptsMade counts the ones
\* before it only, whatever crashes and errors there were.
LastAttemptNeverSeen == worker.pc = "catch" => job.made < MaxAttempts

\* A job the queue reports completed leaves a discovery that is COMPLETED, or
\* CANCELLED - never one that waits for pages that do not come, also when an
\* earlier attempt failed after it had written COMPLETED.
CompletedJobIsDone == job.state = "completed" => status \in {"COMPLETED", "CANCELLED"}

\* removeManualUrl takes back what a user added, and never a page that the
\* worker found, also when the worker finds the URL again while two requests
\* remove the same page.
FoundPagesStay ==
    [][\A u \in Urls : page[u].source = "found" => page'[u] = page[u]]_vars

\* A cancellation is overwritten only by an attempt that had looked at the row
\* before: a discovery that is cancelled while no attempt is past that look
\* stays cancelled, and no job or retry that is still queued runs it.
CancelSticks ==
    [][status = "CANCELLED" /\ worker.pc \notin Started
         => status' = "CANCELLED" /\ worker'.pc \notin Started]_vars

\* The job comes to an end, whatever fails.
JobEnds == job.state = "waiting" ~> job.state \in {"completed", "failed"}

\* Whatever old rows a reader stored, and although nothing invalidates the
\* entry when the worker changes the discovery: what the cache serves does
\* catch up with the tables.
CacheCatchesUp ==
    <>[](cache.form = "service" => cache.status = status /\ cache.pages = Stored)

=============================================================================
