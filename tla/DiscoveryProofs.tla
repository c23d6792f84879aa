-------------------------- MODULE DiscoveryProofs --------------------------
(***************************************************************************)
(* Theorems about Discovery: its types, that the branch for the last       *)
(* attempt is dead, what a completed job leaves behind, that found pages   *)
(* are never removed and that a cancellation is final.                     *)
(***************************************************************************)
EXTENDS Discovery, TLAPS

\* What makes the properties inductive: the job is active exactly while the
\* processor runs, and has attempts left until it fails; after COMPLETED was
\* written only a cancellation overwrites it; a removal that still finds the
\* id it has read finds a page that was added by hand.
JobInv ==
    /\ worker.pc = "idle" <=> job.state # "active"
    /\ job.state # "failed" => job.stalled <= MaxStalled
    /\ job.state \in {"none", "waiting", "active"} => job.made < MaxAttempts
    /\ api \in {"start", "queue"} => job.state = "none"
    /\ api = "start" => status = "ABSENT" /\ cancel = "idle"

DoneInv ==
    worker.pc \in {"reread", "cache", "end"} \/ job.state = "completed"
       => status \in {"COMPLETED", "CANCELLED"}

RemoveInv ==
    \A c \in Users :
       LET p == page[edit[c].url] IN
       edit[c].pc = "read" => edit[c].id <= p.id /\ (edit[c].id = p.id => p.source # "found")

IInv == TypeOK /\ JobInv /\ DoneInv /\ RemoveInv

\* The calls that have not begun are well typed.
LEMMA IdleCalls ==
  /\ IdleEdit \in EditCall /\ IdleEdit.pc = "idle"
  /\ IdleReader \in ReadCall
  /\ IdleWorker \in WorkerCall /\ IdleWorker.pc = "idle"
  /\ NoEntry \in CacheEntry
BY SiteHasPages DEF IdleEdit, EditCall, IdleReader, ReadCall, IdleWorker, WorkerCall,
   Started, NoEntry, CacheEntry

\* The invariant holds at the beginning.
LEMMA InitInv == Init => IInv
<1> SUFFICES ASSUME Init PROVE IInv
  OBVIOUS
<1>1. TypeOK
  BY IdleCalls, BoundsAreNumbers DEF Init, TypeOK, PageRow, JobRow
<1>2. JobInv /\ DoneInv
  BY IdleCalls, BoundsAreNumbers DEF Init, JobInv, DoneInv
<1>3. RemoveInv
  BY IdleCalls DEF Init, RemoveInv
<1> QED
  BY <1>1, <1>2, <1>3 DEF IInv

(* Types *)

\* Every step of requests, attempts and readers keeps the types.
LEMMA TypeStep == TypeOK /\ JobInv /\ [Next]_vars => TypeOK'
<1> SUFFICES ASSUME TypeOK, JobInv, [Next]_vars PROVE TypeOK'
  OBVIOUS
<1> USE BoundsAreNumbers DEF TypeOK, DiscoveryStatus
<1>1. CASE CreateRow
  BY <1>1 DEF CreateRow
<1>2. CASE QueueJob
  <2>1. job' \in JobRow
    BY <1>2 DEF QueueJob, JobRow
  <2> QED
    BY <1>2, <2>1 DEF QueueJob
<1>3. CASE Claim
  BY <1>3 DEF Claim, Take, Goto, JobRow, WorkerCall
<1>4. CASE Load \/ SetRunning \/ Complete \/ Reread \/ Throw
  BY <1>4 DEF Load, SetRunning, Complete, SetStatus, Reread, Throw, Goto, WorkerCall, Started
<1>5. CASE FindPages
  <2>1. worker' \in WorkerCall
    BY <1>5 DEF FindPages, WorkerCall, Started
  <2> QED
    BY <1>5, <2>1 DEF FindPages
<1>6. CASE SavePages
  <2>1. \A u \in Urls : Row(u, "found") \in PageRow
    BY DEF Row, PageRow
  <2>2. page' \in [Urls -> PageRow]
    BY <1>6, <2>1 DEF SavePages
  <2>3. worker' \in WorkerCall
    BY <1>6 DEF SavePages, Goto, WorkerCall, Started
  <2> QED
    BY <1>6, <2>2, <2>3 DEF SavePages
<1>7. CASE CacheResult
  <2>1. cache' \in CacheEntry
    BY <1>7, IdleCalls DEF CacheResult, CacheEntry
  <2>2. worker' \in WorkerCall
    BY <1>7 DEF CacheResult, Goto, WorkerCall
  <2> QED
    BY <1>7, <2>1, <2>2 DEF CacheResult
<1>8. CASE FailAttempt
  <2>1. job.made + 1 \in 0..MaxAttempts
    BY <1>8 DEF FailAttempt, Rethrow, JobRow, JobInv
  <2>2. job' \in JobRow
    BY <1>8, <2>1 DEF FailAttempt, Rethrow, JobRow
  <2> QED
    BY <1>8, <2>2, IdleCalls DEF FailAttempt, Rethrow
<1>9. CASE EndAttempt
  <2>1. job' \in JobRow
    BY <1>9 DEF EndAttempt, JobRow
  <2> QED
    BY <1>9, <2>1, IdleCalls DEF EndAttempt
<1>10. CASE Cancel
  BY <1>10, IdleCalls DEF Cancel, CancelCheck, CancelWrite, CancelInvalidate, Invalidate
<1>11. ASSUME NEW c \in Users, NEW u \in Urls, AddCheck(c, u) \/ RemoveRead(c, u)
       PROVE  TypeOK'
  <2>1. page[u].id \in Nat
    BY DEF PageRow
  <2>2. edit' \in [Users -> EditCall]
    BY <1>11, <2>1 DEF AddCheck, RemoveRead, Begin, EditCall
  <2> QED
    BY <1>11, <2>2 DEF AddCheck, RemoveRead, Begin
<1>12. ASSUME NEW c \in Users, AddPage(c) PROVE TypeOK'
  <2>1. edit[c].url \in Urls
    BY DEF EditCall
  <2>2. Row(edit[c].url, "manual") \in PageRow
    BY <2>1 DEF Row, PageRow
  <2>3. edit' \in [Users -> EditCall]
    BY <1>12 DEF AddPage, EditCall
  <2> QED
    BY <1>12, <2>1, <2>2, <2>3 DEF AddPage
<1>13. ASSUME NEW c \in Users, AddRefused(c) PROVE TypeOK'
  BY <1>13, IdleCalls DEF AddRefused
<1>14. ASSUME NEW c \in Users, RemovePage(c) PROVE TypeOK'
  <2>1. page' \in [Urls -> PageRow]
    BY <1>14 DEF RemovePage, Remove, EditCall, PageRow
  <2>2. edit' \in [Users -> EditCall]
    BY <1>14, IdleCalls DEF RemovePage, Remove, EditCall
  <2> QED
    BY <1>14, <2>1, <2>2 DEF RemovePage, Remove
<1>15. ASSUME NEW c \in Users, EditInvalidate(c) PROVE TypeOK'
  BY <1>15, IdleCalls DEF EditInvalidate, Invalidate
<1>16. CASE ReadMiss \/ ReadRow \/ ReadPages
  <2>1. CASE ReadMiss
    BY <2>1 DEF ReadMiss, ReadCall
  <2>2. CASE ReadRow
    BY <2>2 DEF ReadRow, ReadCall
  <2>3. CASE ReadPages
    <3>1. Stored \in SUBSET Urls
      BY DEF Stored
    <3>2. reader' \in ReadCall
      BY <2>3, <3>1, IdleCalls DEF ReadPages, ReadCall
    <3> QED
      BY <2>3, <3>2 DEF ReadPages
  <2> QED
    BY <1>16, <2>1, <2>2, <2>3
<1>17. CASE StoreEntry
  BY <1>17, IdleCalls DEF StoreEntry, ReadCall, CacheEntry
<1>18. CASE EntryExpires
  BY <1>18, IdleCalls DEF EntryExpires
<1>19. CASE Crash
  <2>1. worker.pc # "idle" => job.stalled + 1 \in 0..(MaxStalled + 1)
    BY DEF JobRow, JobInv
  <2>2. job' \in JobRow
    BY <1>19, <2>1 DEF Crash, JobRow
  <2> QED
    BY <1>19, <2>2, IdleCalls DEF Crash
<1>20. CASE UNCHANGED vars
  BY <1>20 DEF vars
<1> QED
  BY <1>1, <1>2, <1>3, <1>4, <1>5, <1>6, <1>7, <1>8, <1>9, <1>10, <1>11, <1>12, <1>13,
     <1>14, <1>15, <1>16, <1>17, <1>18, <1>19, <1>20 DEF Next, Work, Edit, Read

(* The job and what it leaves *)

\* What the other requests do concerns neither the job nor the status.
Aside == UNCHANGED <<status, job, worker, api>> /\ (api = "start" => UNCHANGED cancel)

\* Readers, edits and the cache leave the job and the status of the discovery
\* alone.
LEMMA AsideSteps ==
  ASSUME JobInv,
         \/ CancelCheck \/ CancelInvalidate \/ ReadMiss \/ ReadRow \/ ReadPages \/ StoreEntry
         \/ EntryExpires
         \/ \E c \in Users : Edit(c) \/ \E u \in Urls : AddCheck(c, u) \/ RemoveRead(c, u)
         \/ UNCHANGED vars
  PROVE  Aside
BY DEF CancelCheck, CancelInvalidate, ReadMiss, ReadRow, ReadPages, StoreEntry, EntryExpires,
   Edit, AddPage, AddRefused, RemovePage, Remove, EditInvalidate, AddCheck, RemoveRead, Begin,
   Aside, vars, JobInv, Open

\* Every step keeps job, attempt and request together, and a job done leaves its
\* status done.
LEMMA JobStep == IInv /\ [Next]_vars => JobInv' /\ DoneInv'
<1> SUFFICES ASSUME TypeOK, JobInv, DoneInv, [Next]_vars PROVE JobInv' /\ DoneInv'
  BY DEF IInv
<1> USE BoundsAreNumbers DEF JobInv, DoneInv
<1>1. CASE Aside
  BY <1>1 DEF Aside
<1>2. CASE CreateRow \/ QueueJob
  BY <1>2 DEF CreateRow, QueueJob, TypeOK, JobRow
<1>3. CASE Claim
  BY <1>3 DEF Claim, Take, Goto, TypeOK, JobRow, WorkerCall
<1>4. CASE Load \/ SetRunning \/ SavePages \/ Complete \/ Reread \/ CacheResult \/ Throw
  BY <1>4 DEF Load, SetRunning, SavePages, Complete, SetStatus, Reread, CacheResult, Throw,
     Goto, Started, TypeOK, JobRow, WorkerCall
<1>5. CASE FindPages
  BY <1>5 DEF FindPages, TypeOK, WorkerCall
<1>6. CASE FailAttempt \/ EndAttempt
  BY <1>6, IdleCalls DEF FailAttempt, Rethrow, EndAttempt, TypeOK, JobRow
<1>7. CASE CancelWrite
  BY <1>7 DEF CancelWrite
<1>8. CASE Crash
  BY <1>8, IdleCalls DEF Crash, TypeOK, JobRow
<1> QED
  BY <1>1, <1>2, <1>3, <1>4, <1>5, <1>6, <1>7, <1>8, AsideSteps DEF Next, Work, Cancel, Read

(* The pages *)

FoundKept == \A u \in Urls : page[u].source = "found" => page'[u] = page[u]

\* No step removes a page that was found: a removal under way holds the id of an
\* older row.
LEMMA PageStep == IInv /\ [Next]_vars => RemoveInv' /\ FoundKept
<1> SUFFICES ASSUME TypeOK, RemoveInv, [Next]_vars PROVE RemoveInv' /\ FoundKept
  BY DEF IInv
<1>1. \A u \in Urls : page[u] \in PageRow
  BY DEF TypeOK
<1>2. \A c \in Users : edit[c] \in EditCall
  BY DEF TypeOK
<1>3. CASE UNCHANGED <<page, edit>>
  BY <1>3 DEF RemoveInv, FoundKept
<1>4. CASE SavePages
  BY <1>1, <1>2, <1>4 DEF SavePages, Stored, Row, RemoveInv, FoundKept, PageRow, EditCall
<1>5. ASSUME NEW c \in Users, NEW u \in Urls, AddCheck(c, u) \/ RemoveRead(c, u)
      PROVE  RemoveInv' /\ FoundKept
  <2>1. UNCHANGED page /\ \A d \in Users \ {c} : edit'[d] = edit[d]
    BY <1>5 DEF AddCheck, RemoveRead, Begin, TypeOK
  <2>2. edit'[c].pc = "read" => /\ edit'[c].url = u /\ edit'[c].id = page[u].id
                                /\ page[u].source = "manual"
    BY <1>5 DEF AddCheck, RemoveRead, Begin, TypeOK
  <2> QED
    BY <1>1, <2>1, <2>2 DEF RemoveInv, FoundKept, PageRow
<1>6. ASSUME NEW c \in Users, AddPage(c) PROVE RemoveInv' /\ FoundKept
  BY <1>1, <1>2, <1>6 DEF AddPage, Stored, Row, RemoveInv, FoundKept, PageRow, EditCall, TypeOK
<1>7. ASSUME NEW c \in Users, RemovePage(c) PROVE RemoveInv' /\ FoundKept
  BY <1>1, <1>2, <1>7, IdleCalls
     DEF RemovePage, Remove, RemoveInv, FoundKept, PageRow, EditCall, TypeOK
<1>8. ASSUME NEW c \in Users, AddRefused(c) \/ EditInvalidate(c)
      PROVE  RemoveInv' /\ FoundKept
  BY <1>2, <1>8, IdleCalls DEF AddRefused, EditInvalidate, RemoveInv, FoundKept, TypeOK
<1>9. CASE Crash
  BY <1>9, IdleCalls DEF Crash, RemoveInv, FoundKept
<1>10. ASSUME CreateRow \/ QueueJob \/ Claim \/ Load \/ SetRunning \/ FindPages \/ Complete
              \/ Reread \/ CacheResult \/ FailAttempt \/ EndAttempt \/ Throw
       PROVE  UNCHANGED <<page, edit>>
  BY <1>10 DEF CreateRow, QueueJob, Claim, Take, Load, SetRunning, FindPages, Complete,
     SetStatus, Reread, CacheResult, FailAttempt, Rethrow, EndAttempt, Throw
<1>11. ASSUME Cancel \/ Read \/ EntryExpires \/ UNCHANGED vars
       PROVE  UNCHANGED <<page, edit>>
  BY <1>11 DEF Cancel, CancelCheck, CancelWrite, CancelInvalidate, Read, ReadMiss, ReadRow,
     ReadPages, StoreEntry, EntryExpires, vars
<1> QED
  BY <1>3, <1>4, <1>5, <1>6, <1>7, <1>8, <1>9, <1>10, <1>11 DEF Next, Work, Edit

(* Cancellation *)

\* A cancelled discovery stays cancelled while no attempt is past its look at the
\* row.
LEMMA CancelStep ==
  ASSUME TypeOK, JobInv, [Next]_vars, status = "CANCELLED", worker.pc \notin Started
  PROVE  status' = "CANCELLED" /\ worker'.pc \notin Started
<1> USE DEF Started
<1>1. CASE Aside
  BY <1>1 DEF Aside
<1>2. ~CreateRow
  BY DEF JobInv, CreateRow
<1>3. ~SetRunning /\ ~FindPages /\ ~SavePages /\ ~Complete
  BY DEF SetRunning, FindPages, SavePages, Complete, SetStatus
<1>4. CASE QueueJob \/ CancelWrite
  BY <1>4 DEF QueueJob, CancelWrite
<1>5. CASE Claim \/ Load \/ Reread \/ CacheResult \/ Throw
  BY <1>5 DEF Claim, Take, Load, Reread, CacheResult, Throw, Goto, TypeOK, WorkerCall
<1>6. CASE FailAttempt \/ EndAttempt \/ Crash
  BY <1>6, IdleCalls DEF FailAttempt, Rethrow, EndAttempt, Crash
<1> QED
  BY <1>1, <1>2, <1>3, <1>4, <1>5, <1>6, AsideSteps DEF Next, Work, Cancel, Read

(* Theorems *)

\* The invariant holds in every behaviour.
LEMMA Invariance == Spec => []IInv
<1>1. IInv /\ [Next]_vars => IInv'
  BY TypeStep, JobStep, PageStep DEF IInv
<1> QED
  BY InitInv, <1>1, PTL DEF Spec

\* The handlers of discovery.service.ts and the job of discovery.worker.ts keep
\* the types of everything they share.
THEOREM DiscoveryTypeCorrect == Spec => []TypeOK
BY Invariance, PTL DEF IInv

\* The catch block of processDiscoveryJob never takes an attempt for the last
\* one, for any number of attempts, crashes and errors.
THEOREM LastAttemptIsNeverSeen == Spec => []LastAttemptNeverSeen
<1>1. IInv => LastAttemptNeverSeen
  BY DEF IInv, TypeOK, JobInv, JobRow, LastAttemptNeverSeen
<1> QED
  BY <1>1, Invariance, PTL

\* A job that the queue reports completed leaves the discovery COMPLETED or
\* CANCELLED, whatever failed before and whoever cancelled meanwhile.
THEOREM CompletedJobsAreDone == Spec => []CompletedJobIsDone
<1>1. IInv => CompletedJobIsDone
  BY DEF IInv, DoneInv, CompletedJobIsDone
<1> QED
  BY <1>1, Invariance, PTL

\* removeManualUrl never deletes a page the worker found, for any site, any
\* number of requests at the same time and any reuse of a URL.
THEOREM FoundPagesAreKept == Spec => FoundPagesStay
<1>1. IInv /\ [Next]_vars
        => [\A u \in Urls : page[u].source = "found" => page'[u] = page[u]]_vars
  BY PageStep DEF FoundKept
<1> QED
  BY <1>1, Invariance, PTL DEF Spec, FoundPagesStay

\* cancelDiscovery: a discovery that is CANCELLED while no attempt is past its
\* look at the row stays CANCELLED for good.
THEOREM CancellationsStick == Spec => CancelSticks
<1>1. IInv /\ [Next]_vars
        => [status = "CANCELLED" /\ worker.pc \notin Started
              => status' = "CANCELLED" /\ worker'.pc \notin Started]_vars
  BY CancelStep DEF IInv
<1> QED
  BY <1>1, Invariance, PTL DEF Spec, CancelSticks

=============================================================================
