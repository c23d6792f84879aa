-------------------------- MODULE AiScanCliProofs --------------------------
(***************************************************************************)
(* Proofs about AiScanCli: type correctness, the accounting of the rows of *)
(* a file that is filed as processed, what a result leaves out, and the    *)
(* checkpoints that no run leaves behind.                                  *)
(***************************************************************************)
EXTENDS AiScanCli, FiniteSetTheorems, NaturalsInduction, WellFoundedInduction,
        TLAPS

(***************************************************************************)
(* The inductive invariant                                                 *)
(***************************************************************************)
\* Where a run works on a file, on one of its mini-batches, on a scan.
ScanPcs == {"init", "initrename", "verify", "mark", "markrename"}
MiniPcs == {"mini", "scans"} \union ScanPcs
FilePcs == {"parse", "csv", "failcsv", "move", "empty", "tofailed", "rescue"}
             \union MiniPcs
\* Where it has not begun with a file.
FreshPcs == {"idle", "parse", "list", "release"} \union LockPcs

\* A run knows its file, its mini-batch and its scan where it uses them, and
\* it begins every file with nothing.
RunOK(p) ==
    /\ run[p].pc \in FilePcs => run[p].todo # {}
    /\ run[p].pc \in MiniPcs => run[p].mini <= Len(MiniBatches[File(p)])
    /\ run[p].scan # {} <=> run[p].pc \in ScanPcs
    /\ run[p].scans # {} => run[p].pc \in ScanPcs \union {"scans"}
    /\ run[p].pc \in {"mark", "markrename"} => run[p].batch <= NBatches
    /\ run[p].pc \in FreshPcs =>
         run[p].mini = 1 /\ run[p].results = {} /\ run[p].failed = {}

RunInv == \A p \in Runs : RunOK(p)

\* The scan s is among the failures, the results or the work left of p.
Seen(p, s) ==
    \/ s \in run[p].failed \/ s \in run[p].scans \/ s \in run[p].scan
    \/ \E r \in run[p].results : r.scan = s

\* No scan of a mini-batch is forgotten, and when a run comes to move its file
\* to processed/ the results and the failures have been written.
AccountOK(p) ==
    /\ run[p].pc \in FilePcs =>
         /\ \A r \in run[p].results : r.scan \in RowsOf(File(p))
         /\ run[p].scans \subseteq RowsOf(File(p))
         /\ run[p].scan \subseteq RowsOf(File(p))
    /\ run[p].pc \in MiniPcs =>
         \A i \in DOMAIN MiniBatches[File(p)] :
             (i < run[p].mini \/ (i = run[p].mini /\ run[p].pc # "mini")) =>
                 \A s \in MiniBatches[File(p)][i] : Seen(p, s)
    /\ run[p].pc \in {"csv", "failcsv", "move"} =>
         \A s \in RowsOf(File(p)) : Seen(p, s)
    /\ run[p].pc \in {"failcsv", "move"} =>
         \A r \in run[p].results : r.scan \in ResultWritten
    /\ run[p].pc = "move" => run[p].failed \subseteq FailureWritten

AccountInv == \A p \in Runs : AccountOK(p)

\* Unless a call failed, a batch that is marked, skipped or passed over is in
\* the result or in the cache.
CacheOK(p) ==
    /\ \A s \in run[p].scan :
         /\ \A b \in run[p].skip : <<Content[s], b>> \in cached
         /\ \A b \in 1 .. (run[p].batch - 1) :
              b \in run[p].ver \/ <<Content[s], b>> \in cached
         /\ run[p].pc = "mark" => <<Content[s], run[p].batch>> \in cached
    /\ \A r \in run[p].results : \A b \in Batches :
         r.whole => b \in r.ver \/ <<Content[r.scan], b>> \in cached

\* Every batch that a checkpoint has, or its temporary file, is cached.
MarkedIsCached ==
    \A s \in Scans : \A b \in ckpt[s].done \union tmp[s].done :
        <<Content[s], b>> \in cached

CacheInv == errors = 0 => MarkedIsCached /\ \A p \in Runs : CacheOK(p)

\* Unless something failed or was killed, a checkpoint belongs to a run.
Verifies(p, s) == run[p].scan = {s} /\ run[p].pc \in {"verify", "mark", "markrename"}

CheckpointInv ==
    errors = 0 /\ kills = 0 =>
        \A s \in Scans : ckpt[s].saved => \E p \in Runs : Verifies(p, s)

\* The inductive invariant of AiScanCli.
IInv == /\ TypeOK /\ RunInv
        /\ AccountInv /\ ProcessedIsAccounted
        /\ CacheInv /\ CheckpointInv

(***************************************************************************)
(* The operators of the model                                              *)
(***************************************************************************)
\* A nonempty set of numbers has a least element: what File and Following
\* choose exists.
LEMMA LeastIsLeast ==
    ASSUME NEW S \in SUBSET Nat, S # {}
    PROVE  Least(S) \in S /\ \A m \in S : Least(S) <= m
<1> DEFINE R == OpToRel(<, Nat)
<1>1. IsWellFoundedOn(R, Nat)
  BY NatLessThanWellFounded
<1>2. \A x, y \in Nat : x < y => <<x, y>> \in R
  BY DEF OpToRel
<1> HIDE DEF R
<1>3. PICK n \in S : \A y \in S : ~(<<y, n>> \in R)
  BY <1>1, WFMin
<1>4. ASSUME NEW m \in S
      PROVE  n <= m
  <2>1. ~(<<m, n>> \in R)
    BY <1>3
  <2>2. ~(m < n)
    BY <1>2, <2>1
  <2> QED
    BY <2>2
<1> QED
  BY <1>4 DEF Least

\* The batch to go on with is the first that is not to be skipped.
LEMMA FollowingBatch ==
    ASSUME NEW b \in 1 .. NBatches + 1, NEW done \in SUBSET Batches
    PROVE  /\ Following(b, done) \in b .. NBatches + 1
           /\ Following(b, done) \in 1 .. NBatches + 1
           /\ \A n \in b .. (Following(b, done) - 1) : n \in done
<1> DEFINE S == (b .. NBatches + 1) \ done
           f == Following(b, done)
<1>0. NBatches \in Nat
  BY LimitsAreNumbers
<1>1. S \in SUBSET Nat
  BY <1>0
<1>2. NBatches + 1 \in S
  BY <1>0 DEF Batches
<1>3. f \in S /\ \A m \in S : f <= m
  <2> HIDE DEF S
  <2> QED
    BY <1>1, <1>2, LeastIsLeast DEF Following, S
<1>4. f \in b .. NBatches + 1 /\ f \in 1 .. NBatches + 1
  BY <1>0, <1>3
<1>5. ASSUME NEW n \in b .. (f - 1)
      PROVE  n \in done
  <2>1. n \in b .. NBatches + 1 /\ ~(f <= n)
    BY <1>0, <1>4
  <2> QED
    BY <1>3, <2>1
<1> QED
  BY <1>4, <1>5

\* The file of a run that has files to do.
LEMMA FileToDo ==
    ASSUME TypeOK, NEW p \in Runs, run[p].todo # {}
    PROVE  File(p) \in run[p].todo /\ File(p) \in Files
<1>1. run[p].todo \in SUBSET Files
  BY DEF TypeOK, RunState
<1>2. run[p].todo \in SUBSET Nat
  BY <1>1, FilesAreNumbered
<1> QED
  BY <1>1, <1>2, LeastIsLeast DEF File

\* The scans of a file are those of its mini-batches.
LEMMA Rows ==
    ASSUME NEW f \in Files
    PROVE  /\ MiniBatches[f] \in Seq(SUBSET Scans)
           /\ Len(MiniBatches[f]) \in Nat
           /\ DOMAIN MiniBatches[f] = 1 .. Len(MiniBatches[f])
           /\ \A i \in DOMAIN MiniBatches[f] :
                MiniBatches[f][i] \subseteq Scans /\ MiniBatches[f][i] \subseteq RowsOf(f)
           /\ RowsOf(f) \subseteq Scans
           /\ \A s \in RowsOf(f) :
                \E i \in DOMAIN MiniBatches[f] : s \in MiniBatches[f][i]
<1>1. MiniBatches[f] \in Seq(SUBSET Scans)
  BY RowsAreScans
<1>2. Len(MiniBatches[f]) \in Nat /\ DOMAIN MiniBatches[f] = 1 .. Len(MiniBatches[f])
  BY <1>1
<1>3. \A i \in DOMAIN MiniBatches[f] : MiniBatches[f][i] \subseteq Scans
  BY <1>1
<1>4. \A i \in DOMAIN MiniBatches[f] : MiniBatches[f][i] \subseteq RowsOf(f)
  BY DEF RowsOf
<1>5. \A s \in RowsOf(f) : \E i \in DOMAIN MiniBatches[f] : s \in MiniBatches[f][i]
  BY DEF RowsOf
<1> QED
  BY <1>1, <1>2, <1>3, <1>4, <1>5

\* At most MaxFiles files are listed: how many come before it numbers them
\* from 0 to MaxFiles - 1, each file differently.
LEMMA ListedIsLimited ==
    Listed \in SUBSET Files /\ Cardinality(Listed) <= MaxFiles
<1> DEFINE before(f) == {g \in Pending : g < f}
           rank == [f \in Listed |-> Cardinality(before(f))]
           T == 0 .. MaxFiles - 1
<1>0. MaxFiles \in Nat
  BY LimitsAreNumbers
<1>1. Pending \in SUBSET Files /\ IsFiniteSet(Pending)
  BY FilesAreNumbered, FS_Subset DEF Pending
<1>2. Listed \in SUBSET Pending
  BY DEF Listed
<1>3. \A f \in Files : IsFiniteSet(before(f)) /\ Cardinality(before(f)) \in Nat
  BY <1>1, FS_Subset, FS_CardinalityType
<1>4. ASSUME NEW f \in Pending, NEW g \in Pending, f < g
      PROVE  Cardinality(before(f)) < Cardinality(before(g))
  <2>1. f \in Nat /\ g \in Nat /\ Pending \in SUBSET Nat
    BY <1>1, FilesAreNumbered
  <2>2. before(f) \in SUBSET before(g)
    <3> SUFFICES ASSUME NEW h \in before(f)
                 PROVE  h \in before(g)
      OBVIOUS
    <3>1. h \in Nat /\ h < f
      BY <2>1
    <3> QED
      BY <1>4, <2>1, <3>1
  <2>3. f \in before(g) /\ f \notin before(f)
    BY <2>1, <1>4
  <2>4. before(f) # before(g)
    BY <2>3
  <2> HIDE DEF before
  <2> QED
    BY <1>1, <1>3, <2>2, <2>4, FS_Subset
<1>5. \A f \in Listed : Cardinality(before(f)) \in T
  <2> TAKE f \in Listed
  <2>1. f \in Files
    BY <1>1, <1>2
  <2>2. Cardinality(before(f)) < MaxFiles
    BY DEF Listed
  <2> QED
    BY <1>0, <1>3, <2>1, <2>2
<1>6. ASSUME NEW f \in Listed, NEW g \in Listed, f # g
      PROVE  Cardinality(before(f)) # Cardinality(before(g))
  <2>1. f \in Nat /\ g \in Nat /\ f \in Pending /\ g \in Pending
    BY <1>1, <1>2, FilesAreNumbered
  <2>2. Cardinality(before(f)) \in Nat /\ Cardinality(before(g)) \in Nat
    BY <1>1, <1>3, <2>1
  <2> HIDE DEF before
  <2>3. f < g \/ g < f
    BY <2>1, <1>6
  <2> QED
    BY <1>4, <2>1, <2>2, <2>3
<1>7. rank \in Injection(Listed, T)
  <2> HIDE DEF before, T
  <2> QED
    BY <1>5, <1>6 DEF Injection, IsInjective
<1>8. IsFiniteSet(T) /\ Cardinality(T) = MaxFiles
  BY <1>0, FS_Interval
<1> HIDE DEF T, rank
<1>9. Cardinality(Listed) <= Cardinality(T)
  BY <1>7, <1>8, FS_Injection
<1> QED
  BY <1>1, <1>2, <1>8, <1>9

(***************************************************************************)
(* What a step does to the memory of a run                                 *)
(***************************************************************************)
\* The runs other than p remember what they did.
OnlyRun(p) ==
    /\ run' \in [Runs -> RunState]
    /\ \A q \in Runs : q # p => run'[q] = run[q]

\* x is a state of a run.
LEMMA Update ==
    ASSUME TypeOK, NEW p \in Runs, NEW x \in RunState, run' = [run EXCEPT ![p] = x]
    PROVE  OnlyRun(p) /\ run'[p] = x
BY DEF TypeOK, OnlyRun

\* A run that goes on remembers what it did.
LEMMA GotoEffect ==
    ASSUME TypeOK, NEW p \in Runs, NEW pc \in {"idle"} \union LockPcs \union WorkPcs,
           Goto(p, pc)
    PROVE  /\ OnlyRun(p)
           /\ run'[p] = [run[p] EXCEPT !.pc = pc]
           /\ run'[p].pc = pc /\ run'[p].todo = run[p].todo
           /\ run'[p].mini = run[p].mini /\ run'[p].scans = run[p].scans
           /\ run'[p].results = run[p].results /\ run'[p].failed = run[p].failed
           /\ run'[p].scan = run[p].scan /\ run'[p].batch = run[p].batch
           /\ run'[p].ver = run[p].ver /\ run'[p].skip = run[p].skip
<1> DEFINE x == [run[p] EXCEPT !.pc = pc]
<1>1. run[p] \in RunState
  BY DEF TypeOK
<1>2. x \in RunState
  BY <1>1 DEF RunState
<1>3. run' = [run EXCEPT ![p] = x]
  BY DEF Goto
<1>4. OnlyRun(p) /\ run'[p] = x
  <2> HIDE DEF x
  <2> QED
    BY <1>2, <1>3, Update
<1> QED
  BY <1>1, <1>4 DEF RunState

\* A run that has not begun is well typed.
LEMMA IdleState ==
    Idle \in RunState
<1>1. 1 \in 1 .. NBatches + 1
  BY LimitsAreNumbers
<1> QED
  BY <1>1 DEF RunState, Idle

\* A run that ends, or begins with the next file, begins with nothing.
LEMMA ResetEffect ==
    ASSUME TypeOK, NEW p \in Runs, NEW pc \in {"idle", "parse"}, NEW todo \in SUBSET Files,
           run' = [run EXCEPT ![p] = [Idle EXCEPT !.pc = pc, !.todo = todo]]
    PROVE  /\ OnlyRun(p)
           /\ run'[p].pc = pc /\ run'[p].todo = todo
           /\ run'[p].mini = 1 /\ run'[p].scans = {}
           /\ run'[p].results = {} /\ run'[p].failed = {}
           /\ run'[p].scan = {} /\ run'[p].batch = 1
           /\ run'[p].ver = {} /\ run'[p].skip = {}
<1> DEFINE x == [Idle EXCEPT !.pc = pc, !.todo = todo]
<1>1. Idle \in RunState
  BY IdleState
<1>2. x \in RunState
  BY <1>1 DEF RunState, WorkPcs
<1>3. OnlyRun(p) /\ run'[p] = x
  <2> HIDE DEF x
  <2> QED
    BY <1>2, Update DEF x
<1>4. x.pc = pc /\ x.todo = todo
  BY <1>1 DEF RunState
<1>5. /\ x.mini = Idle.mini /\ x.scans = Idle.scans /\ x.results = Idle.results
      /\ x.failed = Idle.failed /\ x.scan = Idle.scan /\ x.batch = Idle.batch
      /\ x.ver = Idle.ver /\ x.skip = Idle.skip
  BY <1>1 DEF RunState
<1>6. /\ Idle.mini = 1 /\ Idle.scans = {} /\ Idle.results = {} /\ Idle.failed = {}
      /\ Idle.scan = {} /\ Idle.batch = 1 /\ Idle.ver = {} /\ Idle.skip = {}
  BY DEF Idle
<1> HIDE DEF x
<1> QED
  BY <1>3, <1>4, <1>5, <1>6

\* A run that ends forgets all it held and changes its own state only.
LEMMA EndsEffect ==
    ASSUME TypeOK, NEW p \in Runs, run' = [run EXCEPT ![p] = Idle]
    PROVE  /\ OnlyRun(p)
           /\ run'[p].pc = "idle" /\ run'[p].todo = {}
           /\ run'[p].mini = 1 /\ run'[p].scans = {}
           /\ run'[p].results = {} /\ run'[p].failed = {}
           /\ run'[p].scan = {} /\ run'[p].batch = 1
           /\ run'[p].ver = {} /\ run'[p].skip = {}
<1>1. Idle \in RunState
  BY IdleState
<1>2. OnlyRun(p) /\ run'[p] = Idle
  BY <1>1, Update
<1> QED
  BY <1>2 DEF Idle

\* A run that takes the files it has listed.
LEMMA TakeEffect ==
    ASSUME TypeOK, NEW p \in Runs, NEW todo \in SUBSET Files,
           run' = [run EXCEPT ![p].pc = "parse", ![p].todo = todo]
    PROVE  /\ OnlyRun(p)
           /\ run'[p].pc = "parse" /\ run'[p].todo = todo
           /\ run'[p].mini = run[p].mini /\ run'[p].scans = run[p].scans
           /\ run'[p].results = run[p].results /\ run'[p].failed = run[p].failed
           /\ run'[p].scan = run[p].scan /\ run'[p].batch = run[p].batch
           /\ run'[p].ver = run[p].ver /\ run'[p].skip = run[p].skip
<1> DEFINE x == [run[p] EXCEPT !.pc = "parse", !.todo = todo]
<1>1. run[p] \in RunState
  BY DEF TypeOK
<1>2. x \in RunState
  BY <1>1 DEF RunState, WorkPcs
<1>3. run' = [run EXCEPT ![p] = x]
  OBVIOUS
<1>4. OnlyRun(p) /\ run'[p] = x
  <2> HIDE DEF x
  <2> QED
    BY <1>2, <1>3, Update
<1>5. x.pc = "parse" /\ x.todo = todo
  BY <1>1 DEF RunState
<1>6. /\ x.mini = run[p].mini /\ x.scans = run[p].scans /\ x.results = run[p].results
      /\ x.failed = run[p].failed /\ x.scan = run[p].scan /\ x.batch = run[p].batch
      /\ x.ver = run[p].ver /\ x.skip = run[p].skip
  BY <1>1 DEF RunState
<1> HIDE DEF x
<1> QED
  BY <1>4, <1>5, <1>6

\* The scans of a mini-batch: those to do, and those that have failed.
LEMMA ScansEffect ==
    ASSUME TypeOK, NEW p \in Runs,
           NEW scans \in SUBSET Scans, NEW failed \in SUBSET Scans,
           run' = [run EXCEPT ![p].pc = "scans", ![p].scans = scans, ![p].failed = failed]
    PROVE  /\ OnlyRun(p)
           /\ run'[p].pc = "scans" /\ run'[p].todo = run[p].todo
           /\ run'[p].mini = run[p].mini /\ run'[p].scans = scans
           /\ run'[p].results = run[p].results /\ run'[p].failed = failed
           /\ run'[p].scan = run[p].scan /\ run'[p].batch = run[p].batch
           /\ run'[p].ver = run[p].ver /\ run'[p].skip = run[p].skip
<1> DEFINE x == [run[p] EXCEPT !.pc = "scans", !.scans = scans, !.failed = failed]
<1>1. run[p] \in RunState
  BY DEF TypeOK
<1>2. x \in RunState
  BY <1>1 DEF RunState, WorkPcs
<1>3. run' = [run EXCEPT ![p] = x]
  OBVIOUS
<1>4. OnlyRun(p) /\ run'[p] = x
  <2> HIDE DEF x
  <2> QED
    BY <1>2, <1>3, Update
<1>5. x.pc = "scans" /\ x.scans = scans /\ x.failed = failed
  BY <1>1 DEF RunState
<1>6. /\ x.todo = run[p].todo /\ x.mini = run[p].mini /\ x.results = run[p].results
      /\ x.scan = run[p].scan /\ x.batch = run[p].batch
      /\ x.ver = run[p].ver /\ x.skip = run[p].skip
  BY <1>1 DEF RunState
<1> HIDE DEF x
<1> QED
  BY <1>4, <1>5, <1>6

\* The analysis of a scan has a result: its criteria are verified next.
LEMMA AnalyseEffect ==
    ASSUME TypeOK, NEW p \in Runs, NEW s \in Scans, Analyse(p, s)
    PROVE  /\ OnlyRun(p)
           /\ run'[p].pc = (IF ckpt[s].saved THEN "verify" ELSE "init")
           /\ run'[p].todo = run[p].todo
           /\ run'[p].mini = run[p].mini /\ run'[p].scans = run[p].scans \ {s}
           /\ run'[p].results = run[p].results /\ run'[p].failed = run[p].failed
           /\ run'[p].scan = {s} /\ run'[p].batch = Following(1, ckpt[s].done)
           /\ run'[p].ver = {} /\ run'[p].skip = ckpt[s].done
<1> DEFINE pc == IF ckpt[s].saved THEN "verify" ELSE "init"
           b == Following(1, ckpt[s].done)
           x == [run[p] EXCEPT !.pc = pc, !.scans = @ \ {s}, !.scan = {s},
                               !.batch = b, !.ver = {}, !.skip = ckpt[s].done]
<1>1. run[p] \in RunState /\ ckpt[s].done \in SUBSET Batches
  BY DEF TypeOK, Checkpoint
<1>2. b \in 1 .. NBatches + 1
  <2>1. 1 \in 1 .. NBatches + 1
    BY LimitsAreNumbers
  <2> QED
    BY <1>1, <2>1, FollowingBatch
<1>3. run' = [run EXCEPT ![p] = x]
  BY DEF Analyse
<1> HIDE DEF b
<1>4. x \in RunState
  BY <1>1, <1>2 DEF RunState, WorkPcs
<1>5. OnlyRun(p) /\ run'[p] = x
  <2> HIDE DEF x
  <2> QED
    BY <1>3, <1>4, Update
<1>6. run'[p].batch = b
  BY <1>1, <1>5 DEF RunState
<1> QED
  BY <1>1, <1>5, <1>6 DEF RunState, b

\* The scan is a result of the run.
LEMMA ResultEffect ==
    ASSUME TypeOK, NEW p \in Runs, run[p].scan = {Scan(p)}, Scan(p) \in Scans,
           NEW ver \in SUBSET Batches, NEW whole \in BOOLEAN, Result(p, ver, whole)
    PROVE  /\ OnlyRun(p)
           /\ run'[p].pc = "scans" /\ run'[p].todo = run[p].todo
           /\ run'[p].mini = run[p].mini /\ run'[p].scans = run[p].scans
           /\ run'[p].results = run[p].results
                                \union {[scan |-> Scan(p), ver |-> ver, whole |-> whole]}
           /\ run'[p].failed = run[p].failed
           /\ run'[p].scan = {} /\ run'[p].batch = 1
           /\ run'[p].ver = {} /\ run'[p].skip = {}
<1> DEFINE row == [scan |-> Scan(p), ver |-> ver, whole |-> whole]
           x == [run[p] EXCEPT !.pc = "scans", !.scan = {}, !.skip = {}, !.ver = {},
                               !.batch = 1, !.results = @ \union {row}]
<1>1. run[p] \in RunState
  BY DEF TypeOK
<1>2. row \in Row
  BY DEF Row
<1>3. run' = [run EXCEPT ![p] = x]
  BY <1>1 DEF Result
<1> HIDE DEF row
<1>4. 1 \in 1 .. NBatches + 1
  BY LimitsAreNumbers
<1>5. x \in RunState
  BY <1>1, <1>2, <1>4 DEF RunState, WorkPcs
<1>6. OnlyRun(p) /\ run'[p] = x
  <2> HIDE DEF x
  <2> QED
    BY <1>3, <1>5, Update
<1>7. run'[p].results = run[p].results \union {row}
  BY <1>1, <1>6 DEF RunState
<1> QED
  BY <1>1, <1>2, <1>6, <1>7 DEF RunState, row

\* A batch is in the result, and the next one is due.
LEMMA NextBatchEffect ==
    ASSUME TypeOK, NEW p \in Runs, run[p].batch <= NBatches, NextBatch(p)
    PROVE  /\ OnlyRun(p)
           /\ run'[p].pc = "verify" /\ run'[p].todo = run[p].todo
           /\ run'[p].mini = run[p].mini /\ run'[p].scans = run[p].scans
           /\ run'[p].results = run[p].results /\ run'[p].failed = run[p].failed
           /\ run'[p].scan = run[p].scan
           /\ run'[p].batch = Following(run[p].batch + 1, run[p].skip)
           /\ run'[p].ver = run[p].ver \union {run[p].batch}
           /\ run'[p].skip = run[p].skip
           /\ run[p].batch + 1 \in 1 .. NBatches + 1
<1> DEFINE b == Following(run[p].batch + 1, run[p].skip)
           x == [run[p] EXCEPT !.pc = "verify", !.ver = @ \union {run[p].batch},
                               !.batch = b]
<1>1. run[p] \in RunState
  BY DEF TypeOK
<1>2. run[p].skip \in SUBSET Batches /\ run[p].batch \in 1 .. NBatches + 1
  BY <1>1 DEF RunState
<1>3. run[p].batch \in Batches /\ run[p].batch + 1 \in 1 .. NBatches + 1
  BY <1>2, LimitsAreNumbers DEF Batches
<1>4. b \in 1 .. NBatches + 1
  BY <1>2, <1>3, FollowingBatch
<1>5. run' = [run EXCEPT ![p] = x]
  BY DEF NextBatch
<1> HIDE DEF b
<1>6. x \in RunState
  BY <1>1, <1>3, <1>4 DEF RunState, WorkPcs
<1>7. OnlyRun(p) /\ run'[p] = x
  <2> HIDE DEF x
  <2> QED
    BY <1>5, <1>6, Update
<1>8. run'[p].batch = b
  BY <1>1, <1>7 DEF RunState
<1> QED
  BY <1>1, <1>3, <1>7, <1>8 DEF RunState, b

\* On to the next mini-batch of the file.
LEMMA MiniEffect ==
    ASSUME TypeOK, NEW p \in Runs,
           run' = [run EXCEPT ![p].pc = "mini", ![p].mini = @ + 1]
    PROVE  /\ OnlyRun(p)
           /\ run'[p].pc = "mini" /\ run'[p].todo = run[p].todo
           /\ run'[p].mini = run[p].mini + 1 /\ run'[p].scans = run[p].scans
           /\ run'[p].results = run[p].results /\ run'[p].failed = run[p].failed
           /\ run'[p].scan = run[p].scan /\ run'[p].batch = run[p].batch
           /\ run'[p].ver = run[p].ver /\ run'[p].skip = run[p].skip
<1> DEFINE x == [run[p] EXCEPT !.pc = "mini", !.mini = @ + 1]
<1>1. run[p] \in RunState
  BY DEF TypeOK
<1>2. x \in RunState
  <2>1. run[p].mini + 1 \in Nat \ {0}
    BY <1>1 DEF RunState
  <2> QED
    BY <1>1, <2>1 DEF RunState, WorkPcs
<1>3. run' = [run EXCEPT ![p] = x]
  OBVIOUS
<1>4. OnlyRun(p) /\ run'[p] = x
  <2> HIDE DEF x
  <2> QED
    BY <1>2, <1>3, Update
<1>5. x.pc = "mini" /\ x.mini = run[p].mini + 1
  BY <1>1 DEF RunState
<1>6. /\ x.todo = run[p].todo /\ x.scans = run[p].scans /\ x.results = run[p].results
      /\ x.failed = run[p].failed /\ x.scan = run[p].scan /\ x.batch = run[p].batch
      /\ x.ver = run[p].ver /\ x.skip = run[p].skip
  BY <1>1 DEF RunState
<1> HIDE DEF x
<1> QED
  BY <1>4, <1>5, <1>6

\* The files left to a run, without the one it has done.
Rest(p) == run[p].todo \ {File(p)}

\* The run goes on to its next file, or ends.
LEMMA NextFileEffect ==
    ASSUME TypeOK, NEW p \in Runs, NextFile(p)
    PROVE  /\ OnlyRun(p)
           /\ run'[p].pc \in {"idle", "parse"} /\ run'[p].todo = Rest(p)
           /\ run'[p].pc = "parse" => Rest(p) # {}
           /\ run'[p].mini = 1 /\ run'[p].scans = {}
           /\ run'[p].results = {} /\ run'[p].failed = {}
           /\ run'[p].scan = {} /\ run'[p].batch = 1
           /\ run'[p].ver = {} /\ run'[p].skip = {}
           /\ Rest(p) \in SUBSET Files /\ Cardinality(Rest(p)) <= MaxFiles
           /\ lock' = lock \/ Ends(p)
<1>1. /\ run[p].todo \in SUBSET Files /\ IsFiniteSet(run[p].todo)
      /\ Cardinality(run[p].todo) <= MaxFiles
  <2>1. run[p].todo \in SUBSET Files /\ Cardinality(run[p].todo) <= MaxFiles
    BY DEF TypeOK, RunState
  <2> QED
    BY <2>1, FilesAreNumbered, FS_Subset
<1>2. Rest(p) \in SUBSET run[p].todo
  BY DEF Rest
<1>3. Rest(p) \in SUBSET Files /\ Cardinality(Rest(p)) <= MaxFiles
  <2>1. Cardinality(Rest(p)) <= Cardinality(run[p].todo) /\ IsFiniteSet(Rest(p))
    BY <1>1, <1>2, FS_Subset
  <2>2. Cardinality(Rest(p)) \in Nat /\ Cardinality(run[p].todo) \in Nat /\ MaxFiles \in Nat
    BY <1>1, <2>1, FS_CardinalityType, LimitsAreNumbers
  <2> QED
    BY <1>1, <1>2, <2>1, <2>2
<1>4. CASE Rest(p) # {}
  <2>1. run' = [run EXCEPT ![p] = [Idle EXCEPT !.pc = "parse", !.todo = Rest(p)]]
        /\ lock' = lock
    BY <1>4 DEF NextFile, Rest
  <2> QED
    BY <1>3, <1>4, <2>1, ResetEffect
<1>5. CASE Rest(p) = {}
  <2>1. Ends(p)
    BY <1>5 DEF NextFile, Rest
  <2>2. run' = [run EXCEPT ![p] = Idle]
    BY <2>1 DEF Ends
  <2> QED
    BY <1>3, <1>5, <2>1, <2>2, EndsEffect
<1> QED
  BY <1>4, <1>5

(***************************************************************************)
(* Type correctness                                                        *)
(***************************************************************************)
\* The types of the outputs.
OutputTypes ==
    /\ out \subseteq Scans /\ now \in [Files -> SUBSET Scans] /\ lost \subseteq Scans
    /\ failedOut \subseteq Scans /\ failedNow \subseteq Scans /\ failedLost \subseteq Scans

\* The types of what the runs share.
SharedTypes ==
    /\ lock \in [by : Runs \union {"nobody", Dead}, written : BOOLEAN]
    /\ at \in [Files -> {"input", "processed", "failed"}]
    /\ OutputTypes
    /\ cached \subseteq {Content[s] : s \in Scans} \X Batches
    /\ ckpt \in [Scans -> Checkpoint] /\ tmp \in [Scans -> Checkpoint]
    /\ errors \in Nat /\ kills \in Nat /\ errors + kills <= MaxFaults

\* The limits of what a run remembers.
RunLimits(p) ==
    /\ Cardinality(run[p].todo) <= MaxFiles
    /\ run[p].scan = {} \/ \E s \in Scans : run[p].scan = {s}

\* A step of p keeps the types when it keeps those of the shared state and
\* the limits of p.
LEMMA TypeOfStep ==
    ASSUME TypeOK, NEW p \in Runs, OnlyRun(p), SharedTypes', RunLimits(p)'
    PROVE  TypeOK'
<1>1. run' \in [Runs -> RunState]
  BY DEF OnlyRun
<1>2. \A q \in Runs : RunLimits(q)'
  <2> TAKE q \in Runs
  <2>1. CASE q = p
    BY <2>1
  <2>2. CASE q # p
    BY <2>2 DEF TypeOK, OnlyRun, RunLimits
  <2> QED
    BY <2>1, <2>2
<1> QED
  BY <1>1, <1>2 DEF TypeOK, SharedTypes, OutputTypes, RunLimits

\* A step that fails counts, one that works does not.
LEMMA FaultTypes ==
    ASSUME TypeOK
    PROVE  /\ Works /\ UNCHANGED kills =>
                errors' \in Nat /\ kills' \in Nat /\ errors' + kills' <= MaxFaults
           /\ Fails /\ UNCHANGED kills =>
                errors' \in Nat /\ kills' \in Nat /\ errors' + kills' <= MaxFaults
           /\ MayKill /\ UNCHANGED errors =>
                errors' \in Nat /\ kills' \in Nat /\ errors' + kills' <= MaxFaults
BY LimitsAreNumbers DEF TypeOK, Works, Fails, MayKill

\* What a run that ends does to the lock.
LEMMA EndsLock ==
    ASSUME TypeOK, NEW p \in Runs, Ends(p)
    PROVE  lock' \in [by : Runs \union {"nobody", Dead}, written : BOOLEAN]
BY DEF TypeOK, Ends

\* A run that ends, or goes on, is within its limits.
LEMMA EndsLimits ==
    ASSUME TypeOK, NEW p \in Runs, run' = [run EXCEPT ![p] = Idle]
    PROVE  OnlyRun(p) /\ RunLimits(p)'
<1>1. OnlyRun(p) /\ run'[p].todo = {} /\ run'[p].scan = {}
  BY EndsEffect
<1> QED
  BY <1>1, FS_EmptySet, LimitsAreNumbers DEF RunLimits

\* A run that moves on within its work keeps its files and its scan.
LEMMA GotoLimits ==
    ASSUME TypeOK, NEW p \in Runs, NEW pc \in LockPcs \union WorkPcs, Goto(p, pc)
    PROVE  OnlyRun(p) /\ RunLimits(p)'
<1>1. OnlyRun(p) /\ run'[p].todo = run[p].todo /\ run'[p].scan = run[p].scan
  BY GotoEffect
<1> QED
  BY <1>1 DEF RunLimits, TypeOK

\* The scan a run works on.
LEMMA TheScan ==
    ASSUME TypeOK, NEW p \in Runs, run[p].scan # {}
    PROVE  run[p].scan = {Scan(p)} /\ Scan(p) \in Scans
BY DEF TypeOK, Scan

\* A scan that cannot be analysed is a failure.
LEMMA AnalysisFailsEffect ==
    ASSUME TypeOK, NEW p \in Runs, NEW s \in Scans, AnalysisFails(p, s)
    PROVE  /\ OnlyRun(p)
           /\ run'[p].pc = "scans" /\ run'[p].todo = run[p].todo
           /\ run'[p].mini = run[p].mini /\ run'[p].scans = run[p].scans \ {s}
           /\ run'[p].results = run[p].results
           /\ run'[p].failed = run[p].failed \union {s}
           /\ run'[p].scan = run[p].scan /\ run'[p].batch = run[p].batch
           /\ run'[p].ver = run[p].ver /\ run'[p].skip = run[p].skip
<1> DEFINE scans == run[p].scans \ {s}
           failed == run[p].failed \union {s}
           x == [run[p] EXCEPT !.scans = scans, !.failed = failed]
<1>1. run[p] \in RunState /\ run[p].pc = "scans"
  BY DEF TypeOK, AnalysisFails
<1>2. scans \in SUBSET Scans /\ failed \in SUBSET Scans
  BY <1>1 DEF RunState
<1>3. run' = [run EXCEPT ![p] = x]
  BY DEF AnalysisFails
<1> HIDE DEF scans, failed
<1>4. x \in RunState
  BY <1>1, <1>2 DEF RunState
<1>5. OnlyRun(p) /\ run'[p] = x
  <2> HIDE DEF x
  <2> QED
    BY <1>3, <1>4, Update
<1>6. x.scans = scans /\ x.failed = failed
  BY <1>1 DEF RunState
<1>7. /\ x.pc = run[p].pc /\ x.todo = run[p].todo /\ x.mini = run[p].mini
      /\ x.results = run[p].results /\ x.scan = run[p].scan
      /\ x.batch = run[p].batch /\ x.ver = run[p].ver /\ x.skip = run[p].skip
  BY <1>1 DEF RunState
<1> HIDE DEF x
<1> QED
  BY <1>1, <1>5, <1>6, <1>7 DEF scans, failed

\* Where the scan of a run and its batch are used, they are there.
LEMMA ScanOfRun ==
    ASSUME TypeOK, NEW p \in Runs, RunOK(p), run[p].pc \in ScanPcs
    PROVE  run[p].scan = {Scan(p)} /\ Scan(p) \in Scans
BY TheScan DEF RunOK

\* A run that is at a file has one to do.
LEMMA FileOfRun ==
    ASSUME TypeOK, NEW p \in Runs, RunOK(p), run[p].pc \in FilePcs
    PROVE  run[p].todo # {} /\ File(p) \in Files
BY FileToDo DEF RunOK

\* The mini-batch a run is at.
MiniBatch(p) == MiniBatches[File(p)][run[p].mini]

\* A run that is at a mini-batch is at one that the file of the run has.
LEMMA TheMiniBatch ==
    ASSUME TypeOK, NEW p \in Runs, RunOK(p), run[p].pc \in MiniPcs
    PROVE  /\ File(p) \in Files /\ run[p].mini \in DOMAIN MiniBatches[File(p)]
           /\ MiniBatch(p) \subseteq Scans /\ MiniBatch(p) \subseteq RowsOf(File(p))
<1>1. File(p) \in Files /\ run[p].mini <= Len(MiniBatches[File(p)])
  BY FileOfRun DEF RunOK, MiniPcs, FilePcs
<1>2. run[p].mini \in Nat \ {0}
  BY DEF TypeOK, RunState
<1>3. run[p].mini \in DOMAIN MiniBatches[File(p)]
  BY <1>1, <1>2, Rows
<1> QED
  BY <1>1, <1>3, Rows DEF MiniBatch

\* The pages of a mini-batch are downloaded or have failed.
LEMMA DownloadEffect ==
    ASSUME TypeOK, NEW p \in Runs, RunOK(p), Download(p)
    PROVE  /\ OnlyRun(p)
           /\ run'[p].pc = "scans" /\ run'[p].todo = run[p].todo
           /\ run'[p].mini = run[p].mini
           /\ run'[p].scans \in SUBSET MiniBatch(p)
           /\ run'[p].failed = run[p].failed \union (MiniBatch(p) \ run'[p].scans)
           /\ run'[p].results = run[p].results
           /\ run'[p].scan = run[p].scan /\ run'[p].batch = run[p].batch
           /\ run'[p].ver = run[p].ver /\ run'[p].skip = run[p].skip
<1>1. MiniBatch(p) \subseteq Scans
  BY TheMiniBatch DEF Download, MiniPcs
<1>2. PICK pages \in SUBSET MiniBatch(p) :
        run' = [run EXCEPT ![p].pc = "scans", ![p].scans = pages,
                           ![p].failed = @ \union (MiniBatch(p) \ pages)]
  BY DEF Download, MiniBatch
<1> DEFINE failed == run[p].failed \union (MiniBatch(p) \ pages)
<1>3. run' = [run EXCEPT ![p].pc = "scans", ![p].scans = pages, ![p].failed = failed]
  BY <1>2 DEF TypeOK
<1>4. failed \in SUBSET Scans /\ pages \in SUBSET Scans
  BY <1>1 DEF TypeOK, RunState
<1> HIDE DEF failed
<1>5. /\ OnlyRun(p)
      /\ run'[p].pc = "scans" /\ run'[p].todo = run[p].todo
      /\ run'[p].mini = run[p].mini /\ run'[p].scans = pages
      /\ run'[p].results = run[p].results /\ run'[p].failed = failed
      /\ run'[p].scan = run[p].scan /\ run'[p].batch = run[p].batch
      /\ run'[p].ver = run[p].ver /\ run'[p].skip = run[p].skip
  BY <1>3, <1>4, ScansEffect
<1> QED
  BY <1>5 DEF failed

(***************************************************************************)
(* The outputs                                                             *)
(***************************************************************************)
\* What was written is there, or was overwritten, after a step as before it.
Kept ==
    ResultWritten \subseteq ResultWritten' /\ FailureWritten \subseteq FailureWritten'

\* A step that writes no output.
LEMMA NothingWritten ==
    ASSUME TypeOK, UNCHANGED outputs
    PROVE  OutputTypes' /\ Kept
<1>1. OutputTypes'
  BY DEF TypeOK, OutputTypes, outputs
<1>2. Kept
  BY DEF Kept, ResultWritten, FailureWritten, outputs
<1> QED
  BY <1>1, <1>2

\* The result of a file has a name.
LEMMA PathOfFile ==
    ASSUME NEW f \in Files
    PROVE  Path(f) \in Files
<1>1. Files \in SUBSET Nat /\ Files # {}
  BY FilesAreNumbered
<1> QED
  BY <1>1, LeastIsLeast DEF Path

\* What a new second does to the files there are.
LEMMA SecondEffect ==
    ASSUME TypeOK, NEW same \in BOOLEAN, InSecond(same)
    PROVE  /\ out' \subseteq Scans /\ failedOut' \subseteq Scans
           /\ Reused(same) \in [Files -> SUBSET Scans]
           /\ FailedReused(same) \subseteq Scans
           /\ out \subseteq out' /\ failedOut \subseteq failedOut'
           /\ \A s, f : f \in Files /\ s \in now[f] => s \in out' \/ s \in Reused(same)[f]
           /\ \A s : s \in failedNow => s \in failedOut' \/ s \in FailedReused(same)
BY DEF TypeOK, InSecond, Reused, FailedReused

\* A result file that is written has the scans it should, and no other scan is
\* missing that is not counted as lost.
LEMMA PutResultsEffect ==
    ASSUME TypeOK, NEW f \in Files, NEW scans \in SUBSET Scans, PutResults(f, scans)
    PROVE  OutputTypes' /\ Kept /\ scans \subseteq ResultWritten'
<1>1. PICK same \in BOOLEAN :
        /\ InSecond(same)
        /\ now' = [Reused(same) EXCEPT ![Path(f)] = scans]
        /\ lost' = (lost \union Reused(same)[Path(f)])
                   \ (out' \union UNION {now'[g] : g \in Files})
        /\ failedNow' = FailedReused(same)
        /\ failedLost' = failedLost
  BY DEF PutResults
<1>2. /\ out' \subseteq Scans /\ failedOut' \subseteq Scans
      /\ Reused(same) \in [Files -> SUBSET Scans]
      /\ FailedReused(same) \subseteq Scans
      /\ out \subseteq out' /\ failedOut \subseteq failedOut'
      /\ \A s, g : g \in Files /\ s \in now[g] => s \in out' \/ s \in Reused(same)[g]
      /\ \A s : s \in failedNow => s \in failedOut' \/ s \in FailedReused(same)
  BY <1>1, SecondEffect
<1>3. Path(f) \in Files
  BY PathOfFile
<1>4. /\ now' \in [Files -> SUBSET Scans] /\ now'[Path(f)] = scans
      /\ \A g \in Files : g # Path(f) => now'[g] = Reused(same)[g]
  BY <1>1, <1>2, <1>3
<1>5. OutputTypes'
  <2>1. lost' \subseteq Scans
    BY <1>1, <1>2, <1>3 DEF TypeOK
  <2> QED
    BY <1>1, <1>2, <1>4, <2>1 DEF OutputTypes, TypeOK
<1>6. ResultWritten \subseteq ResultWritten'
  <2> DEFINE there == out' \union UNION {now'[g] : g \in Files}
  <2>a. ResultWritten' = there \union lost'
    BY DEF ResultWritten
  <2>b. lost' = (lost \union Reused(same)[Path(f)]) \ there
    BY <1>1
  <2>c. out' \subseteq there /\ \A g \in Files : now'[g] \subseteq there
    OBVIOUS
  <2> HIDE DEF there
  <2>1. out' \subseteq ResultWritten' /\ \A g \in Files : now'[g] \subseteq ResultWritten'
    BY <2>a, <2>c
  <2>2. lost \union Reused(same)[Path(f)] \subseteq ResultWritten'
    BY <2>a, <2>b
  <2>3. \A g \in Files : now[g] \subseteq ResultWritten'
    <3> SUFFICES ASSUME NEW g \in Files, NEW s \in now[g]
                 PROVE  s \in ResultWritten'
      OBVIOUS
    <3>1. s \in out' \/ s \in Reused(same)[g]
      BY <1>2
    <3>2. CASE g = Path(f)
      BY <2>1, <2>2, <3>1, <3>2
    <3>3. CASE g # Path(f)
      BY <1>4, <2>1, <3>1, <3>3
    <3> QED
      BY <3>2, <3>3
  <2>4. ResultWritten \subseteq out \union lost \union UNION {now[g] : g \in Files}
    BY DEF ResultWritten
  <2> QED
    BY <1>2, <2>1, <2>2, <2>3, <2>4
<1>7. FailureWritten \subseteq FailureWritten'
  BY <1>1, <1>2 DEF FailureWritten
<1>8. scans \subseteq ResultWritten'
  BY <1>3, <1>4 DEF ResultWritten
<1> QED
  BY <1>5, <1>6, <1>7, <1>8 DEF Kept

\* The same for a file of failed scans.
LEMMA PutFailedEffect ==
    ASSUME TypeOK, NEW scans \in SUBSET Scans, PutFailed(scans)
    PROVE  OutputTypes' /\ Kept /\ scans \subseteq FailureWritten'
<1>1. PICK same \in BOOLEAN :
        /\ InSecond(same)
        /\ now' = Reused(same)
        /\ failedNow' = scans
        /\ failedLost' = (failedLost \union FailedReused(same)) \ (failedOut' \union scans)
        /\ lost' = lost
  BY DEF PutFailed
<1>2. /\ out' \subseteq Scans /\ failedOut' \subseteq Scans
      /\ Reused(same) \in [Files -> SUBSET Scans]
      /\ FailedReused(same) \subseteq Scans
      /\ out \subseteq out' /\ failedOut \subseteq failedOut'
      /\ \A s, g : g \in Files /\ s \in now[g] => s \in out' \/ s \in Reused(same)[g]
      /\ \A s : s \in failedNow => s \in failedOut' \/ s \in FailedReused(same)
  BY <1>1, SecondEffect
<1>3. OutputTypes'
  BY <1>1, <1>2 DEF OutputTypes, TypeOK
<1>4. ResultWritten \subseteq ResultWritten'
  BY <1>1, <1>2 DEF ResultWritten
<1>5. FailureWritten \subseteq FailureWritten'
  BY <1>1, <1>2 DEF FailureWritten
<1>6. scans \subseteq FailureWritten'
  BY <1>1 DEF FailureWritten
<1> QED
  BY <1>3, <1>4, <1>5, <1>6 DEF Kept

\* The outputs of a run: the scans of its results and its failures.
LEMMA ScansOfRun ==
    ASSUME TypeOK, NEW p \in Runs
    PROVE  ScansOf(run[p].results) \in SUBSET Scans /\ run[p].failed \in SUBSET Scans
<1>1. run[p].results \subseteq Row /\ run[p].failed \subseteq Scans
  BY DEF TypeOK, RunState
<1> QED
  BY <1>1 DEF ScansOf, Row

\* What the two writes of outputs do.  They have written, when the run does not
\* go on to move its file to failed/.
LEMMA OutputsEffect ==
    ASSUME TypeOK, NEW p \in Runs, RunOK(p), WriteResults(p) \/ WriteFailed(p)
    PROVE  /\ OutputTypes' /\ Kept
           /\ WriteResults(p) /\ ~Goto(p, "tofailed") =>
                /\ Goto(p, IF run[p].failed # {} THEN "failcsv" ELSE "move")
                /\ \A r \in run[p].results : r.scan \in ResultWritten'
           /\ WriteFailed(p) /\ ~Goto(p, "tofailed") =>
                Goto(p, "move") /\ run[p].failed \subseteq FailureWritten'
<1>1. ScansOf(run[p].results) \in SUBSET Scans /\ run[p].failed \in SUBSET Scans
      /\ {} \in SUBSET Scans
  BY ScansOfRun
<1>2. CASE WriteResults(p)
  <2>1. File(p) \in Files /\ ~WriteFailed(p)
    BY <1>2, FileOfRun DEF WriteResults, WriteFailed, FilePcs
  <2>2. CASE Works /\ PutResults(File(p), ScansOf(run[p].results))
             /\ Goto(p, IF run[p].failed # {} THEN "failcsv" ELSE "move")
    <3>1. OutputTypes' /\ Kept /\ ScansOf(run[p].results) \subseteq ResultWritten'
      BY <1>1, <2>1, <2>2, PutResultsEffect
    <3>2. \A r \in run[p].results : r.scan \in ScansOf(run[p].results)
      BY DEF ScansOf
    <3> QED
      BY <2>1, <2>2, <3>1, <3>2
  <2>3. CASE /\ Goto(p, "tofailed")
             /\ \/ \E scans \in {{}, ScansOf(run[p].results)} : PutResults(File(p), scans)
                \/ UNCHANGED outputs
    BY <1>1, <2>1, <2>3, PutResultsEffect, NothingWritten
  <2> QED
    BY <1>2, <2>2, <2>3 DEF WriteResults
<1>3. CASE WriteFailed(p)
  <2>1. ~WriteResults(p)
    BY <1>3 DEF WriteResults, WriteFailed
  <2>2. CASE PutFailed(run[p].failed) /\ Goto(p, "move")
    BY <1>1, <2>1, <2>2, PutFailedEffect
  <2>3. CASE /\ Goto(p, "tofailed")
             /\ \/ \E scans \in {{}, run[p].failed} : PutFailed(scans)
                \/ UNCHANGED outputs
    BY <1>1, <2>1, <2>3, PutFailedEffect, NothingWritten
  <2> QED
    BY <1>3, <2>2, <2>3 DEF WriteFailed
<1> QED
  BY <1>2, <1>3

(***************************************************************************)
(* Every step keeps the types                                              *)
(***************************************************************************)
\* The checkpoint that is renamed, and the one that is not.
LEMMA CheckpointTypes ==
    /\ NoCheckpoint \in Checkpoint
    /\ [saved |-> TRUE, done |-> {}] \in Checkpoint
    /\ \A c \in Checkpoint, b \in Batches : [c EXCEPT !.done = @ \union {b}] \in Checkpoint
BY DEF NoCheckpoint, Checkpoint

\* A rename that works changes the checkpoint of the scan only.
LEMMA RenameEffect ==
    ASSUME TypeOK, NEW p \in Runs, RunOK(p), run[p].pc \in ScanPcs, Rename(p)
    PROVE  /\ ckpt' \in [Scans -> Checkpoint] /\ tmp' \in [Scans -> Checkpoint]
           /\ ckpt'[Scan(p)] = tmp[Scan(p)] /\ tmp'[Scan(p)] = NoCheckpoint
           /\ \A s \in Scans : s # Scan(p) => ckpt'[s] = ckpt[s] /\ tmp'[s] = tmp[s]
<1>1. Scan(p) \in Scans
  BY ScanOfRun
<1> QED
  BY <1>1, CheckpointTypes DEF Rename, TypeOK

\* The steps of a run.
Step(p) == StartDirectory(p) \/ Work(p) \/ Killed(p) \/ Terminate(p)

\* A step of one run keeps the types, and changes what that run remembers.
LEMMA TypeStep ==
    ASSUME TypeOK, NEW p \in Runs, RunOK(p), Step(p)
    PROVE  OnlyRun(p) /\ TypeOK'
<1> USE DEF files, outputs, faults, Works, OutputTypes
<1>0. SUFFICES OnlyRun(p) /\ RunLimits(p)' /\ SharedTypes'
  BY TypeOfStep
<1>1. CASE StartDirectory(p)
  <2>1. Goto(p, "create") /\ "create" \in LockPcs
    BY <1>1 DEF StartDirectory, LockPcs
  <2>2. OnlyRun(p) /\ RunLimits(p)'
    BY <2>1, GotoLimits
  <2> QED
    BY <1>1, <2>2 DEF StartDirectory, SharedTypes, TypeOK
<1>2. CASE CreateLock(p)
  <2>1. (\E pc \in {"write", "read"} : Goto(p, pc)) \/ Ends(p)
    BY <1>2 DEF CreateLock
  <2>2. OnlyRun(p) /\ RunLimits(p)'
    <3>1. CASE \E pc \in {"write", "read"} : Goto(p, pc)
      <4>1. PICK pc \in {"write", "read"} : Goto(p, pc)
        BY <3>1
      <4>2. pc \in LockPcs \union WorkPcs
        BY DEF LockPcs, WorkPcs
      <4> QED
        BY <4>1, <4>2, GotoLimits
    <3>2. CASE Ends(p)
      BY <3>2, EndsLimits DEF Ends
    <3> QED
      BY <2>1, <3>1, <3>2
  <2>3. lock' \in [by : Runs \union {"nobody", Dead}, written : BOOLEAN]
    <3>1. CASE Ends(p)
      BY <3>1, EndsLock
    <3>2. CASE ~Ends(p)
      <4>1. lock' = lock \/ lock' = [by |-> p, written |-> FALSE]
        BY <1>2, <3>2 DEF CreateLock
      <4>2. [by |-> p, written |-> FALSE]
              \in [by : Runs \union {"nobody", Dead}, written : BOOLEAN]
        OBVIOUS
      <4> QED
        BY <4>1, <4>2 DEF TypeOK
    <3> QED
      BY <3>1, <3>2
  <2>4. errors' \in Nat /\ kills' \in Nat /\ errors' + kills' <= MaxFaults
    BY <1>2, FaultTypes DEF CreateLock, TypeOK
  <2> QED
    BY <1>2, <2>2, <2>3, <2>4 DEF CreateLock, SharedTypes, TypeOK
<1>3. CASE WriteLock(p)
  <2>1. (\E pc \in {"list"} : Goto(p, pc)) \/ Ends(p)
    BY <1>3 DEF WriteLock
  <2>2. OnlyRun(p) /\ RunLimits(p)'
    <3>1. CASE \E pc \in {"list"} : Goto(p, pc)
      <4>1. PICK pc \in {"list"} : Goto(p, pc)
        BY <3>1
      <4>2. pc \in LockPcs \union WorkPcs
        BY DEF LockPcs, WorkPcs
      <4> QED
        BY <4>1, <4>2, GotoLimits
    <3>2. CASE Ends(p)
      BY <3>2, EndsLimits DEF Ends
    <3> QED
      BY <2>1, <3>1, <3>2
  <2>3. lock' \in [by : Runs \union {"nobody", Dead}, written : BOOLEAN]
    <3>1. CASE Ends(p)
      BY <3>1, EndsLock
    <3>2. CASE ~Ends(p)
      BY <1>3, <3>2 DEF WriteLock, TypeOK
    <3> QED
      BY <3>1, <3>2
  <2>4. errors' \in Nat /\ kills' \in Nat /\ errors' + kills' <= MaxFaults
    BY <1>3, FaultTypes DEF WriteLock, TypeOK
  <2> QED
    BY <1>3, <2>2, <2>3, <2>4 DEF WriteLock, SharedTypes, TypeOK
<1>4. CASE ReadLock(p)
  <2>1. (\E pc \in {"unlink"} : Goto(p, pc)) \/ Ends(p)
    BY <1>4 DEF ReadLock
  <2>2. OnlyRun(p) /\ RunLimits(p)'
    <3>1. CASE \E pc \in {"unlink"} : Goto(p, pc)
      <4>1. PICK pc \in {"unlink"} : Goto(p, pc)
        BY <3>1
      <4>2. pc \in LockPcs \union WorkPcs
        BY DEF LockPcs, WorkPcs
      <4> QED
        BY <4>1, <4>2, GotoLimits
    <3>2. CASE Ends(p)
      BY <3>2, EndsLimits DEF Ends
    <3> QED
      BY <2>1, <3>1, <3>2
  <2>3. lock' \in [by : Runs \union {"nobody", Dead}, written : BOOLEAN]
    <3>1. CASE Ends(p)
      BY <3>1, EndsLock
    <3>2. CASE ~Ends(p)
      BY <1>4, <3>2 DEF ReadLock, TypeOK
    <3> QED
      BY <3>1, <3>2
  <2>4. errors' \in Nat /\ kills' \in Nat /\ errors' + kills' <= MaxFaults
    BY <1>4, FaultTypes DEF ReadLock, TypeOK
  <2> QED
    BY <1>4, <2>2, <2>3, <2>4 DEF ReadLock, SharedTypes, TypeOK
<1>5. CASE UnlinkStale(p)
  <2>1. (\E pc \in {"create"} : Goto(p, pc)) \/ Ends(p)
    BY <1>5 DEF UnlinkStale
  <2>2. OnlyRun(p) /\ RunLimits(p)'
    <3>1. CASE \E pc \in {"create"} : Goto(p, pc)
      <4>1. PICK pc \in {"create"} : Goto(p, pc)
        BY <3>1
      <4>2. pc \in LockPcs \union WorkPcs
        BY DEF LockPcs, WorkPcs
      <4> QED
        BY <4>1, <4>2, GotoLimits
    <3>2. CASE Ends(p)
      BY <3>2, EndsLimits DEF Ends
    <3> QED
      BY <2>1, <3>1, <3>2
  <2>3. lock' \in [by : Runs \union {"nobody", Dead}, written : BOOLEAN]
    <3>1. CASE Ends(p)
      BY <3>1, EndsLock
    <3>2. CASE ~Ends(p)
      <4>1. lock' = [by |-> "nobody", written |-> FALSE]
        BY <1>5, <3>2 DEF UnlinkStale, Free
      <4> QED
        BY <4>1
    <3> QED
      BY <3>1, <3>2
  <2>4. errors' \in Nat /\ kills' \in Nat /\ errors' + kills' <= MaxFaults
    BY <1>5, FaultTypes DEF UnlinkStale, TypeOK
  <2> QED
    BY <1>5, <2>2, <2>3, <2>4 DEF UnlinkStale, SharedTypes, TypeOK
<1>6. CASE ListFiles(p)
  <2>4. /\ OnlyRun(p) /\ RunLimits(p)'
        /\ lock' \in [by : Runs \union {"nobody", Dead}, written : BOOLEAN]
    <3>1. CASE run' = [run EXCEPT ![p].pc = "parse", ![p].todo = Listed] /\ UNCHANGED lock
      <4>1. OnlyRun(p) /\ run'[p].todo = Listed /\ run'[p].scan = run[p].scan
        BY <3>1, ListedIsLimited, TakeEffect
      <4>2. RunLimits(p)'
        BY <4>1, ListedIsLimited DEF RunLimits, TypeOK
      <4> QED
        BY <3>1, <4>1, <4>2 DEF TypeOK
    <3>2. CASE Ends(p)
      BY <3>2, EndsLimits, EndsLock DEF Ends
    <3>3. CASE Goto(p, "release") /\ UNCHANGED lock
      BY <3>3, GotoLimits DEF WorkPcs, TypeOK
    <3> QED
      BY <1>6, <3>1, <3>2, <3>3 DEF ListFiles
  <2>5. errors' \in Nat /\ kills' \in Nat /\ errors' + kills' <= MaxFaults
    BY <1>6, FaultTypes DEF ListFiles
  <2> QED
    BY <1>6, <2>4, <2>5 DEF ListFiles, SharedTypes, TypeOK
<1>7. CASE ReleaseLock(p)
  <2>1. OnlyRun(p) /\ RunLimits(p)'
    BY <1>7, EndsLimits DEF ReleaseLock
  <2>8. errors' \in Nat /\ kills' \in Nat /\ errors' + kills' <= MaxFaults
    BY <1>7, FaultTypes DEF ReleaseLock, TypeOK
  <2> QED
    BY <1>7, <2>1, <2>8 DEF ReleaseLock, Free, SharedTypes, TypeOK
<1>8. CASE ParseFile(p)
  <2>1. PICK pc \in {"empty", "mini", "tofailed"} : Goto(p, pc)
    BY <1>8 DEF ParseFile
  <2>2. OnlyRun(p) /\ RunLimits(p)'
    BY <2>1, GotoLimits DEF WorkPcs
  <2>8. errors' \in Nat /\ kills' \in Nat /\ errors' + kills' <= MaxFaults
    BY <1>8, FaultTypes DEF ParseFile, TypeOK
  <2> QED
    BY <1>8, <2>2, <2>8 DEF ParseFile, SharedTypes, TypeOK
<1>9. CASE Download(p)
  <2>5. OnlyRun(p) /\ run'[p].todo = run[p].todo /\ run'[p].scan = run[p].scan
    BY <1>9, DownloadEffect
  <2>6. RunLimits(p)'
    BY <2>5 DEF RunLimits, TypeOK
  <2>8. errors' \in Nat /\ kills' \in Nat /\ errors' + kills' <= MaxFaults
    BY <1>9, FaultTypes DEF Download, TypeOK
  <2> QED
    BY <1>9, <2>5, <2>6, <2>8 DEF Download, SharedTypes, TypeOK
<1>10. CASE \E s \in Scans : Analyse(p, s) \/ AnalysisFails(p, s)
  <2>1. PICK s \in Scans : Analyse(p, s) \/ AnalysisFails(p, s)
    BY <1>10
  <2>2. CASE Analyse(p, s)
    <3>1. OnlyRun(p) /\ run'[p].todo = run[p].todo /\ run'[p].scan = {s}
      BY <2>2, AnalyseEffect
    <3>2. RunLimits(p)'
      BY <3>1 DEF RunLimits, TypeOK
    <3> QED
      BY <2>2, <3>1, <3>2 DEF Analyse, SharedTypes, TypeOK
  <2>3. CASE AnalysisFails(p, s)
    <3>1. OnlyRun(p) /\ run'[p].todo = run[p].todo /\ run'[p].scan = run[p].scan
      BY <2>3, AnalysisFailsEffect
    <3>2. RunLimits(p)'
      BY <3>1 DEF RunLimits, TypeOK
    <3> QED
      BY <2>3, <3>1, <3>2 DEF AnalysisFails, SharedTypes, TypeOK
  <2> QED
    BY <2>1, <2>2, <2>3
<1>11. CASE InitCheckpoint(p)
  <2>1. run[p].scan = {Scan(p)} /\ Scan(p) \in Scans
    BY <1>11, ScanOfRun DEF InitCheckpoint, ScanPcs
  <2>4. OnlyRun(p) /\ RunLimits(p)'
    <3>1. CASE Goto(p, "initrename")
      BY <3>1, GotoLimits DEF WorkPcs
    <3>2. CASE Broken(p)
      <4>1. OnlyRun(p) /\ run'[p].todo = run[p].todo /\ run'[p].scan = {}
        BY <2>1, <3>2, ResultEffect DEF Broken
      <4> QED
        BY <4>1 DEF RunLimits, TypeOK
    <3> QED
      BY <1>11, <3>1, <3>2 DEF InitCheckpoint
  <2>5. tmp' \in [Scans -> Checkpoint]
    BY <1>11, CheckpointTypes DEF InitCheckpoint, TypeOK
  <2>8. errors' \in Nat /\ kills' \in Nat /\ errors' + kills' <= MaxFaults
    BY <1>11, FaultTypes DEF InitCheckpoint, TypeOK
  <2> QED
    BY <1>11, <2>4, <2>5, <2>8 DEF InitCheckpoint, SharedTypes, TypeOK
<1>11a. CASE RenameInit(p)
  <2>1. run[p].scan = {Scan(p)} /\ Scan(p) \in Scans
    BY <1>11a, ScanOfRun DEF RenameInit, ScanPcs
  <2>4. /\ OnlyRun(p) /\ RunLimits(p)'
        /\ ckpt' \in [Scans -> Checkpoint] /\ tmp' \in [Scans -> Checkpoint]
    <3>1. CASE Rename(p) /\ Goto(p, "verify")
      BY <1>11a, <3>1, GotoLimits, RenameEffect DEF RenameInit, WorkPcs, ScanPcs
    <3>2. CASE Broken(p) /\ UNCHANGED <<ckpt, tmp>>
      <4>1. OnlyRun(p) /\ run'[p].todo = run[p].todo /\ run'[p].scan = {}
        BY <2>1, <3>2, ResultEffect DEF Broken
      <4>2. RunLimits(p)'
        BY <4>1 DEF RunLimits, TypeOK
      <4> QED
        BY <3>2, <4>1, <4>2 DEF TypeOK
    <3> QED
      BY <1>11a, <3>1, <3>2 DEF RenameInit
  <2>8. errors' \in Nat /\ kills' \in Nat /\ errors' + kills' <= MaxFaults
    BY <1>11a, FaultTypes DEF RenameInit, RenameFails, TypeOK
  <2> QED
    BY <1>11a, <2>4, <2>8 DEF RenameInit, SharedTypes, TypeOK
<1>12. CASE CacheHit(p)
  <2>1. OnlyRun(p) /\ run'[p].todo = run[p].todo /\ run'[p].scan = run[p].scan
    BY <1>12, NextBatchEffect DEF CacheHit, Due
  <2>2. RunLimits(p)'
    BY <2>1 DEF RunLimits, TypeOK
  <2>8. errors' \in Nat /\ kills' \in Nat /\ errors' + kills' <= MaxFaults
    BY <1>12, FaultTypes DEF CacheHit, TypeOK
  <2> QED
    BY <1>12, <2>1, <2>2, <2>8 DEF CacheHit, SharedTypes, TypeOK
<1>13. CASE BatchFails(p)
  <2>1. OnlyRun(p) /\ run'[p].todo = run[p].todo /\ run'[p].scan = run[p].scan
    BY <1>13, NextBatchEffect DEF BatchFails, Due
  <2>2. RunLimits(p)'
    BY <2>1 DEF RunLimits, TypeOK
  <2>8. errors' \in Nat /\ kills' \in Nat /\ errors' + kills' <= MaxFaults
    BY <1>13, FaultTypes DEF BatchFails, TypeOK
  <2> QED
    BY <1>13, <2>1, <2>2, <2>8 DEF BatchFails, SharedTypes, TypeOK
<1>14. CASE VerifyBatch(p)
  <2>1. OnlyRun(p) /\ RunLimits(p)'
    BY <1>14, GotoLimits DEF VerifyBatch, WorkPcs
  <2>2. Scan(p) \in Scans
    BY <1>14, ScanOfRun DEF VerifyBatch, Due, ScanPcs
  <2>3. run[p].batch \in Batches
    BY <1>14, LimitsAreNumbers DEF VerifyBatch, Due, Batches, TypeOK, RunState
  <2>4. Key(p) \in {Content[s] : s \in Scans} \X Batches
    BY <2>2, <2>3 DEF Key
  <2>5. cached' \subseteq {Content[s] : s \in Scans} \X Batches
    BY <1>14, <2>4 DEF VerifyBatch, TypeOK
  <2>8. errors' \in Nat /\ kills' \in Nat /\ errors' + kills' <= MaxFaults
    BY <1>14, FaultTypes DEF VerifyBatch, TypeOK
  <2> QED
    BY <1>14, <2>1, <2>5, <2>8 DEF VerifyBatch, SharedTypes, TypeOK
<1>15. CASE MarkComplete(p)
  <2>1. run[p].batch <= NBatches /\ run[p].pc = "mark"
    BY <1>15 DEF MarkComplete, RunOK
  <2>2. OnlyRun(p) /\ run'[p].todo = run[p].todo /\ run'[p].scan = run[p].scan
    BY <1>15, <2>1, NextBatchEffect, GotoEffect DEF MarkComplete, WorkPcs
  <2>3. RunLimits(p)'
    BY <2>2 DEF RunLimits, TypeOK
  <2>4. Scan(p) \in Scans
    BY <2>1, ScanOfRun DEF ScanPcs
  <2>5. run[p].batch \in Batches
    BY <2>1, LimitsAreNumbers DEF Batches, TypeOK, RunState
  <2>6. tmp' \in [Scans -> Checkpoint]
    BY <1>15, <2>4, <2>5, CheckpointTypes DEF MarkComplete, TypeOK
  <2>8. errors' \in Nat /\ kills' \in Nat /\ errors' + kills' <= MaxFaults
    BY <1>15, FaultTypes DEF MarkComplete, TypeOK
  <2> QED
    BY <1>15, <2>2, <2>3, <2>6, <2>8 DEF MarkComplete, SharedTypes, TypeOK
<1>15a. CASE RenameMark(p)
  <2>1. run[p].batch <= NBatches /\ run[p].pc = "markrename"
    BY <1>15a DEF RenameMark, RunOK
  <2>2. OnlyRun(p) /\ run'[p].todo = run[p].todo /\ run'[p].scan = run[p].scan
    BY <1>15a, <2>1, NextBatchEffect DEF RenameMark
  <2>3. RunLimits(p)'
    BY <2>2 DEF RunLimits, TypeOK
  <2>4. ckpt' \in [Scans -> Checkpoint] /\ tmp' \in [Scans -> Checkpoint]
    BY <1>15a, <2>1, RenameEffect DEF RenameMark, ScanPcs, TypeOK
  <2>8. errors' \in Nat /\ kills' \in Nat /\ errors' + kills' <= MaxFaults
    BY <1>15a, FaultTypes DEF RenameMark, RenameFails, TypeOK
  <2> QED
    BY <1>15a, <2>2, <2>3, <2>4, <2>8 DEF RenameMark, SharedTypes, TypeOK
<1>16. CASE ClearCheckpoint(p)
  <2>1. run[p].scan = {Scan(p)} /\ Scan(p) \in Scans
    BY <1>16, ScanOfRun DEF ClearCheckpoint, ScanPcs
  <2>2. PICK ver \in SUBSET Batches, whole \in BOOLEAN : Result(p, ver, whole)
    <3>1. run[p].ver \in SUBSET Batches /\ {} \in SUBSET Batches
      BY DEF TypeOK, RunState
    <3> QED
      BY <1>16, <3>1 DEF ClearCheckpoint, Broken
  <2>3. OnlyRun(p) /\ run'[p].todo = run[p].todo /\ run'[p].scan = {}
    BY <2>1, <2>2, ResultEffect
  <2>4. RunLimits(p)'
    BY <2>3 DEF RunLimits, TypeOK
  <2>5. ckpt' \in [Scans -> Checkpoint]
    BY <1>16, CheckpointTypes DEF ClearCheckpoint, TypeOK
  <2>8. errors' \in Nat /\ kills' \in Nat /\ errors' + kills' <= MaxFaults
    BY <1>16, FaultTypes DEF ClearCheckpoint, TypeOK
  <2> QED
    BY <1>16, <2>3, <2>4, <2>5, <2>8 DEF ClearCheckpoint, SharedTypes, TypeOK
<1>17. CASE EndMiniBatch(p)
  <2>3. OnlyRun(p) /\ RunLimits(p)'
    <3>1. CASE run' = [run EXCEPT ![p].pc = "mini", ![p].mini = @ + 1]
      <4>1. OnlyRun(p) /\ run'[p].todo = run[p].todo /\ run'[p].scan = run[p].scan
        BY <3>1, MiniEffect
      <4> QED
        BY <4>1 DEF RunLimits, TypeOK
    <3>2. CASE Goto(p, "csv")
      BY <3>2, GotoLimits DEF WorkPcs
    <3> QED
      BY <1>17, <3>1, <3>2 DEF EndMiniBatch, Goto
  <2>8. errors' \in Nat /\ kills' \in Nat /\ errors' + kills' <= MaxFaults
    BY <1>17, FaultTypes DEF EndMiniBatch, TypeOK
  <2> QED
    BY <1>17, <2>3, <2>8 DEF EndMiniBatch, SharedTypes, TypeOK
<1>18. CASE WriteResults(p)
  <2>1. PICK pc \in {"failcsv", "move", "tofailed"} : Goto(p, pc)
    BY <1>18 DEF WriteResults
  <2>2. OnlyRun(p) /\ RunLimits(p)'
    BY <2>1, GotoLimits DEF WorkPcs
  <2>3. OutputTypes'
    BY <1>18, OutputsEffect
  <2>8. errors' \in Nat /\ kills' \in Nat /\ errors' + kills' <= MaxFaults
    BY <1>18, FaultTypes DEF WriteResults, TypeOK
  <2> QED
    BY <1>18, <2>2, <2>3, <2>8 DEF WriteResults, SharedTypes, TypeOK
<1>19. CASE WriteFailed(p)
  <2>1. PICK pc \in {"move", "tofailed"} : Goto(p, pc)
    BY <1>19 DEF WriteFailed
  <2>2. OnlyRun(p) /\ RunLimits(p)'
    BY <2>1, GotoLimits DEF WorkPcs
  <2>3. OutputTypes'
    BY <1>19, OutputsEffect
  <2>8. errors' \in Nat /\ kills' \in Nat /\ errors' + kills' <= MaxFaults
    BY <1>19, FaultTypes DEF WriteFailed, TypeOK
  <2> QED
    BY <1>19, <2>2, <2>3, <2>8 DEF WriteFailed, SharedTypes, TypeOK
<1>20. CASE Move(p)
  <2>1. \/ NextFile(p)
        \/ (\E pc \in {"tofailed", "rescue"} : Goto(p, pc)) /\ lock' = lock
    <3>1. \/ NextFile(p)
          \/ Goto(p, IF run[p].pc = "empty" THEN "tofailed" ELSE "rescue") /\ lock' = lock
      BY <1>20 DEF Move
    <3> QED
      BY <3>1
  <2>4. /\ OnlyRun(p) /\ RunLimits(p)'
        /\ lock' \in [by : Runs \union {"nobody", Dead}, written : BOOLEAN]
    <3>1. CASE NextFile(p)
      <4>1. OnlyRun(p) /\ RunLimits(p)'
        BY <3>1, NextFileEffect DEF RunLimits
      <4>2. lock' = lock \/ Ends(p)
        BY <3>1, NextFileEffect
      <4> QED
        BY <4>1, <4>2, EndsLock DEF TypeOK
    <3>2. CASE (\E pc \in {"tofailed", "rescue"} : Goto(p, pc)) /\ lock' = lock
      BY <3>2, GotoLimits DEF WorkPcs, TypeOK
    <3> QED
      BY <2>1, <3>1, <3>2
  <2>5. at' \in [Files -> {"input", "processed", "failed"}]
    BY <1>20 DEF Move, TypeOK
  <2>8. errors' \in Nat /\ kills' \in Nat /\ errors' + kills' <= MaxFaults
    BY <1>20, FaultTypes DEF Move, TypeOK
  <2> QED
    BY <1>20, <2>4, <2>5, <2>8 DEF Move, SharedTypes, TypeOK
<1>21. CASE Killed(p)
  <2>1. /\ OnlyRun(p) /\ RunLimits(p)'
        /\ lock' \in [by : Runs \union {"nobody", Dead}, written : BOOLEAN]
    BY <1>21, EndsLimits, EndsLock DEF Killed, Ends
  <2>2. errors' \in Nat /\ kills' \in Nat /\ errors' + kills' <= MaxFaults
    BY <1>21, FaultTypes DEF Killed
  <2> QED
    BY <1>21, <2>1, <2>2 DEF Killed, SharedTypes, TypeOK
<1>22. CASE Terminate(p)
  <2>1. OnlyRun(p) /\ RunLimits(p)'
    BY <1>22, EndsLimits DEF Terminate
  <2>2. errors' \in Nat /\ kills' \in Nat /\ errors' + kills' <= MaxFaults
    BY <1>22, FaultTypes DEF Terminate
  <2> QED
    BY <1>22, <2>1, <2>2 DEF Terminate, SharedTypes, TypeOK, Free
<1> QED
  BY <1>1, <1>2, <1>3, <1>4, <1>5, <1>6, <1>7, <1>8, <1>9, <1>10, <1>11, <1>11a, <1>12, <1>13, <1>14, <1>15, <1>15a, <1>16, <1>17, <1>18, <1>19, <1>20, <1>21, <1>22 DEF Step, Work

(***************************************************************************)
(* What a run knows where it is                                            *)
(***************************************************************************)
\* The runs other than p are as they were.
LEMMA OtherRuns ==
    ASSUME NEW p \in Runs, OnlyRun(p), NEW q \in Runs, q # p
    PROVE  /\ RunOK(q) => RunOK(q)'
           /\ Kept /\ AccountOK(q) => AccountOK(q)'
           /\ cached \subseteq cached' /\ CacheOK(q) => CacheOK(q)'
<1>1. run'[q] = run[q] /\ File(q)' = File(q)
  BY DEF OnlyRun, File
<1>2. \A s : Seen(q, s)' <=> Seen(q, s)
  BY <1>1 DEF Seen
<1>3. RunOK(q) => RunOK(q)'
  BY <1>1 DEF RunOK
<1>4. Kept /\ AccountOK(q) => AccountOK(q)'
  BY <1>1, <1>2 DEF AccountOK, Kept
<1>5. cached \subseteq cached' /\ CacheOK(q) => CacheOK(q)'
  BY <1>1 DEF CacheOK
<1> QED
  BY <1>3, <1>4, <1>5

\* A run that has ended, or begins with a file, has nothing to remember.
LEMMA ResetRun ==
    ASSUME NEW p \in Runs,
           run'[p].pc \in {"idle", "parse"}, run'[p].pc = "parse" => run'[p].todo # {},
           run'[p].mini = 1, run'[p].scans = {}, run'[p].scan = {},
           run'[p].results = {}, run'[p].failed = {}
    PROVE  RunOK(p)' /\ AccountOK(p)' /\ CacheOK(p)'
<1>1. RunOK(p)'
  BY DEF RunOK, FilePcs, MiniPcs, ScanPcs, FreshPcs
<1>2. AccountOK(p)'
  BY DEF AccountOK, FilePcs, MiniPcs, ScanPcs
<1>3. CacheOK(p)'
  BY DEF CacheOK
<1> QED
  BY <1>1, <1>2, <1>3

\* A run that ends has nothing to account for.
LEMMA EndsRun ==
    ASSUME TypeOK, NEW p \in Runs, run' = [run EXCEPT ![p] = Idle]
    PROVE  RunOK(p)' /\ AccountOK(p)' /\ CacheOK(p)'
BY EndsEffect, ResetRun

\* A run that begins with its next file, or has none left, has nothing to account
\* for.
LEMMA NextFileRun ==
    ASSUME TypeOK, NEW p \in Runs, NextFile(p)
    PROVE  RunOK(p)' /\ AccountOK(p)' /\ CacheOK(p)'
BY NextFileEffect, ResetRun

\* A run that goes on knows what it knew.
LEMMA GotoRun ==
    ASSUME TypeOK, NEW p \in Runs, NEW pc \in {"idle"} \union LockPcs \union WorkPcs,
           RunOK(p), Goto(p, pc),
           pc \in FilePcs => run[p].pc \in FilePcs,
           pc \in MiniPcs => run[p].mini <= Len(MiniBatches[File(p)]),
           pc \in ScanPcs <=> run[p].pc \in ScanPcs,
           pc \in ScanPcs \union {"scans"} \/ run[p].scans = {},
           pc \in {"mark", "markrename"} => run[p].batch <= NBatches,
           pc \in FreshPcs => run[p].pc \in FreshPcs
    PROVE  RunOK(p)'
<1>1. /\ run'[p].pc = pc /\ run'[p].todo = run[p].todo
      /\ run'[p].mini = run[p].mini /\ run'[p].scans = run[p].scans
      /\ run'[p].results = run[p].results /\ run'[p].failed = run[p].failed
      /\ run'[p].scan = run[p].scan /\ run'[p].batch = run[p].batch
  BY GotoEffect
<1>2. File(p)' = File(p)
  BY <1>1 DEF File
<1> QED
  BY <1>1, <1>2 DEF RunOK

\* The run after the scan it worked on has become a result.
LEMMA ResultRun ==
    ASSUME TypeOK, NEW p \in Runs, RunOK(p), run[p].pc \in ScanPcs,
           NEW ver \in SUBSET Batches, NEW whole \in BOOLEAN, Result(p, ver, whole)
    PROVE  /\ run'[p].pc = "scans" /\ run'[p].todo = run[p].todo
           /\ run'[p].mini = run[p].mini /\ run'[p].scans = run[p].scans
           /\ run'[p].failed = run[p].failed /\ run'[p].scan = {}
           /\ \E row : row.scan = Scan(p)
                       /\ run'[p].results = run[p].results \union {row}
<1> DEFINE row == [scan |-> Scan(p), ver |-> ver, whole |-> whole]
<1>1. run[p].scan = {Scan(p)} /\ Scan(p) \in Scans
  BY ScanOfRun
<1>2. /\ OnlyRun(p)
      /\ run'[p].pc = "scans" /\ run'[p].todo = run[p].todo
      /\ run'[p].mini = run[p].mini /\ run'[p].scans = run[p].scans
      /\ run'[p].results = run[p].results \union {row}
      /\ run'[p].failed = run[p].failed
      /\ run'[p].scan = {} /\ run'[p].batch = 1
      /\ run'[p].ver = {} /\ run'[p].skip = {}
  BY <1>1, ResultEffect
<1>3. row.scan = Scan(p)
  OBVIOUS
<1> HIDE DEF row
<1> QED
  BY <1>2, <1>3

\* The file, the mini-batch and the scan of a run after a step.
LEMMA RunStep ==
    ASSUME TypeOK, NEW p \in Runs, RunOK(p), Step(p)
    PROVE  RunOK(p)'
<1> USE DEF FilePcs, MiniPcs, ScanPcs, FreshPcs, LockPcs
<1>a. /\ run[p].pc \in FilePcs => run[p].todo # {}
      /\ run[p].pc \in MiniPcs => run[p].mini <= Len(MiniBatches[File(p)])
      /\ run[p].scan # {} <=> run[p].pc \in ScanPcs
      /\ run[p].scans # {} => run[p].pc \in ScanPcs \union {"scans"}
      /\ run[p].pc \in {"mark", "markrename"} => run[p].batch <= NBatches
      /\ run[p].pc \in FreshPcs =>
           run[p].mini = 1 /\ run[p].results = {} /\ run[p].failed = {}
  BY DEF RunOK
<1>0. run'[p].todo = run[p].todo => File(p)' = File(p)
  BY DEF File
<1>1. CASE StartDirectory(p)
  BY <1>a, <1>1, GotoRun DEF StartDirectory
<1>2. CASE CreateLock(p)
  <2>1. CASE Ends(p)
    BY <2>1, EndsRun DEF Ends
  <2>2. ASSUME NEW pc \in {"write", "read"}, Goto(p, pc)
        PROVE  RunOK(p)'
    BY <1>a, <1>2, <2>2, GotoRun DEF CreateLock, WorkPcs
  <2> QED
    BY <1>2, <2>1, <2>2 DEF CreateLock
<1>3. CASE WriteLock(p)
  <2>1. CASE Ends(p)
    BY <2>1, EndsRun DEF Ends
  <2>2. ASSUME NEW pc \in {"list"}, Goto(p, pc)
        PROVE  RunOK(p)'
    BY <1>a, <1>3, <2>2, GotoRun DEF WriteLock, WorkPcs
  <2> QED
    BY <1>3, <2>1, <2>2 DEF WriteLock
<1>4. CASE ReadLock(p)
  <2>1. CASE Ends(p)
    BY <2>1, EndsRun DEF Ends
  <2>2. ASSUME NEW pc \in {"unlink"}, Goto(p, pc)
        PROVE  RunOK(p)'
    BY <1>a, <1>4, <2>2, GotoRun DEF ReadLock, WorkPcs
  <2> QED
    BY <1>4, <2>1, <2>2 DEF ReadLock
<1>5. CASE UnlinkStale(p)
  <2>1. CASE Ends(p)
    BY <2>1, EndsRun DEF Ends
  <2>2. ASSUME NEW pc \in {"create"}, Goto(p, pc)
        PROVE  RunOK(p)'
    BY <1>a, <1>5, <2>2, GotoRun DEF UnlinkStale, WorkPcs
  <2> QED
    BY <1>5, <2>1, <2>2 DEF UnlinkStale
<1>6. CASE ListFiles(p)
  <2>1. CASE Ends(p)
    BY <2>1, EndsRun DEF Ends
  <2>2. CASE Goto(p, "release")
    BY <1>a, <1>6, <2>2, GotoRun DEF ListFiles, WorkPcs
  <2>3. CASE Listed # {} /\ run' = [run EXCEPT ![p].pc = "parse", ![p].todo = Listed]
    BY <1>a, <1>6, <2>3, ListedIsLimited, TakeEffect DEF ListFiles, RunOK
  <2> QED
    BY <1>6, <2>1, <2>2, <2>3 DEF ListFiles
<1>7. CASE ReleaseLock(p)
  BY <1>7, EndsRun DEF ReleaseLock
<1>8. CASE ParseFile(p)
  <2>1. CASE Goto(p, "empty") \/ Goto(p, "tofailed")
    BY <1>a, <1>8, <2>1, GotoRun DEF ParseFile, WorkPcs
  <2>2. CASE Goto(p, "mini") /\ RowsOf(File(p)) # {}
    <3>1. File(p) \in Files /\ run[p].mini = 1
      BY <1>a, <1>8, FileOfRun DEF ParseFile
    <3>2. run[p].mini <= Len(MiniBatches[File(p)])
      <4>1. PICK s : s \in RowsOf(File(p))
        BY <2>2
      <4>2. PICK i \in DOMAIN MiniBatches[File(p)] : s \in MiniBatches[File(p)][i]
        BY <3>1, <4>1, Rows
      <4> QED
        BY <3>1, <4>2, Rows
    <3> QED
      BY <1>a, <1>8, <2>2, <3>1, <3>2, GotoRun DEF ParseFile, WorkPcs
  <2> QED
    BY <1>8, <2>1, <2>2 DEF ParseFile
<1>9. CASE Download(p)
  <2>1. /\ run'[p].pc = "scans" /\ run'[p].todo = run[p].todo
        /\ run'[p].mini = run[p].mini /\ run'[p].scan = run[p].scan
    BY <1>9, DownloadEffect
  <2> QED
    BY <1>0, <1>a, <1>9, <2>1 DEF Download, RunOK
<1>10. CASE \E s \in Scans : Analyse(p, s) \/ AnalysisFails(p, s)
  <2>1. PICK s \in Scans : Analyse(p, s) \/ AnalysisFails(p, s)
    BY <1>10
  <2>2. CASE Analyse(p, s)
    <3>1. /\ run'[p].pc \in {"init", "verify"} /\ run'[p].todo = run[p].todo
          /\ run'[p].mini = run[p].mini /\ run'[p].scan = {s}
      BY <2>2, AnalyseEffect
    <3> QED
      BY <1>0, <1>a, <2>2, <3>1 DEF Analyse, RunOK
  <2>3. CASE AnalysisFails(p, s)
    BY <1>0, <1>a, <2>3, AnalysisFailsEffect DEF AnalysisFails, RunOK
  <2> QED
    BY <2>1, <2>2, <2>3
<1>11. CASE InitCheckpoint(p)
  <2>1. CASE Goto(p, "initrename")
    BY <1>a, <1>11, <2>1, GotoRun DEF InitCheckpoint, WorkPcs
  <2>2. CASE Broken(p)
    BY <1>0, <1>a, <1>11, <2>2, ScanOfRun, ResultEffect DEF InitCheckpoint, RunOK, Broken
  <2> QED
    BY <1>11, <2>1, <2>2 DEF InitCheckpoint
<1>11a. CASE RenameInit(p)
  <2>1. CASE Goto(p, "verify")
    BY <1>a, <1>11a, <2>1, GotoRun DEF RenameInit, WorkPcs
  <2>2. CASE Broken(p)
    BY <1>0, <1>a, <1>11a, <2>2, ScanOfRun, ResultEffect DEF RenameInit, RunOK, Broken
  <2> QED
    BY <1>11a, <2>1, <2>2 DEF RenameInit
<1>12. CASE CacheHit(p)
  BY <1>0, <1>a, <1>12, NextBatchEffect DEF CacheHit, Due, RunOK
<1>13. CASE BatchFails(p)
  BY <1>0, <1>a, <1>13, NextBatchEffect DEF BatchFails, Due, RunOK
<1>14. CASE VerifyBatch(p)
  BY <1>a, <1>14, GotoRun DEF VerifyBatch, Due, WorkPcs
<1>15. CASE MarkComplete(p)
  <2>1. CASE Goto(p, "markrename")
    BY <1>a, <1>15, <2>1, GotoRun DEF MarkComplete, WorkPcs
  <2>2. CASE NextBatch(p)
    BY <1>0, <1>a, <1>15, <2>2, NextBatchEffect DEF MarkComplete, RunOK
  <2> QED
    BY <1>15, <2>1, <2>2 DEF MarkComplete
<1>15a. CASE RenameMark(p)
  BY <1>0, <1>a, <1>15a, NextBatchEffect DEF RenameMark, RunOK
<1>16. CASE ClearCheckpoint(p)
  <2>1. PICK ver \in SUBSET Batches, whole \in BOOLEAN : Result(p, ver, whole)
    <3>1. run[p].ver \in SUBSET Batches /\ {} \in SUBSET Batches
      BY DEF TypeOK, RunState
    <3> QED
      BY <1>16, <3>1 DEF ClearCheckpoint, Broken
  <2> QED
    <3>1. run[p].pc \in ScanPcs
      BY <1>16 DEF ClearCheckpoint
    <3>2. /\ run'[p].pc = "scans" /\ run'[p].todo = run[p].todo
          /\ run'[p].mini = run[p].mini /\ run'[p].scans = run[p].scans
          /\ run'[p].scan = {}
      BY <2>1, <3>1, ResultRun
    <3> QED
      BY <1>0, <1>a, <1>16, <3>2 DEF ClearCheckpoint, RunOK
<1>17. CASE EndMiniBatch(p)
  <2>1. CASE /\ run[p].mini < Len(MiniBatches[File(p)])
             /\ run' = [run EXCEPT ![p].pc = "mini", ![p].mini = @ + 1]
    <3>1. run[p].mini + 1 <= Len(MiniBatches[File(p)])
      BY <1>17, <2>1, FileOfRun, Rows DEF EndMiniBatch, TypeOK, RunState
    <3> QED
      BY <1>0, <1>a, <1>17, <2>1, <3>1, MiniEffect DEF EndMiniBatch, RunOK
  <2>2. CASE Goto(p, "csv")
    BY <1>a, <1>17, <2>2, GotoRun DEF EndMiniBatch, WorkPcs
  <2> QED
    BY <1>17, <2>1, <2>2 DEF EndMiniBatch, Goto
<1>18. CASE WriteResults(p)
  <2>1. PICK pc \in {"failcsv", "move", "tofailed"} : Goto(p, pc)
    BY <1>18 DEF WriteResults
  <2> QED
    BY <1>a, <1>18, <2>1, GotoRun DEF WriteResults, WorkPcs
<1>19. CASE WriteFailed(p)
  <2>1. PICK pc \in {"move", "tofailed"} : Goto(p, pc)
    BY <1>19 DEF WriteFailed
  <2> QED
    BY <1>a, <1>19, <2>1, GotoRun DEF WriteFailed, WorkPcs
<1>20. CASE Move(p)
  <2>1. CASE NextFile(p)
    BY <2>1, NextFileRun
  <2>2. CASE ~NextFile(p)
    <3>1. \E pc \in {"tofailed", "rescue"} : Goto(p, pc)
      BY <1>20, <2>2 DEF Move
    <3> QED
      BY <1>a, <1>20, <3>1, GotoRun DEF Move, WorkPcs
  <2> QED
    BY <2>1, <2>2
<1>21. CASE Killed(p) \/ Terminate(p)
  BY <1>21, EndsRun DEF Killed, Terminate, Ends
<1> QED
  BY <1>1, <1>2, <1>3, <1>4, <1>5, <1>6, <1>7, <1>8, <1>9, <1>10, <1>11, <1>11a, <1>12, <1>13, <1>14, <1>15, <1>15a, <1>16, <1>17, <1>18, <1>19, <1>20, <1>21 DEF Step, Work

(***************************************************************************)
(* The accounting of a file                                                *)
(***************************************************************************)
\* A run that has not begun with a file has nothing to account for.
LEMMA FreshAccount ==
    ASSUME NEW p \in Runs, RunOK(p)', run'[p].pc \in FreshPcs
    PROVE  AccountOK(p)'
BY DEF RunOK, AccountOK, FreshPcs, LockPcs, FilePcs, MiniPcs, ScanPcs

\* What a run has seen stays seen, whatever it does within a mini-batch.
LEMMA MiniBatchAccount ==
    ASSUME NEW p \in Runs, AccountOK(p),
           run[p].pc \in MiniPcs, run'[p].pc \in MiniPcs,
           run'[p].todo = run[p].todo, run'[p].mini = run[p].mini,
           run'[p].pc = "mini" => run[p].pc = "mini",
           \A s : Seen(p, s) => Seen(p, s)',
           run[p].pc = "mini" /\ run'[p].pc # "mini" =>
             \A s \in MiniBatch(p) : Seen(p, s)',
           \A r \in run'[p].results : r.scan \in RowsOf(File(p)),
           run'[p].scans \subseteq RowsOf(File(p)),
           run'[p].scan \subseteq RowsOf(File(p))
    PROVE  AccountOK(p)'
<1>1. File(p)' = File(p)
  BY DEF File
<1>2. run[p].pc \in FilePcs /\ run'[p].pc \notin {"csv", "failcsv", "move"}
  BY DEF MiniPcs, FilePcs, ScanPcs
<1>3. ASSUME NEW i \in DOMAIN MiniBatches[File(p)],
             i < run[p].mini \/ (i = run[p].mini /\ run'[p].pc # "mini"),
             NEW s \in MiniBatches[File(p)][i]
      PROVE  Seen(p, s)'
  <2>1. CASE i < run[p].mini \/ (i = run[p].mini /\ run[p].pc # "mini")
    BY <1>3, <2>1 DEF AccountOK
  <2>2. CASE i = run[p].mini /\ run[p].pc = "mini" /\ run'[p].pc # "mini"
    <3>1. s \in MiniBatch(p)
      BY <1>3, <2>2 DEF MiniBatch
    <3> QED
      BY <2>2, <3>1
  <2> QED
    BY <1>3, <2>1, <2>2
<1> QED
  BY <1>1, <1>2, <1>3 DEF AccountOK

\* What the rows of a file become when its run goes on.
LEMMA GotoAccount ==
    ASSUME TypeOK, NEW p \in Runs, NEW pc \in WorkPcs, AccountOK(p), Goto(p, pc),
           run[p].pc \in FilePcs
    PROVE  /\ File(p)' = File(p)
           /\ \A s : Seen(p, s)' <=> Seen(p, s)
           /\ \A r \in run'[p].results : r.scan \in RowsOf(File(p))
           /\ run'[p].scans \subseteq RowsOf(File(p))
           /\ run'[p].scan \subseteq RowsOf(File(p))
           /\ run'[p].pc = pc /\ run'[p].todo = run[p].todo /\ run'[p].mini = run[p].mini
           /\ run'[p].results = run[p].results /\ run'[p].failed = run[p].failed
<1>1. /\ run'[p].pc = pc /\ run'[p].todo = run[p].todo
      /\ run'[p].mini = run[p].mini /\ run'[p].scans = run[p].scans
      /\ run'[p].results = run[p].results /\ run'[p].failed = run[p].failed
      /\ run'[p].scan = run[p].scan
  BY GotoEffect
<1>2. File(p)' = File(p) /\ \A s : Seen(p, s)' <=> Seen(p, s)
  BY <1>1 DEF File, Seen
<1> QED
  BY <1>1, <1>2 DEF AccountOK

\* The scan a run worked on is a result.
LEMMA ResultAccount ==
    ASSUME TypeOK, NEW p \in Runs, RunOK(p), AccountOK(p), run[p].pc \in ScanPcs,
           NEW ver \in SUBSET Batches, NEW whole \in BOOLEAN, Result(p, ver, whole)
    PROVE  AccountOK(p)'
<1> USE DEF FilePcs, MiniPcs, ScanPcs
<1>1. run[p].scan = {Scan(p)} /\ Scan(p) \in Scans /\ Scan(p) \in RowsOf(File(p))
  BY ScanOfRun DEF AccountOK
<1>2. PICK row : /\ row.scan = Scan(p)
                 /\ run'[p].pc = "scans" /\ run'[p].todo = run[p].todo
                 /\ run'[p].mini = run[p].mini /\ run'[p].scans = run[p].scans
                 /\ run'[p].results = run[p].results \union {row}
                 /\ run'[p].failed = run[p].failed /\ run'[p].scan = {}
  BY ResultRun
<1>3. \A s : Seen(p, s) => Seen(p, s)'
  BY <1>1, <1>2 DEF Seen
<1>4. /\ \A r \in run'[p].results : r.scan \in RowsOf(File(p))
      /\ run'[p].scans \subseteq RowsOf(File(p))
      /\ run'[p].scan \subseteq RowsOf(File(p))
  BY <1>1, <1>2 DEF AccountOK
<1> QED
  BY <1>2, <1>3, <1>4, MiniBatchAccount

\* A batch of the scan is done.
LEMMA NextBatchAccount ==
    ASSUME TypeOK, NEW p \in Runs, AccountOK(p),
           run[p].pc \in {"verify", "mark", "markrename"},
           run[p].batch <= NBatches, NextBatch(p)
    PROVE  AccountOK(p)'
<1> USE DEF FilePcs, MiniPcs, ScanPcs
<1>1. /\ run'[p].pc = "verify" /\ run'[p].todo = run[p].todo
      /\ run'[p].mini = run[p].mini /\ run'[p].scans = run[p].scans
      /\ run'[p].results = run[p].results /\ run'[p].failed = run[p].failed
      /\ run'[p].scan = run[p].scan
  BY NextBatchEffect
<1>2. \A s : Seen(p, s) => Seen(p, s)'
  BY <1>1 DEF Seen
<1>3. /\ \A r \in run'[p].results : r.scan \in RowsOf(File(p))
      /\ run'[p].scans \subseteq RowsOf(File(p))
      /\ run'[p].scan \subseteq RowsOf(File(p))
  BY <1>1 DEF AccountOK
<1> QED
  BY <1>1, <1>2, <1>3, MiniBatchAccount

\* The rows of the file of a run after a step.
LEMMA AccountStep ==
    ASSUME TypeOK, NEW p \in Runs, RunOK(p), AccountOK(p), Step(p)
    PROVE  AccountOK(p)'
<1>0. RunOK(p)'
  BY RunStep
<1> USE DEF FilePcs, MiniPcs, ScanPcs
<1>1. CASE StartDirectory(p)
  BY <1>0, <1>1, GotoEffect, FreshAccount DEF StartDirectory, FreshPcs, LockPcs
<1>2. CASE CreateLock(p)
  <2>1. CASE Ends(p)
    BY <2>1, EndsRun DEF Ends
  <2>2. ASSUME NEW pc \in {"write", "read"}, Goto(p, pc)
        PROVE  AccountOK(p)'
    <3>1. pc \in {"idle"} \union LockPcs \union WorkPcs /\ pc \in FreshPcs
      BY DEF FreshPcs, LockPcs, WorkPcs
    <3>2. run'[p].pc = pc
      BY <2>2, <3>1, GotoEffect
    <3> QED
      BY <1>0, <3>1, <3>2, FreshAccount
  <2> QED
    BY <1>2, <2>1, <2>2 DEF CreateLock
<1>3. CASE WriteLock(p)
  <2>1. CASE Ends(p)
    BY <2>1, EndsRun DEF Ends
  <2>2. ASSUME NEW pc \in {"list"}, Goto(p, pc)
        PROVE  AccountOK(p)'
    <3>1. pc \in {"idle"} \union LockPcs \union WorkPcs /\ pc \in FreshPcs
      BY DEF FreshPcs, LockPcs, WorkPcs
    <3>2. run'[p].pc = pc
      BY <2>2, <3>1, GotoEffect
    <3> QED
      BY <1>0, <3>1, <3>2, FreshAccount
  <2> QED
    BY <1>3, <2>1, <2>2 DEF WriteLock
<1>4. CASE ReadLock(p)
  <2>1. CASE Ends(p)
    BY <2>1, EndsRun DEF Ends
  <2>2. ASSUME NEW pc \in {"unlink"}, Goto(p, pc)
        PROVE  AccountOK(p)'
    <3>1. pc \in {"idle"} \union LockPcs \union WorkPcs /\ pc \in FreshPcs
      BY DEF FreshPcs, LockPcs, WorkPcs
    <3>2. run'[p].pc = pc
      BY <2>2, <3>1, GotoEffect
    <3> QED
      BY <1>0, <3>1, <3>2, FreshAccount
  <2> QED
    BY <1>4, <2>1, <2>2 DEF ReadLock
<1>5. CASE UnlinkStale(p)
  <2>1. CASE Ends(p)
    BY <2>1, EndsRun DEF Ends
  <2>2. ASSUME NEW pc \in {"create"}, Goto(p, pc)
        PROVE  AccountOK(p)'
    <3>1. pc \in {"idle"} \union LockPcs \union WorkPcs /\ pc \in FreshPcs
      BY DEF FreshPcs, LockPcs, WorkPcs
    <3>2. run'[p].pc = pc
      BY <2>2, <3>1, GotoEffect
    <3> QED
      BY <1>0, <3>1, <3>2, FreshAccount
  <2> QED
    BY <1>5, <2>1, <2>2 DEF UnlinkStale
<1>6. CASE ListFiles(p)
  <2>1. CASE Ends(p)
    BY <2>1, EndsRun DEF Ends
  <2>2. CASE Goto(p, "release")
    BY <1>0, <2>2, GotoEffect, FreshAccount DEF FreshPcs, WorkPcs
  <2>3. CASE run' = [run EXCEPT ![p].pc = "parse", ![p].todo = Listed]
    BY <1>0, <2>3, ListedIsLimited, TakeEffect, FreshAccount DEF FreshPcs
  <2> QED
    BY <1>6, <2>1, <2>2, <2>3 DEF ListFiles
<1>7. CASE ReleaseLock(p)
  BY <1>7, EndsRun DEF ReleaseLock
<1>8. CASE ParseFile(p)
  <2>1. PICK pc \in {"empty", "mini", "tofailed"} : Goto(p, pc)
    BY <1>8 DEF ParseFile
  <2>2. run[p].pc = "parse" /\ run[p].mini = 1
    BY <1>8 DEF ParseFile, RunOK, FreshPcs
  <2>3. /\ File(p)' = File(p) /\ run'[p].pc = pc /\ run'[p].mini = 1
        /\ \A r \in run'[p].results : r.scan \in RowsOf(File(p))
        /\ run'[p].scans \subseteq RowsOf(File(p))
        /\ run'[p].scan \subseteq RowsOf(File(p))
    BY <2>1, <2>2, GotoAccount DEF WorkPcs
  <2>4. \A i \in DOMAIN MiniBatches[File(p)] : ~(i < 1)
    BY <2>2, FileOfRun, Rows
  <2> QED
    BY <2>3, <2>4 DEF AccountOK
<1>9. CASE Download(p)
  <2>1. /\ run[p].pc = "mini" /\ run[p].scan = {} /\ run[p].scans = {}
        /\ MiniBatch(p) \subseteq RowsOf(File(p))
    BY <1>9, TheMiniBatch DEF Download, RunOK
  <2>2. /\ run'[p].pc = "scans" /\ run'[p].todo = run[p].todo
        /\ run'[p].mini = run[p].mini
        /\ run'[p].scans \in SUBSET MiniBatch(p)
        /\ run'[p].failed = run[p].failed \union (MiniBatch(p) \ run'[p].scans)
        /\ run'[p].results = run[p].results /\ run'[p].scan = run[p].scan
    BY <1>9, DownloadEffect
  <2>3. \A s : Seen(p, s) => Seen(p, s)'
    BY <2>1, <2>2 DEF Seen
  <2>4. \A s \in MiniBatch(p) : Seen(p, s)'
    BY <2>2 DEF Seen
  <2>5. /\ \A r \in run'[p].results : r.scan \in RowsOf(File(p))
        /\ run'[p].scans \subseteq RowsOf(File(p))
        /\ run'[p].scan \subseteq RowsOf(File(p))
    BY <2>1, <2>2 DEF AccountOK
  <2> QED
    BY <2>1, <2>2, <2>3, <2>4, <2>5, MiniBatchAccount
<1>10. CASE \E s \in Scans : Analyse(p, s) \/ AnalysisFails(p, s)
  <2>1. PICK s \in Scans : Analyse(p, s) \/ AnalysisFails(p, s)
    BY <1>10
  <2>2. run[p].pc = "scans" /\ run[p].scan = {} /\ s \in run[p].scans
    BY <2>1 DEF Analyse, AnalysisFails, RunOK
  <2>3. /\ run'[p].pc \in {"scans", "init", "verify"} /\ run'[p].todo = run[p].todo
        /\ run'[p].mini = run[p].mini /\ run'[p].results = run[p].results
        /\ run'[p].scans = run[p].scans \ {s}
        /\ \/ run'[p].scan = {s} /\ run'[p].failed = run[p].failed
           \/ run'[p].scan = {} /\ run'[p].failed = run[p].failed \union {s}
    BY <2>1, <2>2, AnalyseEffect, AnalysisFailsEffect
  <2>4. \A t : Seen(p, t) => Seen(p, t)'
    BY <2>2, <2>3 DEF Seen
  <2>5. /\ \A r \in run'[p].results : r.scan \in RowsOf(File(p))
        /\ run'[p].scans \subseteq RowsOf(File(p))
        /\ run'[p].scan \subseteq RowsOf(File(p))
    BY <2>2, <2>3 DEF AccountOK
  <2> QED
    BY <2>2, <2>3, <2>4, <2>5, MiniBatchAccount
<1>11. CASE InitCheckpoint(p)
  <2>1. run[p].pc \in ScanPcs
    BY <1>11 DEF InitCheckpoint
  <2>2. CASE Broken(p)
    BY <2>1, <2>2, ResultAccount DEF Broken
  <2>3. CASE Goto(p, "initrename")
    BY <2>1, <2>3, GotoAccount, MiniBatchAccount DEF WorkPcs
  <2> QED
    BY <1>11, <2>2, <2>3 DEF InitCheckpoint
<1>11a. CASE RenameInit(p)
  <2>1. run[p].pc \in ScanPcs
    BY <1>11a DEF RenameInit
  <2>2. CASE Broken(p)
    BY <2>1, <2>2, ResultAccount DEF Broken
  <2>3. CASE Goto(p, "verify")
    BY <2>1, <2>3, GotoAccount, MiniBatchAccount DEF WorkPcs
  <2> QED
    BY <1>11a, <2>2, <2>3 DEF RenameInit
<1>12. CASE CacheHit(p)
  <2>1. run[p].pc \in {"verify", "mark"} /\ NextBatch(p) /\ run[p].batch <= NBatches
    BY <1>12 DEF CacheHit, Due, RunOK
  <2> QED
    BY <2>1, NextBatchAccount
<1>13. CASE BatchFails(p)
  <2>1. run[p].pc \in {"verify", "mark"} /\ NextBatch(p) /\ run[p].batch <= NBatches
    BY <1>13 DEF BatchFails, Due, RunOK
  <2> QED
    BY <2>1, NextBatchAccount
<1>14. CASE VerifyBatch(p)
  <2>1. run[p].pc = "verify" /\ Goto(p, "mark")
    BY <1>14 DEF VerifyBatch, Due
  <2> QED
    BY <2>1, GotoAccount, MiniBatchAccount DEF WorkPcs
<1>15. CASE MarkComplete(p)
  <2>1. run[p].pc = "mark" /\ run[p].batch <= NBatches
    BY <1>15 DEF MarkComplete, RunOK
  <2>2. CASE NextBatch(p)
    BY <2>1, <2>2, NextBatchAccount
  <2>3. CASE Goto(p, "markrename")
    BY <2>1, <2>3, GotoAccount, MiniBatchAccount DEF WorkPcs
  <2> QED
    BY <1>15, <2>2, <2>3 DEF MarkComplete
<1>15a. CASE RenameMark(p)
  <2>1. run[p].pc = "markrename" /\ NextBatch(p) /\ run[p].batch <= NBatches
    BY <1>15a DEF RenameMark, RunOK
  <2> QED
    BY <2>1, NextBatchAccount
<1>16. CASE ClearCheckpoint(p)
  <2>1. run[p].pc \in ScanPcs
    BY <1>16 DEF ClearCheckpoint
  <2>2. ASSUME NEW ver \in SUBSET Batches, NEW whole \in BOOLEAN, Result(p, ver, whole)
        PROVE  AccountOK(p)'
    BY <2>1, <2>2, ResultAccount
  <2>3. run[p].ver \in SUBSET Batches /\ {} \in SUBSET Batches
    BY DEF TypeOK, RunState
  <2> QED
    BY <1>16, <2>2, <2>3 DEF ClearCheckpoint, Broken
<1>17. CASE EndMiniBatch(p)
  <2>1. run[p].pc = "scans" /\ run[p].scans = {} /\ run[p].scan = {}
    BY <1>17 DEF EndMiniBatch, RunOK
  <2>2. /\ File(p) \in Files /\ run[p].mini \in DOMAIN MiniBatches[File(p)]
        /\ DOMAIN MiniBatches[File(p)] = 1 .. Len(MiniBatches[File(p)])
        /\ Len(MiniBatches[File(p)]) \in Nat
    BY <2>1, TheMiniBatch, Rows
  <2>3. \A i \in DOMAIN MiniBatches[File(p)] : i <= run[p].mini =>
          \A s \in MiniBatches[File(p)][i] : Seen(p, s)
    BY <2>1, <2>2 DEF AccountOK
  <2>4. CASE run' = [run EXCEPT ![p].pc = "mini", ![p].mini = @ + 1]
    <3>1. /\ run'[p].pc = "mini" /\ run'[p].todo = run[p].todo
          /\ run'[p].mini = run[p].mini + 1 /\ run'[p].scans = run[p].scans
          /\ run'[p].results = run[p].results /\ run'[p].failed = run[p].failed
          /\ run'[p].scan = run[p].scan
      BY <2>4, MiniEffect
    <3>2. File(p)' = File(p) /\ \A s : Seen(p, s)' <=> Seen(p, s)
      BY <3>1 DEF File, Seen
    <3>3. \A i \in DOMAIN MiniBatches[File(p)] : i < run'[p].mini => i <= run[p].mini
      BY <2>2, <3>1
    <3> QED
      BY <2>1, <2>3, <3>1, <3>2, <3>3 DEF AccountOK
  <2>5. CASE Goto(p, "csv") /\ ~(run[p].mini < Len(MiniBatches[File(p)]))
    <3>1. /\ File(p)' = File(p) /\ run'[p].pc = "csv"
          /\ \A s : Seen(p, s)' <=> Seen(p, s)
          /\ \A r \in run'[p].results : r.scan \in RowsOf(File(p))
          /\ run'[p].scans \subseteq RowsOf(File(p))
          /\ run'[p].scan \subseteq RowsOf(File(p))
      BY <2>1, <2>5, GotoAccount DEF WorkPcs
    <3>2. \A i \in DOMAIN MiniBatches[File(p)] : i <= run[p].mini
      BY <2>2, <2>5
    <3>3. \A s \in RowsOf(File(p)) : Seen(p, s)
      BY <2>2, <2>3, <3>2, Rows
    <3> QED
      BY <3>1, <3>3 DEF AccountOK
  <2> QED
    BY <1>17, <2>4, <2>5 DEF EndMiniBatch, Goto
<1>18. CASE WriteResults(p)
  <2>1. PICK pc \in {"failcsv", "move", "tofailed"} : Goto(p, pc)
    BY <1>18 DEF WriteResults
  <2>2. run[p].pc = "csv"
    BY <1>18 DEF WriteResults
  <2>3. /\ File(p)' = File(p) /\ run'[p].pc = pc
        /\ \A s : Seen(p, s)' <=> Seen(p, s)
        /\ \A r \in run'[p].results : r.scan \in RowsOf(File(p))
        /\ run'[p].scans \subseteq RowsOf(File(p))
        /\ run'[p].scan \subseteq RowsOf(File(p))
        /\ run'[p].results = run[p].results /\ run'[p].failed = run[p].failed
    BY <2>1, <2>2, GotoAccount DEF WorkPcs
  <2>4. CASE Goto(p, "tofailed")
    <3>1. pc = "tofailed"
      BY <2>3, <2>4, GotoEffect DEF WorkPcs
    <3> QED
      BY <2>3, <3>1 DEF AccountOK
  <2>5. CASE ~Goto(p, "tofailed")
    <3>1. /\ Goto(p, IF run[p].failed # {} THEN "failcsv" ELSE "move")
          /\ \A r \in run[p].results : r.scan \in ResultWritten'
      BY <1>18, <2>5, OutputsEffect
    <3>2. pc = IF run[p].failed # {} THEN "failcsv" ELSE "move"
      BY <2>3, <3>1, GotoEffect DEF WorkPcs
    <3> QED
      BY <2>2, <2>3, <3>1, <3>2 DEF AccountOK
  <2> QED
    BY <2>4, <2>5
<1>19. CASE WriteFailed(p)
  <2>1. PICK pc \in {"move", "tofailed"} : Goto(p, pc)
    BY <1>19 DEF WriteFailed
  <2>2. run[p].pc = "failcsv"
    BY <1>19 DEF WriteFailed
  <2>3. /\ File(p)' = File(p) /\ run'[p].pc = pc
        /\ \A s : Seen(p, s)' <=> Seen(p, s)
        /\ \A r \in run'[p].results : r.scan \in RowsOf(File(p))
        /\ run'[p].scans \subseteq RowsOf(File(p))
        /\ run'[p].scan \subseteq RowsOf(File(p))
        /\ run'[p].results = run[p].results /\ run'[p].failed = run[p].failed
    BY <2>1, <2>2, GotoAccount DEF WorkPcs
  <2>4. CASE Goto(p, "tofailed")
    <3>1. pc = "tofailed"
      BY <2>3, <2>4, GotoEffect DEF WorkPcs
    <3> QED
      BY <2>3, <3>1 DEF AccountOK
  <2>5. CASE ~Goto(p, "tofailed")
    <3>1. run[p].failed \subseteq FailureWritten'
      BY <1>19, <2>5, OutputsEffect
    <3>2. \A r \in run[p].results : r.scan \in ResultWritten'
      BY <1>19, <2>2, OutputsEffect DEF AccountOK, Kept
    <3> QED
      BY <2>2, <2>3, <3>1, <3>2 DEF AccountOK
  <2> QED
    BY <2>4, <2>5
<1>20. CASE Move(p)
  <2>1. CASE NextFile(p)
    BY <2>1, NextFileRun
  <2>2. CASE ~NextFile(p)
    <3>1. PICK pc \in {"tofailed", "rescue"} : Goto(p, pc)
      BY <1>20, <2>2 DEF Move
    <3>2. run[p].pc \in FilePcs
      BY <1>20 DEF Move
    <3>3. /\ File(p)' = File(p) /\ run'[p].pc = pc
          /\ \A r \in run'[p].results : r.scan \in RowsOf(File(p))
          /\ run'[p].scans \subseteq RowsOf(File(p))
          /\ run'[p].scan \subseteq RowsOf(File(p))
      BY <3>1, <3>2, GotoAccount DEF WorkPcs
    <3> QED
      BY <3>3 DEF AccountOK
  <2> QED
    BY <2>1, <2>2
<1>21. CASE Killed(p) \/ Terminate(p)
  BY <1>21, EndsRun DEF Killed, Terminate, Ends
<1> QED
  BY <1>1, <1>2, <1>3, <1>4, <1>5, <1>6, <1>7, <1>8, <1>9, <1>10, <1>11, <1>11a, <1>12, <1>13, <1>14, <1>15, <1>15a, <1>16, <1>17, <1>18, <1>19, <1>20, <1>21 DEF Step, Work

\* What was written is kept or counted as lost, the cache only grows, faults are only counted up, and
\* who changes the directory of a file moves it.
LEMMA Growth ==
    ASSUME TypeOK, NEW p \in Runs, RunOK(p), Step(p)
    PROVE  /\ Kept /\ cached \subseteq cached'
           /\ errors' = 0 => errors = 0 /\ UNCHANGED errors
           /\ kills' = 0 => kills = 0 /\ UNCHANGED kills
           /\ at' = at \/ Move(p)
<1>1. errors \in Nat /\ kills \in Nat
  BY DEF TypeOK
<1>2. /\ Works => (errors' = 0 => errors = 0 /\ UNCHANGED errors)
      /\ Fails => (errors' = 0 => errors = 0 /\ UNCHANGED errors)
      /\ MayKill => (kills' = 0 => kills = 0 /\ UNCHANGED kills)
  BY <1>1 DEF Works, Fails, MayKill
<1>2a. UNCHANGED outputs => Kept
  BY NothingWritten
<1> USE DEF files, faults
<1>3. CASE StartDirectory(p)
  BY <1>2, <1>2a, <1>3 DEF StartDirectory
<1>4. CASE CreateLock(p)
  BY <1>2, <1>2a, <1>4 DEF CreateLock
<1>5. CASE WriteLock(p)
  BY <1>2, <1>2a, <1>5 DEF WriteLock
<1>6. CASE ReadLock(p)
  BY <1>2, <1>2a, <1>6 DEF ReadLock
<1>7. CASE UnlinkStale(p)
  BY <1>2, <1>2a, <1>7 DEF UnlinkStale
<1>8. CASE ListFiles(p)
  BY <1>2, <1>2a, <1>8 DEF ListFiles
<1>9. CASE ReleaseLock(p)
  BY <1>2, <1>2a, <1>9 DEF ReleaseLock
<1>10. CASE ParseFile(p)
  BY <1>2, <1>2a, <1>10 DEF ParseFile
<1>11. CASE Download(p)
  BY <1>2, <1>2a, <1>11 DEF Download
<1>12. CASE \E s \in Scans : Analyse(p, s) \/ AnalysisFails(p, s)
  BY <1>2a, <1>12 DEF Analyse, AnalysisFails
<1>13. CASE InitCheckpoint(p)
  BY <1>2, <1>2a, <1>13 DEF InitCheckpoint
<1>13a. CASE RenameInit(p)
  BY <1>2, <1>2a, <1>13a DEF RenameInit, RenameFails
<1>14. CASE CacheHit(p)
  BY <1>2, <1>2a, <1>14 DEF CacheHit
<1>15. CASE BatchFails(p)
  BY <1>2, <1>2a, <1>15 DEF BatchFails
<1>16. CASE VerifyBatch(p)
  BY <1>2, <1>2a, <1>16 DEF VerifyBatch
<1>17. CASE MarkComplete(p)
  BY <1>2, <1>2a, <1>17 DEF MarkComplete
<1>17a. CASE RenameMark(p)
  BY <1>2, <1>2a, <1>17a DEF RenameMark, RenameFails
<1>18. CASE ClearCheckpoint(p)
  BY <1>2, <1>2a, <1>18 DEF ClearCheckpoint
<1>19. CASE EndMiniBatch(p)
  BY <1>2, <1>2a, <1>19 DEF EndMiniBatch
<1>20. CASE WriteResults(p)
  BY <1>2, <1>2a, <1>20, OutputsEffect DEF WriteResults
<1>21. CASE WriteFailed(p)
  BY <1>2, <1>2a, <1>21, OutputsEffect DEF WriteFailed
<1>22. CASE Move(p)
  BY <1>2, <1>2a, <1>22 DEF Move
<1>23. CASE Killed(p)
  BY <1>2, <1>2a, <1>23 DEF Killed
<1>24. CASE Terminate(p)
  BY <1>2, <1>2a, <1>24 DEF Terminate
<1> QED
  BY <1>3, <1>4, <1>5, <1>6, <1>7, <1>8, <1>9, <1>10, <1>11, <1>12, <1>13, <1>13a, <1>14, <1>15, <1>16, <1>17, <1>17a, <1>18, <1>19, <1>20, <1>21, <1>22, <1>23, <1>24 DEF Step, Work

\* A file that is moved to processed/ is accounted for.
LEMMA ProcessedStep ==
    ASSUME TypeOK, NEW p \in Runs, RunOK(p), AccountOK(p), ProcessedIsAccounted, Step(p)
    PROVE  ProcessedIsAccounted'
<1>1. Kept /\ (at' = at \/ Move(p))
  BY Growth
<1> SUFFICES ASSUME NEW f \in Files, at'[f] = "processed"
             PROVE  /\ RowsOf(f) \subseteq ResultWritten' \union FailureWritten'
                    /\ RowsOf(f) \intersect ResultWritten' # {}
  BY DEF ProcessedIsAccounted
<1>2. /\ RowsOf(f) \subseteq ResultWritten \union FailureWritten
      /\ RowsOf(f) \intersect ResultWritten # {}
  <2>1. CASE at[f] = "processed"
    BY <2>1 DEF ProcessedIsAccounted
  <2>2. CASE at[f] # "processed"
    <3>1. Move(p) /\ at' # at
      BY <1>1, <2>2
    <3>2. f = File(p) /\ run[p].pc = "move" /\ run[p].results # {}
      BY <2>2, <3>1 DEF Move, TypeOK
    <3>3. /\ run[p].scans = {} /\ run[p].scan = {}
          /\ \A r \in run[p].results : r.scan \in ResultWritten /\ r.scan \in RowsOf(f)
          /\ run[p].failed \subseteq FailureWritten
          /\ \A s \in RowsOf(f) : Seen(p, s)
      BY <3>2 DEF RunOK, AccountOK, ScanPcs, FilePcs
    <3> QED
      BY <3>2, <3>3 DEF Seen
  <2> QED
    BY <2>1, <2>2
<1> QED
  BY <1>1, <1>2 DEF Kept

(***************************************************************************)
(* The cache                                                               *)
(***************************************************************************)
\* A run that works on no scan, with the same results.
LEMMA NoScanCache ==
    ASSUME NEW p \in Runs, CacheOK(p), cached \subseteq cached',
           run'[p].scan = {}, run'[p].results = run[p].results
    PROVE  CacheOK(p)'
BY DEF CacheOK

\* A run that goes on with its scan, its batches and its results.
LEMMA GotoCache ==
    ASSUME TypeOK, NEW p \in Runs, NEW pc \in {"idle"} \union LockPcs \union WorkPcs,
           CacheOK(p), cached \subseteq cached', Goto(p, pc),
           pc = "mark" => \A s \in run[p].scan : <<Content[s], run[p].batch>> \in cached'
    PROVE  CacheOK(p)'
<1>1. /\ run'[p].pc = pc /\ run'[p].scan = run[p].scan
      /\ run'[p].results = run[p].results /\ run'[p].batch = run[p].batch
      /\ run'[p].ver = run[p].ver /\ run'[p].skip = run[p].skip
  BY GotoEffect
<1> QED
  BY <1>1 DEF CacheOK

\* The batches of the next round: those of this one, the batch that is done,
\* and those that are skipped.
LEMMA NextBatchCache ==
    ASSUME TypeOK, NEW p \in Runs, CacheOK(p), cached' = cached,
           run[p].batch <= NBatches, NextBatch(p)
    PROVE  CacheOK(p)'
<1> DEFINE next == Following(run[p].batch + 1, run[p].skip)
<1>1. /\ run'[p].pc = "verify" /\ run'[p].scan = run[p].scan
      /\ run'[p].results = run[p].results /\ run'[p].batch = next
      /\ run'[p].ver = run[p].ver \union {run[p].batch}
      /\ run'[p].skip = run[p].skip
      /\ run[p].batch + 1 \in 1 .. NBatches + 1
  BY NextBatchEffect
<1>2. run[p].batch \in 1 .. NBatches + 1 /\ run[p].skip \in SUBSET Batches
  BY DEF TypeOK, RunState
<1>3. /\ next \in 1 .. NBatches + 1
      /\ \A b \in (run[p].batch + 1) .. (next - 1) : b \in run[p].skip
  BY <1>1, <1>2, FollowingBatch
<1> HIDE DEF next
<1>4. ASSUME NEW s \in run[p].scan, NEW b \in 1 .. (next - 1)
      PROVE  b \in run'[p].ver \/ <<Content[s], b>> \in cached
  <2>1. \/ b \in 1 .. (run[p].batch - 1)
        \/ b = run[p].batch
        \/ b \in (run[p].batch + 1) .. (next - 1)
    BY <1>2, <1>3, LimitsAreNumbers
  <2> QED
    BY <1>1, <1>3, <2>1 DEF CacheOK
<1>5. \A s \in run'[p].scan :
        /\ \A b \in run'[p].skip : <<Content[s], b>> \in cached'
        /\ \A b \in 1 .. (run'[p].batch - 1) :
             b \in run'[p].ver \/ <<Content[s], b>> \in cached'
        /\ run'[p].pc = "mark" => <<Content[s], run'[p].batch>> \in cached'
  BY <1>1, <1>4 DEF CacheOK
<1>6. \A r \in run'[p].results : \A b \in Batches :
        r.whole => b \in r.ver \/ <<Content[r.scan], b>> \in cached'
  BY <1>1 DEF CacheOK
<1> QED
  BY <1>5, <1>6 DEF CacheOK

\* A result whose verification broke off is excepted.
LEMMA BrokenCache ==
    ASSUME TypeOK, NEW p \in Runs, RunOK(p), run[p].pc \in ScanPcs, CacheOK(p),
           cached' = cached, Broken(p)
    PROVE  CacheOK(p)'
<1> DEFINE row == [scan |-> Scan(p), ver |-> {}, whole |-> FALSE]
<1>1. run[p].scan = {Scan(p)} /\ Scan(p) \in Scans
  BY ScanOfRun
<1>2. run'[p].scan = {} /\ run'[p].results = run[p].results \union {row}
  BY <1>1, ResultEffect DEF Broken
<1> QED
  BY <1>2 DEF CacheOK

\* A rename brings into the checkpoint what was in the temporary file.
LEMMA RenameCache ==
    ASSUME TypeOK, NEW p \in Runs, RunOK(p), run[p].pc \in ScanPcs, Rename(p),
           MarkedIsCached, cached' = cached
    PROVE  MarkedIsCached'
<1>1. /\ ckpt'[Scan(p)] = tmp[Scan(p)] /\ tmp'[Scan(p)] = NoCheckpoint
      /\ \A s \in Scans : s # Scan(p) => ckpt'[s] = ckpt[s] /\ tmp'[s] = tmp[s]
  BY RenameEffect
<1>2. \A s \in Scans : ckpt'[s].done \union tmp'[s].done \subseteq ckpt[s].done \union tmp[s].done
  BY <1>1 DEF NoCheckpoint
<1> QED
  BY <1>2 DEF MarkedIsCached

\* Unless a call failed, a step leaves out only what is cached.
LEMMA CacheStep ==
    ASSUME TypeOK, NEW p \in Runs, RunOK(p), Step(p),
           errors' = 0, MarkedIsCached, CacheOK(p)
    PROVE  MarkedIsCached' /\ CacheOK(p)'
<1>0. cached \subseteq cached' /\ ~Fails
  <2>1. Fails => errors' # 0
    BY DEF Fails, TypeOK
  <2> QED
    BY <2>1, Growth
<1>00. ckpt' = ckpt /\ tmp' = tmp => MarkedIsCached'
  BY <1>0 DEF MarkedIsCached
<1> USE DEF files, outputs
<1>1. CASE StartDirectory(p)
  BY <1>0, <1>00, <1>1, GotoCache DEF StartDirectory, LockPcs
<1>2. CASE CreateLock(p)
  <2>1. CASE Ends(p)
    BY <1>00, <1>2, <2>1, EndsRun DEF Ends, CreateLock
  <2>2. ASSUME NEW pc \in {"write", "read"}, Goto(p, pc)
        PROVE  CacheOK(p)'
    BY <1>0, <2>2, GotoCache DEF LockPcs, WorkPcs
  <2> QED
    BY <1>00, <1>2, <2>1, <2>2 DEF CreateLock
<1>3. CASE WriteLock(p)
  <2>1. CASE Ends(p)
    BY <1>00, <1>3, <2>1, EndsRun DEF Ends, WriteLock
  <2>2. ASSUME NEW pc \in {"list"}, Goto(p, pc)
        PROVE  CacheOK(p)'
    BY <1>0, <2>2, GotoCache DEF LockPcs, WorkPcs
  <2> QED
    BY <1>00, <1>3, <2>1, <2>2 DEF WriteLock
<1>4. CASE ReadLock(p)
  <2>1. CASE Ends(p)
    BY <1>00, <1>4, <2>1, EndsRun DEF Ends, ReadLock
  <2>2. ASSUME NEW pc \in {"unlink"}, Goto(p, pc)
        PROVE  CacheOK(p)'
    BY <1>0, <2>2, GotoCache DEF LockPcs, WorkPcs
  <2> QED
    BY <1>00, <1>4, <2>1, <2>2 DEF ReadLock
<1>5. CASE UnlinkStale(p)
  <2>1. CASE Ends(p)
    BY <1>00, <1>5, <2>1, EndsRun DEF Ends, UnlinkStale
  <2>2. ASSUME NEW pc \in {"create"}, Goto(p, pc)
        PROVE  CacheOK(p)'
    BY <1>0, <2>2, GotoCache DEF LockPcs, WorkPcs
  <2> QED
    BY <1>00, <1>5, <2>1, <2>2 DEF UnlinkStale
<1>6. CASE ListFiles(p)
  <2>1. CASE Ends(p)
    BY <1>00, <1>6, <2>1, EndsRun DEF Ends, ListFiles
  <2>2. CASE Goto(p, "release")
    BY <1>0, <1>00, <1>6, <2>2, GotoCache DEF WorkPcs, ListFiles
  <2>3. CASE run' = [run EXCEPT ![p].pc = "parse", ![p].todo = Listed]
    <3>1. run[p].scan = {}
      BY <1>6 DEF ListFiles, RunOK, ScanPcs
    <3>2. run'[p].scan = {} /\ run'[p].results = run[p].results
      BY <2>3, <3>1, ListedIsLimited, TakeEffect
    <3> QED
      BY <1>0, <1>00, <1>6, <3>2, NoScanCache DEF ListFiles
  <2> QED
    BY <1>6, <2>1, <2>2, <2>3 DEF ListFiles
<1>7. CASE ReleaseLock(p)
  BY <1>00, <1>7, EndsRun DEF ReleaseLock
<1>8. CASE ParseFile(p)
  <2>1. PICK pc \in {"empty", "mini", "tofailed"} : Goto(p, pc)
    BY <1>8 DEF ParseFile
  <2> QED
    BY <1>0, <1>00, <1>8, <2>1, GotoCache DEF WorkPcs, ParseFile
<1>9. CASE Download(p)
  <2>1. run[p].scan = {} /\ ckpt' = ckpt /\ tmp' = tmp
    BY <1>9 DEF Download, RunOK, ScanPcs
  <2>2. run'[p].scan = {} /\ run'[p].results = run[p].results
    BY <1>9, <2>1, DownloadEffect
  <2> QED
    BY <1>0, <1>00, <2>1, <2>2, NoScanCache
<1>10. CASE \E s \in Scans : Analyse(p, s) \/ AnalysisFails(p, s)
  <2>1. PICK s \in Scans : Analyse(p, s) \/ AnalysisFails(p, s)
    BY <1>10
  <2>2. run[p].scan = {} /\ ckpt' = ckpt /\ tmp' = tmp
    BY <2>1 DEF Analyse, AnalysisFails, RunOK, ScanPcs
  <2>3. CASE Analyse(p, s)
    <3>1. /\ run'[p].pc \in {"init", "verify"} /\ run'[p].scan = {s}
          /\ run'[p].results = run[p].results
          /\ run'[p].batch = Following(1, ckpt[s].done)
          /\ run'[p].skip = ckpt[s].done
      BY <2>3, AnalyseEffect
    <3>2. \A b \in ckpt[s].done : <<Content[s], b>> \in cached'
      BY <1>0 DEF MarkedIsCached
    <3>3. \A b \in 1 .. (run'[p].batch - 1) : b \in ckpt[s].done
      <4>1. 1 \in 1 .. NBatches + 1 /\ ckpt[s].done \in SUBSET Batches
        BY LimitsAreNumbers DEF TypeOK, Checkpoint
      <4> QED
        BY <3>1, <4>1, FollowingBatch
    <3>4. \A r \in run'[p].results : \A b \in Batches :
            r.whole => b \in r.ver \/ <<Content[r.scan], b>> \in cached'
      BY <1>0, <3>1 DEF CacheOK
    <3>5. CacheOK(p)'
      BY <3>1, <3>2, <3>3, <3>4 DEF CacheOK
    <3> QED
      BY <1>00, <2>2, <3>5
  <2>4. CASE AnalysisFails(p, s)
    <3>1. run'[p].scan = {} /\ run'[p].results = run[p].results
      BY <2>2, <2>4, AnalysisFailsEffect
    <3> QED
      BY <1>0, <1>00, <2>2, <3>1, NoScanCache
  <2> QED
    BY <2>1, <2>3, <2>4
<1>11. CASE InitCheckpoint(p)
  <2>1. /\ Goto(p, "initrename") /\ ckpt' = ckpt
        /\ tmp' = [tmp EXCEPT ![Scan(p)] = [saved |-> TRUE, done |-> {}]]
    BY <1>0, <1>11 DEF InitCheckpoint
  <2>2. CacheOK(p)'
    BY <1>0, <2>1, GotoCache DEF WorkPcs
  <2>3. \A s \in Scans : tmp'[s].done \subseteq tmp[s].done
    BY <2>1 DEF TypeOK
  <2> QED
    BY <1>0, <2>1, <2>2, <2>3 DEF MarkedIsCached
<1>11a. CASE RenameInit(p)
  <2>1. run[p].pc \in ScanPcs /\ cached' = cached
    BY <1>11a DEF RenameInit, ScanPcs
  <2>2. CASE Rename(p) /\ Goto(p, "verify")
    <3>1. CacheOK(p)'
      BY <1>0, <2>2, GotoCache DEF WorkPcs
    <3> QED
      BY <2>1, <2>2, <3>1, RenameCache
  <2>3. CASE Broken(p) /\ UNCHANGED <<ckpt, tmp>>
    BY <1>00, <2>1, <2>3, BrokenCache
  <2> QED
    BY <1>11a, <2>2, <2>3 DEF RenameInit
<1>12. CASE CacheHit(p)
  <2>1. run[p].batch <= NBatches /\ NextBatch(p) /\ cached' = cached /\ ckpt' = ckpt /\ tmp' = tmp
    BY <1>12 DEF CacheHit, Due
  <2> QED
    BY <1>00, <2>1, NextBatchCache
<1>13. CASE BatchFails(p)
  <2>1. run[p].batch <= NBatches /\ NextBatch(p) /\ cached' = cached /\ ckpt' = ckpt /\ tmp' = tmp
    BY <1>13 DEF BatchFails, Due
  <2> QED
    BY <1>00, <2>1, NextBatchCache
<1>14. CASE VerifyBatch(p)
  <2>1. Goto(p, "mark") /\ cached' = cached \union {Key(p)} /\ ckpt' = ckpt /\ tmp' = tmp
    BY <1>0, <1>14 DEF VerifyBatch
  <2>2. run[p].scan = {Scan(p)}
    BY <1>14, ScanOfRun DEF VerifyBatch, Due, ScanPcs
  <2>3. \A s \in run[p].scan : <<Content[s], run[p].batch>> \in cached'
    BY <2>1, <2>2 DEF Key
  <2> QED
    BY <1>0, <1>00, <2>1, <2>3, GotoCache DEF WorkPcs
<1>15. CASE MarkComplete(p)
  <2>1. run[p].pc = "mark" /\ run[p].batch <= NBatches /\ cached' = cached /\ ckpt' = ckpt
    BY <1>15 DEF MarkComplete, RunOK
  <2>2. run[p].scan = {Scan(p)} /\ Scan(p) \in Scans
    BY <2>1, ScanOfRun DEF ScanPcs
  <2>3. CacheOK(p)'
    BY <1>0, <1>15, <2>1, NextBatchCache, GotoCache DEF MarkComplete, WorkPcs
  <2>4. <<Content[Scan(p)], run[p].batch>> \in cached
    BY <2>1, <2>2 DEF CacheOK
  <2>5. \A s \in Scans : \A b \in tmp'[s].done :
          b \in tmp[s].done \union ckpt[s].done \/ (s = Scan(p) /\ b = run[p].batch)
    <3>1. CASE tmp' = tmp
      BY <3>1
    <3>2. CASE tmp' = [tmp EXCEPT ![Scan(p)] =
                         [ckpt[Scan(p)] EXCEPT !.done = @ \union {run[p].batch}]]
      <4>1. ckpt[Scan(p)] \in Checkpoint
        BY <2>2 DEF TypeOK
      <4> QED
        BY <2>2, <3>2, <4>1 DEF TypeOK, Checkpoint
    <3> QED
      BY <1>15, <3>1, <3>2 DEF MarkComplete
  <2>6. MarkedIsCached'
    BY <2>1, <2>4, <2>5 DEF MarkedIsCached
  <2> QED
    BY <2>3, <2>6
<1>15a. CASE RenameMark(p)
  <2>1. /\ run[p].pc = "markrename" /\ run[p].batch <= NBatches /\ NextBatch(p)
        /\ cached' = cached
    BY <1>15a DEF RenameMark, RunOK
  <2>2. CacheOK(p)'
    BY <2>1, NextBatchCache
  <2>3. MarkedIsCached'
    BY <1>00, <1>15a, <2>1, RenameCache DEF RenameMark, ScanPcs
  <2> QED
    BY <2>2, <2>3
<1>16. CASE ClearCheckpoint(p)
  <2>1. /\ Result(p, run[p].ver, TRUE) /\ ckpt' = [ckpt EXCEPT ![Scan(p)] = NoCheckpoint]
        /\ run[p].batch > NBatches /\ cached' = cached /\ tmp' = tmp
    BY <1>0, <1>16 DEF ClearCheckpoint
  <2>2. run[p].scan = {Scan(p)} /\ Scan(p) \in Scans
    BY <1>16, ScanOfRun DEF ClearCheckpoint, ScanPcs
  <2>3. run[p].ver \in SUBSET Batches /\ run[p].batch \in 1 .. NBatches + 1
    BY DEF TypeOK, RunState
  <2> DEFINE row == [scan |-> Scan(p), ver |-> run[p].ver, whole |-> TRUE]
  <2>4. run'[p].scan = {} /\ run'[p].results = run[p].results \union {row}
    BY <2>1, <2>2, <2>3, ResultEffect
  <2>5. row.scan = Scan(p) /\ row.ver = run[p].ver
    OBVIOUS
  <2> HIDE DEF row
  <2>6. \A b \in Batches : b \in row.ver \/ <<Content[row.scan], b>> \in cached
    <3>1. \A b \in Batches : b \in 1 .. (run[p].batch - 1)
      BY <2>1, <2>3, LimitsAreNumbers DEF Batches
    <3> QED
      BY <2>2, <2>5, <3>1 DEF CacheOK
  <2>7. CacheOK(p)'
    BY <2>1, <2>4, <2>6 DEF CacheOK
  <2>8. \A s \in Scans : ckpt'[s].done \subseteq ckpt[s].done
    BY <2>1 DEF TypeOK, NoCheckpoint
  <2> QED
    BY <1>0, <2>1, <2>7, <2>8 DEF MarkedIsCached
<1>17. CASE EndMiniBatch(p)
  <2>1. run[p].scan = {} /\ ckpt' = ckpt /\ tmp' = tmp
    BY <1>17 DEF EndMiniBatch, RunOK, ScanPcs
  <2>2. CASE run' = [run EXCEPT ![p].pc = "mini", ![p].mini = @ + 1]
    BY <1>0, <1>00, <2>1, <2>2, MiniEffect, NoScanCache
  <2>3. CASE Goto(p, "csv")
    BY <1>0, <1>00, <2>1, <2>3, GotoCache DEF WorkPcs
  <2> QED
    BY <1>17, <2>2, <2>3 DEF EndMiniBatch, Goto
<1>18. CASE WriteResults(p)
  <2>1. PICK pc \in {"failcsv", "move", "tofailed"} : Goto(p, pc)
    BY <1>18 DEF WriteResults
  <2> QED
    BY <1>0, <1>00, <1>18, <2>1, GotoCache DEF WriteResults, WorkPcs
<1>19. CASE WriteFailed(p)
  <2>1. PICK pc \in {"move", "tofailed"} : Goto(p, pc)
    BY <1>19 DEF WriteFailed
  <2> QED
    BY <1>0, <1>00, <1>19, <2>1, GotoCache DEF WriteFailed, WorkPcs
<1>20. CASE Move(p)
  <2>1. ckpt' = ckpt /\ tmp' = tmp
    BY <1>20 DEF Move
  <2>2. CASE NextFile(p)
    BY <1>00, <2>1, <2>2, NextFileRun
  <2>3. CASE ~NextFile(p)
    <3>1. PICK pc \in {"tofailed", "rescue"} : Goto(p, pc)
      BY <1>20, <2>3 DEF Move
    <3> QED
      BY <1>0, <1>00, <2>1, <3>1, GotoCache DEF WorkPcs
  <2> QED
    BY <2>2, <2>3
<1>21. CASE Killed(p) \/ Terminate(p)
  BY <1>00, <1>21, EndsRun DEF Killed, Terminate, Ends
<1> QED
  BY <1>1, <1>2, <1>3, <1>4, <1>5, <1>6, <1>7, <1>8, <1>9, <1>10, <1>11, <1>11a, <1>12, <1>13, <1>14, <1>15, <1>15a, <1>16, <1>17, <1>18, <1>19, <1>20, <1>21 DEF Step, Work

(***************************************************************************)
(* The checkpoints                                                         *)
(***************************************************************************)
\* A checkpoint that is there after a step of p was there before, and p goes on
\* with its scan if it did; or p has just saved it and begins.
LEMMA CheckpointOfStep ==
    ASSUME TypeOK, NEW p \in Runs, RunOK(p), Step(p), errors' = 0, kills' = 0,
           NEW s \in Scans, ckpt'[s].saved
    PROVE  \/ ckpt[s].saved /\ (Verifies(p, s) => Verifies(p, s)')
           \/ Verifies(p, s)'
<1>1. ~Fails /\ ~MayKill
  BY DEF Fails, MayKill, TypeOK
<1>2. CASE InitCheckpoint(p)
  <2>1. ckpt' = ckpt /\ run[p].pc = "init"
    BY <1>2 DEF InitCheckpoint
  <2> QED
    BY <2>1 DEF Verifies
<1>2a. CASE RenameInit(p)
  <2>1. run[p].pc = "initrename" /\ run[p].scan = {Scan(p)} /\ Scan(p) \in Scans
    BY <1>2a, ScanOfRun DEF RenameInit, ScanPcs
  <2>2. CASE ckpt' = ckpt
    BY <2>1, <2>2 DEF Verifies
  <2>3. CASE Rename(p) /\ Goto(p, "verify")
    <3>1. run'[p].pc = "verify" /\ run'[p].scan = {Scan(p)}
      BY <2>1, <2>3, GotoEffect DEF WorkPcs
    <3>2. CASE s = Scan(p)
      BY <3>1, <3>2 DEF Verifies
    <3>3. CASE s # Scan(p)
      BY <2>1, <2>3, <3>3, RenameEffect DEF Verifies, ScanPcs
    <3> QED
      BY <3>2, <3>3
  <2> QED
    BY <1>2a, <2>2, <2>3 DEF RenameInit
<1>2b. CASE RenameMark(p)
  <2>1. /\ run[p].pc = "markrename" /\ NextBatch(p) /\ run[p].batch <= NBatches
        /\ run[p].scan = {Scan(p)} /\ Scan(p) \in Scans
    BY <1>2b, ScanOfRun DEF RenameMark, RunOK, ScanPcs
  <2>2. run'[p].pc = "verify" /\ run'[p].scan = {Scan(p)}
    BY <2>1, NextBatchEffect
  <2>3. CASE s = Scan(p)
    BY <2>2, <2>3 DEF Verifies
  <2>4. CASE s # Scan(p)
    BY <1>2b, <2>1, <2>2, <2>4, RenameEffect DEF Verifies, ScanPcs, RenameMark
  <2> QED
    BY <2>3, <2>4
<1>3. CASE CacheHit(p) \/ BatchFails(p) \/ MarkComplete(p)
  <2>1. /\ NextBatch(p) \/ Goto(p, "markrename")
        /\ run[p].batch <= NBatches /\ ckpt' = ckpt
    BY <1>3 DEF CacheHit, BatchFails, MarkComplete, Due, RunOK
  <2>2. run'[p].pc \in {"verify", "markrename"} /\ run'[p].scan = run[p].scan
    BY <2>1, NextBatchEffect, GotoEffect DEF WorkPcs
  <2> QED
    BY <2>1, <2>2 DEF Verifies
<1>4. CASE VerifyBatch(p)
  <2>1. Goto(p, "mark") /\ ckpt' = ckpt
    BY <1>4 DEF VerifyBatch
  <2>2. run'[p].pc = "mark" /\ run'[p].scan = run[p].scan
    BY <2>1, GotoEffect DEF WorkPcs
  <2> QED
    BY <2>1, <2>2 DEF Verifies
<1>5. CASE ClearCheckpoint(p)
  <2>1. run[p].pc = "verify" /\ ckpt' = [ckpt EXCEPT ![Scan(p)] = NoCheckpoint]
    BY <1>1, <1>5 DEF ClearCheckpoint
  <2>2. run[p].scan = {Scan(p)} /\ Scan(p) \in Scans
    BY <2>1, ScanOfRun DEF ScanPcs
  <2>3. s # Scan(p) /\ ckpt[s].saved
    BY <2>1, <2>2 DEF TypeOK, NoCheckpoint
  <2> QED
    BY <2>2, <2>3 DEF Verifies
<1>6. CASE Killed(p) \/ Terminate(p)
  BY <1>1, <1>6 DEF Killed, Terminate
<1>7. CASE \/ StartDirectory(p) \/ CreateLock(p) \/ WriteLock(p) \/ ReadLock(p)
           \/ UnlinkStale(p) \/ ListFiles(p) \/ ReleaseLock(p) \/ ParseFile(p)
           \/ Download(p) \/ EndMiniBatch(p) \/ WriteResults(p) \/ WriteFailed(p)
           \/ Move(p) \/ \E t \in Scans : Analyse(p, t) \/ AnalysisFails(p, t)
  <2>1. ckpt' = ckpt /\ run[p].pc \notin {"verify", "mark", "markrename"}
    BY <1>7 DEF StartDirectory, CreateLock, WriteLock, ReadLock, UnlinkStale,
         ListFiles, ReleaseLock, ParseFile, Download, EndMiniBatch, WriteResults,
         WriteFailed, Move, Analyse, AnalysisFails
  <2> QED
    BY <2>1 DEF Verifies
<1> QED
  BY <1>2, <1>2a, <1>2b, <1>3, <1>4, <1>5, <1>6, <1>7 DEF Step, Work

\* Without a fault, every checkpoint on disk is one a run is about to complete
\* and clear.
LEMMA CheckpointStep ==
    ASSUME TypeOK, NEW p \in Runs, RunOK(p), Step(p), OnlyRun(p), CheckpointInv
    PROVE  CheckpointInv'
<1> SUFFICES ASSUME errors' = 0, kills' = 0, NEW s \in Scans, ckpt'[s].saved
             PROVE  \E q \in Runs : Verifies(q, s)'
  BY DEF CheckpointInv
<1>1. \/ ckpt[s].saved /\ (Verifies(p, s) => Verifies(p, s)')
      \/ Verifies(p, s)'
  BY CheckpointOfStep
<1>2. CASE Verifies(p, s)'
  BY <1>2
<1>3. CASE ckpt[s].saved /\ (Verifies(p, s) => Verifies(p, s)')
  <2>1. errors = 0 /\ kills = 0
    BY Growth
  <2>2. PICK q \in Runs : Verifies(q, s)
    BY <1>3, <2>1 DEF CheckpointInv
  <2>3. CASE q = p
    BY <1>3, <2>2, <2>3
  <2>4. CASE q # p
    BY <2>2, <2>4 DEF OnlyRun, Verifies
  <2> QED
    BY <2>3, <2>4
<1> QED
  BY <1>1, <1>2, <1>3

(***************************************************************************)
(* The theorems                                                            *)
(***************************************************************************)
\* The invariant holds where the program begins.
LEMMA InitInv ==
    Init => IInv
<1> SUFFICES ASSUME Init
             PROVE  IInv
  OBVIOUS
<1>1. TypeOK
  <2>1. run \in [Runs -> RunState]
    BY IdleState DEF Init
  <2>2. \A p \in Runs : run[p].todo = {} /\ run[p].scan = {}
    BY DEF Init, Idle
  <2>3. \A p \in Runs : Cardinality(run[p].todo) <= MaxFiles
    BY <2>2, FS_EmptySet, LimitsAreNumbers
  <2>4. errors \in Nat /\ kills \in Nat /\ errors + kills <= MaxFaults
    BY LimitsAreNumbers DEF Init
  <2>5. lock \in [by : Runs \union {"nobody", Dead}, written : BOOLEAN]
    BY DEF Init, Free
  <2>6. /\ at \in [Files -> {"input", "processed", "failed"}]
        /\ ckpt \in [Scans -> Checkpoint] /\ tmp \in [Scans -> Checkpoint]
    BY CheckpointTypes DEF Init
  <2> QED
    BY <2>1, <2>2, <2>3, <2>4, <2>5, <2>6 DEF TypeOK, Init
<1>2. \A p \in Runs : /\ run[p].pc = "idle" /\ run[p].scan = {} /\ run[p].scans = {}
                      /\ run[p].results = {} /\ run[p].failed = {} /\ run[p].mini = 1
  BY DEF Init, Idle
<1>3. RunInv
  BY <1>2 DEF RunInv, RunOK, FilePcs, MiniPcs, ScanPcs, FreshPcs
<1>4. AccountInv
  BY <1>2 DEF AccountInv, AccountOK, FilePcs, MiniPcs, ScanPcs
<1>5. ProcessedIsAccounted
  BY DEF ProcessedIsAccounted, Init
<1>6. CacheInv
  BY <1>2 DEF CacheInv, MarkedIsCached, CacheOK, Init, NoCheckpoint
<1>8. CheckpointInv
  BY DEF CheckpointInv, Init, NoCheckpoint
<1> QED
  BY <1>1, <1>3, <1>4, <1>5, <1>6, <1>8 DEF IInv

\* Every step keeps it.
LEMMA NextInv ==
    IInv /\ [Next]_vars => IInv'
<1> SUFFICES ASSUME IInv, [Next]_vars
             PROVE  IInv'
  OBVIOUS
<1>1. CASE UNCHANGED vars
  <2> USE DEF files, outputs, faults
  <2>1. \A p \in Runs : /\ File(p)' = File(p)
                        /\ \A s : Seen(p, s)' <=> Seen(p, s)
    BY <1>1 DEF vars, File, Seen
  <2>2. TypeOK' /\ RunInv'
    BY <1>1, <2>1 DEF IInv, TypeOK, RunInv, RunOK, vars
  <2>3. AccountInv' /\ ProcessedIsAccounted'
    BY <1>1, <2>1 DEF IInv, AccountInv, AccountOK, ProcessedIsAccounted, ResultWritten,
                      FailureWritten, vars
  <2>4. CacheInv' /\ CheckpointInv'
    BY <1>1 DEF IInv, CacheInv, MarkedIsCached, CacheOK, CheckpointInv, Verifies, vars
  <2> QED
    BY <2>2, <2>3, <2>4 DEF IInv
<1>2. CASE Next
  <2>1. PICK p \in Runs : Step(p)
    BY <1>2 DEF Next, Step
  <2>2. TypeOK /\ RunOK(p) /\ AccountOK(p)
    BY DEF IInv, RunInv, AccountInv
  <2>3. OnlyRun(p) /\ TypeOK'
    BY <2>1, <2>2, TypeStep
  <2>4. Kept /\ cached \subseteq cached' /\ (errors' = 0 => errors = 0)
    BY <2>1, <2>2, Growth
  <2>5. RunInv'
    <3> SUFFICES ASSUME NEW q \in Runs
                 PROVE  RunOK(q)'
      BY DEF RunInv
    <3>1. CASE q = p
      BY <2>1, <2>2, <3>1, RunStep
    <3>2. CASE q # p
      BY <2>3, <3>2, OtherRuns DEF IInv, RunInv
    <3> QED
      BY <3>1, <3>2
  <2>6. AccountInv'
    <3> SUFFICES ASSUME NEW q \in Runs
                 PROVE  AccountOK(q)'
      BY DEF AccountInv
    <3>1. CASE q = p
      BY <2>1, <2>2, <3>1, AccountStep
    <3>2. CASE q # p
      BY <2>3, <2>4, <3>2, OtherRuns DEF IInv, AccountInv
    <3> QED
      BY <3>1, <3>2
  <2>7. ProcessedIsAccounted'
    BY <2>1, <2>2, ProcessedStep DEF IInv
  <2>8. CacheInv'
    <3> SUFFICES ASSUME errors' = 0
                 PROVE  MarkedIsCached' /\ \A q \in Runs : CacheOK(q)'
      BY DEF CacheInv
    <3>1. MarkedIsCached /\ \A q \in Runs : CacheOK(q)
      BY <2>4 DEF IInv, CacheInv
    <3>2. MarkedIsCached' /\ CacheOK(p)'
      BY <2>1, <2>2, <3>1, CacheStep
    <3>3. \A q \in Runs : q # p => CacheOK(q)'
      BY <2>3, <2>4, <3>1, OtherRuns
    <3> QED
      BY <3>2, <3>3
  <2>10. CheckpointInv'
    BY <2>1, <2>2, <2>3, CheckpointStep DEF IInv
  <2> QED
    BY <2>3, <2>5, <2>6, <2>7, <2>8, <2>10 DEF IInv
<1> QED
  BY <1>1, <1>2

\* The inductive invariant: what each run of ai-scan-cli remembers of its file
\* agrees with what the runs have written, whatever fails and is killed
\* (processDirectory).
THEOREM AiScanCliInvariant == Spec => []IInv
BY InitInv, NextInv, PTL DEF Spec

\* Type correctness: a run never has more than --max-files files to do, and
\* works on one scan at a time (scanDirectory, processMiniBatch).
THEOREM AiScanCliTypeCorrect == Spec => []TypeOK
<1>1. IInv => TypeOK
  BY DEF IInv
<1> QED
  BY <1>1, AiScanCliInvariant, PTL

\* Of a file in processed/ every scan was written to a result file or to a file
\* of failed scans, and is there unless a later output of the same name was
\* written over it; however many runs worked on it and whatever went wrong
\* (processDirectory writes the outputs before it moves the input; writeCsv
\* truncates).
THEOREM ProcessedFilesAccounted == Spec => []ProcessedIsAccounted
<1>1. IInv => ProcessedIsAccounted
  BY DEF IInv
<1> QED
  BY <1>1, AiScanCliInvariant, PTL

\* Unless a file-system call failed, a batch that a result leaves out is in the
\* cache, if the verification came to its end (processSingleBatch stores a batch
\* before it marks it).
THEOREM LeftOutBatchesCached == Spec => []LeftOutIsCached
<1>1. IInv => LeftOutIsCached
  BY DEF IInv, CacheInv, CacheOK, LeftOutIsCached, Found
<1> QED
  BY <1>1, AiScanCliInvariant, PTL

\* Unless a call failed or a process was killed, a checkpoint does not outlive
\* the runs (processCriteriaBatches clears what it has initialised).
THEOREM NoCheckpointsLeft == Spec => []NoCheckpointLeftBehind
<1>1. IInv => NoCheckpointLeftBehind
  BY DEF IInv, CheckpointInv, Verifies, NoCheckpointLeftBehind
<1> QED
  BY <1>1, AiScanCliInvariant, PTL

=============================================================================
