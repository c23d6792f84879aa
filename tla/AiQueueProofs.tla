--------------------------- MODULE AiQueueProofs ---------------------------
(***************************************************************************)
(* Theorems about AiQueue: its types; how many results are stored of one   *)
(* export; that a scan keeps its AI result; that the campaign is never     *)
(* billed for more than was imported.                                      *)
(***************************************************************************)
EXTENDS AiQueue, FiniteSetTheorems, NaturalsInduction, WellFoundedInduction, TLAPS

(* Types *)

\* An import that goes on to the next row is well typed and leaves the other
\* imports alone.
LEMMA NextRowType ==
  ASSUME TypeOK, NEW i \in Imports, NEW pc, InRow(i, pc), NEW got \in Nat,
         NEW errors \in SUBSET Scans, NextRow(i, got, errors)
  PROVE  /\ import' \in [Imports -> ImportCall]
         /\ import'[i].pc = "row"
         /\ \A j \in Imports \ {i} : import'[j] = import[j]
<1>1. import[i] \in ImportCall /\ import[i].todo \in Seq(Scans) /\ import[i].todo # <<>>
  BY DEF TypeOK, ImportCall, InRow
<1>2. Tail(import[i].todo) \in Seq(Scans)
  BY <1>1
<1>3. [import[i] EXCEPT !.pc = "row", !.todo = Tail(@), !.got = got, !.errors = errors]
        \in ImportCall
  BY <1>1, <1>2 DEF ImportCall
<1>4. import' = [import EXCEPT ![i] = [import[i] EXCEPT !.pc = "row", !.todo = Tail(@),
                                                    !.got = got, !.errors = errors]]
  BY DEF NextRow
<1> QED
  BY <1>3, <1>4 DEF TypeOK, ImportCall

\* An import in the middle of a row has one, of a known scan.
LEMMA RowType ==
  ASSUME TypeOK, NEW i \in Imports, NEW pc, InRow(i, pc)
  PROVE  /\ Row(i) \in Scans
         /\ import[i].got \in Nat /\ import[i].errors \in SUBSET Scans
<1>1. import[i].todo \in Seq(Scans) /\ import[i].todo # <<>>
  BY DEF TypeOK, ImportCall, InRow
<1> QED
  BY <1>1 DEF Row, TypeOK, ImportCall

\* An import whose row fails is well typed and leaves the other imports alone.
LEMMA RowFailsType ==
  ASSUME TypeOK, NEW i \in Imports, NEW pc, InRow(i, pc), RowFails(i)
  PROVE  /\ import' \in [Imports -> ImportCall]
         /\ import'[i].pc = "row"
         /\ \A j \in Imports \ {i} : import'[j] = import[j]
BY RowType, NextRowType DEF RowFails

\* What an import does to its own record.
LEMMA CallType ==
  ASSUME TypeOK, NEW i \in Imports, NEW c \in ImportCall,
         import' = [import EXCEPT ![i] = c],
         c.pc \in {"update", "mail"} => c.todo # <<>>
  PROVE  /\ import' \in [Imports -> ImportCall]
         /\ \A j \in Imports : import'[j].pc \in {"update", "mail"} => import'[j].todo # <<>>
BY DEF TypeOK

\* Every step of exports, imports, retries and clean-ups keeps the types.
LEMMA TypeStep == TypeOK /\ [Next]_vars => TypeOK'
<1> SUFFICES ASSUME TypeOK, [Next]_vars PROVE TypeOK'
  OBVIOUS
<1>1. ASSUME NEW s \in Scans, CreateAiScan(s) \/ ScanPage(s) \/ RetryCheck(s)
             \/ RetryReset(s) \/ CleanupScan(s)
      PROVE  TypeOK'
  BY <1>1 DEF TypeOK, CreateAiScan, ScanPage, RetryCheck, RetryReset, CleanupScan,
              AiStatus, counts
<1>2. ASSUME NEW e \in Exports, ExportRead(e) PROVE TypeOK'
  <2>1. export[e] \in ExportCall /\ Having({"PENDING"}) \in SUBSET Scans
    BY DEF TypeOK, Having
  <2>2. [pc |-> "read", ids |-> Having({"PENDING"}), calls |-> export[e].calls + 1]
          \in ExportCall
    BY <1>2, <2>1, BoundsAreNumbers DEF ExportRead, ExportFrom, ExportCall
  <2>3. export' \in [Exports -> ExportCall]
    BY <1>2, <2>2 DEF ExportRead, ExportFrom, TypeOK
  <2> QED
    BY <1>2, <2>3 DEF TypeOK, ExportRead, ExportFrom, counts
<1>3. ASSUME NEW e \in Exports, ExportCommit(e) PROVE TypeOK'
  <2>1. export' \in [Exports -> ExportCall]
    <3>1. [export[e] EXCEPT !.pc = "idle", !.ids = {}] \in ExportCall
      BY DEF TypeOK, ExportCall
    <3>2. export' = [export EXCEPT ![e] = [export[e] EXCEPT !.pc = "idle", !.ids = {}]]
      BY <1>3 DEF ExportCommit
    <3> QED
      BY <3>1, <3>2 DEF TypeOK
  <2>2. ai' \in [Scans -> AiStatus \union {"NONE"}] /\ exported' \in [Scans -> Nat]
    BY <1>3 DEF ExportCommit, TypeOK, AiStatus
  <2> QED
    BY <1>3, <2>1, <2>2 DEF TypeOK, ExportCommit
<1>4. ASSUME NEW e \in Exports, ExportFails(e) PROVE TypeOK'
  BY <1>4 DEF TypeOK, ExportFails, ExportCall, counts
<1>5. ASSUME NEW i \in Imports, NEW file \in Files, Upload(i, file) PROVE TypeOK'
  <2> DEFINE c == [pc |-> "row", todo |-> file, all |-> ToSet(file), got |-> 0,
                   errors |-> {}, calls |-> import[i].calls + 1]
  <2>1. file \in Seq(Scans) /\ ToSet(file) \in SUBSET Scans
    BY FilesAreRows DEF ToSet
  <2>2. import[i].calls + 1 \in 0..MaxImports
    BY <1>5, BoundsAreNumbers DEF Upload, TypeOK, ImportCall
  <2>3. c \in ImportCall
    BY <2>1, <2>2 DEF ImportCall
  <2>4. import' = [import EXCEPT ![i] = c]
    BY <1>5 DEF Upload
  <2> QED
    BY <1>5, <2>3, <2>4, CallType DEF TypeOK, Upload, counts
<1>6. ASSUME NEW i \in Imports, Validate(i) PROVE TypeOK'
  <2>1. CASE RowFails(i)
    BY <1>6, <2>1, RowFailsType DEF TypeOK, Validate, ValidateFor, counts
  <2>2. CASE import' = [import EXCEPT ![i].pc = "update"]
    BY <1>6, <2>2 DEF TypeOK, Validate, ValidateFor, InRow, ImportCall, counts
  <2> QED
    BY <1>6, <2>1, <2>2 DEF Validate, ValidateFor
<1>7. ASSUME NEW i \in Imports, ImportRow(i) PROVE TypeOK'
  <2>1. /\ import' \in [Imports -> ImportCall]
        /\ \A j \in Imports : import'[j].pc \in {"update", "mail"} => import'[j].todo # <<>>
    <3> DEFINE g == import[i].got + 1
               c == [import[i] EXCEPT !.pc = "mail", !.got = g]
    <3>a. import[i] \in ImportCall /\ g \in Nat
      BY DEF TypeOK, ImportCall
    <3> HIDE DEF g
    <3>1. c \in ImportCall /\ c.todo = import[i].todo
      BY <3>a DEF ImportCall
    <3>2. import' = [import EXCEPT ![i] = c] /\ import[i].todo # <<>>
      BY <1>7 DEF ImportRow, InRow, g
    <3> HIDE DEF c
    <3> QED
      BY <3>1, <3>2, CallType
  <2>2. /\ ai' \in [Scans -> AiStatus \union {"NONE"}] /\ imported' \in [Scans -> Nat]
        /\ verified' \in [Scans -> BOOLEAN]
    BY <1>7, RowType DEF ImportRow, TypeOK, AiStatus
  <2> QED
    BY <1>7, <2>1, <2>2 DEF TypeOK, ImportRow
<1>8. ASSUME NEW i \in Imports, RowError(i) PROVE TypeOK'
  BY <1>8, RowFailsType DEF TypeOK, RowError, counts
<1>9. ASSUME NEW i \in Imports, QueueMail(i) PROVE TypeOK'
  <2>1. /\ import' \in [Imports -> ImportCall]
        /\ import'[i].pc = "row"
        /\ \A j \in Imports \ {i} : import'[j] = import[j]
    BY <1>9, RowType, NextRowType DEF QueueMail
  <2>2. mails' \in [Scans -> Nat]
    <3>1. Row(i) \in Scans
      BY <1>9, RowType DEF QueueMail
    <3>2. mails' = [mails EXCEPT ![Row(i)] = @ + 1] \/ mails' = mails
      BY <1>9 DEF QueueMail
    <3> QED
      BY <3>1, <3>2 DEF TypeOK
  <2> QED
    BY <1>9, <2>1, <2>2 DEF TypeOK, QueueMail
<1>10. ASSUME NEW i \in Imports, BillImport(i) \/ ImportCrash(i) PROVE TypeOK'
  <2>1. /\ import' \in [Imports -> ImportCall]
        /\ \A j \in Imports : import'[j].pc \in {"update", "mail"} => import'[j].todo # <<>>
    <3> DEFINE c == [pc |-> "idle", todo |-> <<>>, all |-> {}, got |-> 0,
                     errors |-> {}, calls |-> import[i].calls]
    <3>1. c \in ImportCall
      BY DEF TypeOK, ImportCall
    <3>2. import' = [import EXCEPT ![i] = c]
      BY <1>10 DEF BillImport, ImportCrash, Leave
    <3> QED
      BY <3>1, <3>2, CallType
  <2>2. billed' \in Nat
    BY <1>10 DEF BillImport, ImportCrash, TypeOK, ImportCall, counts
  <2> QED
    BY <1>10, <2>1, <2>2 DEF TypeOK, BillImport, ImportCrash, counts
<1>11. ASSUME CleanupFind PROVE TypeOK'
  BY <1>11 DEF TypeOK, CleanupFind, Having, counts
<1>12. CASE UNCHANGED vars
  BY <1>12 DEF TypeOK, vars
<1> QED
  BY <1>1, <1>2, <1>3, <1>4, <1>5, <1>6, <1>7, <1>8, <1>9, <1>10, <1>11, <1>12 DEF Next

\* exportPendingScans, importAiResults, retryFailedScan and the clean-up keep
\* the types of everything they touch.
THEOREM QueueTypeCorrect == Spec => []TypeOK
<1>1. Init => TypeOK
  BY BoundsAreNumbers DEF Init, TypeOK, ExportCall, ImportCall
<1> QED
  BY <1>1, TypeStep, PTL DEF Spec

(* Results and exports *)

\* The imports that have validated a row of scan s and not stored it yet.
Past(s) == {i \in Imports : InRow(i, "update") /\ Row(i) = s}

\* How many results may still be stored for scan s without another export: while
\* it is DOWNLOADED every import may validate a row of it.
Claims(s) == IF ai[s] = "DOWNLOADED" THEN Cardinality(Imports) ELSE Cardinality(Past(s))

\* Every export gives as many claims as there are imports, and storing a result
\* uses one up.
BackedInv ==
    \A s \in Scans : imported[s] + Claims(s) <= Cardinality(Imports) * exported[s]

LEMMA ClaimsType ==
  ASSUME NEW s
  PROVE  /\ IsFiniteSet(Past(s)) /\ Cardinality(Past(s)) \in Nat
         /\ Cardinality(Imports) \in Nat /\ Claims(s) \in Nat
         /\ Cardinality(Past(s)) <= Cardinality(Imports)
         /\ Cardinality(Past(s)) <= Claims(s) /\ Claims(s) <= Cardinality(Imports)
<1>1. Past(s) \in SUBSET Imports
  BY DEF Past
<1>2. /\ IsFiniteSet(Past(s)) /\ Cardinality(Past(s)) \in Nat
      /\ Cardinality(Imports) \in Nat /\ Cardinality(Past(s)) <= Cardinality(Imports)
  BY <1>1, CallsFinite, FS_Subset, FS_CardinalityType
<1> QED
  BY <1>2 DEF Claims

\* Steps that raise no claim on a scan and store nothing for it.
LEMMA ClaimsKept ==
  ASSUME TypeOK, BackedInv, NEW s \in Scans, imported'[s] = imported[s],
         exported'[s] = exported[s], ai'[s] = "DOWNLOADED" => ai[s] = "DOWNLOADED",
         Past(s)' \subseteq Past(s)
  PROVE  imported'[s] + Claims(s)' <= Cardinality(Imports) * exported'[s]
<1> DEFINE n == Cardinality(Imports)
           k == Cardinality(Past(s))
           l == Cardinality(Past(s)')
<1>1. n \in Nat /\ k \in Nat /\ k <= n /\ IsFiniteSet(Past(s))
  BY ClaimsType
<1>2. l \in Nat /\ l <= k
  BY <1>1, FS_Subset, FS_CardinalityType
<1>3. Claims(s) = (IF ai[s] = "DOWNLOADED" THEN n ELSE k)
      /\ Claims(s)' = (IF ai'[s] = "DOWNLOADED" THEN n ELSE l)
  BY DEF Claims
<1>4. imported[s] \in Nat /\ exported[s] \in Nat
      /\ imported[s] + Claims(s) <= n * exported[s]
  BY DEF TypeOK, BackedInv
<1> HIDE DEF n, k, l
<1>5. n * exported[s] \in Nat
  BY <1>1, <1>4
<1>6. Claims(s)' <= Claims(s) /\ Claims(s) \in Nat /\ Claims(s)' \in Nat
  BY <1>1, <1>2, <1>3
<1>7. imported[s] + Claims(s)' <= n * exported[s]
  BY <1>4, <1>5, <1>6
<1> QED
  BY <1>7 DEF n

\* Every step keeps the results that are stored, and those that still may be,
\* within what the exports allow.
LEMMA BackedStep == TypeOK /\ BackedInv /\ [Next]_vars => BackedInv'
<1> SUFFICES ASSUME TypeOK, BackedInv, [Next]_vars PROVE BackedInv'
  OBVIOUS
<1>1. ASSUME NEW s \in Scans, CreateAiScan(s) \/ ScanPage(s) \/ RetryCheck(s)
             \/ RetryReset(s) \/ CleanupScan(s)
      PROVE  BackedInv'
  <2>1. UNCHANGED <<imported, exported, import>>
        /\ \A t \in Scans : ai'[t] = "DOWNLOADED" => ai[t] = "DOWNLOADED"
    BY <1>1 DEF TypeOK, CreateAiScan, ScanPage, RetryCheck, RetryReset, CleanupScan, counts
  <2>2. \A t \in Scans : Past(t)' = Past(t)
    BY <2>1 DEF Past, InRow, Row
  <2> QED
    BY <2>1, <2>2, ClaimsKept DEF BackedInv
<1>2. ASSUME NEW e \in Exports, ExportRead(e) \/ ExportFails(e) PROVE BackedInv'
  <2>1. UNCHANGED <<ai, imported, exported, import>>
    BY <1>2 DEF ExportRead, ExportFrom, ExportFails, counts
  <2>2. \A t \in Scans : Past(t)' = Past(t)
    BY <2>1 DEF Past, InRow, Row
  <2> QED
    BY <2>1, <2>2, ClaimsKept DEF BackedInv
<1>3. ASSUME NEW e \in Exports, ExportCommit(e) PROVE BackedInv'
  <2>1. UNCHANGED <<imported, import>>
    BY <1>3 DEF ExportCommit
  <2>2. \A t \in Scans : Past(t)' = Past(t)
    BY <2>1 DEF Past, InRow, Row
  <2>3. ASSUME NEW s \in Scans
        PROVE  imported'[s] + Claims(s)' <= Cardinality(Imports) * exported'[s]
    <3>1. CASE s \in export[e].ids
      <4> DEFINE n == Cardinality(Imports)
                 c == Claims(s)'
      <4>1. exported'[s] = exported[s] + 1 /\ ai'[s] = "DOWNLOADED"
        BY <1>3, <3>1 DEF ExportCommit
      <4>2. c = n /\ n \in Nat /\ Claims(s) \in Nat
        BY <4>1, ClaimsType DEF Claims
      <4>3. imported[s] \in Nat /\ exported[s] \in Nat
            /\ imported[s] + Claims(s) <= n * exported[s]
        BY DEF TypeOK, BackedInv
      <4> HIDE DEF n, c
      <4>4. n * (exported[s] + 1) = n * exported[s] + n /\ n * exported[s] \in Nat
        BY <4>2, <4>3
      <4>5. imported[s] + c <= n * (exported[s] + 1)
        BY <4>2, <4>3, <4>4
      <4> QED
        BY <2>1, <4>1, <4>5 DEF n, c
    <3>2. CASE s \notin export[e].ids
      <4>1. exported'[s] = exported[s] /\ ai'[s] = ai[s]
        BY <1>3, <3>2 DEF ExportCommit
      <4> QED
        BY <2>1, <2>2, <4>1, ClaimsKept
    <3> QED
      BY <3>1, <3>2
  <2> QED
    BY <2>3 DEF BackedInv
<1>4. ASSUME NEW i \in Imports, import'[i].pc # "update",
             \A j \in Imports \ {i} : import'[j] = import[j],
             UNCHANGED <<ai, imported, exported>>
      PROVE  BackedInv'
  <2>1. \A t \in Scans : Past(t)' \subseteq Past(t)
    BY <1>4 DEF Past, InRow, Row
  <2> QED
    BY <1>4, <2>1, ClaimsKept DEF BackedInv
<1>5. ASSUME NEW i \in Imports, Validate(i) PROVE BackedInv'
  <2>1. UNCHANGED <<ai, imported, exported>>
    BY <1>5 DEF Validate, ValidateFor, counts
  <2>2. CASE RowFails(i)
    BY <1>5, <2>1, <2>2, <1>4, RowFailsType DEF Validate, ValidateFor
  <2>3. CASE ai[Row(i)] = "DOWNLOADED" /\ import' = [import EXCEPT ![i].pc = "update"]
    <3>1. \A j \in Imports : Row(j)' = Row(j) /\ (j # i => import'[j] = import[j])
      BY <2>3 DEF Row, TypeOK, ImportCall
    <3>2. ASSUME NEW s \in Scans
          PROVE  imported'[s] + Claims(s)' <= Cardinality(Imports) * exported'[s]
      <4>1. CASE s = Row(i)
        <5>1. Claims(s)' = Claims(s)
          BY <2>1, <2>3, <4>1 DEF Claims
        <5> QED
          BY <2>1, <5>1 DEF BackedInv
      <4>2. CASE s # Row(i)
        <5>1. Past(s)' \subseteq Past(s)
          BY <3>1, <4>2 DEF Past, InRow
        <5> QED
          BY <2>1, <5>1, ClaimsKept
      <4> QED
        BY <4>1, <4>2
    <3> QED
      BY <3>2 DEF BackedInv
  <2> QED
    BY <1>5, <2>2, <2>3 DEF Validate, ValidateFor
<1>6. ASSUME NEW i \in Imports, ImportRow(i) PROVE BackedInv'
  <2>0. PICK s \in Scans : s = Row(i)
    BY <1>6, RowType DEF ImportRow
  <2>1. i \in Past(s)
    BY <1>6, <2>0 DEF ImportRow, Past
  <2>2. imported' = [imported EXCEPT ![s] = @ + 1] /\ UNCHANGED exported
        /\ ai' = [ai EXCEPT ![s] = "COMPLETED"]
    BY <1>6, <2>0 DEF ImportRow
  <2>3. import'[i].pc = "mail" /\ \A j \in Imports \ {i} : import'[j] = import[j]
    BY <1>6 DEF ImportRow, TypeOK, ImportCall
  <2>4. \A t \in Scans : Past(t)' = Past(t) \ {i}
    BY <2>3 DEF Past, InRow, Row
  <2>5. imported'[s] + Claims(s)' <= Cardinality(Imports) * exported'[s]
    <3> DEFINE k == Cardinality(Past(s))
               c == Claims(s)'
               bound == Cardinality(Imports) * exported[s]
    <3>1. IsFiniteSet(Past(s)) /\ k \in Nat /\ k <= Claims(s) /\ Claims(s) \in Nat
      BY ClaimsType
    <3>2. c = Cardinality(Past(s) \ {i})
      <4>1. ai'[s] = "COMPLETED" /\ Past(s)' = Past(s) \ {i}
        BY <2>2, <2>4 DEF TypeOK
      <4> QED
        BY <4>1 DEF Claims
    <3>3. Cardinality(Past(s) \ {i}) = k - 1
      BY <2>1, <3>1, FS_RemoveElement
    <3>4. imported'[s] = imported[s] + 1 /\ imported[s] \in Nat /\ bound \in Nat
          /\ imported[s] + Claims(s) <= bound
      BY <2>2, ClaimsType DEF TypeOK, BackedInv
    <3> HIDE DEF k, c, bound
    <3>5. imported'[s] + c <= bound
      BY <3>1, <3>2, <3>3, <3>4
    <3> QED
      BY <2>2, <3>5 DEF c, bound
  <2>6. ASSUME NEW t \in Scans, t # s
        PROVE  imported'[t] + Claims(t)' <= Cardinality(Imports) * exported'[t]
    <3>1. imported'[t] = imported[t] /\ exported'[t] = exported[t] /\ ai'[t] = ai[t]
      BY <2>1, <2>2, <2>6 DEF TypeOK
    <3> QED
      BY <2>4, <3>1, ClaimsKept
  <2> QED
    BY <2>5, <2>6 DEF BackedInv
<1>7. ASSUME NEW i \in Imports, RowError(i) \/ QueueMail(i) PROVE BackedInv'
  <2>1. import'[i].pc = "row" /\ \A j \in Imports \ {i} : import'[j] = import[j]
    BY <1>7, RowType, RowFailsType, NextRowType DEF RowError, QueueMail
  <2> QED
    BY <1>7, <2>1, <1>4 DEF RowError, QueueMail, counts
<1>8. ASSUME NEW i \in Imports, BillImport(i) \/ ImportCrash(i) PROVE BackedInv'
  <2>1. import'[i].pc = "idle" /\ \A j \in Imports \ {i} : import'[j] = import[j]
    BY <1>8 DEF BillImport, ImportCrash, Leave, TypeOK
  <2> QED
    BY <1>8, <2>1, <1>4 DEF BillImport, ImportCrash, counts
<1>9. ASSUME NEW i \in Imports, NEW file \in Files, Upload(i, file) PROVE BackedInv'
  <2>1. import'[i].pc = "row" /\ \A j \in Imports \ {i} : import'[j] = import[j]
    BY <1>9 DEF Upload, TypeOK
  <2> QED
    BY <1>9, <2>1, <1>4 DEF Upload, counts
<1>10. CASE CleanupFind \/ UNCHANGED vars
  <2>1. UNCHANGED <<ai, imported, exported, import>>
    BY <1>10 DEF CleanupFind, vars, counts
  <2>2. \A t \in Scans : Past(t)' = Past(t)
    BY <2>1 DEF Past, InRow, Row
  <2> QED
    BY <2>1, <2>2, ClaimsKept DEF BackedInv
<1> QED
  BY <1>1, <1>2, <1>3, <1>5, <1>6, <1>7, <1>8, <1>9, <1>10 DEF Next

\* REQ-4 AC 4: of one export no more results are stored than imports run at the
\* same time, whatever exports, retries, clean-ups, errors and crashes come
\* between the validation of a row and its transaction (importAiResults); with
\* one import at a time every result has an export of its own.
THEOREM ImportsAreBacked == Spec => []ImportsBackedByExports
<1>1. Init => BackedInv
  <2> SUFFICES ASSUME Init, NEW s \in Scans
               PROVE  imported[s] + Claims(s) <= Cardinality(Imports) * exported[s]
    BY DEF BackedInv
  <2>1. Past(s) = {}
    BY DEF Init, Past, InRow
  <2>2. Claims(s) = 0
    BY <2>1, FS_EmptySet DEF Init, Claims
  <2>3. Cardinality(Imports) \in Nat
    BY ClaimsType
  <2> QED
    BY <2>2, <2>3 DEF Init
<1>2. TypeOK /\ BackedInv => ImportsBackedByExports
  <2> SUFFICES ASSUME TypeOK, BackedInv, NEW s \in Scans
               PROVE  imported[s] <= Cardinality(Imports) * exported[s]
    BY DEF ImportsBackedByExports
  <2> DEFINE bound == Cardinality(Imports) * exported[s]
  <2>1. imported[s] \in Nat /\ bound \in Nat /\ Claims(s) \in Nat
        /\ imported[s] + Claims(s) <= bound
    BY ClaimsType DEF TypeOK, BackedInv
  <2> HIDE DEF bound
  <2>2. imported[s] <= bound
    BY <2>1
  <2> QED
    BY <2>2 DEF bound
<1>3. TypeOK /\ BackedInv /\ [Next]_vars => BackedInv'
  BY BackedStep
<1> QED
  BY <1>1, <1>2, <1>3, QueueTypeCorrect, PTL DEF Spec

(* A scan keeps its AI result *)

\* No step takes up, or changes, a scan that is COMPLETED and in no call's hands.
LEMMA SettledStep ==
  ASSUME TypeOK, [Next]_vars, NEW s \in Scans, Settled(s)
  PROVE  Settled(s)'
<1>1. ai[s] = "COMPLETED" /\ s \notin retry /\ s \notin cleanup
      /\ \A e \in Exports : s \notin export[e].ids
  BY DEF Settled
<1>2. ASSUME UNCHANGED <<ai, export, retry, cleanup>> PROVE Settled(s)'
  BY <1>1, <1>2 DEF Settled
<1>3. ASSUME NEW t \in Scans, CreateAiScan(t) \/ ScanPage(t) \/ RetryCheck(t)
             \/ RetryReset(t) \/ CleanupScan(t)
      PROVE  Settled(s)'
  <2>1. ai'[s] = "COMPLETED"
    BY <1>1, <1>3 DEF TypeOK, CreateAiScan, ScanPage, RetryCheck, RetryReset, CleanupScan
  <2>2. UNCHANGED export /\ s \notin retry' /\ s \notin cleanup'
    BY <1>1, <1>3 DEF CreateAiScan, ScanPage, RetryCheck, RetryReset, CleanupScan
  <2> QED
    BY <1>1, <2>1, <2>2 DEF Settled
<1>4. ASSUME NEW e \in Exports, ExportRead(e) \/ ExportCommit(e) \/ ExportFails(e)
      PROVE  Settled(s)'
  <2>1. \A d \in Exports : s \notin export'[d].ids
    <3>1. CASE ExportRead(e)
      <4>1. s \notin Having({"PENDING"})
        BY <1>1 DEF Having
      <4> QED
        BY <1>1, <3>1, <4>1 DEF TypeOK, ExportRead, ExportFrom
    <3>2. CASE ExportCommit(e) \/ ExportFails(e)
      BY <1>1, <3>2 DEF TypeOK, ExportCall, ExportCommit, ExportFails
    <3> QED
      BY <1>4, <3>1, <3>2
  <2>2. ai'[s] = "COMPLETED"
    BY <1>1, <1>4 DEF ExportRead, ExportFrom, ExportCommit, ExportFails
  <2>3. UNCHANGED <<retry, cleanup>>
    BY <1>4 DEF ExportRead, ExportFrom, ExportCommit, ExportFails
  <2> QED
    BY <1>1, <2>1, <2>2, <2>3 DEF Settled
<1>5. ASSUME NEW i \in Imports, ImportRow(i) PROVE Settled(s)'
  <2>1. ai'[s] = "COMPLETED"
    BY <1>1, <1>5 DEF TypeOK, ImportRow
  <2> QED
    BY <1>1, <1>5, <2>1 DEF Settled, ImportRow
<1>6. ASSUME NEW i \in Imports,
             \/ \E file \in Files : Upload(i, file)
             \/ Validate(i) \/ RowError(i) \/ QueueMail(i) \/ BillImport(i) \/ ImportCrash(i)
      PROVE  Settled(s)'
  BY <1>2, <1>6 DEF Upload, Validate, ValidateFor, RowError, QueueMail, BillImport,
     ImportCrash
<1>7. CASE CleanupFind
  <2>1. s \notin Having({"PENDING", "DOWNLOADED"})
    BY <1>1 DEF Having
  <2> QED
    BY <1>1, <1>7, <2>1 DEF CleanupFind, Settled
<1>8. CASE UNCHANGED vars
  BY <1>2, <1>8 DEF vars
<1> QED
  BY <1>3, <1>4, <1>5, <1>6, <1>7, <1>8 DEF Next

\* A scan that has its AI result, and that no call found before, keeps it: none
\* of the exports, imports, retries and clean-ups that come later takes its
\* status back, however many there are and however they interleave, fail or die
\* (exportPendingScans, importAiResults, retryFailedScan, cleanupStaleAiScans).
THEOREM CompletedScansStay == Spec => SettledStays
<1>1. TypeOK /\ [Next]_vars => [\A s \in Scans : Settled(s) => Settled(s)']_vars
  BY SettledStep
<1> QED
  BY <1>1, QueueTypeCorrect, PTL DEF Spec, SettledStays

(***************************************************************************)
(* Sums, for the bill                                                      *)
(***************************************************************************)

\* The function that a sum over f is computed with: the sums over the subsets
\* of S.
Chosen(s) == CHOOSE x \in s : TRUE
IsSum(sum, f, S) ==
    sum = [s \in SUBSET S |-> IF s = {} THEN 0 ELSE f[Chosen(s)] + sum[s \ {Chosen(s)}]]

\* SumFunction takes the last of these sums.
LEMMA SumIsFold ==
  ASSUME NEW f, NEW S
  PROVE  SumFunctionOnSet(f, S) = (CHOOSE sum : IsSum(sum, f, S))[S]
BY DEF SumFunctionOnSet, FoldFunctionOnSet, MapThenFoldSet, IsSum, Chosen

\* Induction for a set of numbers, from the well-foundedness of the naturals.
LEMMA AllNumbers ==
  ASSUME NEW I \in SUBSET Nat, 0 \in I, \A n \in I : n + 1 \in I
  PROVE  I = Nat
<1> DEFINE R == OpToRel(<, Nat)
           Others == Nat \ I
<1>1. IsWellFoundedOn(R, Nat)
  BY NatLessThanWellFounded
<1>2. \A x, y \in Nat : x < y => <<x, y>> \in R
  BY DEF OpToRel
<1> HIDE DEF R
<1> SUFFICES ASSUME Others # {} PROVE FALSE
  OBVIOUS
<1>3. PICK n \in Others : \A m \in Others : ~(<<m, n>> \in R)
  BY <1>1, WFMin
<1>4. n \in Nat \ {0} /\ n - 1 \in Nat /\ n - 1 < n /\ n = (n - 1) + 1
  BY <1>3
<1>5. n - 1 \in I
  BY <1>2, <1>3, <1>4
<1> QED
  BY <1>3, <1>4, <1>5

\* A set without the element that is taken first is one element smaller.
LEMMA WithoutChosen ==
  ASSUME NEW S, IsFiniteSet(S), NEW s \in SUBSET S, s # {}
  PROVE  /\ Chosen(s) \in s /\ s \ {Chosen(s)} \in SUBSET S
         /\ IsFiniteSet(s) /\ Cardinality(s) \in Nat
         /\ Cardinality(s \ {Chosen(s)}) \in Nat
         /\ Cardinality(s) = Cardinality(s \ {Chosen(s)}) + 1
<1>1. IsFiniteSet(s) /\ Cardinality(s) \in Nat
  BY FS_Subset, FS_CardinalityType
<1>2. Chosen(s) \in s
  BY DEF Chosen
<1>3. IsFiniteSet(s \ {Chosen(s)}) /\ Cardinality(s \ {Chosen(s)}) = Cardinality(s) - 1
  BY <1>1, <1>2, FS_RemoveElement
<1>4. Cardinality(s \ {Chosen(s)}) \in Nat
  BY <1>3, FS_CardinalityType
<1> QED
  BY <1>1, <1>2, <1>3, <1>4

\* A property of the empty set that a set has when it has it without the element
\* taken first holds of every finite set.
LEMMA EverySubset ==
  ASSUME NEW S, IsFiniteSet(S), NEW P \in SUBSET SUBSET S, {} \in P,
         \A s \in SUBSET S : s # {} /\ s \ {Chosen(s)} \in P => s \in P
  PROVE  P = SUBSET S
<1> DEFINE Small(n) == {s \in SUBSET S : Cardinality(s) <= n}
           I == {n \in Nat : Small(n) \subseteq P}
<1>1. 0 \in I
  <2> SUFFICES ASSUME NEW s \in SUBSET S, Cardinality(s) <= 0, s # {} PROVE FALSE
    OBVIOUS
  <2>1. \E k \in Nat : Cardinality(s) = k + 1
    BY WithoutChosen
  <2> QED
    BY <2>1
<1>2. ASSUME NEW n \in I
      PROVE  n + 1 \in I
  <2> SUFFICES ASSUME NEW s \in SUBSET S, Cardinality(s) <= n + 1, s # {} PROVE s \in P
    OBVIOUS
  <2>1. s \ {Chosen(s)} \in Small(n)
    BY WithoutChosen
  <2> QED
    BY <2>1
<1>3. I = Nat
  <2> HIDE DEF I
  <2> QED
    BY <1>1, <1>2, AllNumbers, I \subseteq Nat DEF I
<1>4. ASSUME NEW s \in SUBSET S
      PROVE  s \in P
  <2>1. Cardinality(s) \in Nat
    BY FS_Subset, FS_CardinalityType
  <2>2. Cardinality(s) \in I
    BY <1>3, <2>1
  <2> QED
    BY <2>1, <2>2
<1> QED
  BY <1>4

\* The function a sum is computed with exists, and its values are numbers.
LEMMA SumExists ==
  ASSUME NEW S, IsFiniteSet(S), NEW f \in [S -> Nat]
  PROVE  \E sum \in [SUBSET S -> Nat] : IsSum(sum, f, S)
<1> DEFINE Recur(g, s) == IF s = {} THEN 0 ELSE f[Chosen(s)] + g[s \ {Chosen(s)}]
           Right(g, n) == \A s \in SUBSET S : Cardinality(s) <= n => g[s] = Recur(g, s)
           I == {n \in Nat : \E g \in [SUBSET S -> Nat] : Right(g, n)}
<1>0. ASSUME NEW s \in SUBSET S, s # {}
      PROVE  /\ f[Chosen(s)] \in Nat /\ s \ {Chosen(s)} \in SUBSET S
             /\ Cardinality(s \ {Chosen(s)}) \in Nat
             /\ Cardinality(s) = Cardinality(s \ {Chosen(s)}) + 1
  BY <1>0, WithoutChosen
<1>1. 0 \in I
  <2> DEFINE g == [s \in SUBSET S |-> 0]
  <2>1. g \in [SUBSET S -> Nat]
    OBVIOUS
  <2>2. ASSUME NEW s \in SUBSET S, Cardinality(s) <= 0
        PROVE  s = {}
    <3> SUFFICES ASSUME s # {} PROVE FALSE
      OBVIOUS
    <3>1. \E k \in Nat : Cardinality(s) = k + 1
      BY <1>0
    <3> QED
      BY <2>2, <3>1
  <2>3. Right(g, 0)
    BY <2>2
  <2> QED
    BY <2>1, <2>3
<1>2. ASSUME NEW n \in I
      PROVE  n + 1 \in I
  <2>1. PICK g \in [SUBSET S -> Nat] : Right(g, n)
    OBVIOUS
  <2> DEFINE h == [s \in SUBSET S |-> Recur(g, s)]
  <2>2. h \in [SUBSET S -> Nat]
    <3> SUFFICES ASSUME NEW s \in SUBSET S PROVE Recur(g, s) \in Nat
      OBVIOUS
    <3>1. CASE s # {}
      <4>1. f[Chosen(s)] \in Nat /\ g[s \ {Chosen(s)}] \in Nat
        BY <1>0, <3>1
      <4> QED
        BY <3>1, <4>1
    <3> QED
      BY <3>1
  <2>3. ASSUME NEW s \in SUBSET S, Cardinality(s) <= n + 1, s # {}
        PROVE  h[s] = Recur(h, s)
    <3> DEFINE t == s \ {Chosen(s)}
    <3>1. t \in SUBSET S /\ Cardinality(t) <= n
      BY <1>0, <2>3
    <3>2. g[t] = Recur(g, t) /\ h[t] = Recur(g, t)
      BY <2>1, <3>1
    <3> QED
      BY <2>3, <3>2
  <2>4. Right(h, n + 1)
    BY <2>3
  <2>5. \E new \in [SUBSET S -> Nat] : Right(new, n + 1)
    <3> HIDE DEF h, Right
    <3> QED
      BY <2>2, <2>4
  <2>6. n + 1 \in Nat
    OBVIOUS
  <2> HIDE DEF Right
  <2> QED
    BY <2>5, <2>6
<1>3. I = Nat
  <2>1. I \in SUBSET Nat
    OBVIOUS
  <2> HIDE DEF I
  <2> QED
    BY <1>1, <1>2, <2>1, AllNumbers
<1>4. Cardinality(S) \in I /\ Cardinality(S) \in Nat
  BY <1>3, FS_CardinalityType
<1>5. PICK g \in [SUBSET S -> Nat] : Right(g, Cardinality(S))
  BY <1>4
<1>6. ASSUME NEW s \in SUBSET S
      PROVE  g[s] = Recur(g, s)
  BY <1>5, FS_Subset
<1>7. g = [s \in SUBSET S |-> Recur(g, s)]
  BY <1>6
<1> QED
  BY <1>7 DEF IsSum

\* A sum of numbers is a number, computed by such a function.
LEMMA SumType ==
  ASSUME NEW S, IsFiniteSet(S), NEW f \in [S -> Nat]
  PROVE  /\ SumFunction(f) \in Nat
         /\ \E sum \in [SUBSET S -> Nat] : IsSum(sum, f, S) /\ SumFunction(f) = sum[S]
<1> DEFINE sum == CHOOSE g : IsSum(g, f, S)
<1>1. IsSum(sum, f, S)
  BY SumExists
<1>2. SumFunction(f) = sum[S]
  BY SumIsFold DEF SumFunction
<1>3. sum \in [SUBSET S -> Nat]
  <2> DEFINE P == {s \in SUBSET S : sum[s] \in Nat}
  <2> HIDE DEF sum
  <2>1. {} \in P
    BY <1>1 DEF IsSum
  <2>2. ASSUME NEW s \in SUBSET S, s # {}, s \ {Chosen(s)} \in P
        PROVE  s \in P
    <3>1. Chosen(s) \in S
      BY <2>2, WithoutChosen
    <3>2. sum[s] = f[Chosen(s)] + sum[s \ {Chosen(s)}]
      BY <1>1, <2>2 DEF IsSum
    <3> QED
      BY <2>2, <3>1, <3>2
  <2>3. P = SUBSET S
    <3> HIDE DEF P
    <3>1. P \in SUBSET SUBSET S
      BY DEF P
    <3> QED
      BY <2>1, <2>2, <3>1, EverySubset
  <2>4. DOMAIN sum = SUBSET S /\ sum = [s \in SUBSET S |-> sum[s]]
    BY <1>1 DEF IsSum
  <2> QED
    BY <2>3, <2>4
<1> QED
  BY <1>1, <1>2, <1>3

\* The sum of a function that is 0 everywhere.
LEMMA SumOfZeros ==
  ASSUME NEW S, IsFiniteSet(S), NEW f \in [S -> Nat], \A x \in S : f[x] = 0
  PROVE  SumFunction(f) = 0
<1>1. PICK sum \in [SUBSET S -> Nat] : IsSum(sum, f, S) /\ SumFunction(f) = sum[S]
  BY SumType
<1> DEFINE P == {s \in SUBSET S : sum[s] = 0}
<1>2. {} \in P
  BY <1>1 DEF IsSum
<1>3. ASSUME NEW s \in SUBSET S, s # {}, s \ {Chosen(s)} \in P
      PROVE  s \in P
  <2>1. Chosen(s) \in S
    BY <1>3, WithoutChosen
  <2>2. sum[s] = f[Chosen(s)] + sum[s \ {Chosen(s)}]
    BY <1>1, <1>3 DEF IsSum
  <2> QED
    BY <1>3, <2>1, <2>2
<1>4. P = SUBSET S
  <2> HIDE DEF P
  <2>1. P \in SUBSET SUBSET S
    BY DEF P
  <2> QED
    BY <1>2, <1>3, <2>1, EverySubset
<1> QED
  BY <1>1, <1>4

\* When one value changes, the sum changes by as much.
LEMMA SumUpdate ==
  ASSUME NEW S, IsFiniteSet(S), NEW f \in [S -> Nat], NEW g \in [S -> Nat], NEW x \in S,
         \A y \in S \ {x} : g[y] = f[y]
  PROVE  SumFunction(g) + f[x] = SumFunction(f) + g[x]
<1>1. PICK sum \in [SUBSET S -> Nat] : IsSum(sum, f, S) /\ SumFunction(f) = sum[S]
  BY SumType
<1>2. PICK tot \in [SUBSET S -> Nat] : IsSum(tot, g, S) /\ SumFunction(g) = tot[S]
  BY SumType
<1> DEFINE Related(s) == /\ x \notin s => tot[s] = sum[s]
                         /\ x \in s => tot[s] + f[x] = sum[s] + g[x]
           P == {s \in SUBSET S : Related(s)}
<1>3. {} \in P
  BY <1>1, <1>2 DEF IsSum
<1>4. ASSUME NEW s \in SUBSET S, s # {}, s \ {Chosen(s)} \in P
      PROVE  s \in P
  <2> DEFINE c == Chosen(s)
             t == s \ {c}
  <2>1. c \in S /\ c \in s /\ t \in SUBSET S
    BY <1>4, WithoutChosen
  <2>2. sum[s] = f[c] + sum[t] /\ tot[s] = g[c] + tot[t]
    BY <1>1, <1>2, <1>4 DEF IsSum
  <2>3. Related(t)
    BY <1>4
  <2>4. /\ sum[s] \in Nat /\ sum[t] \in Nat /\ tot[s] \in Nat /\ tot[t] \in Nat
        /\ f[c] \in Nat /\ g[c] \in Nat /\ f[x] \in Nat /\ g[x] \in Nat
    BY <2>1
  <2>5. CASE c = x
    <3>1. x \in s /\ x \notin t
      BY <2>1, <2>5
    <3>2. tot[t] = sum[t]
      BY <2>3, <3>1
    <3>3. tot[s] + f[x] = sum[s] + g[x]
      BY <2>2, <2>4, <2>5, <3>2
    <3> QED
      BY <3>1, <3>3
  <2>6. CASE c # x
    <3>1. f[c] = g[c] /\ (x \in s <=> x \in t)
      BY <2>1, <2>6
    <3> HIDE DEF t, c
    <3> QED
      BY <2>2, <2>3, <2>4, <3>1
  <2> QED
    BY <2>5, <2>6
<1>5. P = SUBSET S
  <2> HIDE DEF P
  <2>1. P \in SUBSET SUBSET S
    BY DEF P
  <2> QED
    BY <1>3, <1>4, <2>1, EverySubset
<1> QED
  BY <1>1, <1>2, <1>5

(* The bill *)

\* The tokens of the rows an import has processed and not billed.
Got == [i \in Imports |-> import[i].got]

LEMMA SumsAreNumbers ==
  ASSUME TypeOK
  PROVE  /\ Got \in [Imports -> Nat] /\ imported \in [Scans -> Nat]
         /\ SumFunction(Got) \in Nat /\ SumFunction(imported) \in Nat /\ billed \in Nat
<1>1. Got \in [Imports -> Nat] /\ imported \in [Scans -> Nat] /\ billed \in Nat
  BY DEF Got, TypeOK, ImportCall
<1> QED
  BY <1>1, SumType, CallsFinite

\* The step of one import changes what is to be billed by its own share.
LEMMA GotStep ==
  ASSUME TypeOK, TypeOK', NEW i \in Imports, \A j \in Imports \ {i} : import'[j] = import[j]
  PROVE  /\ SumFunction(Got') + import[i].got = SumFunction(Got) + import'[i].got
         /\ import[i].got \in Nat /\ import'[i].got \in Nat
<1>1. Got \in [Imports -> Nat] /\ Got' \in [Imports -> Nat]
  BY DEF Got, TypeOK, ImportCall
<1>2. \A j \in Imports \ {i} : Got'[j] = Got[j]
  BY DEF Got
<1>3. Got[i] = import[i].got /\ Got'[i] = import'[i].got
  BY DEF Got
<1>4. SumFunction(Got') + Got[i] = SumFunction(Got) + Got'[i]
  BY <1>1, <1>2, SumUpdate, CallsFinite
<1> QED
  BY <1>1, <1>3, <1>4

\* What a step of an import does to what is to be billed, and to the bill:
\* only the transaction of a row adds a token, together with its result, and
\* the bill takes no more than the import has.
LEMMA ImportBills ==
  ASSUME TypeOK, NEW i \in Imports,
         \/ \E file \in Files : Upload(i, file)
         \/ Validate(i) \/ ImportRow(i) \/ RowError(i) \/ QueueMail(i)
         \/ BillImport(i) \/ ImportCrash(i)
  PROVE  /\ \A j \in Imports \ {i} : import'[j] = import[j]
         /\ \/ /\ import'[i].got <= import[i].got /\ UNCHANGED <<imported, billed>>
            \/ /\ import'[i].got = 0 /\ UNCHANGED imported
               /\ billed' = billed \/ billed' = billed + import[i].got
            \/ /\ import'[i].got = import[i].got + 1 /\ UNCHANGED billed
               /\ \E s \in Scans : imported' = [imported EXCEPT ![s] = @ + 1]
<1> DEFINE Less == import'[i].got <= import[i].got /\ UNCHANGED <<imported, billed>>
           Billed == /\ import'[i].got = 0 /\ UNCHANGED imported
                     /\ billed' = billed \/ billed' = billed + import[i].got
           More == /\ import'[i].got = import[i].got + 1 /\ UNCHANGED billed
                   /\ \E s \in Scans : imported' = [imported EXCEPT ![s] = @ + 1]
           Others == \A j \in Imports \ {i} : import'[j] = import[j]
<1>0. import \in [Imports -> ImportCall] /\ import[i].got \in Nat /\ billed \in Nat
  BY DEF TypeOK, ImportCall
<1>1. ASSUME NEW got, NEW errors, NextRow(i, got, errors)
      PROVE  import'[i].got = got /\ Others
  BY <1>0, <1>1 DEF NextRow, ImportCall
<1>2. ASSUME Leave(i)
      PROVE  import'[i].got = 0 /\ Others
  BY <1>0, <1>2 DEF Leave
<1>3. ASSUME NEW file \in Files, Upload(i, file)
      PROVE  Less /\ Others
  <2>1. import'[i].got = 0 /\ Others
    BY <1>0, <1>3 DEF Upload
  <2> QED
    BY <1>0, <1>3, <2>1 DEF Upload, counts
<1>4. CASE Validate(i)
  <2>1. import'[i].got = import[i].got /\ Others
    <3>1. CASE RowFails(i)
      BY <1>1, <3>1 DEF RowFails
    <3>2. CASE import' = [import EXCEPT ![i].pc = "update"]
      BY <1>0, <3>2 DEF ImportCall
    <3> QED
      BY <1>4, <3>1, <3>2 DEF Validate, ValidateFor
  <2> QED
    BY <1>0, <1>4, <2>1 DEF Validate, ValidateFor, counts
<1>5. CASE ImportRow(i)
  <2>1. import'[i].got = import[i].got + 1 /\ Others
    BY <1>0, <1>5 DEF ImportRow, ImportCall
  <2>2. Row(i) \in Scans
    BY <1>5, RowType DEF ImportRow
  <2> QED
    BY <1>5, <2>1, <2>2 DEF ImportRow
<1>6. CASE RowError(i)
  <2>1. import'[i].got = import[i].got /\ Others
    BY <1>1, <1>6 DEF RowError, RowFails
  <2> QED
    BY <1>0, <1>6, <2>1 DEF RowError, counts
<1>7. CASE QueueMail(i)
  <2>1. import'[i].got = import[i].got /\ Others
    BY <1>1, <1>7 DEF QueueMail
  <2> QED
    BY <1>0, <1>7, <2>1 DEF QueueMail
<1>8. CASE BillImport(i)
  <2>1. import'[i].got = 0 /\ Others
    BY <1>2, <1>8 DEF BillImport
  <2>2. billed' = billed \/ billed' = billed + import[i].got
    BY <1>0, <1>8 DEF BillImport
  <2> QED
    BY <1>8, <2>1, <2>2 DEF BillImport
<1>9. CASE ImportCrash(i)
  <2>1. import'[i].got = 0 /\ Others
    BY <1>2, <1>9 DEF ImportCrash
  <2> QED
    BY <1>0, <1>9, <2>1 DEF ImportCrash, counts
<1> QED
  BY <1>3, <1>4, <1>5, <1>6, <1>7, <1>8, <1>9

\* Every step keeps the bill and what is to be billed within what was imported.
LEMMA BillStep ==
  ASSUME TypeOK, TypeOK', NeverOverbilled, [Next]_vars
  PROVE  NeverOverbilled'
<1> DEFINE Within == billed + SumFunction(Got) <= SumFunction(imported)
<1>1. /\ Got \in [Imports -> Nat] /\ imported \in [Scans -> Nat]
      /\ SumFunction(Got) \in Nat /\ SumFunction(imported) \in Nat /\ billed \in Nat
  BY SumsAreNumbers
<1>2. /\ SumFunction(Got') \in Nat /\ SumFunction(imported') \in Nat /\ billed' \in Nat
      /\ imported' \in [Scans -> Nat]
  <2>1. Got' \in [Imports -> Nat] /\ imported' \in [Scans -> Nat] /\ billed' \in Nat
    BY DEF Got, TypeOK, ImportCall
  <2> QED
    BY <2>1, SumType, CallsFinite
<1>3. billed + SumFunction(Got) <= SumFunction(imported)
  BY DEF NeverOverbilled, Got
<1>4. SUFFICES billed' + SumFunction(Got') <= SumFunction(imported')
  BY DEF NeverOverbilled, Got
<1>5. CASE UNCHANGED <<import, imported, billed>>
  BY <1>3, <1>5 DEF Got
<1>6. ASSUME NEW i \in Imports,
             \/ \E file \in Files : Upload(i, file)
             \/ Validate(i) \/ ImportRow(i) \/ RowError(i) \/ QueueMail(i)
             \/ BillImport(i) \/ ImportCrash(i)
      PROVE  billed' + SumFunction(Got') <= SumFunction(imported')
  <2>1. \A j \in Imports \ {i} : import'[j] = import[j]
    BY <1>6, ImportBills
  <2>2. /\ SumFunction(Got') + import[i].got = SumFunction(Got) + import'[i].got
        /\ import[i].got \in Nat /\ import'[i].got \in Nat
    BY <2>1, GotStep
  <2>3. CASE import'[i].got <= import[i].got /\ UNCHANGED <<imported, billed>>
    BY <1>1, <1>2, <1>3, <2>2, <2>3
  <2>4. CASE /\ import'[i].got = 0 /\ UNCHANGED imported
             /\ billed' = billed \/ billed' = billed + import[i].got
    BY <1>1, <1>2, <1>3, <2>2, <2>4
  <2>5. ASSUME import'[i].got = import[i].got + 1, UNCHANGED billed,
               NEW s \in Scans, imported' = [imported EXCEPT ![s] = @ + 1]
        PROVE  billed' + SumFunction(Got') <= SumFunction(imported')
    <3>1. imported'[s] = imported[s] + 1 /\ \A t \in Scans \ {s} : imported'[t] = imported[t]
      BY <1>1, <2>5
    <3>2. SumFunction(imported') + imported[s] = SumFunction(imported) + imported'[s]
      BY <1>1, <1>2, <3>1, SumUpdate, CallsFinite
    <3>3. SumFunction(imported') = SumFunction(imported) + 1
      BY <1>1, <1>2, <3>1, <3>2
    <3> QED
      BY <1>1, <1>2, <1>3, <2>2, <2>5, <3>3
  <2> QED
    BY <1>6, <2>3, <2>4, <2>5, ImportBills
<1>7. CASE \E s \in Scans : \/ CreateAiScan(s) \/ ScanPage(s)
                            \/ RetryCheck(s) \/ RetryReset(s) \/ CleanupScan(s)
  BY <1>5, <1>7 DEF CreateAiScan, ScanPage, RetryCheck, RetryReset, CleanupScan, counts
<1>8. CASE \E e \in Exports : ExportRead(e) \/ ExportCommit(e) \/ ExportFails(e)
  BY <1>5, <1>8 DEF ExportRead, ExportFrom, ExportCommit, ExportFails, counts
<1>9. CASE CleanupFind \/ UNCHANGED vars
  BY <1>5, <1>9 DEF CleanupFind, vars, counts
<1> QED
  BY <1>6, <1>7, <1>8, <1>9 DEF Next

\* The campaign is never billed for more than was imported, for any number of
\* concurrent imports of any files, with errors and crashes: a token is counted
\* after the transaction that stores its result.
THEOREM CampaignNeverOverbilled == Spec => []NeverOverbilled
<1>1. Init => NeverOverbilled
  <2> SUFFICES ASSUME Init PROVE NeverOverbilled
    OBVIOUS
  <2>1. /\ Got \in [Imports -> Nat] /\ \A i \in Imports : Got[i] = 0
        /\ imported \in [Scans -> Nat] /\ \A s \in Scans : imported[s] = 0
        /\ billed = 0
    BY DEF Init, Got
  <2>2. SumFunction(Got) = 0 /\ SumFunction(imported) = 0
    BY <2>1, SumOfZeros, CallsFinite
  <2> QED
    BY <2>1, <2>2 DEF NeverOverbilled, Got
<1>2. TypeOK /\ TypeOK' /\ NeverOverbilled /\ [Next]_vars => NeverOverbilled'
  BY BillStep
<1> QED
  BY <1>1, <1>2, QueueTypeCorrect, PTL DEF Spec

=============================================================================
