-------------------------- MODULE AiCampaignProofs --------------------------
(***************************************************************************)
(* Proofs about AiCampaign, for any requests, token figures, budgets and   *)
(* environment.                                                            *)
(***************************************************************************)
EXTENDS AiCampaign, FiniteSetTheorems, TLAPS

(* What the assignments of the requests do *)

\* goTo changes the place of one request and keeps the row it has read.
LEMMA GotoEffect ==
  ASSUME TypeOK, NEW r \in Requests, NEW pc \in RequestPc, Goto(r, pc)
  PROVE  /\ req' \in [Requests -> Request]
         /\ req'[r].pc = pc /\ req'[r].row = req[r].row
         /\ \A q \in Requests \ {r} : req'[q] = req[q]
  BY DEF TypeOK, Goto, Request

\* A request that goes on with a row it has just read changes its own state only.
LEMMA GotoWithEffect ==
  ASSUME TypeOK, NEW r \in Requests, NEW pc \in RequestPc, NEW row \in CampRow,
         GotoWith(r, pc, row)
  PROVE  /\ req' \in [Requests -> Request]
         /\ req'[r].pc = pc /\ req'[r].row = row
         /\ \A q \in Requests \ {r} : req'[q] = req[q]
  <1>1. [pc |-> pc, row |-> row] \in Request
    BY DEF Request
  <1> HIDE DEF Request
  <1> QED
    BY <1>1 DEF TypeOK, GotoWith

\* The row nobody has read yet is well typed.
LEMMA Row0Type == Row0 \in CampRow
  BY BudgetsAreNumbers DEF Row0, CampRow

\* calculateSlotsRemaining never returns a negative number.
LEMMA SlotsType ==
  ASSUME NEW row \in CampRow
  PROVE  Slots(row) \in Nat
  <1>1. ASSUME ~(row.used > row.budget)
        PROVE  (row.budget - row.used) \div Avg \in Nat
    <2> DEFINE left == row.budget - row.used
    <2>1. left \in Nat
      BY <1>1 DEF CampRow
    <2> HIDE DEF left
    <2>2. left \div Avg \in Nat
      BY <2>1, TokensPositive
    <2> QED
      BY <2>2 DEF left
  <1> QED
    BY <1>1 DEF Slots

\* A request that returns forgets its row and changes its own state only.
LEMMA LeaveEffect ==
  ASSUME TypeOK, NEW r \in Requests, NEW pc \in RequestPc, Leave(r, pc)
  PROVE  /\ req' \in [Requests -> Request]
         /\ req'[r].pc = pc /\ req'[r].row = Row0
         /\ \A q \in Requests \ {r} : req'[q] = req[q]
  BY GotoWithEffect, Row0Type DEF Leave

\* The system starts well typed.
LEMMA InitType == Init => TypeOK
<1> SUFFICES ASSUME Init PROVE TypeOK
  OBVIOUS
<1>1. Row0 \in CampRow /\ Slots(Row0) \in Nat
  BY Row0Type, SlotsType
<1> HIDE DEF Row0
<1>2. camp \in CampRow /\ marked \subseteq Requests /\ calls \in 0..MaxCalls
  BY <1>1, RunIsKnown DEF Init
<1>3. slots \in SlotKey /\ slots.n >= 0
  BY <1>1, RunIsKnown DEF Init, SlotKey
<1>4. cache \in CacheKey /\ reader \in StatusCall
  BY <1>1 DEF Init, NoStatus, CacheKey, IdleReader, StatusCall
<1>5. req \in [Requests -> Request]
  <2>1. [pc |-> "exists", row |-> Row0] \in Request
    BY <1>1 DEF Request, RequestPc, Reserving
  <2> QED
    BY <2>1 DEF Init
<1>6. admin \in AdminCall
  BY <1>1, BudgetsAreNumbers DEF Init, IdleAdmin, AdminCall, AdminOps
<1> QED
  BY <1>2, <1>3, <1>4, <1>5, <1>6 DEF TypeOK

\* Every step of a request, an administrator or a reader keeps the types.
LEMMA NextType == TypeOK /\ [Next]_vars => TypeOK'
<1> SUFFICES ASSUME TypeOK, [Next]_vars PROVE TypeOK'
  OBVIOUS
<1>0. Row0 \in CampRow
  BY Row0Type
<1>a. /\ NoStatus \in CacheKey /\ IdleReader \in StatusCall
      /\ IdleAdmin \in AdminCall
  BY <1>0, BudgetsAreNumbers
     DEF NoStatus, CacheKey, IdleReader, StatusCall, IdleAdmin, AdminCall, AdminOps
<1> HIDE DEF Row0, NoStatus, IdleReader, IdleAdmin
\* A step of a request that moves it, and changes the campaign, the counter
\* or the cached status for another of their values.
<1>1. ASSUME NEW r \in Requests, req' \in [Requests -> Request],
             camp' \in CampRow, slots' \in SlotKey, slots'.n >= 0,
             marked' \subseteq Requests, cache' \in CacheKey,
             UNCHANGED <<admin, calls, reader>>
      PROVE  TypeOK'
  BY <1>1 DEF TypeOK
<1>2. ASSUME NEW r \in Requests, NEW pc \in RequestPc, Goto(r, pc) \/ Leave(r, pc)
      PROVE  req' \in [Requests -> Request]
  BY <1>2, GotoEffect, LeaveEffect
<1>3. ASSUME NEW r \in Requests, Ask(r) PROVE TypeOK'
  <2>1. CASE SlotsExist(r)
    BY <2>1, <1>1, <1>2 DEF SlotsExist, TypeOK, RequestPc, Reserving
  <2>2. CASE InitSlotsRead(r)
    <3>1. req' \in [Requests -> Request]
      BY <2>2, <1>2, GotoWithEffect DEF InitSlotsRead, RequestPc, Reserving, TypeOK
    <3> QED
      BY <2>2, <3>1, <1>1 DEF InitSlotsRead, TypeOK
  <2>3. CASE InitSlotsSet(r)
    <3>1. Slots(req[r].row) \in Nat
      BY SlotsType DEF TypeOK, Request
    <3>2. slots' \in SlotKey /\ slots'.n >= 0
      BY <2>3, <3>1 DEF InitSlotsSet, SlotKey
    <3>3. req' \in [Requests -> Request]
      BY <2>3, <1>2 DEF InitSlotsSet, RequestPc, Reserving
    <3> QED
      BY <2>3, <3>2, <3>3, <1>1 DEF InitSlotsSet, TypeOK
  <2>4. CASE Reserve(r)
    <3>1. slots' \in SlotKey /\ slots'.n >= 0
      BY <2>4 DEF Reserve, SlotKey, TypeOK
    <3>2. req' \in [Requests -> Request]
      BY <2>4, <1>2 DEF Reserve, RequestPc, Granted
    <3> QED
      BY <2>4, <3>1, <3>2, <1>1 DEF Reserve, TypeOK
  <2>5. CASE Mark(r) \/ CreateScan(r)
    BY <2>5, <1>1, <1>2 DEF Mark, CreateScan, TypeOK, RequestPc, Granted
  <2> QED
    BY <1>3, <2>1, <2>2, <2>3, <2>4, <2>5 DEF Ask
<1>4. ASSUME NEW r \in Requests, ReserveError(r) \/ MarkExpires(r) \/ Import(r) \/ DeductError(r)
      PROVE  TypeOK'
  <2>1. CASE ReserveError(r)
    BY <2>1, <1>1, <1>2 DEF ReserveError, TypeOK, RequestPc
  <2>2. CASE MarkExpires(r)
    BY <2>2, <1>1 DEF MarkExpires, TypeOK
  <2>3. CASE Import(r)
    BY <2>3, <1>1, <1>2 DEF Import, TypeOK, RequestPc, Billing
  <2>4. CASE DeductError(r)
    BY <2>4, <1>1, <1>2 DEF DeductError, TypeOK, RequestPc
  <2> QED
    BY <1>4, <2>1, <2>2, <2>3, <2>4
<1>5. ASSUME NEW r \in Requests, Bill(r) PROVE TypeOK'
  <2>1. CASE DeductRead(r)
    <3>1. req' \in [Requests -> Request]
      BY <2>1, <1>2, GotoWithEffect DEF DeductRead, RequestPc, Billing, TypeOK
    <3> QED
      BY <2>1, <3>1, <1>1 DEF DeductRead, TypeOK
  <2>2. CASE DeductIncrement(r)
    <3>1. camp' \in CampRow
      BY <2>2, TokensPositive DEF DeductIncrement, Increment, CampRow, TypeOK
    <3>2. req' \in [Requests -> Request]
      BY <2>2, <3>1, GotoWithEffect DEF DeductIncrement, Increment, RequestPc, Billing
    <3> QED
      BY <2>2, <3>1, <3>2, <1>1 DEF DeductIncrement, Increment, TypeOK
  <2>3. CASE DeductInvalidate(r)
    BY <2>3, <1>a, <1>1, <1>2 DEF DeductInvalidate, TypeOK, RequestPc, Billing
  <2>4. CASE DeductExists(r)
    BY <2>4, <1>1, <1>2 DEF DeductExists, TypeOK, RequestPc, Billing
  <2>5. CASE DeductSetSlots(r)
    <3>1. Slots(req[r].row) \in Nat
      BY SlotsType DEF TypeOK, Request
    <3>2. slots' \in SlotKey /\ slots'.n >= 0
      BY <2>5, <3>1 DEF DeductSetSlots, SlotKey
    <3>3. req' \in [Requests -> Request]
      BY <2>5, <1>2 DEF DeductSetSlots, RequestPc
    <3> QED
      BY <2>5, <3>2, <3>3, <1>1 DEF DeductSetSlots, TypeOK
  <2> QED
    BY <1>5, <2>1, <2>2, <2>3, <2>4, <2>5 DEF Bill
<1>6. ASSUME NEW op \in AdminOps, NEW b \in Budgets, AdminCalls(op, b) PROVE TypeOK'
  <2>1. admin' \in AdminCall
    BY <1>6, <1>a, BudgetsAreNumbers DEF AdminCalls, AdminCall
  <2>2. calls' \in 0..MaxCalls
    BY <1>6, RunIsKnown DEF AdminCalls, TypeOK
  <2> QED
    BY <1>6, <2>1, <2>2 DEF AdminCalls, TypeOK
<1>7. ASSUME Manage \/ UpdateError PROVE TypeOK'
  <2>1. CASE AdminRead \/ UpdateError
    BY <2>1, <1>a DEF AdminRead, UpdateError, TypeOK, AdminCall
  <2>2. CASE UpdateRow
    <3>1. camp' \in CampRow
      BY <2>2 DEF UpdateRow, CampRow, TypeOK, AdminCall
    <3>2. admin' \in AdminCall
      BY <2>2, <3>1 DEF UpdateRow, AdminCall, TypeOK
    <3> QED
      BY <2>2, <3>1, <3>2 DEF UpdateRow, TypeOK
  <2>3. CASE UpdateInvalidate
    <3>1. admin' \in AdminCall
      BY <2>3, <1>a DEF UpdateInvalidate, TypeOK, AdminCall
    <3> QED
      BY <2>3, <3>1, <1>a DEF UpdateInvalidate, TypeOK
  <2>4. CASE UpdateSetSlots
    <3>1. Slots(admin.row) \in Nat
      BY SlotsType DEF TypeOK, AdminCall
    <3>2. slots' \in SlotKey /\ slots'.n >= 0
      BY <2>4, <3>1 DEF UpdateSetSlots, SlotKey
    <3> QED
      BY <2>4, <3>2, <1>a DEF UpdateSetSlots, TypeOK
  <2> QED
    BY <1>7, <2>1, <2>2, <2>3, <2>4 DEF Manage
<1>8. ASSUME Status \/ StatusExpires PROVE TypeOK'
  <2>1. CASE StatusMiss
    BY <2>1, <1>a DEF StatusMiss, TypeOK, StatusCall
  <2>2. CASE StatusRead
    <3>1. reader' \in StatusCall
      BY <2>2, <1>a DEF StatusRead, TypeOK, StatusCall
    <3> QED
      BY <2>2, <3>1 DEF StatusRead, TypeOK
  <2>3. CASE StatusStore
    <3>1. [known |-> TRUE, row |-> reader.row] \in CacheKey
      BY DEF TypeOK, CacheKey, StatusCall
    <3>2. cache' = [known |-> TRUE, row |-> reader.row] \/ cache' = cache
      BY <2>3 DEF StatusStore
    <3>3. cache' \in CacheKey
      BY <3>1, <3>2 DEF TypeOK
    <3> QED
      BY <2>3, <3>3, <1>a DEF StatusStore, TypeOK
  <2>4. CASE StatusExpires
    BY <2>4, <1>a DEF StatusExpires, TypeOK
  <2> QED
    BY <1>8, <2>1, <2>2, <2>3, <2>4 DEF Status
<1>9. CASE UNCHANGED vars
  BY <1>9 DEF vars, TypeOK
<1> QED
  BY <1>3, <1>4, <1>5, <1>6, <1>7, <1>8, <1>9 DEF Next

\* The values of the campaign's row, keys and calls stay within their types:
\* in particular the slot counter never becomes negative, whoever sets it.
THEOREM CampaignTypeCorrect == Spec => []TypeOK
  BY InitType, NextType, PTL DEF Spec

(* Tokens are counted exactly once *)

CountedPc == {"invalidate", "recount", "setSlots", "billed"}

\* A request that moves within, or outside of, the counted part of its life.
LEMMA CountedFrame ==
  ASSUME NEW r \in Requests,
         req[r].pc \in CountedPc <=> req'[r].pc \in CountedPc,
         \A q \in Requests \ {r} : req'[q] = req[q]
  PROVE  Counted' = Counted
  BY DEF Counted, CountedPc

\* The billing calls whose deduction has been counted are finitely many.
LEMMA CountedFinite == IsFiniteSet(Counted) /\ Cardinality(Counted) \in Nat
  BY RequestsFinite, FS_Subset, FS_CardinalityType DEF Counted

\* Every step keeps usedTokens the sum of what was deducted: only deductTokens
\* adds to either.
LEMMA TokensStep == TypeOK /\ UsedTokensExact /\ [Next]_vars => UsedTokensExact'
<1> SUFFICES ASSUME TypeOK, UsedTokensExact, [Next]_vars PROVE UsedTokensExact'
  OBVIOUS
<1>1. ASSUME Counted' = Counted, camp'.used = camp.used PROVE UsedTokensExact'
  BY <1>1 DEF UsedTokensExact
<1>2. ASSUME UNCHANGED req PROVE Counted' = Counted
  BY <1>2 DEF Counted
<1>3. ASSUME NEW r \in Requests, NEW pc \in RequestPc, Goto(r, pc) \/ Leave(r, pc),
             req[r].pc \in CountedPc <=> pc \in CountedPc
      PROVE  Counted' = Counted
  BY <1>3, GotoEffect, LeaveEffect, CountedFrame
<1>4. ASSUME NEW r \in Requests, Ask(r) PROVE UsedTokensExact'
  <2>1. CASE InitSlotsRead(r)
    <3>1. CASE Active
      BY <2>1, <3>1, <1>1, CountedFrame, GotoWithEffect
         DEF InitSlotsRead, RequestPc, Reserving, TypeOK, CountedPc
    <3>2. CASE ~Active
      BY <2>1, <3>2, <1>1, <1>3 DEF InitSlotsRead, RequestPc, CountedPc
    <3> QED
      BY <3>1, <3>2
  <2>2. CASE SlotsExist(r) \/ InitSlotsSet(r)
    BY <2>2, <1>1, <1>3 DEF SlotsExist, InitSlotsSet, RequestPc, Reserving, CountedPc
  <2>3. CASE Reserve(r) \/ Mark(r) \/ CreateScan(r)
    BY <2>3, <1>1, <1>3 DEF Reserve, Mark, CreateScan, RequestPc, Granted, CountedPc
  <2> QED
    BY <1>4, <2>1, <2>2, <2>3 DEF Ask
<1>5. ASSUME NEW r \in Requests, ReserveError(r) \/ MarkExpires(r) \/ Import(r) \/ DeductError(r)
      PROVE  UsedTokensExact'
  <2>1. CASE ReserveError(r)
    BY <2>1, <1>1, <1>3 DEF ReserveError, RequestPc, Reserving, CountedPc
  <2>2. CASE MarkExpires(r)
    BY <2>2, <1>1, <1>2 DEF MarkExpires
  <2>3. CASE Import(r)
    BY <2>3, <1>1, <1>3 DEF Import, RequestPc, Billing, CountedPc
  <2>4. CASE DeductError(r)
    BY <2>4, <1>1, <1>3 DEF DeductError, RequestPc, Billing, CountedPc
  <2> QED
    BY <1>5, <2>1, <2>2, <2>3, <2>4
<1>6. ASSUME NEW r \in Requests, Bill(r) PROVE UsedTokensExact'
  <2>1. CASE DeductRead(r)
    <3>1. CASE Active
      <4>1. /\ req'[r].pc = "increment"
            /\ \A q \in Requests \ {r} : req'[q] = req[q]
        BY <2>1, <3>1, GotoWithEffect DEF DeductRead, RequestPc, Billing, TypeOK
      <4> QED
        BY <2>1, <4>1, <1>1, CountedFrame DEF DeductRead, CountedPc
    <3>2. CASE ~Active
      BY <2>1, <3>2, <1>1, <1>3 DEF DeductRead, RequestPc, CountedPc
    <3> QED
      BY <3>1, <3>2
  <2>2. CASE DeductIncrement(r)
    <3>1. camp' \in CampRow
      BY <2>2, NextType DEF TypeOK
    <3>2. /\ req'[r].pc = "invalidate"
          /\ \A q \in Requests \ {r} : req'[q] = req[q]
      BY <2>2, <3>1, GotoWithEffect DEF DeductIncrement, Increment, RequestPc, Billing
    <3>3. r \notin Counted
      BY <2>2 DEF DeductIncrement, Increment, Counted
    <3>a. Counted' = Counted \union {r}
      BY <3>2 DEF Counted
    <3>4. Cardinality(Counted') = Cardinality(Counted) + 1
      BY <3>3, <3>a, CountedFinite, FS_AddElement
    <3>5. camp'.used = camp.used + Cost
      BY <2>2 DEF DeductIncrement, Increment, TypeOK, CampRow
    <3>6. \A n \in Nat : Cost * (n + 1) = Cost * n + Cost
      BY TokensPositive
    <3> QED
      BY <3>4, <3>5, <3>6, CountedFinite DEF UsedTokensExact
  <2>3. CASE DeductInvalidate(r) \/ DeductExists(r) \/ DeductSetSlots(r)
    BY <2>3, <1>1, <1>3
       DEF DeductInvalidate, DeductExists, DeductSetSlots, RequestPc, Billing, CountedPc
  <2> QED
    BY <1>6, <2>1, <2>2, <2>3 DEF Bill
<1>7. ASSUME Manage \/ UpdateError \/ Status \/ StatusExpires
             \/ \E op \in AdminOps, b \in Budgets : AdminCalls(op, b)
      PROVE  UsedTokensExact'
  <2>1. CASE UpdateRow
    <3>1. camp'.used = camp.used
      BY <2>1 DEF UpdateRow, TypeOK, CampRow
    <3> QED
      BY <2>1, <3>1, <1>1, <1>2 DEF UpdateRow
  <2>2. CASE AdminRead \/ UpdateInvalidate \/ UpdateSetSlots \/ UpdateError
    BY <2>2, <1>1, <1>2 DEF AdminRead, UpdateInvalidate, UpdateSetSlots, UpdateError
  <2>3. CASE Status \/ StatusExpires
    BY <2>3, <1>1, <1>2 DEF Status, StatusMiss, StatusRead, StatusStore, StatusExpires
  <2>4. CASE \E op \in AdminOps, b \in Budgets : AdminCalls(op, b)
    BY <2>4, <1>1, <1>2 DEF AdminCalls
  <2> QED
    BY <1>7, <2>1, <2>2, <2>3, <2>4 DEF Manage
<1>8. CASE UNCHANGED vars
  BY <1>8, <1>1, <1>2 DEF vars
<1> QED
  BY <1>4, <1>5, <1>6, <1>7, <1>8 DEF Next

\* updateCampaignTokens: however imports, administrators and errors interleave,
\* the campaign's usedTokens is the sum of what was deducted.
THEOREM TokensAreCountedOnce == Spec => []UsedTokensExact
<1>1. Init => UsedTokensExact
  <2> SUFFICES ASSUME Init PROVE UsedTokensExact
    OBVIOUS
  <2>1. Counted = {}
    BY DEF Init, Counted
  <2>2. Cardinality({}) = 0
    BY FS_EmptySet
  <2>3. Cost * 0 = 0
    BY TokensPositive
  <2> QED
    BY <2>1, <2>2, <2>3 DEF UsedTokensExact, Init, Row0
<1> QED
  BY <1>1, TokensStep, CampaignTypeCorrect, PTL DEF Spec

(* What it takes to oversell *)

HolderPc == Granted \union {"deduct", "increment"}

\* What is promised, and what the counter would still promise.
Pool == Cardinality(Holders) + slots.n

\* Everything that can be promised fits the budget at the average.
Fits == camp.used + Avg * Pool <= camp.budget

\* A recount from this row forgets somebody: a scan that was promised AI and
\* is not billed, or a change of the campaign since the row was read.
Forgetful(row) ==
    \/ Holders # {}
    \/ row.used # camp.used
    \/ row.budget # camp.budget

\* What may make the promises exceed the budget: a forgetful recount, an
\* administrator who lowers the budget, a scan that cost more than the average.
OversellCause ==
    \/ \E r \in Requests : (InitSlotsSet(r) \/ DeductSetSlots(r)) /\ Forgetful(req[r].row)
    \/ UpdateSetSlots /\ Forgetful(admin.row)
    \/ camp'.budget < camp.budget
    \/ Cost > Avg /\ camp'.used > camp.used

\* The requests that hold a slot are finitely many.
LEMMA HoldersFinite == IsFiniteSet(Holders) /\ Cardinality(Holders) \in Nat
  BY RequestsFinite, FS_Subset, FS_CardinalityType DEF Holders

\* The same of the next state.
LEMMA NextHoldersFinite == Cardinality(Holders') \in Nat
  BY RequestsFinite, FS_Subset, FS_CardinalityType DEF Holders

\* A request that is not among the holders leaves their number alone or brings
\* it down.
LEMMA HoldersShrink ==
  ASSUME NEW r \in Requests, r \notin Holders',
         \A q \in Requests \ {r} : req'[q] = req[q]
  PROVE  Cardinality(Holders') <= Cardinality(Holders) /\ Cardinality(Holders') \in Nat
  <1>1. Holders' \subseteq Holders
    BY DEF Holders
  <1> QED
    BY <1>1, HoldersFinite, FS_Subset, FS_CardinalityType

\* A request that stays among the holders, or outside, leaves their number
\* alone.
LEMMA HoldersFrame ==
  ASSUME NEW r \in Requests, \A q \in Requests \ {r} : req'[q] = req[q],
         req[r].pc \in HolderPc <=> req'[r].pc \in HolderPc
  PROVE  Cardinality(Holders') = Cardinality(Holders)
  <1>1. Holders' = Holders
    BY DEF Holders, HolderPc
  <1> QED
    BY <1>1

\* The types, as far as the sums need them.
LEMMA PoolTypes ==
  ASSUME TypeOK
  PROVE  camp.used \in Nat /\ camp.budget \in Nat /\ slots.n \in Nat /\ Pool \in Nat
  BY HoldersFinite DEF TypeOK, CampRow, SlotKey, Pool

\* More slots need more tokens.
LEMMA Monotone ==
  ASSUME NEW x \in Nat, NEW y \in Nat, x <= y
  PROVE  Avg * x <= Avg * y /\ Avg * x \in Nat /\ Avg * y \in Nat
  <1>1. \A a, u, v \in Nat : u <= v => a * u <= a * v
    OBVIOUS
  <1> QED
    BY <1>1, TokensPositive

\* A pool that does not grow keeps fitting into a budget that is not lowered.
LEMMA FitsKept ==
  ASSUME TypeOK, TypeOK', Fits, camp'.used = camp.used, camp'.budget >= camp.budget,
         Pool' <= Pool
  PROVE  Fits'
  <1>2. Pool \in Nat /\ Pool' \in Nat
    BY HoldersFinite, NextHoldersFinite DEF TypeOK, SlotKey, Pool
  <1>3. Avg * Pool' <= Avg * Pool /\ Avg * Pool \in Nat /\ Avg * Pool' \in Nat
    BY <1>2, Monotone
  <1> HIDE DEF Pool
  <1> QED
    BY <1>3 DEF Fits, TypeOK, CampRow

\* A request that moves and touches neither the campaign nor the counter.
LEMMA FitsIfMoved ==
  ASSUME TypeOK, TypeOK', Fits, UNCHANGED <<camp, slots>>, NEW r \in Requests,
         \A q \in Requests \ {r} : req'[q] = req[q],
         req'[r].pc \in HolderPc => req[r].pc \in HolderPc
  PROVE  Fits'
  <1>1. Cardinality(Holders') <= Cardinality(Holders)
    <2>1. CASE req'[r].pc \in HolderPc
      BY <2>1, HoldersFrame, HoldersFinite
    <2>2. CASE req'[r].pc \notin HolderPc
      BY <2>2, HoldersShrink DEF Holders, HolderPc
    <2> QED
      BY <2>1, <2>2
  <1>2. Pool' <= Pool
    BY <1>1, HoldersFinite, NextHoldersFinite DEF Pool, TypeOK, SlotKey
  <1> QED
    BY <1>2, FitsKept DEF TypeOK, CampRow

\* Whole slots are whole averages: what a row leaves fits into its budget.
LEMMA SlotsFit ==
  ASSUME NEW row \in CampRow, row.used <= row.budget
  PROVE  row.used + Avg * Slots(row) <= row.budget
<1> DEFINE left == row.budget - row.used
<1>1. left \in Nat /\ row.used \in Nat /\ row.budget \in Nat
  BY DEF CampRow
<1>2. Slots(row) = left \div Avg
  BY <1>1 DEF Slots
<1>3. row.budget = row.used + left
  BY <1>1
<1> HIDE DEF left
<1>4. left = Avg * (left \div Avg) + (left % Avg) /\ left % Avg \in 0..(Avg - 1)
  BY <1>1, TokensPositive
<1>5. left \div Avg \in Nat
  BY <1>1, TokensPositive
<1>6. Avg * (left \div Avg) \in Nat
  BY <1>5, TokensPositive
<1>7. Avg * (left \div Avg) <= left
  BY <1>1, <1>4, <1>6, TokensPositive
<1> QED
  BY <1>1, <1>2, <1>3, <1>6, <1>7

\* A recount that forgets nobody leaves a pool that fits.
LEMMA RecountFits ==
  ASSUME TypeOK, Fits, NEW row \in CampRow, ~Forgetful(row), UNCHANGED camp,
         slots'.n = Slots(row), Holders' = {}
  PROVE  Fits'
<1>1. row.used = camp.used /\ row.budget = camp.budget
  BY DEF Forgetful
<1>2. Avg * Pool \in Nat
  BY PoolTypes, TokensPositive
<1>3. camp.used <= camp.budget
  <2> HIDE DEF Pool
  <2> QED
    BY <1>2, PoolTypes DEF Fits
<1>4. camp.used + Avg * Slots(row) <= camp.budget
  BY <1>1, <1>3, SlotsFit
<1>5. Pool' = Slots(row)
  <2>1. Cardinality(Holders') = 0
    BY FS_EmptySet
  <2> QED
    BY <2>1, SlotsType DEF Pool
<1> QED
  BY <1>4, <1>5 DEF Fits

\* Every step without a cause keeps the pool within the budget.
LEMMA PoolStep ==
  ASSUME TypeOK, TypeOK', Fits, [Next]_vars, ~OversellCause
  PROVE  Fits'
<1>1. ASSUME UNCHANGED <<camp, slots, req>> PROVE Fits'
  BY <1>1 DEF Fits, Pool, Holders
<1>2. ASSUME NEW r \in Requests, NEW pc \in RequestPc, Goto(r, pc) \/ Leave(r, pc),
             UNCHANGED <<camp, slots>>, pc \in HolderPc => req[r].pc \in HolderPc
      PROVE  Fits'
  BY <1>2, GotoEffect, LeaveEffect, FitsIfMoved
<1>3. ASSUME NEW r \in Requests, NEW pc \in RequestPc, GotoWith(r, pc, camp),
             UNCHANGED <<camp, slots>>, pc \in HolderPc => req[r].pc \in HolderPc
      PROVE  Fits'
  BY <1>3, GotoWithEffect, FitsIfMoved DEF TypeOK
<1>4. ASSUME NEW r \in Requests, InitSlotsSet(r) \/ DeductSetSlots(r) PROVE Fits'
  <2>1. ~Forgetful(req[r].row)
    BY <1>4 DEF OversellCause
  <2>2. req[r].row \in CampRow
    BY DEF TypeOK, Request
  <2>3. \E pc \in {"plain", "reserve", "billed"} : Leave(r, pc)
    BY <1>4 DEF InitSlotsSet, DeductSetSlots
  <2>4. /\ req'[r].pc \in {"plain", "reserve", "billed"}
        /\ \A q \in Requests \ {r} : req'[q] = req[q]
    BY <2>3, LeaveEffect DEF RequestPc, Reserving
  <2>5. Holders' = {}
    BY <2>1, <2>4 DEF Forgetful, Holders, Granted
  <2>6. UNCHANGED camp /\ slots'.n = Slots(req[r].row)
    BY <1>4 DEF InitSlotsSet, DeductSetSlots
  <2> QED
    BY <2>1, <2>2, <2>5, <2>6, RecountFits
<1>5. ASSUME NEW r \in Requests, Ask(r) PROVE Fits'
  <2>1. CASE SlotsExist(r)
    BY <2>1, <1>2 DEF SlotsExist, RequestPc, Reserving, HolderPc, Granted
  <2>2. CASE InitSlotsRead(r)
    BY <2>2, <1>2, <1>3 DEF InitSlotsRead, RequestPc, Reserving, HolderPc, Granted
  <2>3. CASE InitSlotsSet(r)
    BY <2>3, <1>4
  <2>4. CASE Reserve(r) /\ slots.known /\ slots.n > 0
    <3>1. /\ req'[r].pc = "mark"
          /\ \A q \in Requests \ {r} : req'[q] = req[q]
      BY <2>4, GotoEffect DEF Reserve, RequestPc, Granted
    <3>2. r \notin Holders
      BY <2>4 DEF Reserve, Holders, Granted
    <3>3. Holders' = Holders \union {r}
      BY <3>1 DEF Holders, Granted
    <3>4. Cardinality(Holders') = Cardinality(Holders) + 1
      BY <3>2, <3>3, HoldersFinite, FS_AddElement
    <3>5. slots'.n = slots.n - 1
      BY <2>4 DEF Reserve, TypeOK, SlotKey
    <3>6. Pool' = Pool
      BY <3>4, <3>5, PoolTypes, HoldersFinite DEF Pool
    <3> QED
      BY <2>4, <3>6 DEF Reserve, Fits
  <2>5. CASE Reserve(r) /\ ~(slots.known /\ slots.n > 0)
    BY <2>5, <1>2 DEF Reserve, RequestPc, HolderPc, Granted
  <2>6. CASE Mark(r) \/ CreateScan(r)
    BY <2>6, <1>2 DEF Mark, CreateScan, RequestPc, HolderPc, Granted
  <2> QED
    BY <1>5, <2>1, <2>2, <2>3, <2>4, <2>5, <2>6 DEF Ask
<1>6. ASSUME NEW r \in Requests, ReserveError(r) \/ MarkExpires(r) \/ Import(r) \/ DeductError(r)
      PROVE  Fits'
  <2>1. CASE ReserveError(r)
    BY <2>1, <1>2 DEF ReserveError, RequestPc, HolderPc, Granted
  <2>2. CASE MarkExpires(r)
    BY <2>2, <1>1 DEF MarkExpires
  <2>3. CASE Import(r)
    BY <2>3, <1>2 DEF Import, RequestPc, Billing, HolderPc, Granted
  <2>4. CASE DeductError(r)
    BY <2>4, <1>2 DEF DeductError, RequestPc, HolderPc, Granted
  <2> QED
    BY <1>6, <2>1, <2>2, <2>3, <2>4
<1>7. ASSUME NEW r \in Requests, Bill(r) PROVE Fits'
  <2>1. CASE DeductRead(r)
    BY <2>1, <1>2, <1>3 DEF DeductRead, RequestPc, Billing, HolderPc
  <2>2. CASE DeductIncrement(r)
    <3>1. /\ req'[r].pc = "invalidate"
          /\ \A q \in Requests \ {r} : req'[q] = req[q]
      BY <2>2, GotoWithEffect DEF DeductIncrement, Increment, RequestPc, Billing, TypeOK
    <3>2. r \in Holders /\ Holders' = Holders \ {r}
      BY <2>2, <3>1 DEF DeductIncrement, Increment, Holders, Granted
    <3>3. Cardinality(Holders') = Cardinality(Holders) - 1
      BY <3>2, HoldersFinite, FS_RemoveElement
    <3>4. /\ camp'.used = camp.used + Cost /\ camp'.budget = camp.budget
          /\ UNCHANGED slots
      BY <2>2 DEF DeductIncrement, Increment, TypeOK, CampRow
    <3>5. Cost <= Avg
      BY <3>4, TokensPositive, PoolTypes DEF OversellCause
    <3>6. Pool = Pool' + 1 /\ Pool' \in Nat
      BY <3>3, <3>4, HoldersFinite, NextHoldersFinite, PoolTypes DEF Pool
    <3>7. \A n \in Nat : Avg * (n + 1) = Avg * n + Avg /\ Avg * n \in Nat
      BY TokensPositive
    <3>8. Avg * Pool = Avg * Pool' + Avg /\ Avg * Pool' \in Nat
      BY <3>6, <3>7
    <3> HIDE DEF Pool
    <3> QED
      BY <3>4, <3>5, <3>8, PoolTypes, TokensPositive DEF Fits
  <2>3. CASE DeductInvalidate(r) \/ DeductExists(r)
    BY <2>3, <1>2 DEF DeductInvalidate, DeductExists, RequestPc, Billing, HolderPc, Granted
  <2>4. CASE DeductSetSlots(r)
    BY <2>4, <1>4
  <2> QED
    BY <1>7, <2>1, <2>2, <2>3, <2>4 DEF Bill
<1>8. CASE Manage
  <2>1. CASE AdminRead \/ UpdateInvalidate
    BY <2>1, <1>1 DEF AdminRead, UpdateInvalidate
  <2>2. CASE UpdateRow
    <3>1. camp'.used = camp.used
      BY <2>2 DEF UpdateRow, TypeOK, CampRow
    <3>2. camp'.budget >= camp.budget
      BY DEF OversellCause, TypeOK, CampRow
    <3>3. Pool' = Pool
      BY <2>2 DEF UpdateRow, Pool, Holders
    <3> QED
      BY <3>1, <3>2, <3>3, FitsKept, PoolTypes
  <2>3. CASE UpdateSetSlots
    <3>1. ~Forgetful(admin.row) /\ admin.row \in CampRow
      BY <2>3 DEF OversellCause, TypeOK, AdminCall
    <3>2. Holders' = {}
      BY <2>3, <3>1 DEF Forgetful, Holders, UpdateSetSlots
    <3> QED
      BY <2>3, <3>1, <3>2, RecountFits DEF UpdateSetSlots
  <2> QED
    BY <1>8, <2>1, <2>2, <2>3 DEF Manage
<1>9. CASE \/ UpdateError \/ Status \/ StatusExpires \/ UNCHANGED vars
           \/ \E op \in AdminOps, b \in Budgets : AdminCalls(op, b)
  BY <1>9, <1>1 DEF UpdateError, Status, StatusMiss, StatusRead, StatusStore,
     StatusExpires, AdminCalls, vars
<1> QED
  BY <1>5, <1>6, <1>7, <1>8, <1>9 DEF Next

\* What fits does not oversell.
LEMMA FitsIsNoOversell == TypeOK /\ Fits => NoOversell
<1> SUFFICES ASSUME TypeOK, Fits PROVE NoOversell
  OBVIOUS
<1>2. Cardinality(Holders) <= Pool
  BY PoolTypes, HoldersFinite DEF Pool
<1>3. /\ Avg * Cardinality(Holders) <= Avg * Pool
      /\ Avg * Cardinality(Holders) \in Nat /\ Avg * Pool \in Nat
  BY <1>2, PoolTypes, HoldersFinite, Monotone
<1> HIDE DEF Pool
<1> QED
  BY <1>3, PoolTypes DEF Fits, NoOversell

\* checkAndReserveSlotAtomic "prevents race conditions": in every run, with
\* imports, administrators, errors and a counter that is created or recounted
\* at any time, what is promised fits the budget up to the first step that is
\* a cause - a recount that forgets a promised scan or a newer campaign (the
\* hazard of updateRedisSlots and initializeRedisSlots), a lowered budget, an
\* import above the average.  Reservations, however they interleave, are never
\* one.
THEOREM OversellHasACause ==
  Spec => /\ Fits
          /\ [](Fits => NoOversell)
          /\ [][Fits => Fits' \/ OversellCause]_vars
<1>1. Init => Fits
  <2> SUFFICES ASSUME Init PROVE Fits
    OBVIOUS
  <2>1. Holders = {}
    BY DEF Init, Holders, Granted
  <2>2. Cardinality({}) = 0
    BY FS_EmptySet
  <2>3. camp = Row0 /\ Row0 \in CampRow /\ Slots(Row0) \in Nat /\ slots.n \in {0, Slots(Row0)}
    BY Row0Type, SlotsType DEF Init
  <2>4. Row0.used <= Row0.budget
    BY BudgetsAreNumbers DEF Row0
  <2>5. Row0.used + Avg * Slots(Row0) <= Row0.budget /\ Row0.used + Avg * 0 <= Row0.budget
    BY <2>3, <2>4, SlotsFit, TokensPositive, BudgetsAreNumbers DEF Row0
  <2>6. Pool = slots.n
    BY <2>1, <2>2, <2>3 DEF Pool
  <2> HIDE DEF Row0
  <2> QED
    BY <2>3, <2>5, <2>6 DEF Fits
<1>2. TypeOK /\ TypeOK' /\ [Next]_vars => [Fits => Fits' \/ OversellCause]_vars
  BY PoolStep
<1> QED
  BY <1>1, <1>2, FitsIsNoOversell, CampaignTypeCorrect, PTL DEF Spec

\* The same, as a statement about NoOversell: a run in which no step is a
\* cause never oversells.
THEOREM ReservationsNeverOversell == Spec /\ [][~OversellCause]_vars => []NoOversell
<1>1. TypeOK /\ TypeOK' /\ Fits /\ [Next]_vars /\ [~OversellCause]_vars => Fits'
  <2>1. CASE UNCHANGED vars
    BY <2>1 DEF vars, Fits, Pool, Holders
  <2>2. CASE ~OversellCause
    BY <2>2, PoolStep
  <2> QED
    BY <2>1, <2>2
<1> QED
  BY <1>1, OversellHasACause, FitsIsNoOversell, CampaignTypeCorrect, PTL DEF Spec

=============================================================================
