----------------------------- MODULE AiCampaign -----------------------------
(***************************************************************************)
(* The AI campaign: a token budget in PostgreSQL and, derived from it, two *)
(* Redis keys, the counter of free slots and the cached campaign status    *)
(* (ai-campaign.service.ts, ai-campaign.repository.ts).  A scan request    *)
(* that opts in reserves a slot (checkAndReserveSlotAtomic), the import of *)
(* its AI result bills its tokens (deductTokens), administrators pause,    *)
(* resume and change the campaign (ai-campaign.controller.ts), and anyone  *)
(* may read the status.                                                    *)
(*                                                                         *)
(* Every Redis command and every Prisma call is a step of its own.  One    *)
(* import bills one scan here; AiQueue has the imports themselves.         *)
(***************************************************************************)
EXTENDS Integers, FiniteSets

CONSTANTS
    Requests,   \* the scans for which AI was asked
    Avg,        \* avgTokensPerScan of the campaign
    Cost,       \* the tokens an AI scan turns out to need
    Budget,     \* totalTokenBudget at the start
    Budgets,    \* the budgets an administrator may set
    Warm,       \* whether the slot counter exists already
    Ops,        \* what happens in a run besides reservations, see AllOps
    MaxCalls    \* bound on the administrators' calls

AllOps == {"import", "pause", "resume", "setBudget", "status", "error"}
AdminOps == {"pause", "resume", "setBudget"}

ASSUME RequestsFinite == IsFiniteSet(Requests)
ASSUME TokensPositive == Avg \in Nat \ {0} /\ Cost \in Nat \ {0}
ASSUME BudgetsAreNumbers == Budget \in Nat /\ Budgets \subseteq Nat
ASSUME RunIsKnown == Warm \in BOOLEAN /\ Ops \subseteq AllOps /\ MaxCalls \in Nat

VARIABLES
    camp,     \* the AiCampaign row
    slots,    \* Redis ai:campaign:slots:available
    marked,   \* the requests with a reservation key, ai:campaign:slot:<temp id>
    cache,    \* Redis ai_campaign:status, as the row it was computed from
    req,      \* req[r]: the request, and later the import, of one scan
    admin,    \* the administrators' calls, one at a time
    calls,    \* how many there were
    reader    \* a getCampaignStatus call

vars == <<camp, slots, marked, cache, req, admin, calls, reader>>

CampRow == [status : {"ACTIVE", "PAUSED"}, budget : Nat, used : Nat]
SlotKey == [known : BOOLEAN, n : Int]
CacheKey == [known : BOOLEAN, row : CampRow]

Reserving == {"exists", "init", "set", "reserve"}
Granted == {"mark", "create", "ai"}
Billing == {"deduct", "increment", "invalidate", "recount", "setSlots"}
RequestPc == Reserving \union Granted \union Billing
                \union {"plain", "failed", "billed", "unbilled"}
Request == [pc : RequestPc, row : CampRow]
AdminCall == [pc : {"idle", "called", "update", "invalidate", "setSlots"},
              op : AdminOps, budget : Nat, row : CampRow]
StatusCall == [pc : {"idle", "miss", "store"}, row : CampRow]

TypeOK ==
    /\ camp \in CampRow
    /\ slots \in SlotKey /\ slots.n >= 0
    /\ marked \subseteq Requests
    /\ cache \in CacheKey
    /\ req \in [Requests -> Request]
    /\ admin \in AdminCall /\ calls \in 0..MaxCalls
    /\ reader \in StatusCall

\* calculateSlotsRemaining
Slots(row) == IF row.used > row.budget THEN 0 ELSE (row.budget - row.used) \div Avg

Row0 == [status |-> "ACTIVE", budget |-> Budget, used |-> 0]

NoStatus == [known |-> FALSE, row |-> Row0]
IdleAdmin == [pc |-> "idle", op |-> "pause", budget |-> Budget, row |-> Row0]
IdleReader == [pc |-> "idle", row |-> Row0]

\* The row a call has read is forgotten when it is of no more use.
Goto(r, pc) == req' = [req EXCEPT ![r].pc = pc]
GotoWith(r, pc, row) == req' = [req EXCEPT ![r] = [pc |-> pc, row |-> row]]
Leave(r, pc) == GotoWith(r, pc, Row0)

Init ==
    /\ camp = Row0
    /\ slots = [known |-> Warm, n |-> IF Warm THEN Slots(Row0) ELSE 0]
    /\ marked = {}
    /\ cache = NoStatus
    /\ req = [r \in Requests |-> [pc |-> "exists", row |-> Row0]]
    /\ admin = IdleAdmin
    /\ calls = 0
    /\ reader = IdleReader

\* getActiveCampaign finds the row.
Active == camp.status = "ACTIVE"

(***************************************************************************)
(* checkAndReserveSlotAtomic, called by createScan and createBatch         *)
(***************************************************************************)

SlotsExist(r) ==
    /\ req[r].pc = "exists"
    /\ Goto(r, IF slots.known THEN "reserve" ELSE "init")
    /\ UNCHANGED <<camp, slots, marked, cache, admin, calls, reader>>

\* initializeRedisSlots: reads the campaign, none means campaign_inactive ...
InitSlotsRead(r) ==
    /\ req[r].pc = "init"
    /\ IF Active THEN GotoWith(r, "set", camp) ELSE Leave(r, "plain")
    /\ UNCHANGED <<camp, slots, marked, cache, admin, calls, reader>>

\* ... and sets the counter; without a slot there is no need to go on.
InitSlotsSet(r) ==
    /\ req[r].pc = "set"
    /\ slots' = [known |-> TRUE, n |-> Slots(req[r].row)]
    /\ Leave(r, IF Slots(req[r].row) = 0 THEN "plain" ELSE "reserve")
    /\ UNCHANGED <<camp, marked, cache, admin, calls, reader>>

\* Faulty variant: DECR without looking at what is left.
ReserveBlind(r) ==
    /\ req[r].pc = "reserve"
    /\ slots' = [known |-> TRUE, n |-> slots.n - 1]
    /\ Goto(r, "mark")
    /\ UNCHANGED <<camp, marked, cache, admin, calls, reader>>

\* RESERVE_SLOT_LUA: one atomic step.
Reserve(r) ==
    /\ req[r].pc = "reserve"
    /\ IF slots.known /\ slots.n > 0
       THEN slots' = [slots EXCEPT !.n = @ - 1] /\ Goto(r, "mark")
       ELSE UNCHANGED slots /\ Goto(r, "plain")
    /\ UNCHANGED <<camp, marked, cache, admin, calls, reader>>

\* SETEX of the reservation key.
Mark(r) ==
    /\ req[r].pc = "mark"
    /\ marked' = marked \union {r}
    /\ Goto(r, "create")
    /\ UNCHANGED <<camp, slots, cache, admin, calls, reader>>

\* The Scan row, with aiStatus PENDING.
CreateScan(r) ==
    /\ req[r].pc = "create"
    /\ Goto(r, "ai")
    /\ UNCHANGED <<camp, slots, marked, cache, admin, calls, reader>>

\* An error before the SETEX has answered means a scan without AI, one of
\* createScan a failed request; a slot that was taken stays taken.
ReserveError(r) ==
    /\ "error" \in Ops
    /\ req[r].pc \in Reserving \union {"mark", "create"}
    /\ Leave(r, IF req[r].pc = "create" THEN "failed" ELSE "plain")
    /\ UNCHANGED <<camp, slots, marked, cache, admin, calls, reader>>

\* 30 minutes later the reservation key expires.  Its name is a temporary id
\* that nothing else knows, so releaseSlot never finds it.
MarkExpires(r) ==
    /\ r \in marked
    /\ marked' = marked \ {r}
    /\ UNCHANGED <<camp, slots, cache, req, admin, calls, reader>>

(***************************************************************************)
(* deductTokens, called when the AI result is imported                     *)
(***************************************************************************)

Import(r) ==
    /\ "import" \in Ops
    /\ req[r].pc = "ai"
    /\ Goto(r, "deduct")
    /\ UNCHANGED <<camp, slots, marked, cache, admin, calls, reader>>

\* CAMPAIGN_NOT_FOUND is logged by the import, and the tokens are not billed.
DeductRead(r) ==
    /\ req[r].pc = "deduct"
    /\ IF Active THEN GotoWith(r, "increment", camp) ELSE Leave(r, "unbilled")
    /\ UNCHANGED <<camp, slots, marked, cache, admin, calls, reader>>

Increment(r, used) ==
    /\ req[r].pc = "increment"
    /\ camp' = [camp EXCEPT !.used = used + Cost]
    /\ GotoWith(r, "invalidate", camp')
    /\ UNCHANGED <<slots, marked, cache, admin, calls, reader>>

\* Faulty variant: usedTokens is computed from the row read before.
DeductStale(r) == Increment(r, req[r].row.used)

\* Prisma's increment; it returns the new row, whatever the status is by now.
DeductIncrement(r) == Increment(r, camp.used)

DeductInvalidate(r) ==
    /\ req[r].pc = "invalidate"
    /\ cache' = NoStatus
    /\ Goto(r, "recount")
    /\ UNCHANGED <<camp, slots, marked, admin, calls, reader>>

DeductExists(r) ==
    /\ req[r].pc = "recount"
    /\ IF slots.known THEN Goto(r, "setSlots") ELSE Leave(r, "billed")
    /\ UNCHANGED <<camp, slots, marked, cache, admin, calls, reader>>

\* The counter becomes what the row that was returned leaves: reservations do
\* not count.
DeductSetSlots(r) ==
    /\ req[r].pc = "setSlots"
    /\ slots' = [known |-> TRUE, n |-> Slots(req[r].row)]
    /\ Leave(r, "billed")
    /\ UNCHANGED <<camp, marked, cache, admin, calls, reader>>

\* A database error leaves the tokens unbilled, a Redis error is logged.
DeductError(r) ==
    /\ "error" \in Ops
    /\ req[r].pc \in Billing
    /\ Leave(r, IF req[r].pc \in {"deduct", "increment"} THEN "unbilled" ELSE "billed")
    /\ UNCHANGED <<camp, slots, marked, cache, admin, calls, reader>>

(***************************************************************************)
(* pauseCampaignHandler, resumeCampaignHandler, updateCampaignHandler      *)
(***************************************************************************)

AdminCalls(op, b) ==
    /\ op \in Ops
    /\ admin.pc = "idle"
    /\ calls < MaxCalls
    /\ calls' = calls + 1
    /\ admin' = [IdleAdmin EXCEPT !.pc = "called", !.op = op,
                            !.budget = IF op = "setBudget" THEN b ELSE Budget]
    /\ UNCHANGED <<camp, slots, marked, cache, req, reader>>

\* All three look for the active campaign: none is a 404, and to resume an
\* active one is a 400.
AdminRead ==
    /\ admin.pc = "called"
    /\ admin' = IF Active /\ admin.op # "resume"
                THEN [admin EXCEPT !.pc = "update"] ELSE IdleAdmin
    /\ UNCHANGED <<camp, slots, marked, cache, req, calls, reader>>

\* updateCampaign: the row ...
UpdateRow ==
    /\ admin.pc = "update"
    /\ camp' = IF admin.op = "pause" THEN [camp EXCEPT !.status = "PAUSED"]
                                     ELSE [camp EXCEPT !.budget = admin.budget]
    /\ admin' = [admin EXCEPT !.pc = "invalidate", !.row = camp']
    /\ UNCHANGED <<slots, marked, cache, req, calls, reader>>

\* ... the cached status ...
UpdateInvalidate ==
    /\ admin.pc = "invalidate"
    /\ cache' = NoStatus
    /\ admin' = IF admin.op = "setBudget"
                THEN [admin EXCEPT !.pc = "setSlots"] ELSE IdleAdmin
    /\ UNCHANGED <<camp, slots, marked, req, calls, reader>>

\* ... and, when the budget was given, the counter, from the row returned.
UpdateSetSlots ==
    /\ admin.pc = "setSlots"
    /\ slots' = [known |-> TRUE, n |-> Slots(admin.row)]
    /\ admin' = IdleAdmin
    /\ UNCHANGED <<camp, marked, cache, req, calls, reader>>

\* A database error (the audit log's too) or a Redis error: what was done
\* stays done, the rest is left out.
UpdateError ==
    /\ "error" \in Ops
    /\ admin.pc # "idle"
    /\ admin' = IdleAdmin
    /\ UNCHANGED <<camp, slots, marked, cache, req, calls, reader>>

(***************************************************************************)
(* getCampaignStatus                                                       *)
(***************************************************************************)

\* A hit returns at once.
StatusMiss ==
    /\ "status" \in Ops
    /\ reader.pc = "idle"
    /\ ~cache.known
    /\ reader' = [IdleReader EXCEPT !.pc = "miss"]
    /\ UNCHANGED <<camp, slots, marked, cache, req, admin, calls>>

\* That there is no active campaign is not cached.
StatusRead ==
    /\ reader.pc = "miss"
    /\ reader' = IF Active THEN [pc |-> "store", row |-> camp]
                           ELSE IdleReader
    /\ UNCHANGED <<camp, slots, marked, cache, req, admin, calls>>

StatusStore ==
    /\ reader.pc = "store"
    /\ \/ cache' = [known |-> TRUE, row |-> reader.row]
       \/ "error" \in Ops /\ UNCHANGED cache
    /\ reader' = IdleReader
    /\ UNCHANGED <<camp, slots, marked, req, admin, calls>>

\* Faulty variant: SET instead of SETEX.
StatusKept == FALSE /\ UNCHANGED vars

\* 5 minutes.
StatusExpires ==
    /\ cache.known
    /\ cache' = NoStatus
    /\ UNCHANGED <<camp, slots, marked, req, admin, calls, reader>>

(***************************************************************************)
(* Specification                                                           *)
(***************************************************************************)

Ask(r) ==
    \/ SlotsExist(r) \/ InitSlotsRead(r) \/ InitSlotsSet(r)
    \/ Reserve(r) \/ Mark(r) \/ CreateScan(r)

Bill(r) ==
    \/ DeductRead(r) \/ DeductIncrement(r) \/ DeductInvalidate(r)
    \/ DeductExists(r) \/ DeductSetSlots(r)

Manage == AdminRead \/ UpdateRow \/ UpdateInvalidate \/ UpdateSetSlots

Status == StatusMiss \/ StatusRead \/ StatusStore

Next ==
    \/ \E r \in Requests :
          \/ Ask(r) \/ ReserveError(r) \/ MarkExpires(r)
          \/ Import(r) \/ Bill(r) \/ DeductError(r)
    \/ \E op \in AdminOps, b \in Budgets : AdminCalls(op, b)
    \/ Manage \/ UpdateError
    \/ Status \/ StatusExpires

Spec == Init /\ [][Next]_vars

\* A call that is under way is finished, and Redis lets keys expire; nobody
\* has to call.
Fairness ==
    /\ \A r \in Requests : WF_vars(Ask(r)) /\ WF_vars(Bill(r))
    /\ WF_vars(Manage)
    /\ WF_vars(StatusRead \/ StatusStore)
    /\ WF_vars(StatusExpires)

FairSpec == Spec /\ Fairness

(***************************************************************************)
(* Properties                                                              *)
(***************************************************************************)

\* The scans that were promised AI and are not billed yet.
Holders == {r \in Requests : req[r].pc \in Granted \union {"deduct", "increment"}}

\* checkAndReserveSlotAtomic "prevents race conditions when multiple users
\* request AI scans simultaneously": what was promised still fits the budget,
\* at the average the slots are computed with.
NoOversell == camp.used + Avg * Cardinality(Holders) <= camp.budget

Counted == {r \in Requests :
              req[r].pc \in {"invalidate", "recount", "setSlots", "billed"}}

\* updateCampaignTokens: imports that run at the same time, next to an
\* administrator who changes the row, lose none of each other's tokens.
UsedTokensExact == camp.used = Cost * Cardinality(Counted)

\* Whatever reader stored a status computed from an old row: the status that is
\* served does catch up with the campaign once it no longer changes.
StatusCatchesUp == <>[](cache.known => cache.row = camp)

=============================================================================
