------------------------------ MODULE Requests ------------------------------
(***************************************************************************)
(* The request workflow: RequestService.create and cancel,                 *)
(* ApprovalService.approve and reject with the loan fulfilment they run,   *)
(* and the notices each sends once its writes are committed.               *)
(*                                                                         *)
(* Handlers are async and run on several server instances, so they         *)
(* interleave at every await that reaches the database.  `call' holds the  *)
(* locals of the handlers in flight: one slot per concurrent handler, with *)
(* `pc' the last await it has passed.                                      *)
(*                                                                         *)
(* The database runs READ COMMITTED.  What a transaction reads is split    *)
(* from its commit, since others commit in between; its writes become      *)
(* visible together, in the commit action, and the row of the step it      *)
(* decides stays locked from the UPDATE until then.                        *)
(***************************************************************************)
EXTENDS Tables

CONSTANTS
  Calls,         \* slots for handlers in flight
  Interrupts,    \* TRUE when a handler may be cut off (crash, lost connection)
  MaxCancelled   \* bound: requests in status cancelled at any time

ASSUME CallAssumption == Interrupts \in BOOLEAN /\ MaxCancelled \in Nat

VARIABLE call

requestVars == <<tables, call>>

Call ==
  [op       : {"none", "create", "approve", "reject", "cancel"},
   pc       : {"idle", "checked", "read", "reloaded", "locked", "ready",
               "loaded", "compared", "committed"},
   request  : Requests \cup {None},
   step     : Steps \cup {None},
   siblings : SUBSET Steps,         \* approval steps the handler has loaded
   links    : SUBSET Assignments,   \* assignments the handler has loaded,
                                    \* then those that save() unlinks
   relinks  : SUBSET Assignments,   \* those that save() links again
   asset    : Assets \cup {None},   \* the asset picked for a loan, and its
   retired  : RetiredAt,            \* retired_at as loaded
   dirty    : BOOLEAN]              \* save() will write the status column

NoCall == [op |-> "none", pc |-> "idle", request |-> None, step |-> None,
           siblings |-> {}, links |-> {}, relinks |-> {}, asset |-> None,
           retired |-> None, dirty |-> FALSE]

RequestsInit == TablesInit /\ call = [c \in Calls |-> NoCall]

-----------------------------------------------------------------------------

At(c, op, pc) == call[c].op = op /\ call[c].pc = pc

Goto(c, pc) == call' = [call EXCEPT ![c].pc = pc]

\* The handler ends: with its answer, or with an exception.
Return(c) == call' = [call EXCEPT ![c] = NoCall]

\* c's transaction has updated the row of the step it decides.
HoldsStep(c, s) == call[c].pc \in {"locked", "ready"} /\ call[c].step = s

\* Variant for mutation: the action is stored where its outcome belongs.
ActionAsTarget(c) == call[c].op

Target(c) == IF call[c].op = "approve" THEN "approved" ELSE "rejected"

\* Approvals in flight that will insert a step, or an assignment.
Approving(role) ==
  {c \in Calls : call[c].op = "approve" /\ step[call[c].step].role = role}

\* Bounds: no handler starts that could find no identifier left.
StepRoom == Cardinality(FreeSteps) > Cardinality(Approving("direct_manager"))

AssignmentRoom ==
  Cardinality(FreeAssignments) > Cardinality(Approving("procurement_manager"))

-----------------------------------------------------------------------------
(* RequestService.create: the request and its first approval step, in one  *)
(* transaction.  The requester's department and its manager are read just  *)
(* before; any manager may be the one found.                               *)

Create(c, u, r, s, type, model, manager) ==
  /\ call[c].pc = "idle"
  /\ StepRoom
  /\ r \in FreeRequests /\ s \in FreeSteps
  /\ (type = "loan") = (model # None)
  /\ request' = [request EXCEPT ![r] =
       [status |-> "pending_manager_approval", type |-> type,
        requester |-> u, model |-> model]]
  /\ step' = [step EXCEPT ![s] =
       [status |-> "pending", request |-> r, role |-> "direct_manager",
        approver |-> manager]]
  /\ call' = [call EXCEPT ![c] =
       [NoCall EXCEPT !.op = "create", !.pc = "committed", !.request = r,
                      !.step = s]]
  /\ UNCHANGED <<asset, assignment, notice>>

-----------------------------------------------------------------------------
(* ApprovalService.processAction, shared by approve and reject.            *)

\* findOne and assertCanActOnStep, before the transaction.
Check(c, op, s, user) ==
  /\ call[c].pc = "idle"
  /\ step[s].status = "pending" /\ step[s].approver = user
  /\ \/ op = "reject"
     \/ op = "approve" /\ step[s].role = "direct_manager" /\ StepRoom
     \/ op = "approve" /\ step[s].role = "procurement_manager"
          /\ AssignmentRoom
  /\ call' = [call EXCEPT ![c] =
       [NoCall EXCEPT !.op = op, !.pc = "checked", !.step = s,
                      !.request = step[s].request]]
  /\ UNCHANGED tables

\* The fresh step, read without a lock, must still be pending.
ReadFreshStep(c) ==
  /\ call[c].pc = "checked"
  /\ IF step[call[c].step].status = "pending" THEN Goto(c, "read")
                                              ELSE Return(c)
  /\ UNCHANGED tables

\* save(freshStep), first half: TypeORM reloads the row and will write only
\* the columns that differ from it.
ReloadStep(c) ==
  /\ call[c].pc = "read"
  /\ call' = [call EXCEPT ![c].pc = "reloaded",
                          ![c].dirty = step[call[c].step].status # Target(c)]
  /\ UNCHANGED tables

\* save(freshStep), second half: the UPDATE waits for the row's lock.
LockStep(c) ==
  /\ call[c].pc = "reloaded"
  /\ \A d \in Calls : ~HoldsStep(d, call[c].step)
  /\ Goto(c, "locked")
  /\ UNCHANGED tables

\* handleRejection's query for the other steps still pending.
FindPendingSteps(c) ==
  /\ At(c, "reject", "locked")
  /\ call' = [call EXCEPT ![c].pc = "ready",
       ![c].siblings = PendingStepsOf(call[c].request) \ {call[c].step}]
  /\ UNCHANGED tables

\* fulfillLoanRequest's query for an available asset of the model; without
\* one it throws and the transaction rolls back.
FindAvailableAsset(c) ==
  LET available == AvailableAssets(request[call[c].request].model)
  IN /\ At(c, "approve", "locked")
     /\ step[call[c].step].role = "procurement_manager"
     /\ request[call[c].request].type = "loan"
     /\ \/ \E a \in available :
             call' = [call EXCEPT ![c].pc = "ready", ![c].asset = a,
                                  ![c].retired = asset[a].retiredAt]
        \/ available = {} /\ Return(c)
     /\ UNCHANGED tables

-----------------------------------------------------------------------------
(* The commits.  None of them looks at the status the request has.         *)

\* Variant for mutation: the decision is never saved.
DecisionLost(c) == step

\* The step's row after the transaction's UPDATE of it.
Decided(c) ==
  IF call[c].dirty
  THEN [step EXCEPT ![call[c].step].status = Target(c)]
  ELSE step

CommitRejection(c) ==
  LET skipped == call[c].siblings
  IN /\ At(c, "reject", "ready")
     /\ \A s \in skipped, d \in Calls \ {c} : ~HoldsStep(d, s)
     /\ step' = [s \in Steps |->
          IF s \in skipped THEN [step[s] EXCEPT !.status = "skipped"]
                           ELSE Decided(c)[s]]
     /\ request' = [request EXCEPT ![call[c].request].status = "rejected"]
     /\ Goto(c, "committed")
     /\ UNCHANGED <<asset, assignment, notice>>

\* handleManagerApproval: p is the procurement manager found, n the new step.
CommitManagerApproval(c, n, p) ==
  /\ At(c, "approve", "locked")
  /\ step[call[c].step].role = "direct_manager"
  /\ n \in FreeSteps
  /\ step' = [Decided(c) EXCEPT ![n] =
       [status |-> "pending", request |-> call[c].request,
        role |-> "procurement_manager", approver |-> p]]
  /\ request' = [request EXCEPT
       ![call[c].request].status = "pending_procurement_approval"]
  /\ Goto(c, "committed")
  /\ UNCHANGED <<asset, assignment, notice>>

\* handleManagerApproval when nobody is procurement manager: all undone.
NoProcurementManager(c) ==
  /\ At(c, "approve", "locked")
  /\ step[call[c].step].role = "direct_manager"
  /\ Return(c)
  /\ UNCHANGED tables

CommitProcurementApproval(c) ==
  /\ At(c, "approve", "locked")
  /\ step[call[c].step].role = "procurement_manager"
  /\ request[call[c].request].type = "procurement"
  /\ step' = Decided(c)
  /\ request' = [request EXCEPT
       ![call[c].request].status = "procurement_approved"]
  /\ Goto(c, "committed")
  /\ UNCHANGED <<asset, assignment, notice>>

\* fulfillLoanRequest: the asset as loaded and changed (save() inserts it
\* again when it was deleted meanwhile), the new assignment g, the request.
CommitLoanApproval(c, g) ==
  LET r == call[c].request
      a == call[c].asset
  IN /\ At(c, "approve", "ready")
     /\ g \in FreeAssignments
     /\ step' = Decided(c)
     /\ asset' = [asset EXCEPT ![a].status = "in_use",
                               ![a].assignedEmployee = request[r].requester,
                               ![a].retiredAt = call[c].retired]
     /\ assignment' = [assignment EXCEPT ![g] =
          [status |-> "active", asset |-> a,
           employee |-> request[r].requester, request |-> r]]
     /\ request' = [request EXCEPT ![r].status = "fulfilled"]
     /\ Goto(c, "committed")
     /\ UNCHANGED notice

-----------------------------------------------------------------------------
(* RequestService.cancel: one entity loaded, changed and saved, with no    *)
(* transaction around the three.                                           *)

\* findOne with the relations approvalSteps and assignments, and the checks.
CancelRead(c, r, user) ==
  /\ call[c].pc = "idle"
  /\ request[r].requester = user
  /\ request[r].status \in CANCELLABLE_REQUEST_STATUSES
  /\ Cardinality({q \in Requests : request[q].status = "cancelled"})
       < MaxCancelled
  /\ call' = [call EXCEPT ![c] =
       [NoCall EXCEPT !.op = "cancel", !.pc = "loaded", !.request = r,
                      !.siblings = StepsOf(r), !.links = AssignmentsOf(r)]]
  /\ UNCHANGED tables

\* save(request), first half: the reload.  A step inserted since the read is
\* missing from the loaded relation, so save() would null its request_id,
\* which the column forbids: the save fails.  An assignment linked since the
\* read will be unlinked, its request_id being nullable; one unlinked since
\* will be linked again.
CancelReload(c) ==
  LET r == call[c].request
  IN /\ At(c, "cancel", "loaded")
     /\ IF StepsOf(r) \subseteq call[c].siblings
        THEN call' = [call EXCEPT ![c].pc = "compared",
               ![c].links = AssignmentsOf(r) \ call[c].links,
               ![c].relinks = call[c].links \ AssignmentsOf(r),
               ![c].dirty = request[r].status # "cancelled"]
        ELSE Return(c)
     /\ UNCHANGED tables

\* The assignments after the save; an UPDATE of a deleted one does nothing.
Linked(c) ==
  [g \in Assignments |->
     IF g \in call[c].links THEN [assignment[g] EXCEPT !.request = None]
     ELSE IF g \in call[c].relinks /\ assignment[g].status # "absent"
          THEN [assignment[g] EXCEPT !.request = call[c].request]
          ELSE assignment[g]]

\* Variant for mutation: only a request that still may be cancelled is.
CommitCancelGuarded(c) ==
  LET r == call[c].request
  IN /\ At(c, "cancel", "compared")
     /\ request' = [request EXCEPT ![r].status =
          IF @ \in CANCELLABLE_REQUEST_STATUSES THEN "cancelled" ELSE @]
     /\ assignment' = Linked(c)
     /\ Goto(c, "committed")
     /\ UNCHANGED <<step, asset, notice>>

CommitCancel(c) ==
  LET r == call[c].request
  IN /\ At(c, "cancel", "compared")
     /\ request' = [request EXCEPT ![r].status =
          IF call[c].dirty THEN "cancelled" ELSE @]
     /\ assignment' = Linked(c)
     /\ Goto(c, "committed")
     /\ UNCHANGED <<step, asset, notice>>

-----------------------------------------------------------------------------
(* The notices, sent after the commit from the request as it then reads.   *)

\* Variant for mutation: the next approver is forgotten.
OnlyRequesterNotices(r) ==
  {{Notice(request[r].requester, "request_update", r)}}

\* dispatchNotifications after an approval by the direct manager: `next' is
\* the procurement step it finds pending, if any.
ApprovalNotices(r) ==
  LET next == {s \in PendingStepsOf(r) : step[s].role = "procurement_manager"}
      update == Notice(request[r].requester, "request_update", r)
  IN IF next = {}
     THEN {{update}}
     ELSE {{update, Notice(step[s].approver, "approval_required", r)} :
             s \in next}

\* Variant for mutation: the approval is not announced, only the equipment.
OnlyEquipmentNotices(r) ==
  IF AssignmentsOf(r) = {}
  THEN {}
  ELSE {Notice(request[r].requester, "equipment_assigned", r)}

FulfilmentNotices(r) ==
  IF request[r].status # "fulfilled"
  THEN {}
  ELSE {Notice(request[r].requester, type, r) :
          type \in {"request_approved"} \cup
            {t \in {"equipment_assigned"} : AssignmentsOf(r) # {}}}

\* The sets of notices c's handler may send for its request r.
Notices(c, r) ==
  LET told(type) == {{Notice(request[r].requester, type, r)}}
  IN CASE call[c].op = "create" ->
            {{Notice(step[call[c].step].approver, "approval_required", r)}}
       [] call[c].op = "cancel" -> told("request_cancelled")
       [] call[c].op = "reject" -> told("request_rejected")
       [] call[c].op = "approve" ->
            IF step[call[c].step].role = "direct_manager"
            THEN ApprovalNotices(r)
            ELSE IF request[r].type = "procurement"
                 THEN told("procurement_approved")
                 ELSE {FulfilmentNotices(r)}

Notify(c) ==
  /\ call[c].pc = "committed" /\ call[c].op # "none"
  /\ \E sent \in Notices(c, call[c].request) : notice' = notice \cup sent
  /\ Return(c)
  /\ UNCHANGED <<request, step, asset, assignment>>

-----------------------------------------------------------------------------
(* What the surroundings do to a handler.                                  *)

\* c waits for a step row that d's transaction has locked.
WaitsFor(c, d) ==
  /\ At(c, "reject", "ready")
  /\ \E s \in call[c].siblings : HoldsStep(d, s)

\* Variant for mutation: a cycle of waits is never broken.
NoDeadlockVictim(c) == FALSE

\* PostgreSQL aborts a transaction that waits in a cycle.
DeadlockVictim(c) ==
  /\ \E waiting \in SUBSET Calls :
       /\ c \in waiting
       /\ \A d \in waiting : \E e \in waiting \ {d} : WaitsFor(d, e)
  /\ Return(c)
  /\ UNCHANGED tables

\* The process crashes or its connection drops: an open transaction rolls
\* back, a committed one stays, what was still to be sent is never sent.
Interrupt(c) ==
  /\ Interrupts
  /\ call[c].pc # "idle"
  /\ Return(c)
  /\ UNCHANGED tables

-----------------------------------------------------------------------------

\* A user calls an endpoint.
Arrive(c) ==
  \/ \E u \in Employees, r \in Requests, s \in Steps, type \in RequestType,
        model \in Models \cup {None}, manager \in Managers :
       Create(c, u, r, s, type, model, manager)
  \/ \E op \in {"approve", "reject"}, s \in Steps, user \in Employees :
       Check(c, op, s, user)
  \/ \E r \in Requests, user \in Employees : CancelRead(c, r, user)

\* A handler in flight takes its next step.
Proceed(c) ==
  \/ ReadFreshStep(c)
  \/ ReloadStep(c)
  \/ LockStep(c)
  \/ FindPendingSteps(c)
  \/ FindAvailableAsset(c)
  \/ CommitRejection(c)
  \/ \E n \in Steps, p \in ProcurementManagers : CommitManagerApproval(c, n, p)
  \/ NoProcurementManager(c)
  \/ CommitProcurementApproval(c)
  \/ \E g \in Assignments : CommitLoanApproval(c, g)
  \/ CancelReload(c)
  \/ CommitCancel(c)
  \/ Notify(c)
  \/ DeadlockVictim(c)

RequestsNext == \E c \in Calls : Arrive(c) \/ Proceed(c) \/ Interrupt(c)

RequestsSpec == RequestsInit /\ [][RequestsNext]_requestVars

\* A server that nothing cuts off.  The event loop and the database serve
\* every handler in flight.  Only a row lock makes one wait, and a released
\* lock goes to the transactions queued for it: hence strong fairness.
FairRequestsSpec ==
  /\ RequestsInit
  /\ [][\E c \in Calls : Arrive(c) \/ Proceed(c)]_requestVars
  /\ \A c \in Calls : SF_requestVars(Proceed(c))

-----------------------------------------------------------------------------
(* Properties.                                                             *)

\* Every row of the tables and every local of a handler is of its type.
RequestsTypeOK == TablesTypeOK /\ call \in [Calls -> Call]

\* The request has a step of the role that is (or is no longer) pending.
HasStep(r, role, pending) ==
  \E s \in StepsOf(r) :
    step[s].role = role /\ (step[s].status = "pending") = pending

Explained(r) ==
  /\ request[r].status = "pending_manager_approval" =>
       HasStep(r, "direct_manager", TRUE)
  /\ request[r].status = "pending_procurement_approval" =>
       HasStep(r, "procurement_manager", TRUE)
  /\ request[r].status \in {"procurement_approved", "fulfilled"} =>
       HasStep(r, "procurement_manager", FALSE)
  /\ request[r].status = "rejected" =>
       \E role \in ApprovalRole : HasStep(r, role, FALSE)

\* The status of a request is explained by its steps, however handlers
\* overlap: a pending request has a pending step of its stage (so somebody
\* can act on it), an approved or fulfilled one has a procurement step that
\* was acted on, a rejected one has a step that was acted on.
StatusIsExplained == \A r \in Requests : Explained(r)

\* No request reaches procurement before a manager has acted on it: where
\* there is a procurement step, a manager's step of the same request is no
\* longer pending.
ProcurementFollowsManager ==
  \A s \in Steps :
    step[s].status # "absent" /\ step[s].role = "procurement_manager" =>
      \E m \in StepsOf(step[s].request) :
        step[m].role = "direct_manager" /\ step[m].status # "pending"

\* The assignment gives the requester an asset of the requested model.
Backs(g, r) ==
  /\ assignment[g].employee = request[r].requester
  /\ asset[assignment[g].asset].model = request[r].model

\* A fulfilled loan is backed by an assignment of an asset of the requested
\* model to the requester; cancel's save, which may unlink an assignment
\* made since it read, never leaves the request fulfilled.
FulfilmentIsBacked ==
  \A r \in Requests :
    request[r].status = "fulfilled" /\ request[r].type = "loan" =>
      \E g \in AssignmentsOf(r) : Backs(g, r)

\* Each handler ends: no wait for a row lock lasts forever.
CallsEnd == \A c \in Calls : []<>(call[c].pc = "idle")

\* The notice the requester gets for a status.
StatusNotice ==
  [pending_procurement_approval |-> "request_update",
   procurement_approved |-> "procurement_approved",
   fulfilled |-> "request_approved",
   rejected |-> "request_rejected",
   cancelled |-> "request_cancelled"]

\* A request does not stay in a status its requester was never told of.
RequesterIsTold ==
  \A r \in Requests :
    []<>(request[r].status \in DOMAIN StatusNotice =>
           Notice(request[r].requester, StatusNotice[request[r].status], r)
             \in notice)

\* A request does not stay pending while no approver of a pending step of
\* it was told: dispatchNotifications, which re-reads the request, may find
\* another handler's step but never none.
ApproverIsTold ==
  \A r \in Requests :
    []<>(request[r].status \in CANCELLABLE_REQUEST_STATUSES =>
           \E s \in PendingStepsOf(r) :
             Notice(step[s].approver, "approval_required", r) \in notice)

-----------------------------------------------------------------------------
(* Properties of a server that runs one handler at a time (Calls a         *)
(* singleton), interrupted at any point.                                   *)

\* A step that leaves a fulfilled, rejected or procurement-approved request
\* its status.
SettledStep(r) ==
  request[r].status \in {"fulfilled", "rejected", "procurement_approved"}
    => request'[r].status = request[r].status

\* A settled request waits for nobody: none of its steps is still pending.
SettledHasNoPendingStep ==
  \A r \in Requests :
    request[r].status \in {"fulfilled", "rejected", "procurement_approved"}
      => PendingStepsOf(r) = {}

\* A request is routed once to each stage, at most one step of a role, even
\* when a cancelled request is taken up again.
OneStepPerRole ==
  \A s, t \in Steps :
    /\ step[s].status # "absent" /\ step[t].status # "absent"
    /\ step[s].request = step[t].request /\ step[s].role = step[t].role
    => s = t

\* The assets and the assignments agree: an asset is in use exactly when one
\* active assignment is on it, and its holder is that assignment's employee.
LedgerAgrees ==
  \A a \in Assets :
    LET active == {g \in Assignments :
                    assignment[g].status = "active" /\ assignment[g].asset = a}
    IN /\ (asset[a].status = "in_use") = (active # {})
       /\ \A g \in active :
            /\ active = {g}
            /\ asset[a].assignedEmployee = assignment[g].employee

-----------------------------------------------------------------------------
(* What the documentation promises and the handlers do not keep.           *)

\* docs/database-erd.md, request status flow: cancelled is final.
CancelledIsFinal ==
  [][\A r \in Requests : request[r].status = "cancelled" =>
       request'[r].status = "cancelled"]_requestVars

=============================================================================
