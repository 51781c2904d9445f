---------------------------- MODULE SerialProofs ----------------------------
(***************************************************************************)
(* Proofs about handlers that do not overlap, though each may be cut off:  *)
(* of SerialRequests, and of EquipmentSystem with Overlap = FALSE, where   *)
(* the workflow and the inventory take turns on the same tables.           *)
(*                                                                         *)
(* A handler that is alone finds the tables as it left them.  The          *)
(* invariant says so place by place, for what each handler has read; the   *)
(* properties are then a matter of what one handler does.                  *)
(***************************************************************************)
EXTENDS SerialRequests, SystemProofs

-----------------------------------------------------------------------------
(* The workflow: what a handler in flight has read is still so.            *)

OneCall ==
  \A c, d \in Calls : call[c].pc # "idle" /\ call[d].pc # "idle" => c = d

Deciding(c) ==
  /\ call[c].op \in {"approve", "reject"}
  /\ call[c].pc \notin {"idle", "committed"}

DecisionFresh(c) ==
  Deciding(c) =>
    /\ step[call[c].step].status = "pending"
    /\ call[c].pc \in {"reloaded", "locked", "ready"} => call[c].dirty
    /\ At(c, "reject", "ready") =>
         call[c].siblings = PendingStepsOf(call[c].request) \ {call[c].step}
    /\ At(c, "approve", "ready") => asset[call[c].asset].status = "available"

\* A cancellation that is alone has nothing to unlink or to link again.
CancelFresh(c) ==
  /\ call[c].op = "cancel" /\ call[c].pc # "committed" =>
       request[call[c].request].status \in CANCELLABLE_REQUEST_STATUSES
  /\ At(c, "cancel", "loaded") => call[c].links = AssignmentsOf(call[c].request)
  /\ At(c, "cancel", "compared") =>
       call[c].links = {} /\ call[c].relinks = {} /\ call[c].dirty

CallsFresh == \A c \in Calls : DecisionFresh(c) /\ CancelFresh(c)

WorkflowSerial ==
  OneCall /\ CallsFresh /\ SettledHasNoPendingStep /\ OneStepPerRole

\* What the workflow alone makes of stock and assignments.
LoansOnly ==
  /\ \A a \in Assets : asset[a].status \in {"absent", "available", "in_use"}
  /\ \A g \in Assignments : assignment[g].status \in {"absent", "active"}

SerialRequestsInv ==
  /\ RequestsInv
  /\ ~overlap => WorkflowSerial /\ LoansOnly /\ LedgerAgrees

-----------------------------------------------------------------------------
(* The inventory: likewise.                                                *)

OneHandler ==
  /\ OneCall
  /\ \A i, j \in Jobs : job[i].pc # "idle" /\ job[j].pc # "idle" => i = j
  /\ \A j \in Jobs : job[j].pc # "idle" => NoCallInFlight

\* What the row of the asset will be once the handler has saved it.
SavesEntity(l) ==
  l.pc \in {"loaded", "compared"} =>
    /\ "status" \in l.columns \/ l.entity.status = asset[l.asset].status
    /\ \/ "assignedEmployee" \in l.columns
       \/ l.entity.assignedEmployee = asset[l.asset].assignedEmployee

SaveFresh(l) ==
  l.op = "save" =>
    /\ l.pc \in {"loaded", "compared"}
    /\ l.entity.status \in {asset[l.asset].status, "retired"} \cup Manual
    /\ l.entity.assignedEmployee = asset[l.asset].assignedEmployee

AssignFresh(l) ==
  l.op = "assign" =>
    /\ l.entity.status = "in_use" /\ l.entity.assignedEmployee = l.employee
    /\ l.pc \in {"loaded", "compared"} => asset[l.asset].status = "available"
    /\ l.pc \in {"saved", "found"} =>
         /\ asset[l.asset].status = "in_use"
         /\ asset[l.asset].assignedEmployee = l.employee
    /\ l.pc \in {"found", "inserted"} /\ l.fulfils =>
         request[l.request].status = "procurement_approved"
    /\ l.pc = "inserted" => AssignmentsOf(l.request) # {}

\* A return finds its assignment as its first check did.
ReturnFresh(l) ==
  LET g == l.assignment
      asked == l.op = "request_return"
  IN l.op \in Returns /\ l.pc # "done" =>
       /\ assignment[g].asset = l.asset
       /\ assignment[g].status = IF asked THEN "active" ELSE "return_requested"
       /\ assignment[g].request = l.links
       /\ l.entity.status = IF asked THEN "return_requested" ELSE "available"
       /\ l.entity.assignedEmployee = asset[l.asset].assignedEmployee
       /\ l.pc \in {"saved", "matched"} =>
            asset[l.asset].status = l.entity.status
       /\ l.pc = "matched" => "status" \in l.dirty

JobFresh(l) ==
  /\ l.op \notin {"none", "remove"} => asset[l.asset].status # "absent"
  /\ l.pc # "missing"
  /\ l.pc \in {"counting", "deletable"} => l.op = "remove"
  /\ SavesEntity(l) /\ SaveFresh(l) /\ AssignFresh(l) /\ ReturnFresh(l)

JobsFresh == \A j \in Jobs : JobFresh(job[j])

\* No service cancels an assignment.
NoneCancelled ==
  \A g \in Assignments : assignment[g].status # "cancelled"

SystemSerial ==
  /\ OneHandler
  /\ WorkflowSerial
  /\ JobsFresh
  /\ NoneCancelled
  /\ ProcurementIsBacked

-----------------------------------------------------------------------------
(* The stock.                                                              *)

\* The statuses that say where the asset is.
Placing == {"available", "in_use", "return_requested"}

\* The status of an asset whose open assignment is g.
Out(g) == IF assignment[g].status = "active" THEN "in_use"
                                             ELSE "return_requested"

\* At most one assignment is open, to the asset's holder.
HeldBy(a, g) ==
  OpenOn(a) = {g} /\ asset[a].assignedEmployee = assignment[g].employee

Ledger(a) ==
  /\ \A g \in OpenOn(a) :
       HeldBy(a, g) /\ (asset[a].status \in Placing => asset[a].status = Out(g))
  /\ asset[a].status \in {"in_use", "return_requested"} => OpenOn(a) # {}

\* A handler with locals l has saved a, but not yet the assignment that goes
\* with it.
HalfDone(l, a) ==
  /\ l.asset = a
  /\ \/ l.op = "assign" /\ l.pc \in {"saved", "found"}
     \/ l.op \in Returns /\ l.pc \in {"saved", "matched"}

StockInv ==
  /\ \A a \in Assets \ apart : (\A j \in Jobs : ~HalfDone(job[j], a)) => Ledger(a)
  /\ \A j \in Jobs, a \in Assets \ apart : HalfDone(job[j], a) =>
       IF job[j].op = "assign" THEN OpenOn(a) = {}
                               ELSE HeldBy(a, job[j].assignment)

-----------------------------------------------------------------------------
(* A step of the workflow.                                                 *)

\* A handler of the workflow takes a step; it starts alone.
AloneStep(c) ==
  (NoCallInFlight /\ Arrive(c)) \/ Proceed(c) \/ Interrupt(c)

LEMMA MoverIsBusy ==
  ASSUME NEW c \in Calls, Proceed(c) \/ Interrupt(c)
  PROVE  call[c].pc # "idle"
  BY DEF Proceed, Interrupt, ReadFreshStep, ReloadStep, LockStep,
     FindPendingSteps, FindAvailableAsset, CommitRejection,
     CommitManagerApproval, NoProcurementManager, CommitProcurementApproval,
     CommitLoanApproval, CancelReload, CommitCancel, Notify, DeadlockVictim,
     WaitsFor, At

\* The handler that moves is the only one in flight.
LEMMA OthersIdle ==
  ASSUME RequestsInv, OneCall, NEW c \in Calls, AloneStep(c)
  PROVE  \A d \in Calls \ {c} : call[d].pc = "idle" /\ call'[d] = call[d]
<1>1. \A d \in Calls \ {c} : call'[d] = call[d]
  BY OneHandlerMoves DEF AloneStep, RequestsInv, Refs
<1>2. \A d \in Calls \ {c} : call[d].pc = "idle"
  BY MoverIsBusy DEF AloneStep, NoCallInFlight, OneCall
<1> QED
  BY <1>1, <1>2

\* An idle handler has read nothing.
LEMMA IdleFresh ==
  ASSUME CallsRefer, NEW c \in Calls, call[c].pc = "idle"
  PROVE  DecisionFresh(c) /\ CancelFresh(c)
  BY DEF CallsRefer, Refers, DecisionFresh, CancelFresh, Deciding, At

\* A handler that ends, or has committed, has nothing left to read.
LEMMA ReturnFreshCall ==
  ASSUME RequestsInv, NEW c \in Calls, Return(c) \/ Goto(c, "committed")
  PROVE  DecisionFresh(c)' /\ CancelFresh(c)'
<1>1. \/ call'[c].pc = "idle" /\ call'[c].op = "none"
      \/ call'[c].pc = "committed"
  BY DEF Return, Goto, NoCall, RequestsInv, Refs, RequestsTypeOK, Call
<1> QED
  BY <1>1 DEF DecisionFresh, CancelFresh, Deciding, At

\* What a handler reads is so, and stays so while it is alone.
LEMMA StartFresh ==
  ASSUME RequestsInv, NEW c \in Calls, Arrive(c)
  PROVE  DecisionFresh(c)' /\ CancelFresh(c)'
<1> USE DEF RequestsInv, Refs, RequestsTypeOK, TablesTypeOK
<1>1. ASSUME NEW u \in Employees, NEW r \in Requests, NEW s \in Steps,
             NEW type \in RequestType, NEW model \in Models \cup {None},
             NEW manager \in Managers,
             Create(c, u, r, s, type, model, manager)
      PROVE  DecisionFresh(c)' /\ CancelFresh(c)'
  <2>1. call'[c].op = "create" /\ call'[c].pc = "committed"
    BY <1>1 DEF Create, NoCall
  <2> QED
    BY <2>1 DEF DecisionFresh, CancelFresh, Deciding, At
<1>2. ASSUME NEW op \in {"approve", "reject"}, NEW s \in Steps,
             NEW user \in Employees, Check(c, op, s, user)
      PROVE  DecisionFresh(c)' /\ CancelFresh(c)'
  <2>1. /\ call'[c].op = op /\ call'[c].pc = "checked" /\ call'[c].step = s
        /\ step[s].status = "pending" /\ UNCHANGED tables
    BY <1>2 DEF Check, NoCall
  <2> QED
    BY <2>1 DEF DecisionFresh, CancelFresh, Deciding, At, tables
<1>3. ASSUME NEW r \in Requests, NEW user \in Employees,
             CancelRead(c, r, user)
      PROVE  DecisionFresh(c)' /\ CancelFresh(c)'
  <2>1. /\ call'[c].op = "cancel" /\ call'[c].pc = "loaded"
        /\ call'[c].request = r /\ call'[c].links = AssignmentsOf(r)
        /\ request[r].status \in CANCELLABLE_REQUEST_STATUSES
        /\ UNCHANGED tables
    BY <1>3 DEF CancelRead, NoCall
  <2>2. AssignmentsOf(r)' = AssignmentsOf(r)
    BY <2>1 DEF AssignmentsOf, tables
  <2> QED
    BY <2>1, <2>2 DEF DecisionFresh, CancelFresh, Deciding, At, tables
<1> QED
  BY <1>1, <1>2, <1>3 DEF Arrive

\* A handler in flight that goes on without writing finds what it left.
LEMMA ProceedFresh ==
  ASSUME RequestsInv, NEW c \in Calls, Proceed(c),
         DecisionFresh(c), CancelFresh(c)
  PROVE  DecisionFresh(c)' /\ CancelFresh(c)'
<1> USE DEF RequestsInv, Refs, RequestsTypeOK, TablesTypeOK
<1>0. Refers(c) /\ call[c] \in Call
  BY DEF CallsRefer
<1>1. ASSUME NEW l \in Call, call' = [call EXCEPT ![c] = l], UNCHANGED tables,
             call[c].op \in {"approve", "reject"},
             l.op = call[c].op, l.step = call[c].step,
             l.request = call[c].request, Deciding(c),
             l.pc \in {"reloaded", "locked", "ready"} => l.dirty,
             l.op = "reject" /\ l.pc = "ready" =>
               l.siblings = PendingStepsOf(l.request) \ {l.step},
             l.op = "approve" /\ l.pc = "ready" =>
               asset[l.asset].status = "available"
      PROVE  DecisionFresh(c)' /\ CancelFresh(c)'
  <2>1. call'[c] = l
    BY <1>1
  <2>2. PendingStepsOf(l.request)' = PendingStepsOf(l.request)
    BY <1>1 DEF PendingStepsOf, StepsOf, tables
  <2>3. step[l.step].status = "pending"
    BY <1>1 DEF DecisionFresh
  <2> QED
    BY <1>1, <2>1, <2>2, <2>3 DEF DecisionFresh, CancelFresh, At, tables
<1>2. CASE ReadFreshStep(c)
  <2>1. call[c].op \in {"approve", "reject"} /\ Deciding(c)
    BY <1>0, <1>2 DEF ReadFreshStep, Refers, Deciding, Call
  <2>2. CASE Return(c)
    BY <2>2, ReturnFreshCall
  <2>3. CASE Goto(c, "read")
    <3>1. PICK l \in Call : l = [call[c] EXCEPT !.pc = "read"]
      BY <1>0 DEF Call
    <3>2. /\ l.pc = "read" /\ l.op = call[c].op /\ l.step = call[c].step
          /\ l.request = call[c].request
      BY <1>0, <3>1 DEF Call
    <3>3. call' = [call EXCEPT ![c] = l] /\ UNCHANGED tables
      BY <1>2, <2>3, <3>1 DEF Goto, ReadFreshStep
    <3> QED
      BY <1>1, <2>1, <3>2, <3>3
  <2> QED
    BY <1>2, <2>2, <2>3 DEF ReadFreshStep
<1>3. CASE ReloadStep(c)
  <2>1. call[c].op \in {"approve", "reject"} /\ Deciding(c)
    BY <1>0, <1>3 DEF ReloadStep, Refers, Deciding, Call
  <2>2. step[call[c].step].status # Target(c)
    BY <2>1 DEF DecisionFresh, Target
  <2>3. PICK l \in Call : l = [call[c] EXCEPT !.pc = "reloaded", !.dirty = TRUE]
    BY <1>0 DEF Call
  <2>4. /\ l.pc = "reloaded" /\ l.op = call[c].op /\ l.step = call[c].step
        /\ l.request = call[c].request /\ l.dirty
    BY <1>0, <2>3 DEF Call
  <2>5. call' = [call EXCEPT ![c] = l] /\ UNCHANGED tables
    BY <1>3, <2>2, <2>3 DEF ReloadStep
  <2> QED
    BY <1>1, <2>1, <2>4, <2>5
<1>4. CASE LockStep(c)
  <2>1. call[c].op \in {"approve", "reject"} /\ Deciding(c) /\ call[c].dirty
    BY <1>0, <1>4 DEF LockStep, Refers, Deciding, Call, DecisionFresh
  <2>2. PICK l \in Call : l = [call[c] EXCEPT !.pc = "locked"]
    BY <1>0 DEF Call
  <2>3. /\ l.pc = "locked" /\ l.op = call[c].op /\ l.step = call[c].step
        /\ l.request = call[c].request /\ l.dirty
    BY <1>0, <2>1, <2>2 DEF Call
  <2>4. call' = [call EXCEPT ![c] = l] /\ UNCHANGED tables
    BY <1>4, <2>2 DEF LockStep, Goto
  <2> QED
    BY <1>1, <2>1, <2>3, <2>4
<1>5. CASE FindPendingSteps(c)
  <2>1. call[c].op = "reject" /\ Deciding(c) /\ call[c].dirty
    BY <1>5 DEF FindPendingSteps, Deciding, DecisionFresh, At
  <2> DEFINE siblings == PendingStepsOf(call[c].request) \ {call[c].step}
  <2>2. siblings \in SUBSET Steps
    BY DEF PendingStepsOf, StepsOf
  <2>3. PICK l \in Call : l = [call[c] EXCEPT !.pc = "ready", !.siblings = siblings]
    BY <1>0, <2>2 DEF Call
  <2>4. /\ l.pc = "ready" /\ l.op = call[c].op /\ l.step = call[c].step
        /\ l.request = call[c].request /\ l.dirty /\ l.siblings = siblings
    BY <1>0, <2>1, <2>3 DEF Call
  <2>5. call' = [call EXCEPT ![c] = l] /\ UNCHANGED tables
    BY <1>5, <2>3 DEF FindPendingSteps
  <2> QED
    BY <1>1, <2>1, <2>4, <2>5
<1>6. CASE FindAvailableAsset(c)
  <2>1. call[c].op = "approve" /\ Deciding(c) /\ call[c].dirty
    BY <1>6 DEF FindAvailableAsset, Deciding, DecisionFresh, At
  <2>2. CASE Return(c)
    BY <2>2, ReturnFreshCall
  <2>3. ASSUME NEW a \in AvailableAssets(request[call[c].request].model),
               call' = [call EXCEPT ![c].pc = "ready", ![c].asset = a,
                                    ![c].retired = asset[a].retiredAt]
        PROVE  DecisionFresh(c)' /\ CancelFresh(c)'
    <3>1. /\ a \in Assets /\ asset[a].status = "available"
          /\ asset[a].retiredAt \in RetiredAt
      BY <2>3 DEF AvailableAssets, EquipmentAsset
    <3>2. PICK l \in Call : l = [call[c] EXCEPT !.pc = "ready", !.asset = a,
                                   !.retired = asset[a].retiredAt]
      BY <1>0, <3>1 DEF Call
    <3>3. /\ l.pc = "ready" /\ l.op = call[c].op /\ l.step = call[c].step
          /\ l.request = call[c].request /\ l.dirty /\ l.asset = a
      BY <1>0, <2>1, <3>2 DEF Call
    <3>4. call' = [call EXCEPT ![c] = l] /\ UNCHANGED tables
      BY <1>6, <2>3, <3>2 DEF FindAvailableAsset
    <3> QED
      BY <1>1, <2>1, <3>1, <3>3, <3>4
  <2> QED
    BY <1>6, <2>2, <2>3 DEF FindAvailableAsset
<1>7. CASE CancelReload(c)
  <2> DEFINE r == call[c].request
             links == AssignmentsOf(r) \ call[c].links
             relinks == call[c].links \ AssignmentsOf(r)
  <2>1. /\ request[r].status \in CANCELLABLE_REQUEST_STATUSES
        /\ links = {} /\ relinks = {} /\ UNCHANGED tables
    BY <1>7 DEF CancelReload, CancelFresh, At
  <2>2. CASE Return(c)
    BY <2>2, ReturnFreshCall
  <2>3. CASE ~Return(c)
    <3>1. PICK l \in Call : l = [call[c] EXCEPT !.pc = "compared", !.links = {},
                                   !.relinks = {}, !.dirty = TRUE]
      BY <1>0 DEF Call
    <3>2. request[r].status # "cancelled"
      BY <2>1 DEF CANCELLABLE_REQUEST_STATUSES
    <3>3. call' = [call EXCEPT ![c] = l]
      BY <1>7, <2>1, <2>3, <3>1, <3>2 DEF CancelReload
    <3>4. /\ l.op = "cancel" /\ l.pc = "compared" /\ l.request = r
          /\ l.links = {} /\ l.relinks = {} /\ l.dirty
      BY <1>0, <1>7, <3>1 DEF Call, CancelReload, At
    <3> QED
      BY <2>1, <3>3, <3>4 DEF DecisionFresh, CancelFresh, Deciding, At, tables
  <2> QED
    BY <2>2, <2>3
<1> QED
  BY <1>2, <1>3, <1>4, <1>5, <1>6, <1>7, ReturnFreshCall
     DEF Proceed, CommitRejection, CommitManagerApproval, NoProcurementManager,
       CommitProcurementApproval, CommitLoanApproval, CommitCancel, Notify,
       DeadlockVictim

\* One handler at a time, and what it has read is so.
LEMMA AloneFresh ==
  ASSUME RequestsInv, RequestsInv', OneCall, CallsFresh,
         NEW c \in Calls, AloneStep(c)
  PROVE  OneCall' /\ CallsFresh'
<1>1. \A d \in Calls \ {c} : call[d].pc = "idle" /\ call'[d] = call[d]
  BY OthersIdle
<1>2. OneCall'
  BY <1>1 DEF OneCall
<1>3. \A d \in Calls \ {c} : DecisionFresh(d)' /\ CancelFresh(d)'
  BY <1>1, IdleFresh DEF RequestsInv, Refs, DecisionFresh, CancelFresh, Deciding,
     At, CallsRefer, Refers
<1>4. DecisionFresh(c)' /\ CancelFresh(c)'
  BY StartFresh, ProceedFresh, ReturnFreshCall DEF AloneStep, CallsFresh, Interrupt
<1> QED
  BY <1>2, <1>3, <1>4 DEF CallsFresh

\* A step decided upon alone is the only step of its stage, and no later stage
\* has begun.
LEMMA OnlyItsStage ==
  ASSUME RequestsInv, OneStepPerRole, NEW s \in Steps, step[s].status = "pending",
         NEW t \in StepsOf(step[s].request)
  PROVE  /\ step[t].role = step[s].role => t = s
         /\ step[s].role = "direct_manager" => t = s
         /\ t # s => step[t].status # "pending"
<1>1. /\ step[s].request \in Requests /\ step[s].status # "absent"
      /\ t \in Steps /\ step[t].status # "absent"
      /\ step[t].request = step[s].request
      /\ step[s].role \in ApprovalRole /\ step[t].role \in ApprovalRole
  BY DEF StepsOf, RequestsInv, Refs, RequestsTypeOK, TablesTypeOK, StepsBelong,
     ApprovalStep
<1>2. step[t].role = step[s].role => t = s
  BY <1>1 DEF OneStepPerRole
<1>3. ASSUME NEW p \in Steps, NEW m \in Steps, step[p].status # "absent",
             step[p].request = step[s].request, step[m].request = step[s].request,
             step[p].role = "procurement_manager", step[m].role = "direct_manager",
             step[m].status # "absent"
      PROVE  step[m].status # "pending"
  <2>1. PICK n \in StepsOf(step[p].request) :
          step[n].role = "direct_manager" /\ step[n].status # "pending"
    BY <1>3 DEF RequestsInv, ProcurementFollowsManager
  <2>2. n = m
    BY <1>3, <2>1 DEF StepsOf, OneStepPerRole
  <2> QED
    BY <2>1, <2>2
<1>4. CASE step[s].role = "direct_manager"
  <2>1. step[t].role # "procurement_manager"
    BY <1>1, <1>3, <1>4
  <2> QED
    BY <1>1, <1>2, <1>4, <2>1 DEF ApprovalRole
<1>5. CASE step[s].role = "procurement_manager" /\ t # s
  <2>1. step[t].role = "direct_manager"
    BY <1>1, <1>2, <1>5 DEF ApprovalRole
  <2> QED
    BY <1>1, <1>3, <1>5, <2>1
<1> QED
  BY <1>1, <1>2, <1>4, <1>5 DEF ApprovalRole

\* The status of a request on which a step is still to be decided.
LEMMA StageOfPending ==
  ASSUME RequestsInv, OneStepPerRole, SettledHasNoPendingStep,
         NEW s \in Steps, step[s].status = "pending"
  PROVE  LET status == request[step[s].request].status IN
         /\ status \in {"pending_manager_approval", "pending_procurement_approval",
                        "approved", "cancelled"}
         /\ status = "pending_manager_approval" => step[s].role = "direct_manager"
         /\ status = "pending_procurement_approval" =>
              step[s].role = "procurement_manager"
<1> DEFINE r == step[s].request
<1>1. /\ r \in Requests /\ request[r].status # "absent"
      /\ request[r] \in EquipmentRequest
  BY DEF RequestsInv, Refs, RequestsTypeOK, TablesTypeOK, StepsBelong
<1>2. s \in PendingStepsOf(r)
  BY DEF PendingStepsOf, StepsOf
<1>3. request[r].status \in {"pending_manager_approval",
        "pending_procurement_approval", "approved", "cancelled"}
  BY <1>1, <1>2 DEF SettledHasNoPendingStep, EquipmentRequest, RequestStatus
<1>4. ASSUME NEW role, HasStep(r, role, TRUE)
      PROVE  step[s].role = role
  <2>1. PICK t \in StepsOf(r) : step[t].role = role /\ step[t].status = "pending"
    BY <1>4 DEF HasStep
  <2>2. t = s
    BY <2>1, OnlyItsStage
  <2> QED
    BY <2>1, <2>2
<1>5. Explained(r)
  BY <1>1 DEF RequestsInv, StatusIsExplained
<1> QED
  BY <1>3, <1>4, <1>5 DEF Explained

-----------------------------------------------------------------------------
(* What a handler that is alone writes.                                    *)

\* The decided step's row after the commit.
LEMMA DecidedAlone ==
  ASSUME RequestsInv, NEW c \in Calls, Deciding(c), DecisionFresh(c),
         call[c].pc \in {"locked", "ready"}
  PROVE  /\ call[c].step \in Steps /\ step[call[c].step].status = "pending"
         /\ step[call[c].step].request = call[c].request
         /\ call[c].request \in Requests
         /\ Decided(c)[call[c].step].status # "pending"
         /\ \A s \in Steps : /\ s # call[c].step => Decided(c)[s] = step[s]
                             /\ Decided(c)[s].request = step[s].request
                             /\ Decided(c)[s].role = step[s].role
                             /\ Decided(c)[s].status = "absent"
                                  <=> step[s].status = "absent"
<1>1. call[c].op \in {"approve", "reject"}
  BY DEF Deciding
<1>2. /\ call[c].step \in Steps /\ step[call[c].step].request = call[c].request
      /\ call[c].request \in Requests
  BY <1>1 DEF RequestsInv, Refs, CallsRefer, Refers
<1> QED
  BY <1>1, <1>2, DecidedDone, DecidedOK
     DEF RequestsInv, Refs, CallsRefer, CallsReady, CallReady, DecisionFresh

\* A cancellation unlinks nothing and links nothing again.
LEMMA CancelAlone ==
  ASSUME RequestsInv, NEW c \in Calls, CancelFresh(c), CommitCancel(c)
  PROVE  LET r == call[c].request IN
         /\ r \in Requests
         /\ request[r].status \in CANCELLABLE_REQUEST_STATUSES
         /\ request' = [request EXCEPT ![r].status = "cancelled"]
         /\ UNCHANGED <<step, asset, assignment>>
<1> DEFINE r == call[c].request
<1>1. At(c, "cancel", "compared")
  BY DEF CommitCancel
<1>2. /\ request[r].status \in CANCELLABLE_REQUEST_STATUSES
      /\ call[c].links = {} /\ call[c].relinks = {} /\ call[c].dirty
  BY <1>1 DEF CancelFresh, At
<1>3. r \in Requests
  BY <1>1 DEF RequestsInv, Refs, CallsRefer, Refers, At
<1>4. assignment' = assignment
  BY <1>2 DEF CommitCancel, Linked, RequestsInv, Refs, RequestsTypeOK, TablesTypeOK
<1> QED
  BY <1>2, <1>3, <1>4 DEF CommitCancel

\* The steps of each stage are at most one, and none of a settled request is
\* pending, when a table of steps t that adds no step and asks nobody to
\* decide takes the place of the one there is.
LEMMA NoNewSteps ==
  ASSUME OneStepPerRole, SettledHasNoPendingStep,
         \A s \in Steps :
           /\ step'[s].status # "absent" => step[s].status # "absent"
           /\ step'[s].request = step[s].request /\ step'[s].role = step[s].role
           /\ step'[s].status = "pending" => step[s].status = "pending",
         \A q \in Requests :
           \/ request'[q].status = request[q].status
           \/ request[q].status = "procurement_approved"
           \/ request'[q].status \notin {"fulfilled", "rejected", "procurement_approved"}
           \/ PendingStepsOf(q)' = {}
  PROVE  OneStepPerRole' /\ SettledHasNoPendingStep'
<1>1. OneStepPerRole'
  BY DEF OneStepPerRole
<1>2. \A q \in Requests : PendingStepsOf(q)' \subseteq PendingStepsOf(q)
  BY DEF PendingStepsOf, StepsOf
<1> QED
  BY <1>1, <1>2 DEF SettledHasNoPendingStep

\* A new step of a stage that its request has no step of.
LEMMA NewStep ==
  ASSUME OneStepPerRole, SettledHasNoPendingStep,
         NEW n \in Steps, step[n].status = "absent",
         NEW r \in Requests, step'[n].request = r,
         \A s \in Steps \ {n} :
           /\ step'[s].status = "absent" <=> step[s].status = "absent"
           /\ step'[s].request = step[s].request /\ step'[s].role = step[s].role
           /\ step'[s].status = "pending" => step[s].status = "pending",
         \A s \in StepsOf(r) : step[s].role # step'[n].role,
         request'[r].status \notin {"fulfilled", "rejected", "procurement_approved"},
         \A q \in Requests \ {r} : request'[q].status = request[q].status
  PROVE  OneStepPerRole' /\ SettledHasNoPendingStep'
<1>1. OneStepPerRole'
  <2> SUFFICES ASSUME NEW s \in Steps, NEW t \in Steps,
                      step'[s].status # "absent", step'[t].status # "absent",
                      step'[s].request = step'[t].request,
                      step'[s].role = step'[t].role
               PROVE  s = t
    BY DEF OneStepPerRole
  <2>1. CASE s # n /\ t # n
    BY <2>1 DEF OneStepPerRole
  <2>2. CASE s = n /\ t # n
    BY <2>2 DEF StepsOf
  <2>3. CASE s # n /\ t = n
    BY <2>3 DEF StepsOf
  <2> QED
    BY <2>1, <2>2, <2>3
<1>2. \A q \in Requests \ {r} : PendingStepsOf(q)' \subseteq PendingStepsOf(q)
  BY DEF PendingStepsOf, StepsOf
<1> QED
  BY <1>1, <1>2 DEF SettledHasNoPendingStep

\* A decision leaves its request without a pending step, unless it routes it on.
LEMMA NothingPending ==
  ASSUME RequestsInv, OneStepPerRole, NEW c \in Calls, Deciding(c), DecisionFresh(c),
         call[c].pc \in {"locked", "ready"}, step' = Decided(c),
         NEW r, r = call[c].request
  PROVE  /\ PendingStepsOf(r)' = {}
         /\ \A s \in Steps : step'[s].status = "pending" => step[s].status = "pending"
<1>1. \A s \in Steps : step'[s].status = "pending" =>
        s # call[c].step /\ step[s].status = "pending"
  BY DecidedAlone
<1>2. /\ call[c].step \in Steps /\ step[call[c].step].status = "pending"
      /\ step[call[c].step].request = call[c].request
  BY DecidedAlone
<1>3. \A s \in StepsOf(r) : s # call[c].step => step[s].status # "pending"
  <2>1. PICK d \in Steps : d = call[c].step
    BY <1>2
  <2>2. \A s \in StepsOf(step[d].request) : s # d => step[s].status # "pending"
    BY <1>2, <2>1, OnlyItsStage
  <2> QED
    BY <1>2, <2>1, <2>2
<1>4. \A s \in Steps : step'[s].request = step[s].request
  BY DecidedAlone
<1>5. PendingStepsOf(r)' = {}
  BY <1>1, <1>3, <1>4 DEF PendingStepsOf, StepsOf
<1> QED
  BY <1>1, <1>5

\* The outcome of a decision on step s.
Outcome(s, status) ==
  \/ status = "rejected"
  \/ /\ step[s].role = "direct_manager"
     /\ status = "pending_procurement_approval"
  \/ /\ step[s].role = "procurement_manager"
     /\ status = IF request[step[s].request].type = "loan"
                   THEN "fulfilled" ELSE "procurement_approved"

Decides(s, r) ==
  /\ step[s].status = "pending" /\ step[s].request = r
  /\ \E status \in RequestStatus :
       /\ Outcome(s, status)
       /\ request' = [request EXCEPT ![r].status = status]

Cancels(r) ==
  /\ request[r].status \in CANCELLABLE_REQUEST_STATUSES
  /\ request' = [request EXCEPT ![r].status = "cancelled"]

Submits(r, u, type, model) ==
  /\ r \in FreeRequests
  /\ request' = [request EXCEPT ![r] =
       [status |-> "pending_manager_approval", type |-> type,
        requester |-> u, model |-> model]]

\* What becomes of the requests when a handler alone takes a step: one is
\* submitted, decided upon by its pending step, or cancelled while it may be.
LEMMA StatusAlone ==
  ASSUME RequestsInv, CallsFresh, NEW c \in Calls, AloneStep(c)
  PROVE  \/ UNCHANGED request
         \/ \E r \in Requests, u \in Employees, type \in RequestType,
               model \in Models \cup {None} : Submits(r, u, type, model)
         \/ \E r \in Requests, s \in Steps : Decides(s, r)
         \/ \E r \in Requests : Cancels(r)
<1> DEFINE r == call[c].request
           s == call[c].step
<1>1. CASE ~Writes(c)
  BY <1>1, OnlyWritesWrite DEF AloneStep
<1>2. ASSUME NEW u \in Employees, NEW q \in Requests, NEW n \in Steps,
             NEW type \in RequestType, NEW model \in Models \cup {None},
             NEW manager \in Managers,
             Create(c, u, q, n, type, model, manager)
      PROVE  Submits(q, u, type, model)
  BY <1>2 DEF Create, Submits
<1>3. ASSUME Deciding(c), call[c].pc \in {"locked", "ready"},
             NEW status \in RequestStatus, Outcome(s, status),
             request' = [request EXCEPT ![r].status = status]
      PROVE  \E q \in Requests, t \in Steps : Decides(t, q)
  <2>1. /\ s \in Steps /\ step[s].status = "pending" /\ step[s].request = r
        /\ r \in Requests
    BY <1>3, DecidedAlone DEF CallsFresh
  <2> QED
    BY <1>3, <2>1 DEF Decides
<1>4. CASE CommitRejection(c)
  <2>1. Deciding(c) /\ call[c].pc = "ready"
    BY <1>4 DEF CommitRejection, At, Deciding
  <2>2. "rejected" \in RequestStatus /\ Outcome(s, "rejected")
    BY DEF RequestStatus, Outcome
  <2>3. request' = [request EXCEPT ![r].status = "rejected"]
    BY <1>4 DEF CommitRejection
  <2> QED
    BY <1>3, <2>1, <2>2, <2>3
<1>5. CASE \E n \in Steps, p \in ProcurementManagers : CommitManagerApproval(c, n, p)
  <2>1. /\ Deciding(c) /\ call[c].pc = "locked" /\ step[s].role = "direct_manager"
        /\ request' = [request EXCEPT ![r].status = "pending_procurement_approval"]
    BY <1>5 DEF CommitManagerApproval, At, Deciding
  <2>2. /\ "pending_procurement_approval" \in RequestStatus
        /\ Outcome(s, "pending_procurement_approval")
    BY <2>1 DEF RequestStatus, Outcome
  <2> QED
    BY <1>3, <2>1, <2>2
<1>6. CASE CommitProcurementApproval(c)
  <2>1. /\ Deciding(c) /\ call[c].pc = "locked" /\ step[s].role = "procurement_manager"
        /\ request[r].type = "procurement"
        /\ request' = [request EXCEPT ![r].status = "procurement_approved"]
    BY <1>6 DEF CommitProcurementApproval, At, Deciding
  <2>2. step[s].request = r
    BY <2>1, DecidedAlone DEF CallsFresh
  <2>3. /\ "procurement_approved" \in RequestStatus
        /\ Outcome(s, "procurement_approved")
    BY <2>1, <2>2 DEF RequestStatus, Outcome
  <2> QED
    BY <1>3, <2>1, <2>3
<1>7. CASE \E g \in Assignments : CommitLoanApproval(c, g)
  <2>1. /\ At(c, "approve", "ready") /\ Deciding(c) /\ call[c].pc = "ready"
        /\ request' = [request EXCEPT ![r].status = "fulfilled"]
    BY <1>7 DEF CommitLoanApproval, At, Deciding
  <2>2. step[s].request = r
    BY <2>1, DecidedAlone DEF CallsFresh
  <2>3. step[s].role = "procurement_manager" /\ request[r].type = "loan"
    BY <2>1 DEF RequestsInv, CallsReady, CallReady, LoanReady
  <2>4. "fulfilled" \in RequestStatus /\ Outcome(s, "fulfilled")
    BY <2>2, <2>3 DEF RequestStatus, Outcome
  <2> QED
    BY <1>3, <2>1, <2>4
<1>8. CASE CommitCancel(c)
  BY <1>8, CancelAlone DEF CallsFresh, Cancels
<1> QED
  BY <1>1, <1>2, <1>4, <1>5, <1>6, <1>7, <1>8 DEF Writes

\* A request that is decided upon, or cancelled, is not settled.
LEMMA SettledAlone ==
  ASSUME RequestsInv, WorkflowSerial, NEW c \in Calls, AloneStep(c),
         NEW q \in Requests
  PROVE  SettledStep(q)
<1> USE DEF RequestsInv, Refs, RequestsTypeOK, TablesTypeOK, SettledStep
<1>1. ASSUME NEW r \in Requests, NEW u \in Employees, NEW type \in RequestType,
             NEW model \in Models \cup {None}, Submits(r, u, type, model)
      PROVE  SettledStep(q)
  BY <1>1 DEF Submits, FreeRequests, NoRequest
<1>2. ASSUME NEW r \in Requests, NEW s \in Steps, Decides(s, r)
      PROVE  SettledStep(q)
  <2>1. r # q => request'[q].status = request[q].status
    BY <1>2 DEF Decides
  <2>2. s \in PendingStepsOf(r)
    BY <1>2 DEF Decides, PendingStepsOf, StepsOf
  <2> QED
    BY <2>1, <2>2 DEF WorkflowSerial, SettledHasNoPendingStep
<1>3. ASSUME NEW r \in Requests, Cancels(r)
      PROVE  SettledStep(q)
  BY <1>3 DEF Cancels, CANCELLABLE_REQUEST_STATUSES
<1> QED
  BY <1>1, <1>2, <1>3, StatusAlone DEF WorkflowSerial

\* The steps, and what is still pending, when a handler alone takes a step.
LEMMA StepsAlone ==
  ASSUME RequestsInv, RowsKeep, WorkflowSerial, NEW c \in Calls, AloneStep(c)
  PROVE  OneStepPerRole' /\ SettledHasNoPendingStep'
<1> DEFINE r == call[c].request
           s == call[c].step
<1> USE DEF RequestsInv, Refs, RequestsTypeOK, TablesTypeOK
<1>0. OneStepPerRole /\ SettledHasNoPendingStep /\ CallsFresh
  BY DEF WorkflowSerial
<1>1. CASE ~Writes(c)
  <2>1. UNCHANGED <<request, step>>
    BY <1>1, OnlyWritesWrite DEF AloneStep
  <2> QED
    BY <1>0, <2>1, NoNewSteps
<1>2. ASSUME NEW u \in Employees, NEW q \in Requests, NEW n \in Steps,
             NEW type \in RequestType, NEW model \in Models \cup {None},
             NEW manager \in Managers,
             Create(c, u, q, n, type, model, manager)
      PROVE  OneStepPerRole' /\ SettledHasNoPendingStep'
  <2>1. /\ request[q].status = "absent" /\ step[n].status = "absent"
        /\ request'[q].status = "pending_manager_approval"
        /\ \A p \in Requests \ {q} : request'[p].status = request[p].status
        /\ step'[n].request = q
        /\ \A t \in Steps \ {n} : step'[t] = step[t]
    BY <1>2 DEF Create, FreeRequests, FreeSteps, NoRequest, NoStep
  <2>2. StepsOf(q) = {}
    BY <2>1 DEF StepsBelong, StepsOf
  <2> QED
    BY <1>0, <2>1, <2>2, NewStep
<1>3. CASE CommitRejection(c)
  <2>1. /\ At(c, "reject", "ready") /\ Deciding(c) /\ call[c].pc = "ready"
    BY <1>3 DEF CommitRejection, At, Deciding
  <2>2. call[c].siblings = PendingStepsOf(r) \ {s}
    BY <1>0, <2>1 DEF CallsFresh, DecisionFresh
  <2>3. \A t \in Steps : step'[t] =
          IF t \in PendingStepsOf(r) \ {s} THEN [step[t] EXCEPT !.status = "skipped"]
                                           ELSE Decided(c)[t]
    BY <1>3, <2>2 DEF CommitRejection
  <2>4. /\ s \in Steps /\ r \in Requests
        /\ Decided(c)[s].status # "pending"
        /\ \A t \in Steps : /\ t # s => Decided(c)[t] = step[t]
                            /\ Decided(c)[t].request = step[t].request
                            /\ Decided(c)[t].role = step[t].role
                            /\ Decided(c)[t].status = "absent"
                                 <=> step[t].status = "absent"
    BY <1>0, <2>1, DecidedAlone DEF CallsFresh
  <2>5. PICK k \in Requests : k = r
    BY <2>4
  <2>6. ASSUME NEW t \in Steps
        PROVE  /\ step'[t].status # "absent" => step[t].status # "absent"
               /\ step'[t].request = step[t].request /\ step'[t].role = step[t].role
               /\ step'[t].status = "pending" =>
                    step[t].status = "pending" /\ t \notin PendingStepsOf(r)
    <3>1. CASE t \in PendingStepsOf(r) \ {s}
      <4>1. step'[t] = [step[t] EXCEPT !.status = "skipped"] /\ step[t] \in ApprovalStep
        BY <2>3, <3>1
      <4>2. /\ step'[t].status = "skipped"
            /\ step'[t].request = step[t].request /\ step'[t].role = step[t].role
        BY <4>1, Zenon DEF ApprovalStep
      <4>3. step[t].status # "absent"
        BY <3>1 DEF PendingStepsOf, StepsOf
      <4> QED
        BY <4>2, <4>3
    <3>2. CASE t \notin PendingStepsOf(r) \ {s}
      <4>1. step'[t] = Decided(c)[t]
        BY <2>3, <3>2
      <4> QED
        BY <2>4, <3>2, <4>1
    <3> QED
      BY <3>1, <3>2
  <2>7. PendingStepsOf(k)' = {}
    BY <2>5, <2>6 DEF PendingStepsOf, StepsOf
  <2>8. \A q \in Requests \ {k} : request'[q].status = request[q].status
    BY <1>3, <2>5 DEF CommitRejection
  <2> QED
    BY <1>0, <2>6, <2>7, <2>8, NoNewSteps
<1>4. ASSUME NEW n \in Steps, NEW p \in ProcurementManagers,
             CommitManagerApproval(c, n, p)
      PROVE  OneStepPerRole' /\ SettledHasNoPendingStep'
  <2>1. /\ Deciding(c) /\ call[c].pc = "locked" /\ step[s].role = "direct_manager"
        /\ step[n].status = "absent"
    BY <1>4 DEF CommitManagerApproval, At, Deciding, FreeSteps, NoStep
  <2>2. /\ s \in Steps /\ r \in Requests /\ step[s].status = "pending"
        /\ step[s].request = r /\ Decided(c)[s].status # "pending"
        /\ \A t \in Steps : /\ t # s => Decided(c)[t] = step[t]
                            /\ Decided(c)[t].request = step[t].request
                            /\ Decided(c)[t].role = step[t].role
                            /\ Decided(c)[t].status = "absent"
                                 <=> step[t].status = "absent"
    BY <1>0, <2>1, DecidedAlone DEF CallsFresh
  <2>3. /\ step'[n].request = r /\ step'[n].role = "procurement_manager"
        /\ \A t \in Steps \ {n} : step'[t] = Decided(c)[t]
    BY <1>4, <2>1, <2>2, DecidedOK
       DEF CommitManagerApproval, At, RequestsInv, Refs, CallsRefer
  <2>4. /\ request'[r].status = "pending_procurement_approval"
        /\ \A q \in Requests \ {r} : request'[q].status = request[q].status
    BY <1>4, <2>2 DEF CommitManagerApproval, EquipmentRequest
  <2>5. \A t \in StepsOf(step[s].request) : t = s
    BY <1>0, <2>1, <2>2, OnlyItsStage
  <2>6. \A t \in StepsOf(r) : step[t].role # step'[n].role
    BY <2>1, <2>2, <2>3, <2>5
  <2>7. PICK k \in Requests : k = r
    BY <2>2
  <2>8. \A t \in Steps \ {n} :
          /\ step'[t].status = "absent" <=> step[t].status = "absent"
          /\ step'[t].request = step[t].request /\ step'[t].role = step[t].role
          /\ step'[t].status = "pending" => step[t].status = "pending"
    BY <2>2, <2>3
  <2>9. \A t \in StepsOf(k) : step[t].role # step'[n].role
    BY <2>6, <2>7
  <2> QED
    BY <1>0, <2>1, <2>3, <2>4, <2>7, <2>8, <2>9, NewStep
<1>5. CASE CommitProcurementApproval(c) \/ \E g \in Assignments : CommitLoanApproval(c, g)
  <2>1. /\ Deciding(c) /\ call[c].pc \in {"locked", "ready"} /\ step' = Decided(c)
        /\ \A q \in Requests \ {r} : request'[q] = request[q]
    BY <1>5 DEF CommitProcurementApproval, CommitLoanApproval, At, Deciding
  <2>2. \A t \in Steps : /\ Decided(c)[t].request = step[t].request
                         /\ Decided(c)[t].role = step[t].role
                         /\ Decided(c)[t].status = "absent"
                              <=> step[t].status = "absent"
    BY <1>0, <2>1, DecidedAlone DEF CallsFresh
  <2>3. PICK k : k = r
    OBVIOUS
  <2>4. /\ PendingStepsOf(k)' = {}
        /\ \A t \in Steps : step'[t].status = "pending" => step[t].status = "pending"
    BY <1>0, <2>1, <2>3, NothingPending DEF CallsFresh
  <2> QED
    BY <1>0, <2>1, <2>2, <2>3, <2>4, NoNewSteps
<1>6. CASE CommitCancel(c)
  <2>1. /\ r \in Requests /\ UNCHANGED step
        /\ request' = [request EXCEPT ![r].status = "cancelled"]
    BY <1>0, <1>6, CancelAlone DEF CallsFresh
  <2>2. \A q \in Requests : request'[q].status \in {request[q].status, "cancelled"}
    BY <2>1 DEF EquipmentRequest
  <2> QED
    BY <1>0, <2>1, <2>2, NoNewSteps
<1> QED
  BY <1>1, <1>2, <1>3, <1>4, <1>5, <1>6 DEF Writes

LEMMA WorkflowAlone ==
  ASSUME RequestsInv, RequestsInv', RowsKeep, WorkflowSerial,
         NEW c \in Calls, AloneStep(c)
  PROVE  WorkflowSerial'
  BY AloneFresh, StepsAlone DEF WorkflowSerial

\* Only a loan's approval touches assets and assignments.
LEMMA StockAlone ==
  ASSUME RequestsInv, CallsFresh, NEW c \in Calls, AloneStep(c)
  PROVE  \/ UNCHANGED <<asset, assignment>>
         \/ \E g \in Assignments : CommitLoanApproval(c, g)
<1>1. CASE ~Writes(c)
  BY <1>1, OnlyWritesWrite DEF AloneStep
<1>2. CASE CommitCancel(c)
  BY <1>2, CancelAlone DEF CallsFresh
<1> QED
  BY <1>1, <1>2 DEF Writes, Create, CommitRejection, CommitManagerApproval,
     CommitProcurementApproval

\* The asset it gives out is still available when it commits.
LEMMA LoanAlone ==
  ASSUME RequestsInv, CallsFresh, NEW c \in Calls, NEW g \in Assignments,
         CommitLoanApproval(c, g)
  PROVE  LET a == call[c].asset
             u == request[call[c].request].requester
         IN /\ a \in Assets /\ asset[a].status = "available"
            /\ asset'[a].status = "in_use" /\ asset'[a].assignedEmployee = u
            /\ \A b \in Assets : b # a => asset'[b] = asset[b]
            /\ assignment[g].status = "absent"
            /\ assignment'[g].status = "active" /\ assignment'[g].asset = a
            /\ assignment'[g].employee = u
            /\ \A h \in Assignments : h # g => assignment'[h] = assignment[h]
<1> DEFINE a == call[c].asset
           r == call[c].request
<1> USE DEF RequestsInv, Refs, RequestsTypeOK, TablesTypeOK
<1>1. At(c, "approve", "ready") /\ Deciding(c)
  BY DEF CommitLoanApproval, Deciding, At
<1>2. a \in Assets /\ asset[a].status = "available"
  BY <1>1 DEF CallsReady, CallReady, LoanReady, CallsFresh, DecisionFresh
<1>3. /\ asset'[a].status = "in_use"
      /\ asset'[a].assignedEmployee = request[r].requester
      /\ \A b \in Assets : b # a => asset'[b] = asset[b]
  <2>1. asset' = [asset EXCEPT ![a].status = "in_use",
                    ![a].assignedEmployee = request[r].requester,
                    ![a].retiredAt = call[c].retired]
    BY DEF CommitLoanApproval
  <2>2. asset[a] \in EquipmentAsset
    BY <1>2
  <2> QED
    BY <1>2, <2>1, <2>2 DEF EquipmentAsset
<1>4. /\ assignment' = [assignment EXCEPT ![g] =
           [status |-> "active", asset |-> a, employee |-> request[r].requester,
            request |-> r]]
      /\ assignment[g].status = "absent"
  BY DEF CommitLoanApproval, FreeAssignments, NoAssignment
<1> QED
  BY <1>2, <1>3, <1>4

-----------------------------------------------------------------------------
(* The workflow on its own.                                                *)

ActiveOn(a) ==
  {g \in Assignments : assignment[g].status = "active" /\ assignment[g].asset = a}

AgreesOn(a) ==
  /\ (asset[a].status = "in_use") = (ActiveOn(a) # {})
  /\ \A g \in ActiveOn(a) :
       /\ ActiveOn(a) = {g}
       /\ asset[a].assignedEmployee = assignment[g].employee

LEMMA LedgerOfAssets == LedgerAgrees <=> \A a \in Assets : AgreesOn(a)
  BY DEF LedgerAgrees, AgreesOn, ActiveOn

LEMMA LedgerAlone ==
  ASSUME RequestsInv, CallsFresh, LoansOnly, LedgerAgrees,
         NEW c \in Calls, AloneStep(c)
  PROVE  LoansOnly' /\ LedgerAgrees'
<1>1. CASE UNCHANGED <<asset, assignment>>
  BY <1>1 DEF LoansOnly, LedgerAgrees
<1>2. ASSUME NEW g \in Assignments, CommitLoanApproval(c, g)
      PROVE  LoansOnly' /\ LedgerAgrees'
  <2>1. PICK a, u :
            /\ a \in Assets /\ asset[a].status = "available"
            /\ asset'[a].status = "in_use" /\ asset'[a].assignedEmployee = u
            /\ \A b \in Assets : b # a => asset'[b] = asset[b]
            /\ assignment[g].status = "absent"
            /\ assignment'[g].status = "active" /\ assignment'[g].asset = a
            /\ assignment'[g].employee = u
            /\ \A h \in Assignments : h # g => assignment'[h] = assignment[h]
    BY <1>2, LoanAlone
  <2>2. LoansOnly'
    BY <2>1 DEF LoansOnly
  <2>3. ASSUME NEW b \in Assets PROVE AgreesOn(b)'
    <3>1. AgreesOn(b)
      BY LedgerOfAssets
    <3>2. CASE b = a
      <4>1. ActiveOn(b) = {}
        BY <2>1, <3>1, <3>2 DEF AgreesOn
      <4>2. ActiveOn(b)' = {g}
        BY <2>1, <3>2, <4>1 DEF ActiveOn
      <4> QED
        BY <2>1, <3>2, <4>2 DEF AgreesOn
    <3>3. CASE b # a
      <4>1. ActiveOn(b)' = ActiveOn(b)
        BY <2>1, <3>3 DEF ActiveOn
      <4>2. \A h \in ActiveOn(b) : assignment'[h] = assignment[h]
        BY <2>1 DEF ActiveOn
      <4> QED
        BY <2>1, <3>1, <3>3, <4>1, <4>2 DEF AgreesOn
    <3> QED
      BY <3>2, <3>3
  <2>4. LedgerAgrees'
    BY <2>3 DEF LedgerAgrees, AgreesOn, ActiveOn
  <2> QED
    BY <2>2, <2>4
<1> QED
  BY <1>1, <1>2, StockAlone

LEMMA SerialInitInv == SerialInit => SerialRequestsInv
<1> SUFFICES ASSUME SerialInit PROVE SerialRequestsInv
  OBVIOUS
<1>1. /\ request = [r \in Requests |-> NoRequest]
      /\ step = [s \in Steps |-> NoStep]
      /\ asset \in [Assets -> {NoAsset}
                      \cup {[status |-> "available", model |-> m,
                             assignedEmployee |-> None, retiredAt |-> None] :
                              m \in Models}]
      /\ assignment = [g \in Assignments |-> NoAssignment]
      /\ call = [c \in Calls |-> NoCall]
  BY DEF SerialInit, RequestsInit, TablesInit, StockInit
<1>2. RequestsInv
  BY InvInit DEF SerialInit
<1>3. WorkflowSerial
  BY <1>1 DEF WorkflowSerial, OneCall, CallsFresh, DecisionFresh, CancelFresh,
     Deciding, At, NoCall, SettledHasNoPendingStep, OneStepPerRole, NoRequest, NoStep
<1>4. LoansOnly
  <2>1. \A a \in Assets : asset[a].status \in {"absent", "available"}
    BY <1>1 DEF NoAsset
  <2> QED
    BY <1>1, <2>1 DEF LoansOnly, NoAssignment
<1>5. LedgerAgrees
  <2>1. \A a \in Assets : asset[a].status # "in_use"
    BY <1>1 DEF NoAsset
  <2>2. \A a \in Assets : ActiveOn(a) = {}
    BY <1>1 DEF ActiveOn, NoAssignment
  <2> QED
    BY <2>1, <2>2, LedgerOfAssets DEF AgreesOn
<1> QED
  BY <1>2, <1>3, <1>4, <1>5 DEF SerialRequestsInv

\* A step of SerialRequests is one of Requests; where handlers do not
\* overlap, it is that of a handler alone.
LEMMA SerialMove ==
  ASSUME SerialNext
  PROVE  /\ RequestsNext /\ UNCHANGED overlap
         /\ ~overlap => \E c \in Calls : AloneStep(c)
  BY DEF SerialNext, RequestsNext, ArriveAlone, AloneStep

LEMMA SerialStepInv ==
  SerialRequestsInv /\ [SerialNext]_serialVars => SerialRequestsInv'
<1> SUFFICES ASSUME SerialRequestsInv, [SerialNext]_serialVars
             PROVE  SerialRequestsInv'
  OBVIOUS
<1>1. CASE UNCHANGED serialVars
  <2>1. RequestsInv'
    BY <1>1, InvStep DEF SerialRequestsInv, serialVars
  <2>2. UNCHANGED <<request, step, asset, assignment, call, overlap>>
    BY <1>1 DEF serialVars, requestVars, tables
  <2>3. WorkflowSerial => WorkflowSerial'
    BY <2>2 DEF WorkflowSerial, OneCall, CallsFresh, DecisionFresh, CancelFresh,
       Deciding, At, SettledHasNoPendingStep, OneStepPerRole, PendingStepsOf,
       StepsOf, AssignmentsOf
  <2>4. LoansOnly /\ LedgerAgrees => LoansOnly' /\ LedgerAgrees'
    BY <2>2 DEF LoansOnly, LedgerAgrees
  <2> QED
    BY <2>1, <2>2, <2>3, <2>4 DEF SerialRequestsInv
<1>2. CASE SerialNext
  <2>1. RequestsNext /\ UNCHANGED overlap
    BY <1>2, SerialMove
  <2>2. RequestsInv' /\ RowsKeep
    BY <2>1, InvStep, TablesStep DEF SerialRequestsInv, RequestsInv
  <2>3. ASSUME ~overlap
        PROVE  WorkflowSerial' /\ LoansOnly' /\ LedgerAgrees'
    <3>1. PICK c \in Calls : AloneStep(c)
      BY <1>2, <2>3, SerialMove
    <3>2. RequestsInv /\ WorkflowSerial /\ LoansOnly /\ LedgerAgrees
      BY <2>3 DEF SerialRequestsInv
    <3> QED
      BY <2>2, <3>1, <3>2, WorkflowAlone, LedgerAlone DEF WorkflowSerial
  <2> QED
    BY <2>1, <2>2, <2>3 DEF SerialRequestsInv
<1> QED
  BY <1>1, <1>2

\* The invariant of handlers that may overlap, and beyond it that of handlers
\* that do not.
THEOREM SerialInvariance == SerialSpec => []SerialRequestsInv
<1> QED
  BY SerialInitInv, SerialStepInv, PTL DEF SerialSpec

\* With handlers that run one at a time, cut off wherever they may be, nobody
\* is left with a step to decide on a request that is fulfilled, rejected or
\* bought for: a rejection skips all other pending steps, and an approval is
\* the only one pending.
THEOREM NoPendingStepWhenSettled == SerialSpec => []SerialHasNoPendingStep
<1>1. SerialRequestsInv => SerialHasNoPendingStep
  BY DEF SerialRequestsInv, WorkflowSerial, SerialHasNoPendingStep
<1> QED
  BY <1>1, SerialInvariance, PTL

\* With handlers that run one at a time, a request is never routed twice to a
\* stage, not even a cancelled one that is decided upon after all.
THEOREM RoutedOncePerStage == SerialSpec => []SerialOneStepPerRole
<1>1. SerialRequestsInv => SerialOneStepPerRole
  BY DEF SerialRequestsInv, WorkflowSerial, SerialOneStepPerRole
<1> QED
  BY <1>1, SerialInvariance, PTL

\* With handlers that run one at a time, loan approvals keep the ledger of
\* assets: each asset in use has one active assignment, its holder's.
THEOREM LoansKeepLedger == SerialSpec => []SerialLedgerAgrees
<1>1. SerialRequestsInv => SerialLedgerAgrees
  BY DEF SerialRequestsInv, SerialLedgerAgrees
<1> QED
  BY <1>1, SerialInvariance, PTL

\* With handlers that run one at a time, no decision or cancellation takes a
\* fulfilled, rejected or procurement-approved request out of its status.
THEOREM SettledForGood == SerialSpec => SerialStaysSettled
<1>1. SerialRequestsInv /\ [SerialNext]_serialVars
        => [~overlap => \A r \in Requests : SettledStep(r)]_requestVars
  <2> SUFFICES ASSUME SerialRequestsInv, SerialNext, ~overlap, NEW r \in Requests
               PROVE  SettledStep(r)
    BY DEF serialVars
  <2>1. PICK c \in Calls : AloneStep(c)
    BY SerialMove
  <2> QED
    BY <2>1, SettledAlone DEF SerialRequestsInv
<1> QED
  BY <1>1, SerialInvariance, PTL DEF SerialSpec, SerialStaysSettled

-----------------------------------------------------------------------------
(* The system: one handler in flight, of either kind.                      *)

AloneJob(j) == (AtRest /\ StartJob(j)) \/ ContinueJob(j) \/ CutOff(j)

LEMMA JobIsBusy ==
  ASSUME SystemInv, NEW j \in Jobs, ContinueJob(j) \/ CutOff(j)
  PROVE  job[j].pc # "idle"
<1>1. LocalsOK(job[j])
  BY RowsTyped DEF SystemInv
<1> QED
  BY <1>1 DEF LocalsOK, Fits, ContinueJob, CutOff, CompareAsset, WriteAsset, InsertMissing,
     FindRequest, InsertAssignment, FulfilRequest, CountHistory, Delete,
     CompareAssignment, WriteAssignment, NotifyHolder, Returning

\* While a handler of the workflow moves, the inventory rests.
LEMMA WorkflowTurn ==
  ASSUME ~Overlap, SystemInv, OneHandler, WorkflowStep
  PROVE  \E c \in Calls : AloneStep(c) /\ AtRest
<1>1. PICK c \in Calls : \/ Quiet /\ Arrive(c)
                         \/ Proceed(c)
                         \/ Interrupt(c)
  BY DEF WorkflowStep
<1>2. AloneStep(c)
  BY <1>1 DEF AloneStep, Quiet, NoCallInFlight
<1>3. AtRest
  BY <1>1, MoverIsBusy DEF Quiet, OneHandler, AtRest, NoCallInFlight
<1> QED
  BY <1>2, <1>3

\* While a handler of the inventory moves, every other handler rests.
LEMMA InventoryTurn ==
  ASSUME ~Overlap, SystemInv, OneHandler, InventoryStep
  PROVE  \E j \in Jobs :
           /\ AloneJob(j) /\ NoCallInFlight
           /\ \A i \in Jobs \ {j} : job[i].pc = "idle" /\ job'[i] = job[i]
           /\ \/ /\ (AtRest /\ StartJob(j)) \/ ContinueJob(j)
                 /\ apart' = apart \cup Belied(j)
              \/ CutOff(j) /\ apart' = apart \cup HalfSaved(j)
<1>1. PICK j \in Jobs : \/ Quiet /\ StartJob(j) /\ apart' = apart \cup Belied(j)
                        \/ ContinueJob(j) /\ apart' = apart \cup Belied(j)
                        \/ CutOff(j) /\ apart' = apart \cup HalfSaved(j)
  BY DEF InventoryStep
<1>2. AloneJob(j)
  BY <1>1 DEF AloneJob, Quiet
<1>3. NoCallInFlight
  BY <1>1, JobIsBusy DEF Quiet, NoCallInFlight, OneHandler
<1>4. \A i \in Jobs \ {j} : job[i].pc = "idle"
  BY <1>1, JobIsBusy DEF Quiet, AtRest, OneHandler
<1>5. \A i \in Jobs \ {j} : job'[i] = job[i]
  BY <1>1, SystemEffect DEF Effect
<1> QED
  BY <1>1, <1>2, <1>3, <1>4, <1>5 DEF Quiet

-----------------------------------------------------------------------------
(* What a handler of the inventory reads stays so while it is alone.       *)

LEMMA LocalFresh ==
  ASSUME SystemInv, NEW j \in Jobs, NEW l, job' = [job EXCEPT ![j] = l],
         UNCHANGED tables, JobFresh(l)
  PROVE  JobFresh(job[j])'
<1>1. job'[j] = l
  BY OneJobMoves DEF SystemInv, InventoryInv
<1>2. AssignmentsOf(l.request)' = AssignmentsOf(l.request)
  BY DEF AssignmentsOf, tables
<1> QED
  BY <1>1, <1>2 DEF JobFresh, SavesEntity, SaveFresh, AssignFresh, ReturnFresh, tables

LEMMA FinishFresh ==
  ASSUME SystemInv, NEW j \in Jobs, Finish(j)
  PROVE  JobFresh(job[j])'
<1>1. job'[j] = NoJob
  BY OneJobMoves DEF Finish, SystemInv, InventoryInv
<1> QED
  BY <1>1 DEF NoJob, JobFresh, SavesEntity, SaveFresh, AssignFresh, ReturnFresh, Returns

LEMMA IdleJobFresh ==
  ASSUME SystemInv, NEW j \in Jobs, job[j].pc = "idle"
  PROVE  JobFresh(job[j])
<1>1. job[j].op = "none"
  BY RowsTyped DEF SystemInv, LocalsOK, Fits
<1> QED
  BY <1>1 DEF JobFresh, SavesEntity, SaveFresh, AssignFresh, ReturnFresh, Returns

LEMMA LoadedFresh ==
  ASSUME SystemInv, NEW j \in Jobs, NEW a \in Assets, NEW entity, NEW columns,
         Load(j, "save", a, entity, columns), "status" \in columns,
         entity.status \in {asset[a].status, "retired"} \cup Manual,
         entity.assignedEmployee = asset[a].assignedEmployee
  PROVE  JobFresh(job[j])'
<1> DEFINE l == [NoJob EXCEPT !.op = "save", !.pc = "loaded", !.asset = a,
                              !.entity = entity, !.columns = columns,
                              !.history = HistoryOf(a)]
<1>1. /\ job' = [job EXCEPT ![j] = l] /\ UNCHANGED tables
      /\ asset[a].status # "absent"
  BY DEF Load
<1>2. l.op = "save" /\ l.pc = "loaded" /\ l.asset = a /\ l.entity = entity /\ l.columns = columns
  BY DEF NoJob
<1> HIDE DEF l
<1>3. JobFresh(l)
  BY <1>1, <1>2 DEF JobFresh, SavesEntity, SaveFresh, AssignFresh, ReturnFresh, Returns
<1> QED
  BY <1>1, <1>3, LocalFresh

LEMMA AssignedFresh ==
  ASSUME SystemInv, NEW j \in Jobs, NEW a \in Assets, NEW u \in Employees,
         NEW r \in Requests \cup {None}, Assign(j, a, u, r)
  PROVE  JobFresh(job[j])'
<1> DEFINE entity == [asset[a] EXCEPT !.status = "in_use", !.assignedEmployee = u]
           l == [NoJob EXCEPT !.op = "assign", !.pc = "loaded", !.asset = a,
                   !.entity = entity, !.columns = AssetColumns,
                   !.history = HistoryOf(a), !.employee = u, !.request = r]
<1>1. entity.status = "in_use" /\ entity.assignedEmployee = u
  BY RowsTyped DEF SystemInv, EquipmentAsset
<1>2. /\ job' = [job EXCEPT ![j] = l] /\ UNCHANGED tables
      /\ asset[a].status = "available"
  BY DEF Assign
<1> HIDE DEF entity
<1>3. /\ l.op = "assign" /\ l.pc = "loaded" /\ l.asset = a /\ l.entity = entity
      /\ l.columns = AssetColumns /\ l.employee = u
  BY DEF NoJob
<1> HIDE DEF l
<1>4. JobFresh(l)
  BY <1>1, <1>2, <1>3 DEF JobFresh, SavesEntity, SaveFresh, AssignFresh, ReturnFresh,
     Returns, AssetColumns
<1> QED
  BY <1>2, <1>4, LocalFresh

LEMMA ReturnLoadedFresh ==
  ASSUME SystemInv, NEW j \in Jobs, NEW g \in Assignments,
         RequestReturn(j, g) \/ CompleteReturn(j, g)
  PROVE  JobFresh(job[j])'
<1>1. PICK op \in Returns, status \in {"return_requested", "available"} :
        /\ LoadAssignment(j, op, g, status)
        /\ assignment[g].status = IF op = "request_return" THEN "active"
                                                           ELSE "return_requested"
        /\ status = IF op = "request_return" THEN "return_requested" ELSE "available"
  BY DEF RequestReturn, CompleteReturn, Returns
<1> DEFINE a == assignment[g].asset
           entity == [asset[a] EXCEPT !.status = status]
           l == [NoJob EXCEPT !.op = op, !.pc = "loaded", !.asset = a,
                   !.entity = entity, !.columns = AssetColumns \ {"assignedEmployee"},
                   !.history = Assignments,
                   !.assignment = g, !.links = assignment[g].request]
<1>2. a \in Assets /\ asset[a].status # "absent"
  BY <1>1 DEF SystemInv, InventoryInv, HistoryKeepsAsset
<1>3. entity.status = status /\ entity.assignedEmployee = asset[a].assignedEmployee
  BY <1>2, RowsTyped DEF SystemInv, EquipmentAsset
<1>4. job' = [job EXCEPT ![j] = l] /\ UNCHANGED tables
  BY <1>1 DEF LoadAssignment
<1> HIDE DEF entity
<1>5. /\ l.op = op /\ l.pc = "loaded" /\ l.asset = a /\ l.entity = entity
      /\ l.assignment = g /\ l.links = assignment[g].request
      /\ "status" \in l.columns
  BY DEF NoJob, AssetColumns
<1> HIDE DEF l
<1>6. JobFresh(l)
  BY <1>1, <1>2, <1>3, <1>5 DEF JobFresh, SavesEntity, SaveFresh, AssignFresh,
     ReturnFresh, Returns
<1> QED
  BY <1>4, <1>6, LocalFresh

LEMMA RemovableFresh ==
  ASSUME SystemInv, NEW j \in Jobs, NEW a \in Assets, FindRemovable(j, a)
  PROVE  JobFresh(job[j])'
<1> DEFINE pc == IF asset[a].status = "retired" THEN "deletable" ELSE "counting"
           l == [NoJob EXCEPT !.op = "remove", !.asset = a, !.entity = asset[a], !.pc = pc]
<1>1. job' = [job EXCEPT ![j] = l] /\ UNCHANGED tables
  BY DEF FindRemovable
<1>2. l.op = "remove" /\ l.pc \in {"deletable", "counting"}
  BY DEF NoJob
<1> HIDE DEF l
<1>3. JobFresh(l)
  BY <1>2 DEF JobFresh, SavesEntity, SaveFresh, AssignFresh, ReturnFresh, Returns
<1> QED
  BY <1>1, <1>3, LocalFresh

LEMMA StartJobFresh ==
  ASSUME SystemInv, NEW j \in Jobs, AtRest, StartJob(j)
  PROVE  JobFresh(job[j])'
<1>1. ASSUME NEW a \in Assets, NEW model \in Models,
             NEW status \in Manual \cup {"available"}, CreateAsset(j, a, model, status)
      PROVE  JobFresh(job[j])'
  <2>1. job'[j].pc = "idle" /\ job'[j].op = "none"
    BY <1>1, RowsTyped DEF CreateAsset, AtRest, SystemInv, LocalsOK, Fits
  <2> QED
    BY <2>1 DEF JobFresh, SavesEntity, SaveFresh, AssignFresh, ReturnFresh, Returns
<1>2. ASSUME NEW a \in Assets, Update(j, a)
      PROVE  JobFresh(job[j])'
  BY <1>2, LoadedFresh DEF Update, AssetColumns
<1>3. ASSUME NEW a \in Assets, NEW status \in Manual, UpdateStatus(j, a, status)
      PROVE  JobFresh(job[j])'
  <2>1. /\ [asset[a] EXCEPT !.status = status].status = status
        /\ [asset[a] EXCEPT !.status = status].assignedEmployee = asset[a].assignedEmployee
    BY RowsTyped DEF SystemInv, EquipmentAsset
  <2>2. "status" \in AssetColumns
    BY DEF AssetColumns
  <2> QED
    BY <1>3, <2>1, <2>2, LoadedFresh DEF UpdateStatus
<1>4. ASSUME NEW a \in Assets, Retire(j, a)
      PROVE  JobFresh(job[j])'
  <2> DEFINE entity == [asset[a] EXCEPT !.status = "retired", !.retiredAt = "set"]
  <2>1. /\ entity.status = "retired"
        /\ entity.assignedEmployee = asset[a].assignedEmployee
    BY RowsTyped DEF SystemInv, EquipmentAsset
  <2>2. "status" \in AssetColumns \ {"assignedEmployee"}
    BY DEF AssetColumns
  <2>3. Load(j, "save", a, entity, AssetColumns \ {"assignedEmployee"})
    BY <1>4 DEF Retire
  <2> QED
    BY <2>1, <2>2, <2>3, LoadedFresh
<1> QED
  BY <1>1, <1>2, <1>3, <1>4, AssignedFresh, RemovableFresh, ReturnLoadedFresh DEF StartJob

-----------------------------------------------------------------------------
(* What a handler of the inventory writes while it is alone.               *)

LEMMA WriteAlone ==
  ASSUME SystemInv, NEW j \in Jobs, JobFresh(job[j]), WriteAsset(j)
  PROVE  LET a == job[j].asset
             x == job[j].entity
         IN /\ a \in Assets /\ asset[a].status # "absent"
            /\ asset'[a].status = x.status
            /\ asset'[a].assignedEmployee = x.assignedEmployee
            /\ \A b \in Assets : b # a => asset'[b] = asset[b]
            /\ UNCHANGED <<request, step, assignment>>
<1> DEFINE a == job[j].asset
           x == job[j].entity
           c == job[j].columns
           row == [k \in DOMAIN asset[a] |-> IF k \in c THEN x[k] ELSE asset[a][k]]
<1>1. job[j].pc = "compared" /\ job[j] \in Job /\ LocalsOK(job[j])
  BY RowsTyped DEF SystemInv, WriteAsset
<1>2. a \in Assets /\ asset[a] \in EquipmentAsset /\ asset[a].status # "absent"
  BY <1>1, RowsTyped DEF SystemInv, LocalsOK, Fits, JobFresh
<1>3. /\ "status" \in c \/ x.status = asset[a].status
      /\ "assignedEmployee" \in c \/ x.assignedEmployee = asset[a].assignedEmployee
  BY <1>1 DEF JobFresh, SavesEntity
<1>4. row.status = x.status /\ row.assignedEmployee = x.assignedEmployee
  BY <1>2, <1>3 DEF EquipmentAsset
<1>5. /\ asset' = [asset EXCEPT ![a] = row]
      /\ UNCHANGED <<request, step, assignment>>
  BY <1>2 DEF WriteAsset
<1> HIDE DEF row
<1> QED
  BY <1>2, <1>4, <1>5, RowsTyped DEF SystemInv

LEMMA InsertAlone ==
  ASSUME SystemInv, NEW j \in Jobs, JobFresh(job[j]),
         NEW g \in Assignments, InsertAssignment(j, g)
  PROVE  /\ job[j].op = "assign" /\ job[j].pc = "found"
         /\ job[j].asset \in Assets /\ asset[job[j].asset].status # "absent"
         /\ assignment[g].status = "absent"
         /\ assignment'[g] = [status |-> "active", asset |-> job[j].asset,
                              employee |-> job[j].employee,
                              request |-> job[j].request]
         /\ \A h \in Assignments : h # g => assignment'[h] = assignment[h]
         /\ UNCHANGED <<request, step, asset>>
         /\ IF job[j].fulfils THEN Move(j, "inserted") ELSE Finish(j)
<1>1. job[j].pc = "found" /\ job[j] \in Job /\ LocalsOK(job[j])
  BY RowsTyped DEF SystemInv, InsertAssignment
<1>2. /\ job[j].op = "assign" /\ job[j].asset \in Assets
      /\ asset[job[j].asset].status # "absent"
  BY <1>1 DEF LocalsOK, Fits, JobFresh
<1> QED
  BY <1>1, <1>2, RowsTyped DEF SystemInv, InsertAssignment, FreeAssignments, NoAssignment

LEMMA FulfilAlone ==
  ASSUME SystemInv, NEW j \in Jobs, JobFresh(job[j]), FulfilRequest(j)
  PROVE  LET r == job[j].request IN
         /\ r \in Requests /\ request[r].status = "procurement_approved"
         /\ request' = [request EXCEPT ![r].status = "fulfilled"]
         /\ AssignmentsOf(r) # {}
         /\ UNCHANGED <<step, asset, assignment>>
<1>1. /\ job[j].pc = "inserted" /\ LocalsOK(job[j]) /\ JobReady(job[j])
  BY RowsTyped DEF SystemInv, FulfilRequest, JobsReady
<1>2. job[j].op = "assign" /\ job[j].fulfils /\ job[j].request \in Requests
  BY <1>1 DEF LocalsOK, Fits, JobReady, EntityReady, FulfilReady
<1> QED
  BY <1>1, <1>2 DEF FulfilRequest, JobFresh, AssignFresh

LEMMA ReturnAlone ==
  ASSUME SystemInv, NEW j \in Jobs, JobFresh(job[j]), WriteAssignment(j)
  PROVE  LET g == job[j].assignment IN
         /\ job[j].op \in Returns /\ job[j].pc = "matched"
         /\ g \in Assignments /\ job[j].asset \in Assets
         /\ assignment[g].asset = job[j].asset
         /\ assignment[g].status = IF job[j].op = "request_return"
                                     THEN "active" ELSE "return_requested"
         /\ assignment'[g].status = ReturnStatus(j)
         /\ assignment'[g].asset = assignment[g].asset
         /\ assignment'[g].employee = assignment[g].employee
         /\ assignment'[g].request = assignment[g].request
         /\ \A h \in Assignments : h # g => assignment'[h] = assignment[h]
         /\ UNCHANGED <<request, step, asset>>
<1> DEFINE g == job[j].assignment
           dirty == job[j].dirty
           link == IF "request" \in dirty THEN job[j].links ELSE assignment[g].request
           row == [assignment[g] EXCEPT
                     !.status = IF "status" \in dirty THEN ReturnStatus(j) ELSE @,
                     !.request = IF "request" \in dirty THEN job[j].links ELSE @]
<1>1. job[j].pc = "matched" /\ job[j] \in Job /\ LocalsOK(job[j])
  BY RowsTyped DEF SystemInv, WriteAssignment
<1>2. /\ job[j].op \in Returns /\ g \in Assignments
      /\ assignment[g] \in EquipmentAssignment /\ job[j].asset \in Assets
  BY <1>1, RowsTyped DEF SystemInv, LocalsOK, Fits, Returns
<1>3. /\ assignment[g].asset = job[j].asset
      /\ assignment[g].status = IF job[j].op = "request_return"
                                  THEN "active" ELSE "return_requested"
      /\ assignment[g].request = job[j].links /\ "status" \in dirty
  BY <1>1, <1>2 DEF JobFresh, ReturnFresh
<1>4. /\ row.status = ReturnStatus(j) /\ row.asset = assignment[g].asset
      /\ row.employee = assignment[g].employee /\ row.request = assignment[g].request
  <2>1. row = [assignment[g] EXCEPT !.status = ReturnStatus(j), !.request = link]
    BY <1>2, <1>3 DEF EquipmentAssignment
  <2>2. link = assignment[g].request
    BY <1>3
  <2> HIDE DEF link, row
  <2> QED
    BY <1>2, <2>1, <2>2 DEF EquipmentAssignment
<1>5. /\ assignment' = [assignment EXCEPT ![g] = row]
      /\ UNCHANGED <<request, step, asset>>
  BY DEF WriteAssignment
<1> HIDE DEF row
<1> QED
  BY <1>1, <1>2, <1>3, <1>4, <1>5, RowsTyped DEF SystemInv

-----------------------------------------------------------------------------
(* The handler that goes on.                                               *)

\* The locals l are those of handler j but for the place, and for what the
\* invariant does not speak of.
Carries(l, j) ==
  /\ l.op = job[j].op /\ l.asset = job[j].asset /\ l.entity = job[j].entity
  /\ l.employee = job[j].employee /\ l.assignment = job[j].assignment
  /\ l.links = job[j].links

LEMMA MovesOn ==
  ASSUME SystemInv, NEW j \in Jobs,
         NEW pc \in {"missing", "saved", "found", "inserted", "deletable", "done"},
         Move(j, pc)
  PROVE  \E l \in Job : /\ job' = [job EXCEPT ![j] = l] /\ job'[j] = l
                        /\ l.pc = pc /\ Carries(l, j)
                        /\ l.request = job[j].request /\ l.fulfils = job[j].fulfils
                        /\ l.dirty = job[j].dirty
<1>1. job[j] \in Job
  BY RowsTyped DEF SystemInv
<1>2. PICK l \in Job : l = [job[j] EXCEPT !.pc = pc]
  BY <1>1 DEF Job
<1>3. job' = [job EXCEPT ![j] = l]
  BY <1>2 DEF Move
<1>4. job'[j] = l
  BY <1>3, OneJobMoves DEF SystemInv, InventoryInv
<1> QED
  BY <1>1, <1>2, <1>3, <1>4 DEF Job, Carries

LEMMA CompareAssetFresh ==
  ASSUME SystemInv, NEW j \in Jobs, JobFresh(job[j]), CompareAsset(j)
  PROVE  JobFresh(job[j])'
<1> DEFINE a == job[j].asset
           columns == {k \in job[j].columns : job[j].entity[k] # asset[a][k]}
<1>1. job[j].pc = "loaded" /\ job[j] \in Job /\ LocalsOK(job[j])
  BY RowsTyped DEF SystemInv, CompareAsset
<1>2. asset[a].status # "absent"
  BY <1>1 DEF LocalsOK, Fits, JobFresh
<1>3. PICK l : l = [job[j] EXCEPT !.pc = "compared", !.columns = columns]
  OBVIOUS
<1>4. UNCHANGED tables /\ (job' = [job EXCEPT ![j] = l] \/ Finish(j))
  BY <1>2, <1>3 DEF CompareAsset
<1>5. l.pc = "compared" /\ Carries(l, j) /\ l.columns = columns
  BY <1>1, <1>3 DEF Job, Carries
<1>6. SavesEntity(l)
  <2>1. SavesEntity(job[j])
    BY DEF JobFresh
  <2> QED
    BY <1>1, <1>5, <2>1 DEF SavesEntity, Carries
<1>7. JobFresh(l)
  BY <1>1, <1>5, <1>6 DEF JobFresh, SaveFresh, AssignFresh, ReturnFresh, Carries
<1> QED
  BY <1>4, <1>7, LocalFresh, FinishFresh

LEMMA WriteAssetFresh ==
  ASSUME SystemInv, NEW j \in Jobs, JobFresh(job[j]), WriteAsset(j)
  PROVE  JobFresh(job[j])'
<1>1. AssetSaved(j) /\ job[j].pc = "compared" /\ LocalsOK(job[j])
  BY RowsTyped DEF SystemInv, WriteAsset
<1>2. CASE job[j].op = "save"
  BY <1>1, <1>2, FinishFresh DEF AssetSaved
<1>3. CASE job[j].op # "save"
  <2>1. PICK l \in Job : job'[j] = l /\ l.pc = "saved" /\ Carries(l, j)
    BY <1>1, <1>3, MovesOn DEF AssetSaved
  <2>2. PICK a : a = l.asset
    OBVIOUS
  <2>3. /\ asset'[a].status = l.entity.status
        /\ asset'[a].assignedEmployee = l.entity.assignedEmployee
        /\ UNCHANGED <<request, assignment>>
    BY <2>1, <2>2, WriteAlone DEF Carries
  <2>4. l.op \in {"assign"} \cup Returns /\ l.entity.status # "absent"
    BY <1>1, <1>3, <2>1 DEF LocalsOK, Fits, Carries, Job, Returns
  <2>5. AssignFresh(l)'
    BY <1>1, <2>1, <2>2, <2>3 DEF JobFresh, AssignFresh, Carries
  <2>6. ReturnFresh(l)'
    BY <1>1, <2>1, <2>2, <2>3 DEF JobFresh, ReturnFresh, Carries
  <2> QED
    BY <2>1, <2>2, <2>3, <2>4, <2>5, <2>6 DEF JobFresh, SavesEntity, SaveFresh,
       AssignFresh, ReturnFresh, Returns
<1> QED
  BY <1>2, <1>3

LEMMA FindRequestFresh ==
  ASSUME SystemInv, NEW j \in Jobs, JobFresh(job[j]), FindRequest(j)
  PROVE  JobFresh(job[j])'
<1> DEFINE found == {r \in {job[j].request} \cap Requests : request[r].status # "absent"}
           f == \E r \in found : request[r].status = "procurement_approved"
           r1 == IF found = {} THEN None ELSE job[j].request
<1>1. PICK l : l = [job[j] EXCEPT !.pc = "found", !.request = r1, !.fulfils = f]
  OBVIOUS
<1>2. /\ UNCHANGED tables /\ job' = [job EXCEPT ![j] = l]
      /\ job[j].op = "assign" /\ job[j].pc = "saved"
  BY <1>1 DEF FindRequest
<1>3. f => request[r1].status = "procurement_approved"
  OBVIOUS
<1> HIDE DEF f, r1
<1>4. Carries(l, j) /\ l.pc = "found" /\ l.request = r1 /\ l.fulfils = f
  BY <1>1, RowsTyped DEF SystemInv, Carries, Job
<1>5. JobFresh(l)
  BY <1>2, <1>3, <1>4 DEF JobFresh, SavesEntity, SaveFresh, AssignFresh, ReturnFresh,
     Carries, Returns
<1> QED
  BY <1>2, <1>5, LocalFresh

LEMMA InsertAssignmentFresh ==
  ASSUME SystemInv, NEW j \in Jobs, JobFresh(job[j]),
         NEW g \in Assignments, InsertAssignment(j, g)
  PROVE  JobFresh(job[j])'
<1>1. CASE ~job[j].fulfils
  BY <1>1, InsertAlone, FinishFresh
<1>2. CASE job[j].fulfils
  <2>1. PICK l \in Job : /\ job'[j] = l /\ l.pc = "inserted" /\ Carries(l, j)
                         /\ l.request = job[j].request
    <3>1. Move(j, "inserted")
      BY <1>2, InsertAlone
    <3> QED
      BY <3>1, MovesOn
  <2>2. /\ job[j].op = "assign" /\ job[j].pc = "found"
        /\ asset[l.asset].status # "absent" /\ UNCHANGED <<asset, request>>
        /\ assignment'[g].status = "active" /\ assignment'[g].request = l.request
    <3>1. assignment'[g] = [status |-> "active", asset |-> job[j].asset,
                            employee |-> job[j].employee, request |-> job[j].request]
      BY InsertAlone
    <3>2. /\ job[j].op = "assign" /\ job[j].pc = "found"
          /\ asset[job[j].asset].status # "absent" /\ UNCHANGED <<asset, request>>
      BY InsertAlone
    <3> QED
      BY <2>1, <3>1, <3>2 DEF Carries
  <2>3. g \in AssignmentsOf(l.request)'
    BY <2>2 DEF AssignmentsOf
  <2>4. AssignFresh(l)'
    BY <1>2, <2>1, <2>2, <2>3 DEF JobFresh, AssignFresh, Carries
  <2> QED
    BY <2>1, <2>2, <2>4 DEF JobFresh, SavesEntity, SaveFresh, AssignFresh,
       ReturnFresh, Returns, Carries
<1> QED
  BY <1>1, <1>2

LEMMA FulfilRequestFresh ==
  ASSUME SystemInv, NEW j \in Jobs, JobFresh(job[j]), FulfilRequest(j)
  PROVE  JobFresh(job[j])'
<1>1. job[j].pc = "inserted" /\ LocalsOK(job[j])
  BY RowsTyped DEF SystemInv, FulfilRequest
<1>2. job[j].op = "assign"
  BY <1>1 DEF LocalsOK, Fits
<1>3. PICK l \in Job : job'[j] = l /\ l.pc = "done" /\ Carries(l, j)
  BY MovesOn DEF FulfilRequest
<1>4. UNCHANGED asset
  BY DEF FulfilRequest
<1> QED
  BY <1>2, <1>3, <1>4 DEF JobFresh, SavesEntity, SaveFresh, AssignFresh, ReturnFresh,
     Returns, Carries

LEMMA CountHistoryFresh ==
  ASSUME SystemInv, NEW j \in Jobs, JobFresh(job[j]), CountHistory(j)
  PROVE  JobFresh(job[j])'
<1>1. CASE Finish(j)
  BY <1>1, FinishFresh
<1>2. CASE Move(j, "deletable")
  <2>1. PICK l \in Job : job'[j] = l /\ l.pc = "deletable" /\ Carries(l, j)
    BY <1>2, MovesOn
  <2>2. job[j].op = "remove"
    BY DEF CountHistory, JobFresh
  <2> QED
    BY <2>1, <2>2 DEF JobFresh, SavesEntity, SaveFresh, AssignFresh, ReturnFresh,
       Returns, Carries
<1> QED
  BY <1>1, <1>2 DEF CountHistory

LEMMA CompareAssignmentFresh ==
  ASSUME SystemInv, NEW j \in Jobs, JobFresh(job[j]), CompareAssignment(j)
  PROVE  JobFresh(job[j])'
<1> DEFINE g == job[j].assignment
           dirty == {k \in {"status", "request"} :
             (k = "status" /\ assignment[g].status # ReturnStatus(j))
               \/ (k = "request" /\ assignment[g].request # job[j].links)}
<1>1. PICK l : l = [job[j] EXCEPT !.pc = "matched", !.dirty = dirty]
  OBVIOUS
<1>2. /\ UNCHANGED tables /\ job' = [job EXCEPT ![j] = l]
      /\ job[j].op \in Returns /\ job[j].pc = "saved"
  BY <1>1 DEF CompareAssignment, Returning, Returns
<1>3. Carries(l, j) /\ l.pc = "matched" /\ l.dirty = dirty
  BY <1>1, RowsTyped DEF SystemInv, Carries, Job
<1>4. "status" \in dirty
  BY <1>2 DEF JobFresh, ReturnFresh, ReturnStatus
<1> HIDE DEF dirty
<1>5. ReturnFresh(l)
  BY <1>2, <1>3, <1>4 DEF JobFresh, ReturnFresh, Carries
<1>6. JobFresh(l)
  BY <1>2, <1>3, <1>5 DEF JobFresh, SavesEntity, SaveFresh, AssignFresh, Carries, Returns
<1> QED
  BY <1>2, <1>6, LocalFresh

LEMMA WriteAssignmentFresh ==
  ASSUME SystemInv, NEW j \in Jobs, JobFresh(job[j]), WriteAssignment(j)
  PROVE  JobFresh(job[j])'
<1>1. PICK l \in Job : job'[j] = l /\ l.pc = "done" /\ Carries(l, j)
  BY MovesOn DEF WriteAssignment
<1>2. job[j].op \in Returns /\ UNCHANGED asset
  BY ReturnAlone
<1> QED
  BY <1>1, <1>2 DEF JobFresh, SavesEntity, SaveFresh, AssignFresh, ReturnFresh,
     Returns, Carries

LEMMA JobAlone ==
  ASSUME SystemInv, NEW j \in Jobs, JobFresh(job[j]), AloneJob(j)
  PROVE  JobFresh(job[j])'
<1>1. ~InsertMissing(j)
  BY DEF JobFresh, InsertMissing
<1> QED
  BY <1>1, StartJobFresh, FinishFresh, CompareAssetFresh, WriteAssetFresh,
     FindRequestFresh, InsertAssignmentFresh, FulfilRequestFresh, CountHistoryFresh,
     CompareAssignmentFresh, WriteAssignmentFresh
     DEF AloneJob, ContinueJob, CutOff, Delete, NotifyHolder

-----------------------------------------------------------------------------
(* The invariant of the system.                                            *)

\* Which tables a handler of the inventory writes, in which action.
LEMMA InventoryWrites ==
  ASSUME NEW j \in Jobs, JobFresh(job[j]), AloneJob(j)
  PROVE  /\ UNCHANGED step
         /\ UNCHANGED request \/ FulfilRequest(j)
         /\ \/ UNCHANGED assignment
            \/ \E g \in Assignments : InsertAssignment(j, g)
            \/ WriteAssignment(j)
         /\ \/ UNCHANGED asset
            \/ AtRest /\ \E a \in Assets, model \in Models,
                            status \in Manual \cup {"available"} :
                           CreateAsset(j, a, model, status)
            \/ WriteAsset(j)
            \/ Delete(j)
<1>1. ~InsertMissing(j)
  BY DEF JobFresh, InsertMissing
<1>2. CASE AtRest /\ StartJob(j)
  BY <1>2 DEF StartJob, CreateAsset, Update, UpdateStatus, Retire, Load, Assign,
     FindRemovable, RequestReturn, CompleteReturn, LoadAssignment, tables
<1>3. CASE ContinueJob(j)
  BY <1>1, <1>3 DEF ContinueJob, CompareAsset, WriteAsset, FindRequest,
     InsertAssignment, FulfilRequest, CountHistory, Delete, CompareAssignment,
     WriteAssignment, NotifyHolder, tables
<1>4. CASE CutOff(j)
  BY <1>4 DEF CutOff, tables
<1> QED
  BY <1>2, <1>3, <1>4 DEF AloneJob

LEMMA WorkflowKeepsSerial ==
  ASSUME ~Overlap, SystemInv, SystemInv', SystemSerial, WorkflowStep
  PROVE  SystemSerial'
<1>1. PICK c \in Calls : AloneStep(c) /\ AtRest
  BY WorkflowTurn DEF SystemSerial
<1>2. RequestsInv /\ RequestsInv' /\ UNCHANGED job /\ [RequestsNext]_requestVars
  BY <1>1 DEF SystemInv, WorkflowStep, RequestsNext, AloneStep
<1>3. RowsKeep
  BY <1>2, TablesStep DEF RequestsInv
<1>4. WorkflowSerial'
  BY <1>1, <1>2, <1>3, WorkflowAlone DEF SystemSerial
<1>5. OneHandler'
  BY <1>1, <1>2, <1>4 DEF WorkflowSerial, OneHandler, AtRest
<1>6. JobsFresh'
  <2>1. \A j \in Jobs : job'[j].pc = "idle" /\ job'[j].op = "none"
    BY <1>1, <1>2, RowsTyped DEF SystemInv, AtRest, LocalsOK, Fits
  <2> QED
    BY <2>1 DEF JobsFresh, JobFresh, SavesEntity, SaveFresh, AssignFresh, ReturnFresh,
       Returns
<1>7. /\ CallsFresh
      /\ UNCHANGED <<asset, assignment>>
           \/ \E g \in Assignments : CommitLoanApproval(c, g)
  BY <1>1, <1>2, StockAlone DEF SystemSerial, WorkflowSerial
<1>8. /\ \A g \in Assignments : \/ assignment'[g] = assignment[g]
                                \/ assignment[g].status = "absent"
                                     /\ assignment'[g].status = "active"
  BY <1>2, <1>7, LoanAlone
<1>9. NoneCancelled'
  BY <1>8 DEF SystemSerial, NoneCancelled
<1>10. ProcurementIsBacked'
  <2> SUFFICES ASSUME NEW r \in Requests, request'[r].status = "fulfilled",
                      request'[r].type = "procurement"
               PROVE  AssignmentsOf(r)' # {}
    BY DEF ProcurementIsBacked
  <2>1. request[r].status = "fulfilled" /\ request[r].type = "procurement"
    <3> USE DEF RequestsInv, Refs, RequestsTypeOK, TablesTypeOK
    <3>1. ASSUME NEW q \in Requests, NEW u \in Employees, NEW type \in RequestType,
                 NEW model \in Models \cup {None}, Submits(q, u, type, model)
          PROVE  request'[r] = request[r]
      BY <1>2, <3>1 DEF Submits
    <3>2. ASSUME NEW q \in Requests, NEW s \in Steps, Decides(s, q)
          PROVE  request'[r] = request[r]
      <4>1. PICK status \in RequestStatus :
              /\ Outcome(s, status) /\ step[s].request = q
              /\ request' = [request EXCEPT ![q].status = status]
        BY <3>2 DEF Decides
      <4>2. CASE q = r
        <5>1. request'[r].status = status /\ request'[r].type = request[r].type
          BY <1>2, <4>1, <4>2 DEF EquipmentRequest
        <5> QED
          BY <4>1, <4>2, <5>1 DEF Outcome
      <4> QED
        BY <4>1, <4>2
    <3>3. ASSUME NEW q \in Requests, Cancels(q)
          PROVE  request'[r] = request[r]
      BY <1>2, <3>3 DEF Cancels, EquipmentRequest
    <3> QED
      BY <1>1, <1>2, <1>7, <3>1, <3>2, <3>3, StatusAlone
  <2> QED
    BY <1>8, <2>1 DEF SystemSerial, ProcurementIsBacked, AssignmentsOf
<1> QED
  BY <1>4, <1>5, <1>6, <1>9, <1>10 DEF SystemSerial

LEMMA InventoryKeepsSerial ==
  ASSUME ~Overlap, SystemInv, SystemInv', SystemSerial, InventoryStep
  PROVE  SystemSerial'
<1> USE DEF SystemSerial
<1>1. PICK j \in Jobs :
        /\ AloneJob(j) /\ NoCallInFlight
        /\ \A i \in Jobs \ {j} : job[i].pc = "idle" /\ job'[i] = job[i]
  BY InventoryTurn
<1>2. JobFresh(job[j]) /\ UNCHANGED call
  BY DEF JobsFresh, InventoryStep
<1>3. OneHandler'
  BY <1>1, <1>2 DEF OneHandler, OneCall, NoCallInFlight
<1>4. JobsFresh'
  <2>1. \A i \in Jobs \ {j} : JobFresh(job[i])'
    BY <1>1, RowsTyped DEF SystemInv, LocalsOK, Fits, JobFresh, SavesEntity, SaveFresh,
       AssignFresh, ReturnFresh, Returns
  <2>2. JobFresh(job[j])'
    BY <1>1, <1>2, JobAlone
  <2> QED
    BY <2>1, <2>2 DEF JobsFresh
<1>5. /\ UNCHANGED step
      /\ UNCHANGED request \/ FulfilRequest(j)
      /\ \/ UNCHANGED assignment
         \/ \E g \in Assignments : InsertAssignment(j, g)
         \/ WriteAssignment(j)
  BY <1>1, <1>2, InventoryWrites
<1>6. WorkflowSerial'
  <2>1. OneCall' /\ CallsFresh'
    BY <1>1, <1>2 DEF OneCall, NoCallInFlight, SystemInv, RequestsInv, Refs, CallsRefer,
       Refers, CallsFresh, DecisionFresh, CancelFresh, Deciding, At
  <2>2. \A q \in Requests : request'[q].status = request[q].status
                              \/ request[q].status = "procurement_approved"
    <3>1. CASE FulfilRequest(j)
      <4>1. PICK q0 \in Requests : /\ request[q0].status = "procurement_approved"
                                  /\ request' = [request EXCEPT ![q0].status = "fulfilled"]
        BY <1>2, <3>1, FulfilAlone
      <4>2. \A q \in Requests : q # q0 => request'[q] = request[q]
        BY <4>1
      <4> QED
        BY <4>1, <4>2
    <3> QED
      BY <1>5, <3>1
  <2>3. OneStepPerRole' /\ SettledHasNoPendingStep'
    BY <1>5, <2>2, NoNewSteps DEF WorkflowSerial
  <2> QED
    BY <2>1, <2>3 DEF WorkflowSerial
<1>7. \A g \in Assignments :
        \/ assignment'[g] = assignment[g]
        \/ /\ assignment'[g].status \in {"active", "return_requested", "returned"}
           /\ assignment[g].status # "absent" =>
                assignment'[g].request = assignment[g].request
  <2>1. ASSUME NEW h \in Assignments, InsertAssignment(j, h), NEW g \in Assignments
        PROVE  \/ assignment'[g] = assignment[g]
               \/ assignment[g].status = "absent" /\ assignment'[g].status = "active"
    <3>1. assignment'[h] = [status |-> "active", asset |-> job[j].asset,
                            employee |-> job[j].employee, request |-> job[j].request]
      BY <1>2, <2>1, InsertAlone
    <3>2. assignment'[h].status = "active"
      BY <3>1
    <3>3. /\ assignment[h].status = "absent"
          /\ \A i \in Assignments : i # h => assignment'[i] = assignment[i]
      BY <1>2, <2>1, InsertAlone
    <3> QED
      BY <3>2, <3>3
  <2>2. CASE WriteAssignment(j)
    BY <1>2, <2>2, ReturnAlone DEF ReturnStatus
  <2> QED
    BY <1>5, <2>1, <2>2
<1>8. NoneCancelled'
  BY <1>7 DEF NoneCancelled
<1>9. ProcurementIsBacked'
  <2>1. \A r \in Requests : AssignmentsOf(r) # {} => AssignmentsOf(r)' # {}
    BY <1>7 DEF AssignmentsOf
  <2>2. CASE UNCHANGED request
    BY <2>1, <2>2 DEF ProcurementIsBacked
  <2>3. CASE FulfilRequest(j)
    <3>1. PICK q \in Requests : /\ request' = [request EXCEPT ![q].status = "fulfilled"]
                                /\ AssignmentsOf(q) # {}
      BY <1>2, <2>3, FulfilAlone
    <3>2. \A r \in Requests : r # q => request'[r] = request[r]
      BY <3>1
    <3> QED
      BY <2>1, <3>1, <3>2 DEF ProcurementIsBacked
  <2> QED
    BY <1>5, <2>2, <2>3
<1> QED
  BY <1>3, <1>4, <1>6, <1>8, <1>9

LEMMA SystemInitSerial == SystemInit => SystemSerial
<1> SUFFICES ASSUME SystemInit PROVE SystemSerial
  OBVIOUS
<1>1. /\ request = [r \in Requests |-> NoRequest]
      /\ step = [s \in Steps |-> NoStep]
      /\ assignment = [g \in Assignments |-> NoAssignment]
      /\ call = [c \in Calls |-> NoCall] /\ job = [j \in Jobs |-> NoJob]
  BY DEF SystemInit, RequestsInit, InventoryInit, TablesInit, StockInit
<1>2. OneHandler
  BY <1>1 DEF OneHandler, OneCall, NoCallInFlight, NoCall, NoJob
<1>3. WorkflowSerial
  BY <1>1, <1>2 DEF OneHandler, WorkflowSerial, CallsFresh, DecisionFresh, CancelFresh,
     Deciding, At, NoCall, SettledHasNoPendingStep, OneStepPerRole, NoRequest, NoStep
<1>4. JobsFresh
  BY <1>1 DEF JobsFresh, JobFresh, SavesEntity, SaveFresh, AssignFresh, ReturnFresh,
     NoJob, Returns
<1>5. NoneCancelled /\ ProcurementIsBacked
  BY <1>1 DEF NoneCancelled, ProcurementIsBacked, NoAssignment, NoRequest
<1> QED
  BY <1>2, <1>3, <1>4, <1>5 DEF SystemSerial

LEMMA SystemSerialStays ==
  ASSUME SystemSerial, UNCHANGED systemVars
  PROVE  SystemSerial'
<1>1. UNCHANGED <<request, step, asset, assignment, call, job>>
  BY DEF systemVars, tables
<1>2. OneHandler' /\ NoneCancelled' /\ ProcurementIsBacked'
  BY <1>1 DEF SystemSerial, OneHandler, OneCall, NoCallInFlight, NoneCancelled,
     ProcurementIsBacked, AssignmentsOf
<1>3. WorkflowSerial'
  BY <1>1 DEF SystemSerial, WorkflowSerial, OneCall, CallsFresh, DecisionFresh,
     CancelFresh, Deciding, At, SettledHasNoPendingStep, OneStepPerRole,
     PendingStepsOf, StepsOf, AssignmentsOf
<1>4. JobsFresh'
  BY <1>1 DEF SystemSerial, JobsFresh, JobFresh, SavesEntity, SaveFresh, AssignFresh,
     ReturnFresh, AssignmentsOf
<1> QED
  BY <1>2, <1>3, <1>4 DEF SystemSerial

\* With handlers that take turns, each finds what it read.
THEOREM SystemIsSerial ==
  ASSUME ~Overlap
  PROVE  SystemSpec => []SystemSerial
<1>1. SystemInv /\ SystemInv' /\ SystemSerial /\ [SystemNext]_systemVars => SystemSerial'
  BY WorkflowKeepsSerial, InventoryKeepsSerial, SystemSerialStays DEF SystemNext
<1> QED
  BY <1>1, SystemInitSerial, SystemInvariant, PTL DEF SystemSpec

\* With handlers that take turns, an assignment that names a request bought
\* for precedes the request's fulfilment, so a crash between the two leaves
\* the request open, never fulfilled without equipment.
THEOREM BoughtIsBacked ==
  ASSUME ~Overlap
  PROVE  SystemSpec => []ProcurementIsBacked
<1>1. SystemSerial => ProcurementIsBacked
  BY DEF SystemSerial
<1> QED
  BY <1>1, SystemIsSerial, PTL

-----------------------------------------------------------------------------
(* The life of an assignment.                                              *)

MovesForward(g) ==
  assignment[g].status # "absent" =>
    /\ Stage[assignment'[g].status] >= Stage[assignment[g].status]
    /\ assignment'[g].asset = assignment[g].asset
    /\ assignment'[g].employee = assignment[g].employee

LEMMA StaysForward ==
  ASSUME SystemInv, NoneCancelled, NEW g \in Assignments,
         assignment'[g] = assignment[g]
  PROVE  MovesForward(g)
<1>1. assignment[g].status \in {"absent", "active", "return_requested", "returned"}
  BY RowsTyped DEF SystemInv, NoneCancelled, EquipmentAssignment,
     EquipmentAssignmentStatus
<1> QED
  BY <1>1 DEF MovesForward, Stage

LEMMA SystemMovesForward ==
  ASSUME ~Overlap, SystemInv, SystemSerial, SystemNext, NEW g \in Assignments
  PROVE  MovesForward(g)
<1> USE DEF SystemSerial
<1>1. CASE WorkflowStep
  <2>1. PICK c \in Calls : AloneStep(c)
    BY <1>1, WorkflowTurn
  <2>2. RequestsInv /\ CallsFresh
    BY DEF SystemInv, WorkflowSerial
  <2>3. CASE UNCHANGED assignment
    BY <2>3, StaysForward
  <2>4. ASSUME NEW h \in Assignments, CommitLoanApproval(c, h)
        PROVE  MovesForward(g)
    <3>1. assignment[h].status = "absent"
      BY <2>2, <2>4, LoanAlone
    <3>2. g # h => assignment'[g] = assignment[g]
      BY <2>2, <2>4, LoanAlone
    <3> QED
      BY <3>1, <3>2, StaysForward DEF MovesForward
  <2> QED
    BY <2>1, <2>2, <2>3, <2>4, StockAlone
<1>2. CASE InventoryStep
  <2>1. PICK j \in Jobs : AloneJob(j)
    BY <1>2, InventoryTurn
  <2>2. JobFresh(job[j])
    BY DEF JobsFresh
  <2>3. CASE UNCHANGED assignment
    BY <2>3, StaysForward
  <2>4. ASSUME NEW h \in Assignments, InsertAssignment(j, h)
        PROVE  MovesForward(g)
    <3>1. assignment[h].status = "absent" /\ (g # h => assignment'[g] = assignment[g])
      BY <2>2, <2>4, InsertAlone
    <3> QED
      BY <3>1, StaysForward DEF MovesForward
  <2>5. CASE WriteAssignment(j)
    <3> DEFINE h == job[j].assignment
    <3>1. /\ assignment[h].status = IF job[j].op = "request_return"
                                      THEN "active" ELSE "return_requested"
          /\ assignment'[h].status = ReturnStatus(j)
          /\ assignment'[h].asset = assignment[h].asset
          /\ assignment'[h].employee = assignment[h].employee
          /\ g # h => assignment'[g] = assignment[g]
      BY <2>2, <2>5, ReturnAlone
    <3>2. CASE g = h
      BY <3>1, <3>2 DEF MovesForward, Stage, ReturnStatus
    <3> QED
      BY <3>1, <3>2, StaysForward
  <2> QED
    BY <2>1, <2>2, <2>3, <2>4, <2>5, InventoryWrites
<1> QED
  BY <1>1, <1>2 DEF SystemNext

\* With handlers that take turns, and may be cut off anywhere, an assignment
\* is asked back only while active and returned only once asked back, and no
\* handler gives it another asset or employee.
THEOREM AssignmentsMoveForward ==
  ASSUME ~Overlap
  PROVE  SystemSpec => AssignmentMovesForward
<1>1. SystemInv /\ SystemSerial /\ [SystemNext]_systemVars
        => [\A g \in Assignments :
              assignment[g].status # "absent" =>
                /\ Stage[assignment'[g].status] >= Stage[assignment[g].status]
                /\ assignment'[g].asset = assignment[g].asset
                /\ assignment'[g].employee = assignment[g].employee]_inventoryVars
  BY SystemMovesForward DEF MovesForward, systemVars, inventoryVars
<1> QED
  BY <1>1, SystemInvariant, SystemIsSerial, PTL DEF SystemSpec, AssignmentMovesForward

-----------------------------------------------------------------------------
(* The stock: what the assets and the assignments say of each other.       *)

\* What holds of a while l are the locals of the only handler in flight.
StockAt(l, a) ==
  IF HalfDone(l, a)
  THEN IF l.op = "assign" THEN OpenOn(a) = {} ELSE HeldBy(a, l.assignment)
  ELSE Ledger(a)

LEMMA StockOfOne ==
  ASSUME NEW j \in Jobs, SystemInv, \A i \in Jobs \ {j} : job[i].pc = "idle"
  PROVE  StockInv <=> \A a \in Assets \ apart : StockAt(job[j], a)
<1>1. \A i \in Jobs \ {j}, a \in Assets : ~HalfDone(job[i], a)
  BY DEF HalfDone
<1> HIDE DEF HalfDone
<1>2. \A i \in Jobs, a \in Assets : HalfDone(job[i], a) => i = j
  BY <1>1
<1> QED
  BY <1>2 DEF StockInv, StockAt

LEMMA StockAtRest ==
  ASSUME SystemInv, AtRest
  PROVE  StockInv <=> \A a \in Assets \ apart : Ledger(a)
<1>1. \A i \in Jobs, a \in Assets : ~HalfDone(job[i], a)
  BY DEF HalfDone, AtRest
<1> HIDE DEF HalfDone
<1> QED
  BY <1>1 DEF StockInv

\* Nothing happens to the asset, nor to an assignment that is open on it.
Untouched(a) ==
  /\ asset'[a].status = asset[a].status
  /\ asset'[a].assignedEmployee = asset[a].assignedEmployee
  /\ \A g \in Assignments :
       assignment'[g] = assignment[g] \/ (g \notin OpenOn(a) /\ g \notin OpenOn(a)')

LEMMA UntouchedKeeps ==
  ASSUME NEW a \in Assets, Untouched(a)
  PROVE  /\ OpenOn(a)' = OpenOn(a) /\ (Ledger(a) => Ledger(a)')
         /\ \A g \in Assignments : HeldBy(a, g) => HeldBy(a, g)'
<1>1. OpenOn(a)' = OpenOn(a)
  <2>1. \A g \in Assignments : g \in OpenOn(a)' <=> g \in OpenOn(a)
    BY DEF Untouched, OpenOn, HistoryOf
  <2> QED
    BY <2>1 DEF OpenOn, HistoryOf
<1>2. \A g \in OpenOn(a) : assignment'[g] = assignment[g]
  BY DEF Untouched, OpenOn, HistoryOf
<1>3. \A g \in Assignments : HeldBy(a, g) => g \in OpenOn(a) /\ HeldBy(a, g)'
  BY <1>1, <1>2 DEF HeldBy, Untouched
<1>4. \A g \in OpenOn(a) : g \in Assignments /\ Out(g)' = Out(g)
  BY <1>2 DEF Out, OpenOn, HistoryOf
<1> QED
  BY <1>1, <1>3, <1>4 DEF Ledger, Untouched

\* A handler that is half done and stays so, or is not and stays so.
LEMMA StockKept ==
  ASSUME NEW l, NEW k, NEW a \in Assets, StockAt(l, a), Untouched(a),
         HalfDone(k, a) <=> HalfDone(l, a),
         HalfDone(l, a) => k.op = l.op /\ k.assignment = l.assignment,
         HalfDone(l, a) /\ l.op # "assign" => l.assignment \in Assignments
  PROVE  StockAt(k, a)'
<1>1. HalfDone(k, a)' <=> HalfDone(k, a)
  BY DEF HalfDone
<1> HIDE DEF HalfDone
<1>2. CASE HalfDone(l, a) /\ l.op = "assign"
  BY <1>1, <1>2, UntouchedKeeps DEF StockAt
<1>3. CASE HalfDone(l, a) /\ l.op # "assign"
  BY <1>1, <1>3, UntouchedKeeps DEF StockAt
<1>4. CASE ~HalfDone(l, a)
  BY <1>1, <1>4, UntouchedKeeps DEF StockAt
<1> QED
  BY <1>2, <1>3, <1>4

\* The places of a handler that has saved the asset alone.
Halfway == {"saved", "found", "matched"}

LEMMA StartIsNotHalfway ==
  ASSUME SystemInv, NEW j \in Jobs, AtRest, StartJob(j)
  PROVE  job[j].pc \notin Halfway /\ job'[j].pc \notin Halfway
<1>1. job[j].pc \notin Halfway
  BY DEF AtRest, Halfway
<1>2. ASSUME NEW l, job' = [job EXCEPT ![j] = l],
             l.pc \in {"loaded", "deletable", "counting"}
      PROVE  job'[j].pc \notin Halfway
  BY <1>2, OneJobMoves DEF Halfway, SystemInv, InventoryInv
<1>3. ASSUME NEW a, NEW entity, NEW columns, Load(j, "save", a, entity, columns)
      PROVE  job'[j].pc \notin Halfway
  <2> DEFINE l == [NoJob EXCEPT !.op = "save", !.pc = "loaded", !.asset = a,
                                !.entity = entity, !.columns = columns,
                                !.history = HistoryOf(a)]
  <2>1. l.pc = "loaded" /\ job' = [job EXCEPT ![j] = l]
    BY <1>3 DEF Load, NoJob
  <2> HIDE DEF l
  <2> QED
    BY <1>2, <2>1
<1>4. ASSUME NEW a, NEW u, NEW r, Assign(j, a, u, r)
      PROVE  job'[j].pc \notin Halfway
  <2> DEFINE entity == [asset[a] EXCEPT !.status = "in_use", !.assignedEmployee = u]
             l == [NoJob EXCEPT !.op = "assign", !.pc = "loaded", !.asset = a,
                     !.entity = entity, !.columns = AssetColumns,
                     !.history = HistoryOf(a), !.employee = u, !.request = r]
  <2>1. job' = [job EXCEPT ![j] = l]
    BY <1>4 DEF Assign
  <2> HIDE DEF entity
  <2>2. l.pc = "loaded"
    BY DEF NoJob
  <2> HIDE DEF l
  <2> QED
    BY <1>2, <2>1, <2>2
<1>5. ASSUME NEW a, FindRemovable(j, a)
      PROVE  job'[j].pc \notin Halfway
  <2> DEFINE pc == IF asset[a].status = "retired" THEN "deletable" ELSE "counting"
             l == [NoJob EXCEPT !.op = "remove", !.asset = a, !.entity = asset[a], !.pc = pc]
  <2>1. l.pc \in {"deletable", "counting"} /\ job' = [job EXCEPT ![j] = l]
    BY <1>5 DEF FindRemovable, NoJob
  <2> HIDE DEF l
  <2> QED
    BY <1>2, <2>1
<1>6. ASSUME NEW g, NEW op, NEW status, LoadAssignment(j, op, g, status)
      PROVE  job'[j].pc \notin Halfway
  <2> DEFINE a == assignment[g].asset
             entity == [asset[a] EXCEPT !.status = status]
             l == [NoJob EXCEPT !.op = op, !.pc = "loaded", !.asset = a,
                     !.entity = entity, !.columns = AssetColumns \ {"assignedEmployee"},
                     !.history = Assignments,
                     !.assignment = g, !.links = assignment[g].request]
  <2>1. job' = [job EXCEPT ![j] = l]
    BY <1>6 DEF LoadAssignment
  <2> HIDE DEF entity
  <2>2. l.pc = "loaded"
    BY DEF NoJob
  <2> HIDE DEF l
  <2> QED
    BY <1>2, <2>1, <2>2
<1>7. CASE UNCHANGED job
  BY <1>1, <1>7
<1> QED
  BY <1>1, <1>3, <1>4, <1>5, <1>6, <1>7 DEF StartJob, CreateAsset, Update,
     UpdateStatus, Retire, RequestReturn, CompleteReturn

\* Handler j is as far as it was with its asset and its assignment.
AsFar(j) ==
  \A a \in Assets :
    /\ HalfDone(job'[j], a) <=> HalfDone(job[j], a)
    /\ HalfDone(job[j], a) => job'[j].op = job[j].op
                                /\ job'[j].assignment = job[j].assignment

LEMMA NotHalfway ==
  ASSUME NEW j \in Jobs, job[j].pc \notin Halfway, job'[j].pc \notin Halfway
  PROVE  AsFar(j)
  BY DEF AsFar, HalfDone, Halfway

LEMMA FinishedJob ==
  ASSUME SystemInv, NEW j \in Jobs, Finish(j)
  PROVE  job'[j].pc = "idle"
<1>1. job'[j] = NoJob
  BY OneJobMoves DEF Finish, SystemInv, InventoryInv
<1> QED
  BY <1>1 DEF NoJob

LEMMA QuietMoves ==
  ASSUME SystemInv, NEW j \in Jobs, JobFresh(job[j]),
         CompareAsset(j) \/ FindRequest(j) \/ FulfilRequest(j) \/ CountHistory(j)
           \/ Delete(j) \/ CompareAssignment(j) \/ NotifyHolder(j)
  PROVE  AsFar(j)
<1>1. job[j] \in Job /\ LocalsOK(job[j])
  BY RowsTyped DEF SystemInv
<1>2. CASE CompareAsset(j)
  <2> DEFINE a == job[j].asset
             columns == {k \in job[j].columns : job[j].entity[k] # asset[a][k]}
  <2>1. PICK l : l = [job[j] EXCEPT !.pc = "compared", !.columns = columns]
    OBVIOUS
  <2>2. l.pc = "compared"
    BY <1>1, <2>1 DEF Job
  <2>3. job[j].pc = "loaded" /\ asset[a].status # "absent"
    BY <1>1, <1>2 DEF CompareAsset, LocalsOK, Fits, JobFresh
  <2>4. job' = [job EXCEPT ![j] = l] \/ Finish(j)
    BY <1>2, <2>1, <2>3 DEF CompareAsset
  <2>5. job'[j].pc \notin Halfway
    BY <2>2, <2>4, OneJobMoves, FinishedJob DEF Halfway, SystemInv, InventoryInv
  <2> QED
    BY <2>3, <2>5, NotHalfway DEF Halfway
<1>3. CASE FindRequest(j)
  <2> DEFINE found == {r \in {job[j].request} \cap Requests : request[r].status # "absent"}
             f == \E r \in found : request[r].status = "procurement_approved"
             r1 == IF found = {} THEN None ELSE job[j].request
  <2>1. PICK l : l = [job[j] EXCEPT !.pc = "found", !.request = r1, !.fulfils = f]
    OBVIOUS
  <2>2. job' = [job EXCEPT ![j] = l] /\ job[j].op = "assign" /\ job[j].pc = "saved"
    BY <1>3, <2>1 DEF FindRequest
  <2> HIDE DEF f, r1
  <2>3. Carries(l, j) /\ l.pc = "found" /\ job'[j] = l
    BY <1>1, <2>1, <2>2, OneJobMoves DEF Carries, Job, SystemInv, InventoryInv
  <2> QED
    BY <2>2, <2>3 DEF AsFar, HalfDone, Carries, Returns
<1>4. CASE FulfilRequest(j)
  <2>1. job'[j].pc = "done" /\ job[j].pc = "inserted"
    BY <1>4, MovesOn DEF FulfilRequest
  <2> QED
    BY <2>1, NotHalfway DEF Halfway
<1>5. CASE CountHistory(j)
  <2>1. job'[j].pc \in {"deletable", "idle"} /\ job[j].pc = "counting"
    <3>1. Move(j, "deletable") \/ Finish(j)
      BY <1>5 DEF CountHistory
    <3>2. job[j].pc = "counting"
      BY <1>5 DEF CountHistory
    <3>3. CASE Move(j, "deletable")
      BY <3>2, <3>3, MovesOn
    <3> QED
      BY <3>1, <3>2, <3>3, FinishedJob
  <2> QED
    BY <2>1, NotHalfway DEF Halfway
<1>6. CASE Delete(j) \/ NotifyHolder(j)
  <2>1. job[j].pc \in {"deletable", "done"} /\ Finish(j)
    BY <1>6 DEF Delete, NotifyHolder
  <2> QED
    BY <2>1, FinishedJob, NotHalfway DEF Halfway
<1>7. CASE CompareAssignment(j)
  <2> DEFINE g == job[j].assignment
             dirty == {k \in {"status", "request"} :
               (k = "status" /\ assignment[g].status # ReturnStatus(j))
                 \/ (k = "request" /\ assignment[g].request # job[j].links)}
  <2>1. PICK l : l = [job[j] EXCEPT !.pc = "matched", !.dirty = dirty]
    OBVIOUS
  <2>2. job' = [job EXCEPT ![j] = l] /\ job[j].op \in Returns /\ job[j].pc = "saved"
    BY <1>7, <2>1 DEF CompareAssignment, Returning, Returns
  <2>3. Carries(l, j) /\ l.pc = "matched" /\ job'[j] = l
    BY <1>1, <2>1, <2>2, OneJobMoves DEF Carries, Job, SystemInv, InventoryInv
  <2> QED
    BY <2>2, <2>3 DEF AsFar, HalfDone, Carries, Returns
<1> QED
  BY <1>2, <1>3, <1>4, <1>5, <1>6, <1>7

\* A step that leaves stock and assignments, and the handler, as they are.
LEMMA QuietStock ==
  ASSUME SystemInv, NEW j \in Jobs, NEW a \in Assets, StockAt(job[j], a),
         Untouched(a), AsFar(j)
  PROVE  StockAt(job[j], a)'
<1>1. HalfDone(job[j], a) /\ job[j].op # "assign" => job[j].assignment \in Assignments
  <2>1. LocalsOK(job[j])
    BY RowsTyped DEF SystemInv
  <2> QED
    BY <2>1 DEF LocalsOK, Fits, HalfDone, Returns
<1>2. PICK l, k : l = job[j] /\ k = job'[j]
  OBVIOUS
<1>3. StockAt(k, a)'
  BY <1>1, <1>2, StockKept DEF AsFar
<1> QED
  BY <1>2, <1>3 DEF StockAt, HalfDone, Ledger, HeldBy, OpenOn, HistoryOf, Out

\* An asset that agrees with its assignments, its holder included, is in the
\* ledger.
LEMMA AgreementTold ==
  ASSUME NEW a \in Assets, Agrees(a)', \A g \in OpenOn(a)' : HeldBy(a, g)'
  PROVE  Ledger(a)'
<1>1. \A g \in OpenOn(a)' :
        assignment'[g].status \in {"active", "return_requested"}
  BY DEF OpenOn, HistoryOf
<1>2. ASSUME NEW g \in OpenOn(a)', asset'[a].status \in Placing
      PROVE  asset'[a].status = Out(g)'
  BY <1>1, <1>2 DEF Agrees, Placing, Out
<1>3. asset'[a].status \in {"in_use", "return_requested"} => OpenOn(a)' # {}
  BY DEF Agrees
<1> QED
  BY <1>2, <1>3 DEF Ledger, Placing

LEMMA CreateStock ==
  ASSUME SystemInv, AtRest, NEW j \in Jobs,
         NEW a \in Assets, NEW model \in Models,
         NEW status \in Manual \cup {"available"}, CreateAsset(j, a, model, status),
         NEW b \in Assets, Ledger(b), asset'[b].status # asset[b].status => Agrees(b)'
  PROVE  Ledger(b)'
<1>1. asset[a] = NoAsset /\ UNCHANGED assignment
  BY DEF CreateAsset, FreeAssets
<1>2. asset' = [asset EXCEPT ![a] =
        [status |-> status, model |-> model, assignedEmployee |-> None,
         retiredAt |-> None]]
  BY DEF CreateAsset
<1>3. CASE b = a
  <2>1. OpenOn(b)' = {}
    <3>1. asset[a].status = "absent"
      BY <1>1 DEF NoAsset
    <3>2. HistoryOf(a) = {}
      BY <3>1 DEF HistoryOf, SystemInv, InventoryInv, HistoryKeepsAsset
    <3> QED
      BY <1>1, <1>3, <3>2 DEF OpenOn, HistoryOf
  <2>2. asset'[b].status = status
    <3>1. asset'[b] = [status |-> status, model |-> model, assignedEmployee |-> None,
                       retiredAt |-> None]
      BY <1>2, <1>3, RowsTyped DEF SystemInv
    <3> QED
      BY <3>1
  <2>3. status \notin {"in_use", "return_requested"}
    <3>1. asset[b].status = "absent"
      BY <1>1, <1>3 DEF NoAsset
    <3> QED
      BY <2>1, <2>2, <3>1 DEF Agrees
  <2> QED
    BY <2>1, <2>2, <2>3 DEF Ledger
<1>4. CASE b # a
  <2>1. Untouched(b)
    BY <1>1, <1>2, <1>4, RowsTyped DEF SystemInv, Untouched
  <2> QED
    BY <2>1, UntouchedKeeps
<1> QED
  BY <1>3, <1>4

LEMMA WriteStock ==
  ASSUME SystemInv, NEW j \in Jobs, JobFresh(job[j]),
         WriteAsset(j), NEW b \in Assets, StockAt(job[j], b),
         job[j].op = "save" /\ asset'[b].status # asset[b].status => Agrees(b)'
  PROVE  StockAt(job[j], b)'
<1>1. AssetSaved(j) /\ job[j].pc = "compared" /\ LocalsOK(job[j])
  BY RowsTyped DEF SystemInv, WriteAsset
<1>2. PICK a : a = job[j].asset
  OBVIOUS
<1>3. /\ asset'[a].status = job[j].entity.status
      /\ asset'[a].assignedEmployee = job[j].entity.assignedEmployee
      /\ UNCHANGED assignment
      /\ \A c \in Assets : c # a => asset'[c] = asset[c]
  BY <1>2, WriteAlone
<1>4. ~HalfDone(job[j], b) /\ Ledger(b)
  BY <1>1 DEF HalfDone, StockAt
<1>5. OpenOn(b)' = OpenOn(b)
  BY <1>3 DEF OpenOn, HistoryOf
<1>6. CASE b # a
  <2>1. Untouched(b)
    BY <1>3, <1>6 DEF Untouched
  <2>2. ~HalfDone(job'[j], b)
    <3>1. CASE job[j].op = "save"
      BY <1>1, <3>1, FinishedJob DEF AssetSaved, HalfDone
    <3>2. CASE job[j].op # "save"
      <4>1. PICK l \in Job : job'[j] = l /\ Carries(l, j)
        BY <1>1, <3>2, MovesOn DEF AssetSaved
      <4> QED
        BY <1>2, <1>6, <4>1 DEF HalfDone, Carries
    <3> QED
      BY <3>1, <3>2
  <2>3. Ledger(b)'
    BY <1>4, <2>1, UntouchedKeeps
  <2> QED
    BY <2>2, <2>3 DEF StockAt, HalfDone
<1>7. CASE b = a /\ job[j].op = "save"
  <2>1. asset'[b].assignedEmployee = asset[b].assignedEmployee
    BY <1>2, <1>3, <1>7 DEF JobFresh, SaveFresh
  <2>2. asset'[b].status = asset[b].status \/ Agrees(b)'
    BY <1>7
  <2>3. \A g \in OpenOn(b) : Out(g)' = Out(g) /\ (HeldBy(b, g) => HeldBy(b, g)')
    BY <1>3, <1>5, <2>1 DEF Out, HeldBy
  <2>4. Ledger(b)'
    <3>1. CASE asset'[b].status = asset[b].status
      BY <1>4, <1>5, <2>3, <3>1 DEF Ledger
    <3>2. CASE Agrees(b)'
      <4>1. \A g \in OpenOn(b)' : HeldBy(b, g)'
        BY <1>4, <1>5, <2>3 DEF Ledger
      <4> QED
        BY <3>2, <4>1, AgreementTold
    <3> QED
      BY <2>2, <3>1, <3>2
  <2>5. ~HalfDone(job'[j], b)
    BY <1>1, <1>7, FinishedJob DEF AssetSaved, HalfDone
  <2> QED
    BY <2>4, <2>5 DEF StockAt, HalfDone
<1>8. CASE b = a /\ job[j].op # "save"
  <2>1. PICK l \in Job : job'[j] = l /\ l.pc = "saved" /\ Carries(l, j)
    BY <1>1, <1>8, MovesOn DEF AssetSaved
  <2>2. l.op = "assign" \/ l.op \in Returns
    BY <1>1, <1>8, <2>1 DEF LocalsOK, Fits, Carries, Job, Returns
  <2>3. HalfDone(l, b)
    BY <1>2, <1>8, <2>1, <2>2 DEF HalfDone, Carries
  <2>4. CASE l.op = "assign"
    <3>1. asset[b].status = "available"
      BY <1>1, <1>2, <1>8, <2>1, <2>4 DEF JobFresh, AssignFresh, Carries
    <3>2. OpenOn(b) = {}
      BY <1>4, <3>1 DEF Ledger, Out, Placing
    <3> QED
      BY <1>5, <2>1, <2>3, <2>4, <3>2 DEF StockAt, HalfDone
  <2>5. CASE l.op \in Returns
    <3>1. PICK g : g = l.assignment
      OBVIOUS
    <3>2. /\ g \in Assignments /\ assignment[g].asset = b
          /\ assignment[g].status \in {"active", "return_requested"}
          /\ job[j].entity.assignedEmployee = asset[b].assignedEmployee
      BY <1>1, <1>2, <1>8, <2>1, <2>5, <3>1
         DEF JobFresh, ReturnFresh, Carries, LocalsOK, Fits, Returns
    <3>3. g \in OpenOn(b)
      BY <3>2 DEF OpenOn, HistoryOf
    <3>4. HeldBy(b, g)
      BY <1>4, <3>3 DEF Ledger
    <3>5. HeldBy(b, g)'
      BY <1>2, <1>3, <1>5, <1>8, <3>2, <3>4 DEF HeldBy
    <3> QED
      BY <2>1, <2>3, <2>5, <3>1, <3>5 DEF StockAt, HalfDone, Returns
  <2> QED
    BY <2>2, <2>4, <2>5
<1> QED
  BY <1>6, <1>7, <1>8

LEMMA InsertStock ==
  ASSUME SystemInv, NEW j \in Jobs, JobFresh(job[j]),
         NEW g \in Assignments, InsertAssignment(j, g),
         NEW b \in Assets, StockAt(job[j], b)
  PROVE  StockAt(job[j], b)'
<1>1. /\ job[j].op = "assign" /\ job[j].pc = "found"
      /\ job[j].asset \in Assets /\ assignment[g].status = "absent"
      /\ \A h \in Assignments : h # g => assignment'[h] = assignment[h]
      /\ UNCHANGED asset
      /\ IF job[j].fulfils THEN Move(j, "inserted") ELSE Finish(j)
  BY InsertAlone
<1>2. PICK a : a = job[j].asset
  OBVIOUS
<1>3. /\ assignment'[g].status = "active" /\ assignment'[g].asset = a
      /\ assignment'[g].employee = job[j].employee
  <2>1. assignment'[g] = [status |-> "active", asset |-> job[j].asset,
                          employee |-> job[j].employee, request |-> job[j].request]
    BY InsertAlone
  <2> QED
    BY <1>2, <2>1
<1>4. job'[j].pc \in {"inserted", "idle"}
  BY <1>1, MovesOn, FinishedJob
<1>5. ~HalfDone(job'[j], b)
  BY <1>4 DEF HalfDone
<1>6. Ledger(b)'
  <2>1. CASE b = a
    <3>1. OpenOn(b) = {}
      BY <1>1, <1>2, <2>1 DEF StockAt, HalfDone
    <3>2. OpenOn(b)' = {g}
      BY <1>1, <1>3, <2>1, <3>1 DEF OpenOn, HistoryOf
    <3>3. asset[b].status = "in_use" /\ asset[b].assignedEmployee = job[j].employee
      BY <1>1, <1>2, <2>1 DEF JobFresh, AssignFresh
    <3> QED
      BY <1>1, <1>3, <3>2, <3>3 DEF Ledger, HeldBy, Out
  <2>2. CASE b # a
    <3>1. Untouched(b)
      BY <1>1, <1>3, <2>2 DEF Untouched, OpenOn, HistoryOf
    <3>2. Ledger(b)
      BY <1>2, <2>2 DEF StockAt, HalfDone
    <3> QED
      BY <3>1, <3>2, UntouchedKeeps
  <2> QED
    BY <2>1, <2>2
<1> QED
  BY <1>5, <1>6 DEF StockAt, HalfDone

LEMMA ReturnStock ==
  ASSUME SystemInv, NEW j \in Jobs, JobFresh(job[j]), WriteAssignment(j),
         NEW b \in Assets, StockAt(job[j], b)
  PROVE  StockAt(job[j], b)'
<1>1. PICK a, g, asked :
        a = job[j].asset /\ g = job[j].assignment /\ asked = (job[j].op = "request_return")
  OBVIOUS
<1>2. /\ job[j].op \in Returns /\ job[j].pc = "matched"
      /\ g \in Assignments /\ a \in Assets /\ assignment[g].asset = a
      /\ assignment[g].status = IF asked THEN "active" ELSE "return_requested"
      /\ assignment'[g].status = IF asked THEN "return_requested" ELSE "returned"
      /\ assignment'[g].asset = assignment[g].asset
      /\ assignment'[g].employee = assignment[g].employee
      /\ \A h \in Assignments : h # g => assignment'[h] = assignment[h]
      /\ UNCHANGED asset
  BY <1>1, ReturnAlone DEF ReturnStatus
<1>3. job'[j].pc = "done"
  BY MovesOn DEF WriteAssignment
<1>4. ~HalfDone(job'[j], b)
  BY <1>3 DEF HalfDone
<1>5. Ledger(b)'
  <2>1. CASE b = a
    <3>1. OpenOn(b) = {g} /\ asset[b].assignedEmployee = assignment[g].employee
      BY <1>1, <1>2, <2>1 DEF StockAt, HalfDone, HeldBy, Returns
    <3>2. asset[b].status = IF asked THEN "return_requested" ELSE "available"
      BY <1>1, <1>2, <2>1 DEF JobFresh, ReturnFresh
    <3>3. CASE asked
      <4>1. OpenOn(b)' = {g}
        BY <1>2, <2>1, <3>1, <3>3 DEF OpenOn, HistoryOf
      <4> QED
        BY <1>2, <3>1, <3>2, <3>3, <4>1 DEF Ledger, HeldBy, Out
    <3>4. CASE ~asked
      <4>1. OpenOn(b)' = {}
        BY <1>2, <2>1, <3>1, <3>4 DEF OpenOn, HistoryOf
      <4> QED
        BY <1>2, <3>2, <3>4, <4>1 DEF Ledger
    <3> QED
      BY <1>1, <3>3, <3>4
  <2>2. CASE b # a
    <3>1. Untouched(b)
      BY <1>2, <2>2 DEF Untouched, OpenOn, HistoryOf
    <3>2. Ledger(b)
      BY <1>1, <2>2 DEF StockAt, HalfDone
    <3> QED
      BY <3>1, <3>2, UntouchedKeeps
  <2> QED
    BY <2>1, <2>2
<1> QED
  BY <1>4, <1>5 DEF StockAt, HalfDone

LEMMA DeleteStock ==
  ASSUME SystemInv, NEW j \in Jobs, JobFresh(job[j]), Delete(j),
         NEW b \in Assets, StockAt(job[j], b)
  PROVE  StockAt(job[j], b)'
<1>1. AsFar(j)
  BY QuietMoves
<1>2. CASE asset'[b] = asset[b]
  <2>1. Untouched(b)
    BY <1>2 DEF Untouched, Delete
  <2> QED
    BY <1>1, <2>1, QuietStock
<1>3. CASE asset'[b] # asset[b]
  <2>1. /\ asset' = [asset EXCEPT ![b].status = "absent"]
        /\ HistoryOf(b) = {} /\ UNCHANGED assignment
    BY <1>3, RowsTyped DEF Delete, SystemInv
  <2>2. asset'[b].status = "absent"
    BY <2>1, RowsTyped DEF SystemInv, EquipmentAsset
  <2>3. OpenOn(b)' = {}
    BY <2>1 DEF OpenOn, HistoryOf
  <2>4. Ledger(b)'
    BY <2>2, <2>3 DEF Ledger
  <2>5. ~HalfDone(job'[j], b)
    BY FinishedJob DEF Delete, HalfDone
  <2> QED
    BY <2>4, <2>5 DEF StockAt, HalfDone
<1> QED
  BY <1>2, <1>3

LEMMA InventoryKeepsStock ==
  ASSUME ~Overlap, SystemInv, SystemSerial, StockInv, InventoryStep
  PROVE  StockInv'
<1>1. PICK j \in Jobs :
        /\ \/ /\ (AtRest /\ StartJob(j)) \/ ContinueJob(j)
              /\ apart' = apart \cup Belied(j)
           \/ CutOff(j) /\ apart' = apart \cup HalfSaved(j)
        /\ \A i \in Jobs \ {j} : job[i].pc = "idle" /\ job'[i] = job[i]
  BY InventoryTurn DEF SystemSerial
<1>2. JobFresh(job[j]) /\ job[j] \in Job /\ LocalsOK(job[j])
  BY RowsTyped DEF SystemSerial, JobsFresh, SystemInv
<1>3. ASSUME NEW b \in Assets \ apart' PROVE StockAt(job[j], b)'
  <2>1. StockAt(job[j], b)
    BY <1>1, <1>3, StockOfOne
  <2>0. ASSUME apart' = apart \cup Belied(j), job[j].op \in {"none", "save"},
               asset'[b].status # asset[b].status
        PROVE  Agrees(b)'
    BY <1>3, <2>0 DEF Belied
  <2>5. CASE CutOff(j) /\ apart' = apart \cup HalfSaved(j)
    <3>1. ~HalfDone(job[j], b)
      BY <1>3, <2>5 DEF HalfSaved, HalfDone
    <3>2. Untouched(b)
      BY <2>5 DEF CutOff, Untouched, tables
    <3>3. Ledger(b)'
      BY <2>1, <3>1, <3>2, UntouchedKeeps DEF StockAt
    <3>4. ~HalfDone(job'[j], b)
      BY <2>5, FinishedJob DEF CutOff, HalfDone
    <3> QED
      BY <3>3, <3>4 DEF StockAt, HalfDone
  <2>2. CASE UNCHANGED <<asset, assignment>> /\ AsFar(j)
    <3>1. Untouched(b)
      BY <2>2 DEF Untouched
    <3> QED
      BY <2>1, <2>2, <3>1, QuietStock
  <2>3. CASE AtRest /\ StartJob(j) /\ apart' = apart \cup Belied(j)
    <3>1. AsFar(j)
      BY <2>3, StartIsNotHalfway, NotHalfway
    <3>2. ASSUME NEW a \in Assets, NEW model \in Models,
                 NEW status \in Manual \cup {"available"}, CreateAsset(j, a, model, status)
          PROVE  StockAt(job[j], b)'
      <4>1. ~HalfDone(job[j], b) /\ ~HalfDone(job'[j], b)
        BY <2>3, StartIsNotHalfway DEF HalfDone, Halfway
      <4>2. Ledger(b)'
        <5>1. job[j].op = "none"
          BY <1>2, <2>3 DEF LocalsOK, Fits, AtRest
        <5>2. asset'[b].status # asset[b].status => Agrees(b)'
          BY <2>0, <2>3, <5>1
        <5> QED
          BY <2>1, <2>3, <3>2, <4>1, <5>2, CreateStock DEF StockAt
      <4> QED
        BY <4>1, <4>2 DEF StockAt, HalfDone
    <3>3. UNCHANGED <<asset, assignment>>
            \/ \E a \in Assets, model \in Models, status \in Manual \cup {"available"} :
                 CreateAsset(j, a, model, status)
      BY <2>3 DEF StartJob, Update, UpdateStatus, Retire, Load, Assign, FindRemovable,
         RequestReturn, CompleteReturn, LoadAssignment, tables
    <3> QED
      BY <2>2, <3>1, <3>2, <3>3
  <2>4. CASE ContinueJob(j) /\ apart' = apart \cup Belied(j)
    <3>1. ~InsertMissing(j)
      BY <1>2 DEF JobFresh, InsertMissing
    <3>2. CASE CompareAsset(j) \/ FindRequest(j) \/ FulfilRequest(j) \/ CountHistory(j)
                 \/ CompareAssignment(j) \/ NotifyHolder(j)
      <4>1. UNCHANGED <<asset, assignment>>
        BY <3>2 DEF CompareAsset, FindRequest, FulfilRequest, CountHistory,
           CompareAssignment, NotifyHolder, tables
      <4> QED
        BY <1>2, <2>2, <3>2, <4>1, QuietMoves
    <3>3. CASE WriteAsset(j)
      <4>1. job[j].op = "save" /\ asset'[b].status # asset[b].status => Agrees(b)'
        BY <2>0, <2>4
      <4> QED
        BY <1>2, <2>1, <3>3, <4>1, WriteStock
    <3> QED
      BY <1>2, <2>1, <2>4, <3>1, <3>2, <3>3, InsertStock, ReturnStock, DeleteStock
         DEF ContinueJob
  <2> QED
    BY <1>1, <2>3, <2>4, <2>5
<1>4. \A i \in Jobs \ {j} : job'[i].pc = "idle"
  BY <1>1
<1>5. \A i \in Jobs \ {j}, a \in Assets : ~HalfDone(job'[i], a)
  BY <1>4 DEF HalfDone
<1>6. PICK l : l = job'[j]
  OBVIOUS
<1>7. \A i \in Jobs, a \in Assets : HalfDone(job'[i], a) => i = j
  <2> HIDE DEF HalfDone
  <2> QED
    BY <1>5
<1>8. \A a \in Assets \ apart' : (HalfDone(l, a) => IF l.op = "assign" THEN OpenOn(a)' = {}
                                             ELSE HeldBy(a, l.assignment)')
                        /\ (~HalfDone(l, a) => Ledger(a)')
  BY <1>3, <1>6 DEF StockAt, HalfDone, HeldBy, OpenOn, HistoryOf, Ledger, Out
<1>9. \A a \in Assets \ apart' : (\A i \in Jobs : ~HalfDone(job'[i], a)) => Ledger(a)'
  <2> HIDE DEF HalfDone
  <2> QED
    BY <1>6, <1>8
<1>10. ASSUME NEW i \in Jobs, NEW a \in Assets \ apart', HalfDone(job[i], a)'
       PROVE  (IF job[i].op = "assign" THEN OpenOn(a) = {}
                                       ELSE HeldBy(a, job[i].assignment))'
  <2>1. HalfDone(l, a) /\ job'[i] = l
    <3>1. HalfDone(job'[i], a)
      BY <1>10 DEF HalfDone
    <3> QED
      BY <1>6, <1>7, <3>1
  <2>2. IF l.op = "assign" THEN OpenOn(a)' = {} ELSE HeldBy(a, l.assignment)'
    BY <1>8, <2>1
  <2> QED
    BY <2>1, <2>2 DEF HeldBy
<1>11. \A a \in Assets \ apart' : (\A i \in Jobs : ~HalfDone(job[i], a)') => Ledger(a)'
  BY <1>9 DEF HalfDone
<1> QED
  BY <1>10, <1>11 DEF StockInv

LEMMA WorkflowKeepsStock ==
  ASSUME ~Overlap, SystemInv, SystemInv', SystemSerial, StockInv, WorkflowStep
  PROVE  StockInv'
<1>1. PICK c \in Calls : AloneStep(c) /\ AtRest
  BY WorkflowTurn DEF SystemSerial
<1>2. RequestsInv /\ CallsFresh /\ UNCHANGED job
  BY DEF SystemInv, SystemSerial, WorkflowSerial, WorkflowStep
<1>3. AtRest'
  BY <1>1, <1>2 DEF AtRest
<1>4. ASSUME NEW b \in Assets \ apart PROVE Ledger(b)'
  <2>1. Ledger(b)
    BY <1>1, StockAtRest
  <2>2. CASE UNCHANGED <<asset, assignment>>
    <3>1. Untouched(b)
      BY <2>2 DEF Untouched
    <3> QED
      BY <2>1, <3>1, UntouchedKeeps
  <2>3. ASSUME NEW g \in Assignments, CommitLoanApproval(c, g)
        PROVE  Ledger(b)'
    <3>1. PICK a, u :
              /\ a \in Assets /\ asset[a].status = "available"
              /\ asset'[a].status = "in_use" /\ asset'[a].assignedEmployee = u
              /\ \A d \in Assets : d # a => asset'[d] = asset[d]
              /\ assignment[g].status = "absent"
              /\ assignment'[g].status = "active" /\ assignment'[g].asset = a
              /\ assignment'[g].employee = u
              /\ \A h \in Assignments : h # g => assignment'[h] = assignment[h]
      BY <1>2, <2>3, LoanAlone
    <3>2. CASE b = a
      <4>1. OpenOn(b) = {}
        BY <2>1, <3>1, <3>2 DEF Ledger, Out, Placing
      <4>2. OpenOn(b)' = {g}
        BY <3>1, <3>2, <4>1 DEF OpenOn, HistoryOf
      <4> QED
        BY <3>1, <3>2, <4>2 DEF Ledger, HeldBy, Out
    <3>3. CASE b # a
      <4>1. Untouched(b)
        BY <3>1, <3>3 DEF Untouched, OpenOn, HistoryOf
      <4> QED
        BY <2>1, <4>1, UntouchedKeeps
    <3> QED
      BY <3>2, <3>3
  <2> QED
    BY <1>1, <1>2, <2>2, <2>3, StockAlone
<1>5. SystemInv' /\ AtRest' => (StockInv' <=> \A a \in Assets \ apart : Ledger(a)')
  <2>1. apart' = apart
    BY DEF WorkflowStep
  <2> QED
    BY <1>3, <2>1 DEF StockInv, HalfDone, AtRest, Ledger, HeldBy, OpenOn, HistoryOf, Out
<1> QED
  BY <1>3, <1>4, <1>5

LEMMA StockKeeps ==
  ASSUME ~Overlap, SystemInv, SystemInv', SystemSerial, StockInv,
         [SystemNext]_systemVars
  PROVE  StockInv'
<1>1. CASE UNCHANGED systemVars
  BY <1>1 DEF systemVars, tables, StockInv, HalfDone, Ledger, HeldBy, OpenOn,
     HistoryOf, Out
<1>2. CASE WorkflowStep
  BY <1>2, WorkflowKeepsStock DEF WorkflowStep
<1>3. CASE InventoryStep
  BY <1>3, InventoryKeepsStock
<1> QED
  BY <1>1, <1>2, <1>3 DEF SystemNext

LEMMA SystemInitStock == SystemInit => StockInv
<1> SUFFICES ASSUME SystemInit PROVE StockInv
  OBVIOUS
<1>1. /\ asset \in [Assets -> {NoAsset}
                      \cup {[status |-> "available", model |-> m,
                             assignedEmployee |-> None, retiredAt |-> None] :
                              m \in Models}]
      /\ assignment = [g \in Assignments |-> NoAssignment]
      /\ job = [j \in Jobs |-> NoJob]
  BY DEF SystemInit, InventoryInit, TablesInit, StockInit
<1>2. \A a \in Assets : OpenOn(a) = {}
  BY <1>1 DEF OpenOn, HistoryOf, NoAssignment
<1>3. \A a \in Assets : asset[a].status \in {"absent", "available"}
  BY <1>1 DEF NoAsset
<1>4. \A a \in Assets : Ledger(a)
  BY <1>2, <1>3 DEF Ledger
<1>5. \A j \in Jobs, a \in Assets : ~HalfDone(job[j], a)
  BY <1>1 DEF HalfDone, NoJob
<1> HIDE DEF HalfDone
<1> QED
  BY <1>4, <1>5 DEF StockInv

\* What the ledger says of an asset when no handler of the inventory is half
\* way.
LEMMA StockTold ==
  ASSUME SystemInv, StockInv
  PROVE  StockAgrees
<1> SUFFICES ASSUME AtRest, NEW a \in Assets \ apart
             PROVE  /\ asset[a].status = "available" => OpenOn(a) = {}
                    /\ asset[a].status \in {"in_use", "return_requested"} =>
                         \E g \in Assignments :
                           /\ OpenOn(a) = {g}
                           /\ asset[a].assignedEmployee = assignment[g].employee
                           /\ (asset[a].status = "return_requested")
                                = (assignment[g].status = "return_requested")
  BY DEF StockAgrees, Agrees
<1>1. Ledger(a)
  BY StockAtRest
<1>2. \A g \in OpenOn(a) :
        g \in Assignments /\ assignment[g].status \in {"active", "return_requested"}
  BY DEF OpenOn, HistoryOf
<1> QED
  BY <1>1, <1>2 DEF Ledger, HeldBy, Out, Placing

\* With handlers that take turns, wherever they are cut off and whatever
\* statuses the staff set by hand, only a handler cut off between the two saves
\* and a status that the assignments belie leave an asset at odds with its
\* assignments: every other step of every handler keeps them in accord.
THEOREM StockAndHistoryAgree ==
  ASSUME ~Overlap
  PROVE  SystemSpec => []StockAgrees
<1>1. SystemInit => StockInv
  BY SystemInitStock
<1>2. SystemInv /\ SystemInv' /\ SystemSerial /\ StockInv
        /\ [SystemNext]_systemVars => StockInv'
  BY StockKeeps
<1>3. SystemInv /\ StockInv => StockAgrees
  BY StockTold
<1> QED
  BY <1>1, <1>2, <1>3, SystemInvariant, SystemIsSerial, PTL DEF SystemSpec

-----------------------------------------------------------------------------
(* The status flow of the documentation.                                   *)

\* No service uses the status approved.
NoneApproved == \A r \in Requests : request[r].status # "approved"

LEMMA ColumnsMove ==
  ASSUME SystemInv, NEW r \in Requests, NEW to, to # "absent",
         request[r].status # "absent",
         request' = [request EXCEPT ![r].status = to]
  PROVE  /\ Status' = [Status EXCEPT ![r] = to] /\ Type' = Type
         /\ Status[r] = request[r].status /\ Type[r] = request[r].type
<1>1. /\ request'[r].status = to /\ request'[r].type = request[r].type
      /\ \A q \in Requests : q # r => request'[q] = request[q]
  BY DEF SystemInv, RequestsInv, Refs, RequestsTypeOK, TablesTypeOK, EquipmentRequest
<1>2. \A q \in Requests : request'[q].status = [Status EXCEPT ![r] = to][q]
  BY <1>1 DEF Status
<1>3. \A q \in Requests :
        (IF request'[q].status = "absent" THEN None ELSE request'[q].type) =
        (IF request[q].status = "absent" THEN None ELSE request[q].type)
  BY <1>1
<1>4. Status' = [Status EXCEPT ![r] = to]
  BY <1>2 DEF Status
<1>5. Type' = Type
  BY <1>3 DEF Type
<1> QED
  BY <1>4, <1>5 DEF Status, Type

\* A step that changes the requests is one the documentation draws, or a
\* decision on a cancelled request.
LEMMA SubmitDrawn ==
  ASSUME SystemInv, NEW r \in Requests, NEW u \in Employees, NEW type \in RequestType,
         NEW model \in Models \cup {None}, Submits(r, u, type, model)
  PROVE  Lifecycle!Next
<1>1. /\ request[r].status = "absent"
      /\ request'[r].status = "pending_manager_approval" /\ request'[r].type = type
      /\ \A q \in Requests : q # r => request'[q] = request[q]
  BY DEF Submits, FreeRequests, NoRequest, SystemInv, RequestsInv, Refs,
     RequestsTypeOK, TablesTypeOK
<1>2. \A q \in Requests :
        /\ request'[q].status = [Status EXCEPT ![r] = "pending_manager_approval"][q]
        /\ (IF request'[q].status = "absent" THEN None ELSE request'[q].type)
             = [Type EXCEPT ![r] = type][q]
  BY <1>1 DEF Status, Type
<1>3. /\ Status' = [Status EXCEPT ![r] = "pending_manager_approval"]
      /\ Type' = [Type EXCEPT ![r] = type] /\ Status[r] = "absent"
  BY <1>1, <1>2 DEF Status, Type
<1>4. type \in {"loan", "procurement"}
  BY DEF RequestType
<1> QED
  BY <1>3, <1>4 DEF Status, Type, Lifecycle!Next, Lifecycle!Drawn, Lifecycle!Submit

LEMMA DecisionDrawn ==
  ASSUME SystemInv, WorkflowSerial, NoneApproved,
         NEW r \in Requests, NEW s \in Steps, Decides(s, r)
  PROVE  Lifecycle!Next
<1>1. PICK to \in RequestStatus :
        Outcome(s, to) /\ request' = [request EXCEPT ![r].status = to]
  BY DEF Decides
<1>2. step[s].status = "pending" /\ step[s].request = r
  BY DEF Decides
<1>3. to # "absent" /\ to # "cancelled"
  BY <1>1 DEF RequestStatus, Outcome
<1>4. request'[r].status = to
  BY <1>1 DEF SystemInv, RequestsInv, Refs, RequestsTypeOK, TablesTypeOK,
     EquipmentRequest
<1>5. /\ request[r].status \in {"pending_manager_approval",
                                "pending_procurement_approval", "cancelled"}
      /\ request[r].status = "pending_manager_approval" =>
           step[s].role = "direct_manager"
      /\ request[r].status = "pending_procurement_approval" =>
           step[s].role = "procurement_manager"
  BY <1>2, StageOfPending DEF SystemInv, WorkflowSerial, NoneApproved
<1>6. /\ Status' = [Status EXCEPT ![r] = to] /\ Type' = Type
      /\ Status[r] = request[r].status /\ Type[r] = request[r].type
  BY <1>1, <1>3, <1>5, ColumnsMove
<1>7. request[r].type \in {"loan", "procurement"}
  BY DEF SystemInv, RequestsInv, Refs, RequestsTypeOK, TablesTypeOK,
     EquipmentRequest, RequestType
<1>8. \/ to = "rejected"
      \/ /\ request[r].status \in {"pending_manager_approval", "cancelled"}
         /\ to = "pending_procurement_approval"
      \/ /\ request[r].status \in {"pending_procurement_approval", "cancelled"}
         /\ to = Lifecycle!Approval(Type[r])
  BY <1>1, <1>2, <1>5, <1>6, <1>7 DEF Outcome, Lifecycle!Approval
<1>9. PICK from : from = request[r].status
  OBVIOUS
<1>10. Lifecycle!Move(r, from, to)
  BY <1>6, <1>9 DEF Status, Type, Lifecycle!Move
<1>11. CASE from = "cancelled"
  <2>1. to \in {"rejected", "pending_procurement_approval", Lifecycle!Approval(Type[r])}
    BY <1>8
  <2> QED
    BY <1>10, <1>11, <2>1 DEF Type, Lifecycle!Next, Lifecycle!Revived, Lifecycle!Revive
<1>12. CASE to = "rejected" /\ from # "cancelled"
  BY <1>5, <1>9, <1>10, <1>12 DEF Lifecycle!Next, Lifecycle!Drawn, Lifecycle!Close
<1>13. CASE from = "pending_manager_approval" /\ to = "pending_procurement_approval"
  BY <1>10, <1>13 DEF Lifecycle!Next, Lifecycle!Drawn, Lifecycle!ManagerApproves
<1>14. CASE from = "pending_procurement_approval" /\ to = Lifecycle!Approval(Type[r])
  <2>1. Lifecycle!ProcurementApproves(r)
    BY <1>10, <1>14 DEF Type, Lifecycle!ProcurementApproves, Lifecycle!Move
  <2> QED
    BY <2>1 DEF Lifecycle!Next, Lifecycle!Drawn
<1> QED
  BY <1>8, <1>9, <1>11, <1>12, <1>13, <1>14

LEMMA CancelDrawn ==
  ASSUME SystemInv, NEW r \in Requests, Cancels(r)
  PROVE  Lifecycle!Next
<1>1. /\ Status' = [Status EXCEPT ![r] = "cancelled"] /\ Type' = Type
      /\ Status[r] = request[r].status
  BY ColumnsMove DEF Cancels, CANCELLABLE_REQUEST_STATUSES
<1>2. Status[r] \in {"pending_manager_approval", "pending_procurement_approval"}
  BY <1>1 DEF Cancels, CANCELLABLE_REQUEST_STATUSES
<1> QED
  BY <1>1, <1>2 DEF Status, Type, Lifecycle!Next, Lifecycle!Drawn, Lifecycle!Close,
     Lifecycle!Move

LEMMA FulfilDrawn ==
  ASSUME SystemInv, NEW j \in Jobs, JobFresh(job[j]), FulfilRequest(j)
  PROVE  Lifecycle!Next
<1>1. PICK r \in Requests : /\ request[r].status = "procurement_approved"
                            /\ request' = [request EXCEPT ![r].status = "fulfilled"]
  BY FulfilAlone
<1>2. /\ Status' = [Status EXCEPT ![r] = "fulfilled"] /\ Type' = Type
      /\ Status[r] = "procurement_approved"
  BY <1>1, ColumnsMove
<1> QED
  BY <1>2 DEF Status, Type, Lifecycle!Next, Lifecycle!Drawn, Lifecycle!Fulfil,
     Lifecycle!Move

LEMMA SystemDrawn ==
  ASSUME ~Overlap, SystemInv, SystemSerial, NoneApproved, SystemNext
  PROVE  Lifecycle!Next \/ UNCHANGED Lifecycle!lifecycleVars
<1>1. UNCHANGED request => UNCHANGED Lifecycle!lifecycleVars
  BY DEF Lifecycle!lifecycleVars
<1>2. CASE WorkflowStep
  <2>1. PICK c \in Calls : AloneStep(c)
    BY <1>2, WorkflowTurn DEF SystemSerial
  <2> QED
    BY <1>1, <2>1, StatusAlone, SubmitDrawn, DecisionDrawn, CancelDrawn
       DEF SystemInv, SystemSerial, WorkflowSerial
<1>3. CASE InventoryStep
  <2>1. PICK j \in Jobs : AloneJob(j)
    BY <1>3, InventoryTurn DEF SystemSerial
  <2>2. JobFresh(job[j])
    BY DEF SystemSerial, JobsFresh
  <2> QED
    BY <1>1, <2>1, <2>2, InventoryWrites, FulfilDrawn
<1> QED
  BY <1>2, <1>3 DEF SystemNext

LEMMA ApprovedUnused ==
  ASSUME ~Overlap, SystemInv, SystemSerial, NoneApproved, [SystemNext]_systemVars
  PROVE  NoneApproved'
<1> USE DEF SystemInv, RequestsInv, Refs, RequestsTypeOK, TablesTypeOK, NoneApproved
<1>1. CASE UNCHANGED request
  BY <1>1
<1>2. ASSUME NEW r \in Requests, NEW to, to # "approved",
             request' = [request EXCEPT ![r].status = to]
      PROVE  NoneApproved'
  BY <1>2 DEF EquipmentRequest
<1>3. CASE WorkflowStep
  <2>1. PICK c \in Calls : AloneStep(c)
    BY <1>3, WorkflowTurn DEF SystemSerial
  <2>2. ASSUME NEW r \in Requests, NEW u \in Employees, NEW type \in RequestType,
               NEW model \in Models \cup {None}, Submits(r, u, type, model)
        PROVE  NoneApproved'
    BY <2>2 DEF Submits
  <2>3. ASSUME NEW r \in Requests, NEW s \in Steps, Decides(s, r)
        PROVE  NoneApproved'
    BY <1>2, <2>3 DEF Decides, Outcome
  <2>4. ASSUME NEW r \in Requests, Cancels(r)
        PROVE  NoneApproved'
    BY <1>2, <2>4 DEF Cancels
  <2> QED
    BY <1>1, <2>1, <2>2, <2>3, <2>4, StatusAlone DEF SystemSerial, WorkflowSerial
<1>4. CASE InventoryStep
  <2>1. PICK j \in Jobs : AloneJob(j)
    BY <1>4, InventoryTurn DEF SystemSerial
  <2>2. JobFresh(job[j])
    BY DEF SystemSerial, JobsFresh
  <2>3. ASSUME FulfilRequest(j) PROVE NoneApproved'
    BY <1>2, <2>2, <2>3, FulfilAlone
  <2> QED
    BY <1>1, <2>1, <2>2, <2>3, InventoryWrites
<1> QED
  BY <1>1, <1>3, <1>4 DEF SystemNext, systemVars, tables

\* With handlers that take turns, wherever they are cut off, the requests go
\* through the statuses as the documentation draws them, except that one that
\* was cancelled may still be decided upon.
THEOREM SystemFollowsLifecycle ==
  ASSUME ~Overlap
  PROVE  SystemSpec => FollowsLifecycle
<1>1. SystemInit => NoneApproved /\ Lifecycle!Init
  <2> SUFFICES ASSUME SystemInit
               PROVE  NoneApproved /\ Lifecycle!Init
    OBVIOUS
  <2>1. request = [r \in Requests |-> NoRequest]
    BY DEF SystemInit, RequestsInit, TablesInit
  <2>2. \A r \in Requests : request[r].status = "absent"
    BY <2>1 DEF NoRequest
  <2> QED
    BY <2>2 DEF NoneApproved, Lifecycle!Init
<1>2. SystemInv /\ SystemSerial /\ NoneApproved /\ [SystemNext]_systemVars
        => NoneApproved'
  BY ApprovedUnused
<1>3. SystemInv /\ SystemSerial /\ NoneApproved /\ [SystemNext]_systemVars
        => [Lifecycle!Next]_(Lifecycle!lifecycleVars)
  <2>1. UNCHANGED systemVars => UNCHANGED Lifecycle!lifecycleVars
    BY DEF systemVars, tables, Lifecycle!lifecycleVars
  <2> QED
    BY <2>1, SystemDrawn
<1> QED
  BY <1>1, <1>2, <1>3, SystemInvariant, SystemIsSerial, PTL
     DEF SystemSpec, FollowsLifecycle, Lifecycle!Spec

=============================================================================
