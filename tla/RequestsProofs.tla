--------------------------- MODULE RequestsProofs ---------------------------
(***************************************************************************)
(* Proofs about Requests, for any number of requests, steps, assets,       *)
(* handlers in flight and any values of the bounds.                        *)
(***************************************************************************)
EXTENDS Requests, TLAPS

-----------------------------------------------------------------------------
(* The inductive invariant.                                                *)

\* A step belongs to a request that exists.
StepsBelong ==
  \A s \in Steps : step[s].status # "absent" =>
    /\ step[s].request \in Requests
    /\ request[step[s].request].status # "absent"

\* A handler in flight works on a request that exists, and a handler that
\* decides works on a step of that request.
Refers(c) ==
  /\ call[c].pc = "idle" <=> call[c].op = "none"
  /\ call[c].op # "none" =>
       /\ call[c].request \in Requests
       /\ request[call[c].request].status # "absent"
  /\ call[c].op = "cancel" =>
       call[c].pc \in {"loaded", "compared", "committed"}
  /\ call[c].op = "create" => call[c].pc = "committed"
  /\ call[c].op \in {"create", "approve", "reject"} =>
       /\ call[c].step \in Steps
       /\ step[call[c].step].status # "absent"
       /\ step[call[c].step].request = call[c].request

CallsRefer == \A c \in Calls : Refers(c)

\* What a transaction has read and will use in its commit.
RejectionReady(c) ==
  At(c, "reject", "ready") =>
    \A s \in call[c].siblings :
      /\ s # call[c].step
      /\ step[s].status # "absent"
      /\ step[s].request = call[c].request

LoanReady(c) ==
  At(c, "approve", "ready") =>
    /\ call[c].asset \in Assets
    /\ asset[call[c].asset].model = request[call[c].request].model
    /\ step[call[c].step].role = "procurement_manager"
    /\ request[call[c].request].type = "loan"

\* A save that leaves the decided step's status alone found it decided.
DecisionReady(c) ==
  call[c].pc \in {"reloaded", "locked", "ready"} /\ ~call[c].dirty =>
    step[call[c].step].status # "pending"

\* A cancel in flight knows assignment g as one of its request.
Names(c, g) ==
  /\ call[c].op = "cancel" /\ call[c].pc \in {"loaded", "compared"}
  /\ g \in call[c].links \cup call[c].relinks

\* What a cancel knows, unlinks and links again are assignments of its own
\* request, or of none since.
LinksReady(c) ==
  \A g \in Assignments : Names(c, g) =>
    /\ assignment[g].status # "absent"
    /\ assignment[g].request \in {call[c].request, None}

CallReady(c) ==
  RejectionReady(c) /\ LoanReady(c) /\ DecisionReady(c) /\ LinksReady(c)

CallsReady == \A c \in Calls : CallReady(c)

\* No assignment is known to cancels of two requests.
NamedOnce ==
  \A c, d \in Calls, g \in Assignments :
    Names(c, g) /\ Names(d, g) => call[c].request = call[d].request

\* g stays linked to r whatever the cancels about to write do, unless they
\* set the status as well.
Survives(g, r) ==
  \A c \in Calls :
    At(c, "cancel", "compared") /\ call[c].request = r /\ ~call[c].dirty =>
      g \notin call[c].links

\* g backs the loan r for as long as that stays fulfilled.
Witness(g, r) ==
  /\ g \in AssignmentsOf(r)
  /\ assignment[g].asset \in Assets
  /\ Backs(g, r) /\ Survives(g, r)

FulfilledLoan(r) == request[r].status = "fulfilled" /\ request[r].type = "loan"

FulfilmentSurvives ==
  \A r \in Requests :
    FulfilledLoan(r) => \E g \in Assignments : Witness(g, r)

Refs == RequestsTypeOK /\ StepsBelong /\ CallsRefer

RequestsInv ==
  /\ Refs
  /\ CallsReady
  /\ NamedOnce
  /\ StatusIsExplained
  /\ ProcurementFollowsManager
  /\ FulfilmentSurvives

-----------------------------------------------------------------------------
(* Every step of the system keeps the types.                               *)

\* The initial tables and the idle slots are of their types.
LEMMA InitTypeOK == RequestsInit => Refs
<1> SUFFICES ASSUME RequestsInit PROVE Refs
  OBVIOUS
<1> USE DEF RequestsInit, TablesInit, StockInit
<1>1. TablesTypeOK
  BY DEF TablesTypeOK, EquipmentRequest, ApprovalStep, EquipmentAsset,
    EquipmentAssignment, NoRequest, NoStep, NoAsset, NoAssignment,
    RequestType, ApprovalRole, EquipmentAssetStatus, RetiredAt
<1>2. call \in [Calls -> Call]
  BY DEF Call, NoCall, RetiredAt
<1>3. StepsBelong
  BY DEF StepsBelong, NoStep
<1>4. CallsRefer
  BY DEF CallsRefer, Refers, NoCall
<1> QED
  BY <1>1, <1>2, <1>3, <1>4 DEF Refs, RequestsTypeOK

\* A handler's locals keep their type, whatever the action.
LEMMA CallTypeOK ==
  ASSUME RequestsTypeOK, [RequestsNext]_requestVars
  PROVE  call' \in [Calls -> Call]
<1> USE DEF RequestsTypeOK, TablesTypeOK
<1>1. \A c \in Calls : Return(c) => call' \in [Calls -> Call]
  BY DEF Return, NoCall, Call, RetiredAt
<1>2. ASSUME NEW c \in Calls, NEW pc \in {"read", "locked", "committed"},
             Goto(c, pc)
      PROVE  call' \in [Calls -> Call]
  <2>1. [call[c] EXCEPT !.pc = pc] \in Call
    BY DEF Call
  <2>2. call' = [call EXCEPT ![c] = [call[c] EXCEPT !.pc = pc]]
    BY <1>2 DEF Goto
  <2> QED
    BY <2>1, <2>2
<1>3. CASE UNCHANGED requestVars
  BY <1>3 DEF requestVars
<1>4. ASSUME NEW c \in Calls, Arrive(c)
      PROVE  call' \in [Calls -> Call]
  <2>1. ASSUME NEW u \in Employees, NEW r \in Requests, NEW s \in Steps,
               NEW type \in RequestType, NEW model \in Models \cup {None},
               NEW manager \in Managers,
               Create(c, u, r, s, type, model, manager)
        PROVE  call' \in [Calls -> Call]
    BY <2>1 DEF Create, Call, NoCall, RetiredAt
  <2>2. ASSUME NEW op \in {"approve", "reject"}, NEW s \in Steps,
               NEW user \in Employees, Check(c, op, s, user)
        PROVE  call' \in [Calls -> Call]
    <3>1. step[s].request \in Requests \cup {None}
      BY DEF ApprovalStep
    <3> QED
      BY <2>2, <3>1 DEF Check, Call, NoCall, RetiredAt
  <2>3. ASSUME NEW r \in Requests, NEW user \in Employees,
               CancelRead(c, r, user)
        PROVE  call' \in [Calls -> Call]
    BY <2>3 DEF CancelRead, Call, NoCall, StepsOf, AssignmentsOf, RetiredAt
  <2> QED
    BY <1>4, <2>1, <2>2, <2>3 DEF Arrive
<1>5. ASSUME NEW c \in Calls, Proceed(c)
      PROVE  call' \in [Calls -> Call]
  <2>1. CASE ReadFreshStep(c)
    BY <2>1, <1>1, <1>2 DEF ReadFreshStep
  <2>2. CASE ReloadStep(c)
    <3> DEFINE local == [call[c] EXCEPT !.pc = "reloaded",
                           !.dirty = (step[call[c].step].status # Target(c))]
    <3>1. local \in Call
      BY DEF Call
    <3>2. call' = [call EXCEPT ![c] = local]
      BY <2>2 DEF ReloadStep
    <3> QED
      BY <3>1, <3>2
  <2>3. CASE LockStep(c)
    BY <2>3, <1>2 DEF LockStep
  <2>4. CASE FindPendingSteps(c)
    <3> DEFINE local == [call[c] EXCEPT !.pc = "ready", !.siblings =
                           PendingStepsOf(call[c].request) \ {call[c].step}]
    <3>1. local \in Call
      BY DEF Call, PendingStepsOf, StepsOf
    <3>2. call' = [call EXCEPT ![c] = local]
      BY <2>4 DEF FindPendingSteps
    <3> QED
      BY <3>1, <3>2
  <2>5. CASE FindAvailableAsset(c)
    <3>1. ASSUME NEW a \in AvailableAssets(request[call[c].request].model),
                 call' = [call EXCEPT ![c].pc = "ready", ![c].asset = a,
                                      ![c].retired = asset[a].retiredAt]
          PROVE  call' \in [Calls -> Call]
      <4> DEFINE local == [call[c] EXCEPT !.pc = "ready", !.asset = a,
                             !.retired = asset[a].retiredAt]
      <4>1. a \in Assets /\ asset[a].retiredAt \in RetiredAt
        BY DEF AvailableAssets, EquipmentAsset
      <4>2. local \in Call
        BY <4>1 DEF Call
      <4>3. call' = [call EXCEPT ![c] = local]
        BY <3>1
      <4> QED
        BY <4>2, <4>3
    <3> QED
      BY <2>5, <1>1, <3>1 DEF FindAvailableAsset
  <2>6. CASE CommitRejection(c)
    BY <2>6, <1>2 DEF CommitRejection
  <2>7. CASE \E n \in Steps, p \in ProcurementManagers :
               CommitManagerApproval(c, n, p)
    BY <2>7, <1>2 DEF CommitManagerApproval
  <2>8. CASE NoProcurementManager(c)
    BY <2>8, <1>1 DEF NoProcurementManager
  <2>9. CASE CommitProcurementApproval(c)
    BY <2>9, <1>2 DEF CommitProcurementApproval
  <2>10. CASE \E g \in Assignments : CommitLoanApproval(c, g)
    BY <2>10, <1>2 DEF CommitLoanApproval
  <2>11. CASE CancelReload(c)
    <3> DEFINE r == call[c].request
               local == [call[c] EXCEPT !.pc = "compared",
                           !.links = AssignmentsOf(r) \ call[c].links,
                           !.relinks = call[c].links \ AssignmentsOf(r),
                           !.dirty = (request[r].status # "cancelled")]
    <3>1. local \in Call
      BY DEF Call, AssignmentsOf
    <3>2. Return(c) \/ call' = [call EXCEPT ![c] = local]
      BY <2>11 DEF CancelReload
    <3> QED
      BY <3>1, <3>2, <1>1
  <2>12. CASE CommitCancel(c)
    BY <2>12, <1>2 DEF CommitCancel
  <2>13. CASE Notify(c)
    BY <2>13, <1>1 DEF Notify
  <2>14. CASE DeadlockVictim(c)
    BY <2>14, <1>1 DEF DeadlockVictim
  <2> QED
    BY <1>5, <2>1, <2>2, <2>3, <2>4, <2>5, <2>6, <2>7, <2>8, <2>9, <2>10,
      <2>11, <2>12, <2>13, <2>14 DEF Proceed
<1>6. ASSUME NEW c \in Calls, Interrupt(c)
      PROVE  call' \in [Calls -> Call]
  BY <1>6, <1>1 DEF Interrupt
<1> QED
  BY <1>3, <1>4, <1>5, <1>6 DEF RequestsNext

-----------------------------------------------------------------------------
(* What no step does to a row: it never deletes one, never changes what a  *)
(* row refers to, and never makes a decided step pending again.            *)

RowsKeep ==
  /\ \A r \in Requests : request[r].status # "absent" =>
       /\ request'[r].status # "absent"
       /\ request'[r].type = request[r].type
       /\ request'[r].requester = request[r].requester
       /\ request'[r].model = request[r].model
  /\ \A s \in Steps : step[s].status # "absent" =>
       /\ step'[s].status # "absent"
       /\ step'[s].request = step[s].request
       /\ step'[s].role = step[s].role
       /\ step[s].status # "pending" => step'[s].status # "pending"
  /\ \A a \in Assets : asset'[a].model = asset[a].model
  /\ \A g \in Assignments : assignment[g].status # "absent" =>
       /\ assignment'[g].status # "absent"
       /\ assignment'[g].asset = assignment[g].asset
       /\ assignment'[g].employee = assignment[g].employee
       /\ \/ assignment'[g].request \in {assignment[g].request, None}
          \/ \E c \in Calls :
               Names(c, g) /\ assignment'[g].request = call[c].request

\* A decision changes the status of the step it decides and nothing else.
LEMMA DecidedOK ==
  ASSUME RequestsTypeOK, NEW c \in Calls, Refers(c),
         call[c].op \in {"approve", "reject"}
  PROVE  /\ Decided(c) \in [Steps -> ApprovalStep]
         /\ \A s \in Steps :
              /\ Decided(c)[s].request = step[s].request
              /\ Decided(c)[s].role = step[s].role
              /\ Decided(c)[s].approver = step[s].approver
              /\ Decided(c)[s].status = "absent" <=> step[s].status = "absent"
              /\ step[s].status # "pending" => Decided(c)[s].status # "pending"
              /\ s # call[c].step => Decided(c)[s] = step[s]
<1> USE DEF RequestsTypeOK, TablesTypeOK
<1>1. call[c].step \in Steps /\ step[call[c].step].status # "absent"
  BY DEF Refers
<1>2. Target(c) \in {"approved", "rejected"}
  BY DEF Target
<1>3. CASE ~call[c].dirty
  BY <1>3 DEF Decided
<1>4. CASE call[c].dirty
  <2>1. Decided(c) = [step EXCEPT ![call[c].step].status = Target(c)]
    BY <1>4 DEF Decided
  <2>2. Decided(c) \in [Steps -> ApprovalStep]
    BY <1>1, <1>2, <2>1 DEF ApprovalStep, ApprovalStepStatus
  <2> QED
    BY <1>1, <1>2, <2>1, <2>2 DEF ApprovalStep
<1> QED
  BY <1>3, <1>4 DEF Call

\* The notices a handler may send are well formed.
LEMMA NoticesOK ==
  ASSUME RequestsTypeOK, NEW c \in Calls, call[c].op # "none",
         call[c].request \in Requests,
         call[c].op = "create" => call[c].step \in Steps,
         NEW sent \in Notices(c, call[c].request)
  PROVE  sent \subseteq Notification
<1> USE DEF RequestsTypeOK, TablesTypeOK
<1> DEFINE r == call[c].request
<1>1. r \in Requests /\ request[r].requester \in Employees \cup {None}
  BY DEF EquipmentRequest
<1>2. \A s \in Steps : step[s].approver \in Employees \cup {None}
  BY DEF ApprovalStep
<1>3. \A to \in Employees \cup {None}, type \in NotificationType :
        Notice(to, type, r) \in Notification
  BY <1>1 DEF Notice, Notification
<1>4. call[c].op \in {"create", "cancel", "reject", "approve"}
  BY DEF Call
<1>5. CASE call[c].op = "create"
  <2>1. call[c].step \in Steps
    BY <1>5
  <2>2. sent = {Notice(step[call[c].step].approver, "approval_required", r)}
    BY <1>5 DEF Notices
  <2> QED
    BY <2>1, <2>2, <1>2, <1>3 DEF NotificationType
<1>6. CASE call[c].op = "cancel"
  <2>1. sent = {Notice(request[r].requester, "request_cancelled", r)}
    BY <1>6 DEF Notices
  <2> QED
    BY <2>1, <1>1, <1>3 DEF NotificationType
<1>7. CASE call[c].op = "reject"
  <2>1. sent = {Notice(request[r].requester, "request_rejected", r)}
    BY <1>7 DEF Notices
  <2> QED
    BY <2>1, <1>1, <1>3 DEF NotificationType
<1>8. CASE call[c].op = "approve"
  <2>1. \/ sent \in ApprovalNotices(r)
        \/ sent = {Notice(request[r].requester, "procurement_approved", r)}
        \/ sent = FulfilmentNotices(r)
    BY <1>8 DEF Notices
  <2>2. ASSUME sent \in ApprovalNotices(r)
        PROVE  sent \subseteq Notification
    <3>1. Notice(request[r].requester, "request_update", r) \in Notification
      BY <1>1, <1>3 DEF NotificationType
    <3>2. \A s \in Steps :
            Notice(step[s].approver, "approval_required", r) \in Notification
      BY <1>2, <1>3 DEF NotificationType
    <3> QED
      BY <2>2, <3>1, <3>2 DEF ApprovalNotices, PendingStepsOf, StepsOf
  <2>3. FulfilmentNotices(r) \subseteq Notification
    BY <1>1, <1>3 DEF FulfilmentNotices, NotificationType
  <2>4. Notice(request[r].requester, "procurement_approved", r)
          \in Notification
    BY <1>1, <1>3 DEF NotificationType
  <2> QED
    BY <2>1, <2>2, <2>3, <2>4
<1> QED
  BY <1>4, <1>5, <1>6, <1>7, <1>8

\* Every step keeps the tables typed and the rows in place.
LEMMA MoverTables ==
  ASSUME RequestsTypeOK, NEW c \in Calls, Refers(c),
         Arrive(c) \/ Proceed(c) \/ Interrupt(c)
  PROVE  TablesTypeOK' /\ RowsKeep
<1> USE DEF RequestsTypeOK, TablesTypeOK
<1>1. ASSUME UNCHANGED tables
      PROVE  TablesTypeOK' /\ RowsKeep
  BY <1>1 DEF tables, RowsKeep
<1>2. ASSUME NEW u \in Employees, NEW r \in Requests, NEW s \in Steps,
             NEW type \in RequestType, NEW model \in Models \cup {None},
             NEW manager \in Managers,
             Create(c, u, r, s, type, model, manager)
      PROVE  TablesTypeOK' /\ RowsKeep
  <2>1. manager \in Employees
    BY EmployeeAssumption
  <2>2. request' \in [Requests -> EquipmentRequest]
    BY <1>2 DEF Create, EquipmentRequest, RequestStatus
  <2>3. step' \in [Steps -> ApprovalStep]
    BY <1>2, <2>1 DEF Create, ApprovalStep, ApprovalStepStatus, ApprovalRole
  <2> QED
    BY <1>2, <2>2, <2>3 DEF Create, RowsKeep, FreeRequests, NoRequest,
                             FreeSteps, NoStep
<1>3. ASSUME CommitRejection(c)
      PROVE  TablesTypeOK' /\ RowsKeep
  <2>1. call[c].op = "reject" /\ call[c].request \in Requests
    BY <1>3 DEF CommitRejection, At, Refers
  <2>2. \A s \in Steps : step'[s] =
          IF s \in call[c].siblings THEN [step[s] EXCEPT !.status = "skipped"]
                                    ELSE Decided(c)[s]
    BY <1>3 DEF CommitRejection
  <2>3. request' = [request EXCEPT ![call[c].request].status = "rejected"]
    BY <1>3 DEF CommitRejection
  <2>4. request' \in [Requests -> EquipmentRequest]
    BY <2>3 DEF EquipmentRequest, RequestStatus
  <2>5. \A s \in Steps : [step[s] EXCEPT !.status = "skipped"] \in ApprovalStep
    BY DEF ApprovalStep, ApprovalStepStatus
  <2>6. DOMAIN step' = Steps /\ step' = [s \in Steps |-> step'[s]]
    BY <1>3 DEF CommitRejection
  <2>7. step' \in [Steps -> ApprovalStep]
    BY <2>1, <2>2, <2>5, <2>6, DecidedOK
  <2>8. \A s \in Steps : step[s].status # "absent" =>
          /\ step'[s].status # "absent"
          /\ step'[s].request = step[s].request
          /\ step'[s].role = step[s].role
          /\ step[s].status # "pending" => step'[s].status # "pending"
    <3> SUFFICES ASSUME NEW s \in Steps, step[s].status # "absent"
                 PROVE  /\ step'[s].status # "absent"
                        /\ step'[s].request = step[s].request
                        /\ step'[s].role = step[s].role
                        /\ step[s].status # "pending" =>
                             step'[s].status # "pending"
      OBVIOUS
    <3>1. CASE s \in call[c].siblings
      <4>1. step'[s] = [step[s] EXCEPT !.status = "skipped"]
        BY <2>2, <3>1
      <4>2. step[s] \in ApprovalStep
        OBVIOUS
      <4>3. /\ step'[s].status = "skipped"
            /\ step'[s].request = step[s].request
            /\ step'[s].role = step[s].role
        BY <4>1, <4>2, Zenon DEF ApprovalStep
      <4> QED
        BY <4>3
    <3>2. CASE s \notin call[c].siblings
      <4>1. step'[s] = Decided(c)[s]
        BY <2>2, <3>2
      <4>2. /\ Decided(c)[s].request = step[s].request
            /\ Decided(c)[s].role = step[s].role
            /\ Decided(c)[s].status # "absent"
            /\ step[s].status # "pending" =>
                 Decided(c)[s].status # "pending"
        BY <2>1, DecidedOK
      <4> QED
        BY <4>1, <4>2
    <3> QED
      BY <3>1, <3>2
  <2>9. UNCHANGED <<asset, assignment, notice>>
    BY <1>3 DEF CommitRejection
  <2>10. \A q \in Requests : /\ request'[q].type = request[q].type
                             /\ request'[q].requester = request[q].requester
                             /\ request'[q].model = request[q].model
                             /\ request[q].status # "absent" =>
                                  request'[q].status # "absent"
    BY <2>1, <2>3 DEF EquipmentRequest
  <2> QED
    BY <2>4, <2>7, <2>8, <2>9, <2>10 DEF RowsKeep
<1>4. ASSUME NEW n \in Steps, NEW p \in ProcurementManagers,
             CommitManagerApproval(c, n, p)
      PROVE  TablesTypeOK' /\ RowsKeep
  <2>1. call[c].op = "approve" /\ call[c].request \in Requests
    BY <1>4 DEF CommitManagerApproval, At, Refers
  <2>2. p \in Employees
    BY EmployeeAssumption
  <2>3. step' = [Decided(c) EXCEPT ![n] =
          [status |-> "pending", request |-> call[c].request,
           role |-> "procurement_manager", approver |-> p]]
    BY <1>4 DEF CommitManagerApproval
  <2>4. step[n].status = "absent"
    BY <1>4 DEF CommitManagerApproval, FreeSteps, NoStep
  <2>5. step' \in [Steps -> ApprovalStep]
    BY <2>1, <2>2, <2>3, DecidedOK
      DEF ApprovalStep, ApprovalStepStatus, ApprovalRole
  <2>6. \A s \in Steps : step[s].status # "absent" =>
          /\ step'[s].status # "absent"
          /\ step'[s].request = step[s].request
          /\ step'[s].role = step[s].role
          /\ step[s].status # "pending" => step'[s].status # "pending"
    BY <2>1, <2>3, <2>4, DecidedOK
  <2>7. request' = [request EXCEPT
          ![call[c].request].status = "pending_procurement_approval"]
    BY <1>4 DEF CommitManagerApproval
  <2>8. request' \in [Requests -> EquipmentRequest]
    BY <2>7 DEF EquipmentRequest, RequestStatus
  <2>9. \A q \in Requests : /\ request'[q].type = request[q].type
                            /\ request'[q].requester = request[q].requester
                            /\ request'[q].model = request[q].model
                            /\ request[q].status # "absent" =>
                                 request'[q].status # "absent"
    BY <2>1, <2>7 DEF EquipmentRequest
  <2>10. UNCHANGED <<asset, assignment, notice>>
    BY <1>4 DEF CommitManagerApproval
  <2> QED
    BY <2>5, <2>6, <2>8, <2>9, <2>10 DEF RowsKeep
<1>5. ASSUME CommitProcurementApproval(c)
      PROVE  TablesTypeOK' /\ RowsKeep
  <2>1. call[c].op = "approve" /\ call[c].request \in Requests
    BY <1>5 DEF CommitProcurementApproval, At, Refers
  <2>2. step' = Decided(c)
    BY <1>5 DEF CommitProcurementApproval
  <2>3. request' = [request EXCEPT
          ![call[c].request].status = "procurement_approved"]
    BY <1>5 DEF CommitProcurementApproval
  <2>4. request' \in [Requests -> EquipmentRequest]
    BY <2>3 DEF EquipmentRequest, RequestStatus
  <2>5. \A q \in Requests : /\ request'[q].type = request[q].type
                            /\ request'[q].requester = request[q].requester
                            /\ request'[q].model = request[q].model
                            /\ request[q].status # "absent" =>
                                 request'[q].status # "absent"
    BY <2>1, <2>3 DEF EquipmentRequest
  <2>6. UNCHANGED <<asset, assignment, notice>>
    BY <1>5 DEF CommitProcurementApproval
  <2> QED
    BY <2>1, <2>2, <2>4, <2>5, <2>6, DecidedOK DEF RowsKeep
<1>6. ASSUME NEW g \in Assignments, CommitLoanApproval(c, g)
      PROVE  TablesTypeOK' /\ RowsKeep
  <2> DEFINE r == call[c].request
             a == call[c].asset
  <2>1. call[c].op = "approve" /\ r \in Requests /\ a \in Assets \cup {None}
    BY <1>6 DEF CommitLoanApproval, At, Refers, Call
  <2>2. request[r].requester \in Employees \cup {None}
    BY <2>1 DEF EquipmentRequest
  <2>3. step' = Decided(c) /\ UNCHANGED notice
    BY <1>6 DEF CommitLoanApproval
  <2>4. request' = [request EXCEPT ![r].status = "fulfilled"]
    BY <1>6 DEF CommitLoanApproval
  <2>5. request' \in [Requests -> EquipmentRequest]
    BY <2>4 DEF EquipmentRequest, RequestStatus
  <2>6. \A q \in Requests : /\ request'[q].type = request[q].type
                            /\ request'[q].requester = request[q].requester
                            /\ request'[q].model = request[q].model
                            /\ request[q].status # "absent" =>
                                 request'[q].status # "absent"
    BY <2>1, <2>4 DEF EquipmentRequest
  <2>7. asset' = [asset EXCEPT ![a].status = "in_use",
                    ![a].assignedEmployee = request[r].requester,
                    ![a].retiredAt = call[c].retired]
    BY <1>6 DEF CommitLoanApproval
  <2>8. asset' \in [Assets -> EquipmentAsset]
    <3>1. call[c].retired \in RetiredAt
      BY DEF Call
    <3> QED
      BY <2>2, <2>7, <3>1 DEF EquipmentAsset, EquipmentAssetStatus
  <2>9. \A b \in Assets : asset'[b].model = asset[b].model
    BY <2>7 DEF EquipmentAsset
  <2>10. assignment' = [assignment EXCEPT ![g] =
           [status |-> "active", asset |-> a,
            employee |-> request[r].requester, request |-> r]]
    BY <1>6 DEF CommitLoanApproval
  <2>11. assignment[g].status = "absent"
    BY <1>6 DEF CommitLoanApproval, FreeAssignments, NoAssignment
  <2>12. assignment' \in [Assignments -> EquipmentAssignment]
    BY <2>1, <2>2, <2>10 DEF EquipmentAssignment, EquipmentAssignmentStatus
  <2>13. \A h \in Assignments : assignment[h].status # "absent" =>
           assignment'[h] = assignment[h]
    BY <2>10, <2>11
  <2> QED
    BY <2>1, <2>3, <2>5, <2>6, <2>8, <2>9, <2>12, <2>13, DecidedOK
      DEF RowsKeep
<1>7. ASSUME CommitCancel(c)
      PROVE  TablesTypeOK' /\ RowsKeep
  <2> DEFINE r == call[c].request
             cancelled == IF call[c].dirty THEN "cancelled"
                                           ELSE request[r].status
  <2>1. r \in Requests /\ request[r].status # "absent"
    BY <1>7 DEF CommitCancel, At, Refers
  <2>2. request' = [request EXCEPT ![r].status = cancelled]
    BY <1>7 DEF CommitCancel
  <2>3. request' \in [Requests -> EquipmentRequest]
    BY <2>1, <2>2 DEF EquipmentRequest, RequestStatus
  <2>4. \A q \in Requests : /\ request'[q].type = request[q].type
                            /\ request'[q].requester = request[q].requester
                            /\ request'[q].model = request[q].model
                            /\ request[q].status # "absent" =>
                                 request'[q].status # "absent"
    BY <2>1, <2>2 DEF EquipmentRequest
  <2>5. assignment' = Linked(c) /\ call[c].op = "cancel" /\ call[c].pc = "compared"
    BY <1>7 DEF CommitCancel, At
  <2>6. assignment' \in [Assignments -> EquipmentAssignment]
    BY <2>1, <2>5 DEF Linked, EquipmentAssignment
  <2>7. \A g \in Assignments :
          /\ assignment'[g].status = assignment[g].status
          /\ assignment'[g].asset = assignment[g].asset
          /\ assignment'[g].employee = assignment[g].employee
          /\ \/ assignment'[g].request \in {assignment[g].request, None}
             \/ Names(c, g) /\ assignment'[g].request = r
    BY <2>5 DEF Linked, Names, EquipmentAssignment
  <2>8. UNCHANGED <<step, asset, notice>>
    BY <1>7 DEF CommitCancel
  <2> QED
    BY <2>3, <2>4, <2>6, <2>7, <2>8 DEF RowsKeep
<1>8. ASSUME Notify(c)
      PROVE  TablesTypeOK' /\ RowsKeep
  <2>1. call[c].op # "none"
    BY <1>8 DEF Notify
  <2>2. notice' \subseteq Notification
    BY <1>8, <2>1, NoticesOK DEF Notify, Refers
  <2> QED
    BY <1>8, <2>2 DEF Notify, RowsKeep
<1> QED
  BY <1>1, <1>2, <1>3, <1>4, <1>5, <1>6, <1>7, <1>8
    DEF Arrive, Proceed, Check, CancelRead, ReadFreshStep, ReloadStep,
      LockStep, FindPendingSteps, FindAvailableAsset, NoProcurementManager,
      CancelReload, DeadlockVictim, Interrupt

LEMMA TablesStep ==
  ASSUME Refs, [RequestsNext]_requestVars
  PROVE  TablesTypeOK' /\ RowsKeep
<1>1. CASE UNCHANGED requestVars
  BY <1>1 DEF requestVars, tables, Refs, RequestsTypeOK, TablesTypeOK, RowsKeep
<1>2. ASSUME NEW c \in Calls, Arrive(c) \/ Proceed(c) \/ Interrupt(c)
      PROVE  TablesTypeOK' /\ RowsKeep
  BY <1>2, MoverTables DEF Refs, CallsRefer
<1> QED
  BY <1>1, <1>2 DEF RequestsNext

-----------------------------------------------------------------------------
(* Every step keeps the references of the handlers in flight.              *)

\* A handler that does not move keeps its references, and so does one that
\* only advances within its operation.
LEMMA RefersKept ==
  ASSUME RowsKeep, NEW c \in Calls, Refers(c),
         call'[c].op = call[c].op, call'[c].request = call[c].request,
         call'[c].step = call[c].step,
         \/ call'[c].pc = call[c].pc
         \/ call[c].op \in {"approve", "reject"} /\ call'[c].pc # "idle"
         \/ call[c].op = "cancel" /\ call'[c].pc \in {"compared", "committed"}
  PROVE  Refers(c)'
BY DEF Refers, RowsKeep

\* A handler that has ended refers to nothing.
LEMMA RefersIdle ==
  ASSUME RequestsTypeOK, NEW c \in Calls, Return(c)
  PROVE  Refers(c)'
BY DEF Return, NoCall, Refers, RequestsTypeOK

\* Only the handler that takes the step moves.
LEMMA OneHandlerMoves ==
  ASSUME RequestsTypeOK, NEW c \in Calls,
         Arrive(c) \/ Proceed(c) \/ Interrupt(c)
  PROVE  \A d \in Calls \ {c} : call'[d] = call[d]
<1> USE DEF RequestsTypeOK
<1>1. CASE Arrive(c)
  BY <1>1 DEF Arrive, Create, Check, CancelRead
<1>2. CASE Proceed(c)
  BY <1>2 DEF Proceed, ReadFreshStep, ReloadStep, LockStep, FindPendingSteps,
    FindAvailableAsset, CommitRejection, CommitManagerApproval,
    NoProcurementManager, CommitProcurementApproval, CommitLoanApproval,
    CancelReload, CommitCancel, Notify, DeadlockVictim, Goto, Return
<1>3. CASE Interrupt(c)
  BY <1>3 DEF Interrupt, Return
<1> QED
  BY <1>1, <1>2, <1>3

\* The handler that takes the step keeps or acquires its references.
LEMMA MoverRefers ==
  ASSUME RequestsTypeOK, StepsBelong, RowsKeep, NEW c \in Calls, Refers(c),
         Arrive(c) \/ Proceed(c) \/ Interrupt(c)
  PROVE  Refers(c)'
<1> USE DEF RequestsTypeOK, TablesTypeOK
<1>1. ASSUME NEW u \in Employees, NEW r \in Requests, NEW s \in Steps,
             NEW type \in RequestType, NEW model \in Models \cup {None},
             NEW manager \in Managers,
             Create(c, u, r, s, type, model, manager)
      PROVE  Refers(c)'
  <2>1. call'[c].op = "create" /\ call'[c].pc = "committed"
          /\ call'[c].request = r /\ call'[c].step = s
    BY <1>1 DEF Create, NoCall
  <2>2. request'[r].status # "absent" /\ step'[s].status # "absent"
          /\ step'[s].request = r
    BY <1>1 DEF Create
  <2> QED
    BY <2>1, <2>2 DEF Refers
<1>2. ASSUME NEW op \in {"approve", "reject"}, NEW s \in Steps,
             NEW user \in Employees, Check(c, op, s, user)
      PROVE  Refers(c)'
  <2>1. call'[c].op = op /\ call'[c].pc = "checked"
          /\ call'[c].request = step[s].request /\ call'[c].step = s
    BY <1>2 DEF Check, NoCall
  <2>2. step[s].status # "absent" /\ UNCHANGED <<step, request>>
    BY <1>2 DEF Check, tables
  <2>3. step[s].request \in Requests
          /\ request[step[s].request].status # "absent"
    BY <2>2 DEF StepsBelong
  <2> QED
    BY <2>1, <2>2, <2>3 DEF Refers
<1>3. ASSUME NEW r \in Requests, NEW user \in Employees, CancelRead(c, r, user)
      PROVE  Refers(c)'
  <2>1. call'[c].op = "cancel" /\ call'[c].pc = "loaded"
          /\ call'[c].request = r
    BY <1>3 DEF CancelRead, NoCall
  <2>2. request[r].status # "absent" /\ UNCHANGED request
    BY <1>3 DEF CancelRead, tables, CANCELLABLE_REQUEST_STATUSES
  <2> QED
    BY <2>1, <2>2 DEF Refers
<1>4. ASSUME Return(c)
      PROVE  Refers(c)'
  BY <1>4, RefersIdle
<1>5. ASSUME Goto(c, "committed"), call[c].op \in {"approve", "reject", "cancel"}
      PROVE  Refers(c)'
  <2>1. call'[c].op = call[c].op /\ call'[c].request = call[c].request
          /\ call'[c].step = call[c].step /\ call'[c].pc = "committed"
    BY <1>5 DEF Goto, Call
  <2> QED
    BY <1>5, <2>1, RefersKept
<1>6. call[c].pc \in {"checked", "read", "reloaded", "locked"} =>
        call[c].op \in {"approve", "reject"}
  BY DEF Refers, Call
<1>7. CASE Arrive(c)
  BY <1>1, <1>2, <1>3, <1>7 DEF Arrive
<1>8. CASE Proceed(c)
  <2>1. CASE ReadFreshStep(c)
    <3>1. call[c].op \in {"approve", "reject"}
      BY <2>1, <1>6 DEF ReadFreshStep
    <3>2. Goto(c, "read") \/ Return(c)
      BY <2>1 DEF ReadFreshStep
    <3>3. CASE Goto(c, "read")
      <4>1. call'[c].op = call[c].op /\ call'[c].request = call[c].request
              /\ call'[c].step = call[c].step /\ call'[c].pc = "read"
        BY <3>3 DEF Goto, Call
      <4> QED
        BY <3>1, <4>1, RefersKept
    <3> QED
      BY <3>2, <3>3, <1>4
  <2>2. CASE ReloadStep(c)
    <3>1. call'[c].op = call[c].op /\ call'[c].request = call[c].request
            /\ call'[c].step = call[c].step /\ call'[c].pc = "reloaded"
      BY <2>2 DEF ReloadStep, Call
    <3> QED
      BY <2>2, <3>1, <1>6, RefersKept DEF ReloadStep
  <2>3. CASE LockStep(c)
    <3>1. call[c].op \in {"approve", "reject"}
      BY <2>3, <1>6 DEF LockStep
    <3>2. call'[c].op = call[c].op /\ call'[c].request = call[c].request
            /\ call'[c].step = call[c].step /\ call'[c].pc = "locked"
      BY <2>3 DEF LockStep, Goto, Call
    <3> QED
      BY <3>1, <3>2, RefersKept
  <2>4. CASE FindPendingSteps(c)
    <3>1. call'[c].op = call[c].op /\ call'[c].request = call[c].request
            /\ call'[c].step = call[c].step /\ call'[c].pc = "ready"
      BY <2>4 DEF FindPendingSteps, Call
    <3> QED
      BY <2>4, <3>1, RefersKept DEF FindPendingSteps, At
  <2>5. CASE FindAvailableAsset(c)
    <3>1. ASSUME ~Return(c)
          PROVE  call'[c].op = call[c].op /\ call'[c].request = call[c].request
                   /\ call'[c].step = call[c].step /\ call'[c].pc = "ready"
      <4>1. PICK a \in Assets :
              call' = [call EXCEPT ![c].pc = "ready", ![c].asset = a,
                                   ![c].retired = asset[a].retiredAt]
        BY <2>5, <3>1 DEF FindAvailableAsset, AvailableAssets
      <4> QED
        BY <4>1 DEF Call
    <3> QED
      BY <2>5, <3>1, <1>4, RefersKept DEF FindAvailableAsset, At
  <2>6. CASE CommitRejection(c)
    BY <2>6, <1>5 DEF CommitRejection, At
  <2>7. CASE \E n \in Steps, p \in ProcurementManagers :
               CommitManagerApproval(c, n, p)
    BY <2>7, <1>5 DEF CommitManagerApproval, At
  <2>8. CASE CommitProcurementApproval(c)
    BY <2>8, <1>5 DEF CommitProcurementApproval, At
  <2>9. CASE \E g \in Assignments : CommitLoanApproval(c, g)
    BY <2>9, <1>5 DEF CommitLoanApproval, At
  <2>10. CASE CancelReload(c)
    <3>1. ASSUME ~Return(c)
          PROVE  call'[c].op = call[c].op /\ call'[c].request = call[c].request
                   /\ call'[c].step = call[c].step /\ call'[c].pc = "compared"
      BY <2>10, <3>1 DEF CancelReload, Call
    <3> QED
      BY <2>10, <3>1, <1>4, RefersKept DEF CancelReload, At
  <2>11. CASE CommitCancel(c)
    BY <2>11, <1>5 DEF CommitCancel, At
  <2>12. CASE NoProcurementManager(c) \/ Notify(c) \/ DeadlockVictim(c)
    BY <2>12, <1>4 DEF NoProcurementManager, Notify, DeadlockVictim
  <2> QED
    BY <1>8, <2>1, <2>2, <2>3, <2>4, <2>5, <2>6, <2>7, <2>8, <2>9, <2>10,
      <2>11, <2>12 DEF Proceed
<1>9. CASE Interrupt(c)
  BY <1>4, <1>9 DEF Interrupt
<1> QED
  BY <1>7, <1>8, <1>9

\* A step inserted by an action belongs to a request that exists.
LEMMA StepsBelongStep ==
  ASSUME RequestsTypeOK, StepsBelong, RowsKeep,
         NEW c \in Calls, Refers(c), RejectionReady(c),
         Arrive(c) \/ Proceed(c) \/ Interrupt(c)
  PROVE  StepsBelong'
<1> USE DEF RequestsTypeOK, TablesTypeOK
<1> SUFFICES ASSUME NEW s \in Steps, step'[s].status # "absent"
             PROVE  /\ step'[s].request \in Requests
                    /\ request'[step'[s].request].status # "absent"
  BY DEF StepsBelong
<1>1. CASE step[s].status # "absent"
  BY <1>1 DEF StepsBelong, RowsKeep
<1>2. CASE step[s].status = "absent"
  <2>1. ASSUME NEW u \in Employees, NEW r \in Requests, NEW t \in Steps,
               NEW type \in RequestType, NEW model \in Models \cup {None},
               NEW manager \in Managers,
               Create(c, u, r, t, type, model, manager)
        PROVE  step'[s].request = r /\ request'[r].status # "absent"
    BY <1>2, <2>1 DEF Create
  <2>2. ASSUME NEW n \in Steps, NEW p \in ProcurementManagers,
               CommitManagerApproval(c, n, p)
        PROVE  step'[s].request = call[c].request
                 /\ call[c].request \in Requests
                 /\ request[call[c].request].status # "absent"
    <3>1. call[c].op = "approve"
      BY <2>2 DEF CommitManagerApproval, At
    <3>2. step' = [Decided(c) EXCEPT ![n] =
            [status |-> "pending", request |-> call[c].request,
             role |-> "procurement_manager", approver |-> p]]
      BY <2>2 DEF CommitManagerApproval
    <3>3. Decided(c)[s].status = "absent"
      BY <1>2, <3>1, DecidedOK
    <3> QED
      BY <3>1, <3>2, <3>3, DecidedOK DEF Refers
  <2>3. ASSUME CommitRejection(c)
        PROVE  FALSE
    <3>1. call[c].op = "reject" /\ call[c].pc = "ready"
      BY <2>3 DEF CommitRejection, At
    <3>2. Decided(c)[s].status = "absent"
      BY <1>2, <3>1, DecidedOK
    <3>3. s \in call[c].siblings
      BY <2>3, <3>2 DEF CommitRejection
    <3> QED
      BY <1>2, <3>1, <3>3 DEF RejectionReady, At
  <2>4. ASSUME CommitProcurementApproval(c)
                 \/ \E g \in Assignments : CommitLoanApproval(c, g)
        PROVE  FALSE
    <3>1. call[c].op = "approve" /\ step' = Decided(c)
      BY <2>4 DEF CommitProcurementApproval, CommitLoanApproval, At
    <3> QED
      BY <1>2, <3>1, DecidedOK
  <2>5. ASSUME UNCHANGED step
        PROVE  FALSE
    BY <1>2, <2>5
  <2>6. \/ \E u \in Employees, r \in Requests, t \in Steps,
              type \in RequestType, model \in Models \cup {None},
              manager \in Managers :
             Create(c, u, r, t, type, model, manager)
        \/ \E n \in Steps, p \in ProcurementManagers :
             CommitManagerApproval(c, n, p)
        \/ CommitRejection(c)
        \/ CommitProcurementApproval(c)
        \/ \E g \in Assignments : CommitLoanApproval(c, g)
        \/ UNCHANGED step
    BY DEF Arrive, Proceed, Interrupt, Check, CancelRead, ReadFreshStep,
      ReloadStep, LockStep, FindPendingSteps, FindAvailableAsset,
      NoProcurementManager, CancelReload, CommitCancel, Notify,
      DeadlockVictim, tables
  <2>7. \/ \E u \in Employees, r \in Requests, t \in Steps,
              type \in RequestType, model \in Models \cup {None},
              manager \in Managers :
             Create(c, u, r, t, type, model, manager)
        \/ \E n \in Steps, p \in ProcurementManagers :
             CommitManagerApproval(c, n, p)
    BY <2>3, <2>4, <2>5, <2>6
  <2>8. CASE \E u \in Employees, r \in Requests, t \in Steps,
               type \in RequestType, model \in Models \cup {None},
               manager \in Managers :
              Create(c, u, r, t, type, model, manager)
    BY <2>1, <2>8
  <2>9. CASE \E n \in Steps, p \in ProcurementManagers :
              CommitManagerApproval(c, n, p)
    BY <2>2, <2>9 DEF RowsKeep
  <2> QED
    BY <2>7, <2>8, <2>9
<1> QED
  BY <1>1, <1>2

-----------------------------------------------------------------------------
(* Every step keeps what the transactions in flight have read usable.      *)

\* The assignments a cancel knows after a step of it, it has just read, or
\* knew before.
LEMMA NamedNow ==
  ASSUME RequestsTypeOK, NEW c \in Calls, Arrive(c) \/ Proceed(c) \/ Interrupt(c),
         NEW g \in Assignments, Names(c, g)'
  PROVE  /\ UNCHANGED tables
         /\ \/ assignment[g].status # "absent"
                 /\ assignment[g].request = call'[c].request
            \/ Names(c, g) /\ call'[c].request = call[c].request
<1> USE DEF RequestsTypeOK
<1>0. /\ call'[c].op = "cancel" /\ call'[c].pc \in {"loaded", "compared"}
      /\ g \in call'[c].links \cup call'[c].relinks
  BY DEF Names
<1>1. ASSUME NEW pc \in {"read", "locked", "committed"}
      PROVE  ~Goto(c, pc)
  BY <1>0 DEF Goto, Call
<1>2. ~Return(c)
  BY <1>0 DEF Return, NoCall
<1>3. ASSUME NEW u \in Employees, NEW r \in Requests, NEW s \in Steps,
             NEW type \in RequestType, NEW model \in Models \cup {None},
             NEW manager \in Managers,
             Create(c, u, r, s, type, model, manager)
      PROVE  FALSE
  BY <1>0, <1>3 DEF Create, NoCall
<1>4. ASSUME NEW op \in {"approve", "reject"}, NEW s \in Steps,
             NEW user \in Employees, Check(c, op, s, user)
      PROVE  FALSE
  BY <1>0, <1>4 DEF Check, NoCall
<1>5. ~ReloadStep(c) /\ ~FindPendingSteps(c) /\ ~FindAvailableAsset(c)
  BY <1>0, <1>2 DEF ReloadStep, FindPendingSteps, FindAvailableAsset, At, Call
<1>6. CancelReload(c) \/ \E r \in Requests, user \in Employees : CancelRead(c, r, user)
  BY <1>1, <1>2, <1>3, <1>4, <1>5 DEF Arrive, Proceed, Interrupt, ReadFreshStep,
    LockStep, CommitRejection, CommitManagerApproval, NoProcurementManager,
    CommitProcurementApproval, CommitLoanApproval, CommitCancel, Notify,
    DeadlockVictim
<1>7. ASSUME NEW r \in Requests, NEW user \in Employees, CancelRead(c, r, user)
      PROVE  /\ UNCHANGED tables /\ assignment[g].status # "absent"
             /\ assignment[g].request = call'[c].request
  <2>1. /\ call'[c].request = r /\ call'[c].links = AssignmentsOf(r)
        /\ call'[c].relinks = {} /\ UNCHANGED tables
    BY <1>7 DEF CancelRead, NoCall
  <2> QED
    BY <1>0, <2>1 DEF AssignmentsOf
<1>8. CASE CancelReload(c)
  <2>1. /\ call'[c].request = call[c].request /\ UNCHANGED tables
        /\ call'[c].links = AssignmentsOf(call[c].request) \ call[c].links
        /\ call'[c].relinks = call[c].links \ AssignmentsOf(call[c].request)
        /\ call[c].op = "cancel" /\ call[c].pc = "loaded"
    BY <1>2, <1>8 DEF CancelReload, At, Call
  <2> QED
    BY <1>0, <2>1 DEF AssignmentsOf, Names
<1> QED
  BY <1>6, <1>7, <1>8

LEMMA NamedOnceStep ==
  ASSUME RequestsTypeOK, CallsReady, NamedOnce, CallsRefer', NEW c \in Calls,
         Arrive(c) \/ Proceed(c) \/ Interrupt(c)
  PROVE  NamedOnce'
<1>1. \A d \in Calls \ {c} : call'[d] = call[d]
  BY OneHandlerMoves
<1>2. ASSUME NEW d \in Calls, NEW g \in Assignments, Names(d, g)', Names(c, g)'
      PROVE  call'[c].request = call'[d].request
  <2>1. CASE d # c
    <3>1. Names(d, g) /\ call'[d].request = call[d].request
      BY <1>1, <1>2, <2>1 DEF Names
    <3>2. CASE Names(c, g) /\ call'[c].request = call[c].request
      BY <3>1, <3>2 DEF NamedOnce
    <3>3. CASE assignment[g].request = call'[c].request
      <4>1. assignment[g].request \in {call[d].request, None}
        BY <3>1 DEF CallsReady, CallReady, LinksReady
      <4>2. call'[c].request # None
        BY <1>2, NoneAssumption DEF Names, CallsRefer, Refers
      <4> QED
        BY <3>1, <3>3, <4>1, <4>2
    <3> QED
      BY <1>2, <3>2, <3>3, NamedNow
  <2> QED
    BY <2>1
<1>3. ASSUME NEW d \in Calls, NEW e \in Calls, d # c, e # c,
             NEW g \in Assignments, Names(d, g)', Names(e, g)'
      PROVE  call'[e].request = call'[d].request
  BY <1>1, <1>3 DEF NamedOnce, Names
<1> QED
  BY <1>2, <1>3 DEF NamedOnce

\* A handler keeps it while others move: nothing it refers to is deleted.
LEMMA OthersReady ==
  ASSUME Refs, RowsKeep, NamedOnce, NEW d \in Calls, CallReady(d), call'[d] = call[d]
  PROVE  CallReady(d)'
<1> USE DEF Refs, RequestsTypeOK, TablesTypeOK
<1>1. Refers(d) /\ call[d] \in Call
  BY DEF CallsRefer
<1>2. RejectionReady(d)'
  BY <1>1 DEF CallReady, RejectionReady, RowsKeep, At, Call
<1>3. LoanReady(d)'
  <2> SUFFICES ASSUME At(d, "approve", "ready") PROVE LoanReady(d)'
    BY DEF LoanReady, At
  <2>1. LoanReady(d)
    BY DEF CallReady
  <2>2. /\ call[d].asset \in Assets
        /\ asset[call[d].asset].model = request[call[d].request].model
        /\ step[call[d].step].role = "procurement_manager"
        /\ request[call[d].request].type = "loan"
    BY <2>1 DEF LoanReady
  <2>3. /\ call[d].request \in Requests
        /\ request[call[d].request].status # "absent"
        /\ call[d].step \in Steps
        /\ step[call[d].step].status # "absent"
    BY <1>1 DEF Refers, At
  <2>4. /\ request'[call[d].request].type = request[call[d].request].type
        /\ request'[call[d].request].model = request[call[d].request].model
        /\ step'[call[d].step].role = step[call[d].step].role
        /\ asset'[call[d].asset].model = asset[call[d].asset].model
    BY <2>2, <2>3 DEF RowsKeep
  <2> QED
    BY <2>2, <2>4 DEF LoanReady
<1>4. DecisionReady(d)'
  <2>1. call[d].pc \in {"reloaded", "locked", "ready"} =>
          call[d].step \in Steps /\ step[call[d].step].status # "absent"
    BY <1>1 DEF Refers, Call
  <2> QED
    BY <2>1 DEF CallReady, DecisionReady, RowsKeep
<1>5. LinksReady(d)'
  <2>1. ASSUME NEW g \in Assignments, Names(d, g)'
        PROVE  /\ assignment'[g].status # "absent"
               /\ assignment'[g].request \in {call'[d].request, None}
    <3>1. Names(d, g) /\ call'[d].request = call[d].request
      BY <2>1 DEF Names
    <3>2. /\ assignment[g].status # "absent"
          /\ assignment[g].request \in {call[d].request, None}
      BY <3>1 DEF CallReady, LinksReady
    <3>3. \A c \in Calls : Names(c, g) => call[c].request = call[d].request
      BY <3>1 DEF NamedOnce
    <3> QED
      BY <3>1, <3>2, <3>3 DEF RowsKeep
  <2> QED
    BY <2>1 DEF LinksReady
<1> QED
  BY <1>2, <1>3, <1>4, <1>5 DEF CallReady

\* The handler that moves has just read what it will use.
LEMMA MoverReady ==
  ASSUME RequestsTypeOK, NEW c \in Calls, DecisionReady(c),
         Arrive(c) \/ Proceed(c) \/ Interrupt(c)
  PROVE  RejectionReady(c)' /\ LoanReady(c)' /\ DecisionReady(c)'
<1> DEFINE Ready == RejectionReady(c)' /\ LoanReady(c)' /\ DecisionReady(c)'
<1> USE DEF RequestsTypeOK, TablesTypeOK
<1>0. call[c] \in Call /\ DecisionReady(c)
  OBVIOUS
<1>1. ASSUME call'[c].pc \notin {"reloaded", "locked", "ready"}
      PROVE  Ready
  BY <1>1 DEF RejectionReady, LoanReady, DecisionReady, At
<1>2. ASSUME Return(c)
      PROVE  Ready
  BY <1>1, <1>2 DEF Return, NoCall
<1>3. CASE Arrive(c)
  <2>1. ASSUME NEW u \in Employees, NEW r \in Requests, NEW s \in Steps,
               NEW type \in RequestType, NEW model \in Models \cup {None},
               NEW manager \in Managers,
               Create(c, u, r, s, type, model, manager)
        PROVE  call'[c].pc = "committed"
    BY <2>1 DEF Create, NoCall
  <2>2. ASSUME NEW op \in {"approve", "reject"}, NEW s \in Steps,
               NEW user \in Employees, Check(c, op, s, user)
        PROVE  call'[c].pc = "checked"
    BY <2>2 DEF Check, NoCall
  <2>3. ASSUME NEW r \in Requests, NEW user \in Employees,
               CancelRead(c, r, user)
        PROVE  call'[c].pc = "loaded"
    BY <2>3 DEF CancelRead, NoCall
  <2>4. call'[c].pc \in {"committed", "checked", "loaded"}
    BY <1>3, <2>1, <2>2, <2>3 DEF Arrive
  <2> QED
    BY <1>1, <2>4
<1>4. CASE ReloadStep(c)
  <2>1. /\ call'[c].pc = "reloaded" /\ call'[c].step = call[c].step
        /\ call'[c].dirty = (step[call[c].step].status # Target(c))
        /\ UNCHANGED step
    BY <1>4 DEF ReloadStep, Call, tables
  <2>2. DecisionReady(c)'
    BY <2>1 DEF DecisionReady, Target
  <2> QED
    BY <2>1, <2>2 DEF RejectionReady, LoanReady, At
<1>5. CASE LockStep(c)
  <2>1. /\ call[c].pc = "reloaded" /\ call'[c].pc = "locked"
        /\ call'[c].step = call[c].step /\ call'[c].dirty = call[c].dirty
        /\ UNCHANGED step
    BY <1>5 DEF LockStep, Goto, Call, tables
  <2>2. DecisionReady(c)'
    BY <1>0, <2>1 DEF DecisionReady
  <2> QED
    BY <2>1, <2>2 DEF RejectionReady, LoanReady, At
<1>6. CASE FindPendingSteps(c)
  <2>1. /\ call[c].op = "reject" /\ call[c].pc = "locked"
        /\ call'[c].op = "reject" /\ call'[c].pc = "ready"
        /\ call'[c].request = call[c].request
        /\ call'[c].step = call[c].step /\ call'[c].dirty = call[c].dirty
        /\ call'[c].siblings =
             PendingStepsOf(call[c].request) \ {call[c].step}
        /\ UNCHANGED step
    BY <1>6 DEF FindPendingSteps, At, Call, tables
  <2>2. DecisionReady(c)'
    BY <1>0, <2>1 DEF DecisionReady
  <2>3. RejectionReady(c)'
    BY <2>1 DEF RejectionReady, PendingStepsOf, StepsOf
  <2> QED
    BY <2>1, <2>2, <2>3 DEF LoanReady, At
<1>7. CASE FindAvailableAsset(c) /\ ~Return(c)
  <2> DEFINE r == call[c].request
  <2>1. PICK a \in AvailableAssets(request[r].model) :
          call' = [call EXCEPT ![c].pc = "ready", ![c].asset = a,
                               ![c].retired = asset[a].retiredAt]
    BY <1>7 DEF FindAvailableAsset
  <2>2. /\ call[c].op = "approve" /\ call[c].pc = "locked"
        /\ step[call[c].step].role = "procurement_manager"
        /\ request[r].type = "loan"
        /\ UNCHANGED <<request, step, asset>>
    BY <1>7 DEF FindAvailableAsset, At, tables
  <2>3. /\ call'[c].op = "approve" /\ call'[c].pc = "ready"
        /\ call'[c].request = r /\ call'[c].step = call[c].step
        /\ call'[c].dirty = call[c].dirty /\ call'[c].asset = a
    BY <2>1, <2>2 DEF Call
  <2>4. DecisionReady(c)'
    BY <1>0, <2>2, <2>3 DEF DecisionReady
  <2>5. a \in Assets /\ asset[a].model = request[r].model
    BY <2>1 DEF AvailableAssets
  <2>6. LoanReady(c)'
    BY <2>2, <2>3, <2>5 DEF LoanReady
  <2> QED
    BY <2>3, <2>4, <2>6 DEF RejectionReady, At
<1>8. CASE CancelReload(c) /\ ~Return(c)
  <2>1. call'[c].pc = "compared"
    BY <1>8 DEF CancelReload, Call
  <2> QED
    BY <1>1, <2>1
<1>9. ASSUME Goto(c, "read") \/ Goto(c, "committed")
      PROVE  Ready
  BY <1>1, <1>9 DEF Goto, Call
<1>10. Proceed(c) =>
         \/ ReloadStep(c) \/ LockStep(c) \/ FindPendingSteps(c)
         \/ FindAvailableAsset(c) \/ CancelReload(c)
         \/ Goto(c, "read") \/ Goto(c, "committed") \/ Return(c)
  BY DEF Proceed, ReadFreshStep, CommitRejection, CommitManagerApproval,
    NoProcurementManager, CommitProcurementApproval, CommitLoanApproval,
    CommitCancel, Notify, DeadlockVictim
<1> QED
  BY <1>2, <1>3, <1>4, <1>5, <1>6, <1>7, <1>8, <1>9, <1>10 DEF Interrupt

\* What a cancel knows, it has read as it is now, or the row has stayed.
LEMMA MoverLinks ==
  ASSUME RequestsTypeOK, NEW c \in Calls, LinksReady(c),
         Arrive(c) \/ Proceed(c) \/ Interrupt(c)
  PROVE  LinksReady(c)'
BY NamedNow DEF LinksReady, tables

-----------------------------------------------------------------------------
(* Every step keeps the safety invariants.                                 *)

\* The actions that write a table other than the notices.
Writes(c) ==
  \/ \E u \in Employees, r \in Requests, s \in Steps, type \in RequestType,
        model \in Models \cup {None}, manager \in Managers :
       Create(c, u, r, s, type, model, manager)
  \/ CommitRejection(c)
  \/ \E n \in Steps, p \in ProcurementManagers : CommitManagerApproval(c, n, p)
  \/ CommitProcurementApproval(c)
  \/ \E g \in Assignments : CommitLoanApproval(c, g)
  \/ CommitCancel(c)

LEMMA OnlyWritesWrite ==
  ASSUME NEW c \in Calls, Arrive(c) \/ Proceed(c) \/ Interrupt(c), ~Writes(c)
  PROVE  UNCHANGED <<request, step, asset, assignment>>
BY DEF Writes, Arrive, Proceed, Interrupt, Check, CancelRead, ReadFreshStep,
  ReloadStep, LockStep, FindPendingSteps, FindAvailableAsset,
  NoProcurementManager, CancelReload, Notify, DeadlockVictim, tables

\* A committed decision leaves the step it decides decided.
LEMMA DecidedDone ==
  ASSUME RequestsTypeOK, NEW c \in Calls, Refers(c), DecisionReady(c),
         call[c].op \in {"approve", "reject"}, call[c].pc \in {"locked", "ready"}
  PROVE  /\ call[c].step \in Steps
         /\ step[call[c].step].status # "absent"
         /\ Decided(c)[call[c].step].status \notin {"absent", "pending"}
         /\ Decided(c)[call[c].step].request = call[c].request
         /\ Decided(c)[call[c].step].role = step[call[c].step].role
<1> USE DEF RequestsTypeOK, TablesTypeOK
<1>1. /\ call[c].step \in Steps
      /\ step[call[c].step].status # "absent"
      /\ step[call[c].step].request = call[c].request
  BY DEF Refers
<1>2. Decided(c)[call[c].step].status # "pending"
  <2>1. CASE call[c].dirty
    BY <1>1, <2>1 DEF Decided, Target, ApprovalStep
  <2>2. CASE ~call[c].dirty
    BY <2>2 DEF Decided, DecisionReady
  <2> QED
    BY <2>1, <2>2
<1> QED
  BY <1>1, <1>2, DecidedOK

\* A step of a request that was acted on stays so.
LEMMA ActedStays ==
  ASSUME RowsKeep, NEW r \in Requests, NEW role, HasStep(r, role, FALSE)
  PROVE  HasStep(r, role, FALSE)'
BY DEF RowsKeep, HasStep, StepsOf

\* Status and steps of a request that does not change stay in accord.
LEMMA ExplainedStays ==
  ASSUME NEW r \in Requests, Explained(r),
         request'[r].status = request[r].status,
         \A s \in StepsOf(r) : step'[s] = step[s]
  PROVE  Explained(r)'
<1>1. \A role \in ApprovalRole, pending \in BOOLEAN :
        HasStep(r, role, pending) => HasStep(r, role, pending)'
  BY DEF HasStep, StepsOf
<1> QED
  BY <1>1 DEF Explained, ApprovalRole

\* A step does nothing to request r or to a step of it.
LeftAlone(r) ==
  /\ request'[r].status = request[r].status
  /\ \A s \in StepsOf(r) : step'[s] = step[s]

\* A handler that changes a request or its steps leaves them in accord.
LEMMA MoverExplains ==
  ASSUME RequestsTypeOK, NEW c \in Calls, Refers(c),
         RejectionReady(c), LoanReady(c), DecisionReady(c),
         Arrive(c) \/ Proceed(c) \/ Interrupt(c), NEW r \in Requests
  PROVE  LeftAlone(r) \/ Explained(r)'
<1> USE DEF RequestsTypeOK, TablesTypeOK
<1>1. CASE ~Writes(c)
  BY <1>1, OnlyWritesWrite DEF LeftAlone
<1>2. ASSUME NEW u \in Employees, NEW q \in Requests, NEW s \in Steps,
             NEW type \in RequestType, NEW model \in Models \cup {None},
             NEW manager \in Managers,
             Create(c, u, q, s, type, model, manager)
      PROVE  LeftAlone(r) \/ Explained(r)'
  <2>1. /\ request'[q].status = "pending_manager_approval"
        /\ step'[s].status = "pending" /\ step'[s].request = q
        /\ step'[s].role = "direct_manager"
    BY <1>2 DEF Create
  <2>2. CASE r = q
    BY <2>1, <2>2 DEF Explained, HasStep, StepsOf
  <2>3. CASE r # q
    <3>1. request'[r] = request[r]
      BY <1>2, <2>3 DEF Create
    <3>2. \A t \in StepsOf(r) : step'[t] = step[t]
      BY <1>2 DEF Create, StepsOf, FreeSteps, NoStep
    <3> QED
      BY <3>1, <3>2 DEF LeftAlone
  <2> QED
    BY <2>2, <2>3
<1>3. CASE CommitRejection(c)
  <2> DEFINE s == call[c].step
  <2>1. /\ call[c].op = "reject" /\ call[c].pc = "ready"
        /\ call[c].request \in Requests
        /\ \A t \in call[c].siblings : t # s /\ step[t].request = call[c].request
    BY <1>3 DEF CommitRejection, At, Refers, RejectionReady
  <2>2. \A t \in Steps \ call[c].siblings : step'[t] = Decided(c)[t]
    BY <1>3 DEF CommitRejection
  <2>3. CASE r = call[c].request
    <3>1. request'[r].status = "rejected"
      BY <1>3, <2>3 DEF CommitRejection, EquipmentRequest
    <3>2. /\ s \in Steps
          /\ Decided(c)[s].status \notin {"absent", "pending"}
          /\ Decided(c)[s].request = r
          /\ Decided(c)[s].role = step[s].role
      BY <2>1, <2>3, DecidedDone
    <3>3. step'[s] = Decided(c)[s]
      BY <2>1, <2>2, <3>2
    <3>4. PICK role \in ApprovalRole : role = step[s].role
      BY <3>2 DEF ApprovalStep
    <3>5. HasStep(r, role, FALSE)'
      BY <3>2, <3>3, <3>4 DEF HasStep, StepsOf
    <3> QED
      BY <3>1, <3>5 DEF Explained
  <2>4. CASE r # call[c].request
    <3>1. request'[r].status = request[r].status
      BY <1>3, <2>1, <2>4 DEF CommitRejection
    <3>2. step[s].request = call[c].request
      BY <2>1 DEF Refers
    <3>3. \A t \in StepsOf(r) : step'[t] = step[t]
      BY <2>1, <2>2, <2>4, <3>2, DecidedOK DEF StepsOf
    <3> QED
      BY <3>1, <3>3 DEF LeftAlone
  <2> QED
    BY <2>3, <2>4
<1>4. ASSUME NEW n \in Steps, NEW p \in ProcurementManagers,
             CommitManagerApproval(c, n, p)
      PROVE  LeftAlone(r) \/ Explained(r)'
  <2>1. /\ call[c].op = "approve" /\ call[c].request \in Requests
        /\ step[n].status = "absent"
        /\ step[call[c].step].request = call[c].request
    BY <1>4 DEF CommitManagerApproval, At, Refers, FreeSteps, NoStep
  <2>2. step' = [Decided(c) EXCEPT ![n] =
          [status |-> "pending", request |-> call[c].request,
           role |-> "procurement_manager", approver |-> p]]
    BY <1>4 DEF CommitManagerApproval
  <2>3. CASE r = call[c].request
    <3>1. request'[r].status = "pending_procurement_approval"
      BY <1>4, <2>3 DEF CommitManagerApproval, EquipmentRequest
    <3>2. step'[n].status = "pending" /\ step'[n].request = r
            /\ step'[n].role = "procurement_manager"
      BY <2>1, <2>2, <2>3, DecidedOK
    <3> QED
      BY <3>1, <3>2 DEF Explained, HasStep, StepsOf
  <2>4. CASE r # call[c].request
    <3>1. request'[r].status = request[r].status
      BY <1>4, <2>4 DEF CommitManagerApproval
    <3>2. \A t \in StepsOf(r) : step'[t] = step[t]
      BY <2>1, <2>2, <2>4, DecidedOK DEF StepsOf
    <3> QED
      BY <3>1, <3>2 DEF LeftAlone
  <2> QED
    BY <2>3, <2>4
<1>5. ASSUME CommitProcurementApproval(c)
               \/ \E g \in Assignments : CommitLoanApproval(c, g)
      PROVE  LeftAlone(r) \/ Explained(r)'
  <2> DEFINE s == call[c].step
  <2>1. /\ call[c].op = "approve" /\ call[c].request \in Requests
        /\ call[c].pc \in {"locked", "ready"}
        /\ step[s].role = "procurement_manager"
        /\ step[s].request = call[c].request
        /\ step' = Decided(c)
    BY <1>5 DEF CommitProcurementApproval, CommitLoanApproval, At, Refers, LoanReady
  <2>2. CASE r = call[c].request
    <3>1. request'[r].status \in {"procurement_approved", "fulfilled"}
      BY <1>5, <2>2 DEF CommitProcurementApproval, CommitLoanApproval,
        EquipmentRequest
    <3>2. HasStep(r, "procurement_manager", FALSE)'
      BY <2>1, <2>2, DecidedDone DEF HasStep, StepsOf
    <3> QED
      BY <3>1, <3>2 DEF Explained
  <2>3. CASE r # call[c].request
    <3>1. request'[r].status = request[r].status
      BY <1>5, <2>3 DEF CommitProcurementApproval, CommitLoanApproval
    <3>2. \A t \in StepsOf(r) : step'[t] = step[t]
      BY <2>1, <2>3, DecidedOK DEF StepsOf
    <3> QED
      BY <3>1, <3>2 DEF LeftAlone
  <2> QED
    BY <2>2, <2>3
<1>6. CASE CommitCancel(c)
  <2>1. request'[r].status \in {request[r].status, "cancelled"}
    BY <1>6 DEF CommitCancel, EquipmentRequest
  <2>2. UNCHANGED step
    BY <1>6 DEF CommitCancel
  <2>3. CASE request'[r].status = request[r].status
    BY <2>2, <2>3 DEF LeftAlone
  <2>4. CASE request'[r].status = "cancelled"
    BY <2>4 DEF Explained
  <2> QED
    BY <2>1, <2>3, <2>4
<1>7. CASE Writes(c)
  BY <1>2, <1>3, <1>4, <1>5, <1>6, <1>7 DEF Writes
<1> QED
  BY <1>1, <1>7

\* No step leaves a request in a status its steps do not explain.
LEMMA ExplainedStep ==
  ASSUME Refs, CallsReady, StatusIsExplained, NEW c \in Calls,
         Arrive(c) \/ Proceed(c) \/ Interrupt(c)
  PROVE  StatusIsExplained'
<1> SUFFICES ASSUME NEW r \in Requests PROVE Explained(r)'
  BY DEF StatusIsExplained
<1>1. LeftAlone(r) \/ Explained(r)'
  BY MoverExplains DEF Refs, CallsRefer, CallsReady, CallReady
<1>2. Explained(r)
  BY DEF StatusIsExplained
<1> QED
  BY <1>1, <1>2, ExplainedStays DEF LeftAlone

\* No step lets a request reach procurement with its manager yet to act.
LEMMA FollowsStep ==
  ASSUME Refs, CallsReady, RowsKeep, ProcurementFollowsManager,
         NEW c \in Calls, Arrive(c) \/ Proceed(c) \/ Interrupt(c)
  PROVE  ProcurementFollowsManager'
<1> USE DEF Refs, RequestsTypeOK, TablesTypeOK
<1>0. Refers(c) /\ RejectionReady(c) /\ DecisionReady(c)
  BY DEF CallsRefer, CallsReady, CallReady
<1> DEFINE Acted(r) == \E m \in StepsOf(r) :
                         step[m].role = "direct_manager"
                           /\ step[m].status # "pending"
<1> SUFFICES ASSUME NEW s \in Steps, step'[s].status # "absent",
                    step'[s].role = "procurement_manager",
                    NEW r, r = step'[s].request
             PROVE  Acted(r)'
  BY DEF ProcurementFollowsManager
<1>1. Acted(r) => Acted(r)'
  BY DEF RowsKeep, StepsOf
<1>2. CASE step[s].status # "absent"
  <2>1. step[s].role = "procurement_manager" /\ step[s].request = r
    BY <1>2 DEF RowsKeep
  <2>2. Acted(r)
    BY <1>2, <2>1 DEF ProcurementFollowsManager
  <2> QED
    BY <1>1, <2>2
<1>3. CASE step[s].status = "absent"
  <2>1. ASSUME NEW u \in Employees, NEW q \in Requests, NEW t \in Steps,
               NEW type \in RequestType, NEW model \in Models \cup {None},
               NEW manager \in Managers,
               Create(c, u, q, t, type, model, manager)
        PROVE  FALSE
    BY <1>3, <2>1 DEF Create
  <2>2. ASSUME NEW n \in Steps, NEW p \in ProcurementManagers,
               CommitManagerApproval(c, n, p)
        PROVE  Acted(r)'
    <3> DEFINE m == call[c].step
    <3>1. /\ call[c].op = "approve" /\ call[c].pc = "locked"
          /\ step[m].role = "direct_manager"
          /\ step[n].status = "absent"
          /\ step' = [Decided(c) EXCEPT ![n] =
               [status |-> "pending", request |-> call[c].request,
                role |-> "procurement_manager", approver |-> p]]
      BY <2>2 DEF CommitManagerApproval, At, FreeSteps, NoStep
    <3>2. /\ m \in Steps /\ step[m].status # "absent"
          /\ Decided(c)[m].status \notin {"absent", "pending"}
          /\ Decided(c)[m].request = call[c].request
          /\ Decided(c)[m].role = "direct_manager"
      BY <1>0, <3>1, DecidedDone
    <3>3. s = n
      BY <1>0, <1>3, <3>1, DecidedOK
    <3>4. r = call[c].request
      BY <1>0, <3>1, <3>3, DecidedOK
    <3>5. step'[m] = Decided(c)[m]
      BY <1>0, <3>1, <3>2, DecidedOK
    <3> QED
      BY <3>2, <3>4, <3>5 DEF StepsOf
  <2>3. ASSUME CommitRejection(c)
        PROVE  FALSE
    <3>1. call[c].op = "reject" /\ call[c].pc = "ready"
      BY <2>3 DEF CommitRejection, At
    <3>2. Decided(c)[s].status = "absent"
      BY <1>0, <1>3, <3>1, DecidedOK
    <3>3. s \in call[c].siblings
      BY <2>3, <3>2 DEF CommitRejection
    <3> QED
      BY <1>0, <1>3, <3>1, <3>3 DEF RejectionReady, At
  <2>4. ASSUME CommitProcurementApproval(c)
                 \/ \E g \in Assignments : CommitLoanApproval(c, g)
        PROVE  FALSE
    <3>1. call[c].op = "approve" /\ step' = Decided(c)
      BY <2>4 DEF CommitProcurementApproval, CommitLoanApproval, At
    <3> QED
      BY <1>0, <1>3, <3>1, DecidedOK
  <2>5. ASSUME CommitCancel(c) \/ ~Writes(c)
        PROVE  FALSE
    BY <1>3, <2>5, OnlyWritesWrite DEF CommitCancel
  <2>6. CASE Writes(c)
    BY <2>1, <2>2, <2>3, <2>4, <2>5, <2>6 DEF Writes
  <2> QED
    BY <2>5, <2>6
<1> QED
  BY <1>2, <1>3

\* Only the reload of a cancel makes it ready to write, and it then will
\* write the status unless it read the request cancelled.
LEMMA ComparedNow ==
  ASSUME RequestsTypeOK, NEW c \in Calls, Arrive(c) \/ Proceed(c) \/ Interrupt(c),
         At(c, "cancel", "compared")'
  PROVE  /\ UNCHANGED tables
         /\ call'[c].dirty = (request[call'[c].request].status # "cancelled")
<1> USE DEF RequestsTypeOK
<1>0. call'[c].pc = "compared"
  BY DEF At
<1>1. ASSUME NEW pc \in {"read", "locked", "committed"}
      PROVE  ~Goto(c, pc)
  BY <1>0 DEF Goto, Call
<1>2. ~Return(c)
  BY <1>0 DEF Return, NoCall
<1>3. ~Arrive(c)
  <2>1. ASSUME NEW u \in Employees, NEW r \in Requests, NEW s \in Steps,
               NEW type \in RequestType, NEW model \in Models \cup {None},
               NEW manager \in Managers,
               Create(c, u, r, s, type, model, manager)
        PROVE  FALSE
    BY <1>0, <2>1 DEF Create, NoCall
  <2>2. ASSUME NEW op \in {"approve", "reject"}, NEW s \in Steps,
               NEW user \in Employees, Check(c, op, s, user)
        PROVE  FALSE
    BY <1>0, <2>2 DEF Check, NoCall
  <2>3. ASSUME NEW r \in Requests, NEW user \in Employees,
               CancelRead(c, r, user)
        PROVE  FALSE
    BY <1>0, <2>3 DEF CancelRead, NoCall
  <2> QED
    BY <2>1, <2>2, <2>3 DEF Arrive
<1>4. ~ReloadStep(c) /\ ~FindPendingSteps(c) /\ ~FindAvailableAsset(c)
  BY <1>0, <1>2 DEF ReloadStep, FindPendingSteps, FindAvailableAsset, At, Call
<1>5. CancelReload(c)
  BY <1>1, <1>2, <1>3, <1>4 DEF Proceed, Interrupt, ReadFreshStep, LockStep,
    CommitRejection, CommitManagerApproval, NoProcurementManager,
    CommitProcurementApproval, CommitLoanApproval, CommitCancel, Notify,
    DeadlockVictim
<1>6. /\ UNCHANGED tables /\ call'[c].request = call[c].request
      /\ call'[c].links = AssignmentsOf(call[c].request) \ call[c].links
      /\ call'[c].dirty = (request[call[c].request].status # "cancelled")
  BY <1>2, <1>5 DEF CancelReload, Call
<1> QED
  BY <1>6 DEF AssignmentsOf

\* A step that leaves a loan fulfilled leaves its witnesses witnesses.
LEMMA WitnessStays ==
  ASSUME RequestsTypeOK, RowsKeep,
         NEW c \in Calls, Arrive(c) \/ Proceed(c) \/ Interrupt(c),
         NEW r \in Requests, FulfilledLoan(r), FulfilledLoan(r)',
         NEW g \in Assignments, Witness(g, r),
         Names(c, g) => call[c].request = r
  PROVE  Witness(g, r)'
<1> USE DEF RequestsTypeOK, TablesTypeOK
<1>1. /\ request[r].status = "fulfilled" /\ request'[r].status = "fulfilled"
      /\ assignment[g].asset \in Assets /\ Backs(g, r) /\ Survives(g, r)
      /\ assignment[g].status # "absent" /\ assignment[g].request = r
  BY DEF FulfilledLoan, Witness, AssignmentsOf
<1>2. /\ request'[r].requester = request[r].requester
      /\ request'[r].model = request[r].model
  BY <1>1 DEF RowsKeep
<1>3. /\ assignment'[g].status # "absent"
      /\ assignment'[g].asset = assignment[g].asset
      /\ assignment'[g].employee = assignment[g].employee
  BY <1>1 DEF RowsKeep
<1>4. Backs(g, r)'
  BY <1>1, <1>2, <1>3 DEF Backs, RowsKeep
<1>5. assignment'[g].request = r
  <2>1. CASE CommitCancel(c)
    <3>1. At(c, "cancel", "compared")
      BY <2>1 DEF CommitCancel
    <3>2. ASSUME g \in call[c].links
          PROVE  FALSE
      <4>1. call[c].request = r
        BY <3>1, <3>2 DEF Names, At
      <4>2. call[c].dirty
        BY <1>1, <3>1, <3>2, <4>1 DEF Survives
      <4>3. request'[r].status = "cancelled"
        BY <2>1, <4>1, <4>2 DEF CommitCancel, EquipmentRequest
      <4> QED
        BY <1>1, <4>3
    <3>3. g \in call[c].relinks => call[c].request = r
      BY <3>1 DEF Names, At
    <3> QED
      BY <1>1, <2>1, <3>2, <3>3 DEF CommitCancel, Linked, EquipmentAssignment
  <2>2. ASSUME NEW h \in Assignments, CommitLoanApproval(c, h)
        PROVE  assignment'[g].request = r
    BY <1>1, <2>2 DEF CommitLoanApproval, FreeAssignments, NoAssignment
  <2>3. CASE UNCHANGED assignment
    BY <1>1, <2>3
  <2> QED
    BY <2>1, <2>2, <2>3, OnlyWritesWrite DEF Writes, Create,
      CommitRejection, CommitManagerApproval, CommitProcurementApproval
<1>6. Survives(g, r)'
  <2> SUFFICES ASSUME NEW d \in Calls, At(d, "cancel", "compared")',
                      call'[d].request = r, ~call'[d].dirty
               PROVE  g \notin call'[d].links
    BY DEF Survives
  <2>1. CASE d = c
    BY <1>1, <2>1, ComparedNow
  <2>2. CASE d # c
    <3>1. call'[d] = call[d]
      BY <2>2, OneHandlerMoves
    <3> QED
      BY <1>1, <3>1 DEF Survives, At
  <2> QED
    BY <2>1, <2>2
<1> QED
  BY <1>1, <1>3, <1>4, <1>5, <1>6 DEF Witness, AssignmentsOf

\* A step that fulfils a loan makes it a new assignment as witness.
LEMMA WitnessMade ==
  ASSUME RequestsTypeOK, RowsKeep, NEW c \in Calls, Refers(c), LoanReady(c),
         Arrive(c) \/ Proceed(c) \/ Interrupt(c),
         NEW r \in Requests, ~FulfilledLoan(r), FulfilledLoan(r)',
         \A d \in Calls : At(d, "cancel", "compared") =>
           \A g \in call[d].links : assignment[g] # NoAssignment
  PROVE  \E g \in Assignments :
           assignment[g] = NoAssignment /\ Witness(g, r)'
<1> USE DEF RequestsTypeOK, TablesTypeOK
<1>1. request[r].status # "fulfilled" /\ request'[r].status = "fulfilled"
  BY DEF FulfilledLoan, RowsKeep
<1>2. ASSUME NEW u \in Employees, NEW q \in Requests, NEW s \in Steps,
             NEW type \in RequestType, NEW model \in Models \cup {None},
             NEW manager \in Managers,
             Create(c, u, q, s, type, model, manager)
      PROVE  FALSE
  BY <1>1, <1>2 DEF Create
<1>3. ~CommitRejection(c) /\ ~CommitProcurementApproval(c) /\ ~CommitCancel(c)
  <2>1. ~CommitRejection(c)
    BY <1>1 DEF CommitRejection, EquipmentRequest
  <2>2. ~CommitProcurementApproval(c)
    BY <1>1 DEF CommitProcurementApproval, EquipmentRequest
  <2>3. ~CommitCancel(c)
    BY <1>1 DEF CommitCancel, EquipmentRequest
  <2> QED
    BY <2>1, <2>2, <2>3
<1>4. ASSUME NEW n \in Steps, NEW p \in ProcurementManagers,
             CommitManagerApproval(c, n, p)
      PROVE  FALSE
  BY <1>1, <1>4 DEF CommitManagerApproval
<1>5. Writes(c)
  BY <1>1, OnlyWritesWrite
<1>6. PICK g \in Assignments : CommitLoanApproval(c, g)
  BY <1>2, <1>3, <1>4, <1>5 DEF Writes
<1>7. r = call[c].request
  BY <1>1, <1>6 DEF CommitLoanApproval
<1>8. /\ call[c].op = "approve" /\ call[c].pc = "ready"
      /\ assignment[g] = NoAssignment
      /\ call' = [call EXCEPT ![c].pc = "committed"]
  BY <1>6 DEF CommitLoanApproval, At, FreeAssignments, Goto
<1>9. assignment'[g] =
        [status |-> "active", asset |-> call[c].asset,
         employee |-> request[r].requester, request |-> r]
  BY <1>6, <1>7 DEF CommitLoanApproval
<1>10. /\ call[c].asset \in Assets
       /\ asset[call[c].asset].model = request[r].model
  BY <1>7, <1>8 DEF LoanReady, At
<1>11. Backs(g, r)'
  <2>1. request[r].status # "absent"
    BY <1>7, <1>8 DEF Refers
  <2>2. /\ request'[r].requester = request[r].requester
        /\ request'[r].model = request[r].model
        /\ asset'[call[c].asset].model = asset[call[c].asset].model
    BY <1>10, <2>1 DEF RowsKeep
  <2> QED
    BY <1>9, <1>10, <2>2 DEF Backs
<1>12. Survives(g, r)'
  <2> SUFFICES ASSUME NEW d \in Calls, At(d, "cancel", "compared")'
               PROVE  g \notin call'[d].links
    BY DEF Survives
  <2>1. d # c
    BY <1>8 DEF At
  <2>2. call'[d] = call[d]
    BY <2>1, OneHandlerMoves
  <2> QED
    BY <1>8, <2>2 DEF At
<1> QED
  BY <1>8, <1>9, <1>10, <1>11, <1>12 DEF Witness, AssignmentsOf

\* What a cancel knows: assignments that are there, of its own request.
LEMMA LinkedTo ==
  ASSUME CallsReady, NEW c \in Calls, NEW r \in Requests, NEW g \in Assignments,
         Witness(g, r), Names(c, g)
  PROVE  call[c].request = r
BY NoneAssumption DEF Witness, AssignmentsOf, CallsReady, CallReady, LinksReady

LEMMA LinksMade ==
  ASSUME RequestsTypeOK, CallsReady, NEW c \in Calls, At(c, "cancel", "compared"),
         NEW g \in call[c].links
  PROVE  assignment[g] # NoAssignment
<1>1. g \in Assignments /\ Names(c, g)
  BY DEF RequestsTypeOK, Call, At, Names
<1> QED
  BY <1>1 DEF NoAssignment, CallsReady, CallReady, LinksReady

\* No step leaves a fulfilled loan without an assignment that survives.
LEMMA SurvivesStep ==
  ASSUME Refs, CallsReady, RowsKeep, FulfilmentSurvives,
         NEW c \in Calls, Arrive(c) \/ Proceed(c) \/ Interrupt(c)
  PROVE  FulfilmentSurvives'
<1> SUFFICES ASSUME NEW r \in Requests, FulfilledLoan(r)'
             PROVE  \E g \in Assignments : Witness(g, r)'
  BY DEF FulfilmentSurvives
<1>1. CASE FulfilledLoan(r)
  <2>1. PICK g \in Assignments : Witness(g, r)
    BY <1>1 DEF FulfilmentSurvives
  <2>2. Witness(g, r)'
    BY <1>1, <2>1, LinkedTo, WitnessStays DEF Refs
  <2> QED
    BY <2>2
<1>2. CASE ~FulfilledLoan(r)
  BY <1>2, LinksMade, WitnessMade DEF Refs, CallsRefer, CallsReady, CallReady
<1> QED
  BY <1>1, <1>2

-----------------------------------------------------------------------------
(* The theorems.                                                           *)

\* The tables start in accord, and no handler is in flight.
LEMMA InvInit == RequestsInit => RequestsInv
<1> SUFFICES ASSUME RequestsInit PROVE RequestsInv
  OBVIOUS
<1>1. Refs
  BY InitTypeOK
<1>2. \A c \in Calls : call[c].pc = "idle"
  BY DEF RequestsInit, NoCall
<1>3. CallsReady
  BY <1>2 DEF CallsReady, CallReady, RejectionReady, LoanReady, DecisionReady,
    LinksReady, Names, At
<1>9. NamedOnce
  BY <1>2 DEF NamedOnce, Names
<1>4. /\ \A r \in Requests : request[r].status = "absent"
      /\ \A s \in Steps : step[s].status = "absent"
  BY DEF RequestsInit, TablesInit, StockInit, NoRequest, NoStep
<1>5. StatusIsExplained
  BY <1>4 DEF StatusIsExplained, Explained
<1>6. ProcurementFollowsManager
  BY <1>4 DEF ProcurementFollowsManager
<1>7. FulfilmentSurvives
  BY <1>4 DEF FulfilmentSurvives, FulfilledLoan
<1> QED
  BY <1>1, <1>3, <1>5, <1>6, <1>7, <1>9 DEF RequestsInv

\* Every step of every handler keeps the invariant.
LEMMA InvStep == RequestsInv /\ [RequestsNext]_requestVars => RequestsInv'
<1> SUFFICES ASSUME RequestsInv, [RequestsNext]_requestVars
             PROVE  RequestsInv'
  OBVIOUS
<1> USE DEF RequestsInv
<1>1. RequestsTypeOK' /\ RowsKeep
  BY TablesStep, CallTypeOK DEF RequestsTypeOK, Refs
<1>2. CASE UNCHANGED requestVars
  BY <1>2 DEF requestVars, tables, Refs, RequestsTypeOK, TablesTypeOK,
    StepsBelong, CallsRefer, Refers, CallsReady, CallReady, RejectionReady,
    LoanReady, DecisionReady, LinksReady, NamedOnce, Names, At,
    StatusIsExplained, Explained,
    HasStep, StepsOf, ProcurementFollowsManager, FulfilmentSurvives,
    FulfilledLoan, Witness, AssignmentsOf, Backs, Survives
<1>3. ASSUME NEW c \in Calls, Arrive(c) \/ Proceed(c) \/ Interrupt(c)
      PROVE  RequestsInv'
  <2>1. \A d \in Calls \ {c} : call'[d] = call[d]
    BY <1>3, OneHandlerMoves DEF Refs
  <2>2. StepsBelong'
    BY <1>1, <1>3, StepsBelongStep
      DEF Refs, CallsRefer, CallsReady, CallReady
  <2>3. CallsRefer'
    <3> SUFFICES ASSUME NEW d \in Calls PROVE Refers(d)'
      BY DEF CallsRefer
    <3>1. CASE d = c
      BY <1>1, <1>3, <3>1, MoverRefers DEF Refs, CallsRefer
    <3>2. CASE d # c
      BY <1>1, <2>1, <3>2, RefersKept DEF Refs, CallsRefer
    <3> QED
      BY <3>1, <3>2
  <2>4. CallsReady'
    <3> SUFFICES ASSUME NEW d \in Calls PROVE CallReady(d)'
      BY DEF CallsReady
    <3>1. CASE d = c
      BY <1>1, <1>3, <3>1, MoverReady, MoverLinks DEF Refs, CallsReady, CallReady
    <3>2. CASE d # c
      BY <1>1, <2>1, <3>2, OthersReady DEF CallsReady
    <3> QED
      BY <3>1, <3>2
  <2>8. NamedOnce'
    BY <1>3, <2>3, NamedOnceStep DEF Refs
  <2>5. StatusIsExplained'
    BY <1>1, <1>3, ExplainedStep
  <2>6. ProcurementFollowsManager'
    BY <1>1, <1>3, FollowsStep
  <2>7. FulfilmentSurvives'
    BY <1>1, <1>3, SurvivesStep
  <2> QED
    BY <1>1, <2>2, <2>3, <2>4, <2>5, <2>6, <2>7, <2>8 DEF Refs
<1> QED
  BY <1>2, <1>3 DEF RequestsNext

\* The invariant holds in every reachable state.
THEOREM Invariance == RequestsSpec => []RequestsInv
<1> QED
  BY InvInit, InvStep, PTL DEF RequestsSpec

\* Every row and every local is always of its type, and so no handler works
\* on an undefined row.
THEOREM TypeCorrect == RequestsSpec => []RequestsTypeOK
<1>1. RequestsInv => RequestsTypeOK
  BY DEF RequestsInv, Refs
<1> QED
  BY <1>1, Invariance, PTL

\* However many handlers create, approve, reject and cancel at once, and
\* wherever they are interrupted, a request's steps explain its status:
\* ApprovalService commits the status with the step that justifies it.
THEOREM AlwaysExplained == RequestsSpec => []StatusIsExplained
<1>1. RequestsInv => StatusIsExplained
  BY DEF RequestsInv
<1> QED
  BY <1>1, Invariance, PTL

\* No interleaving lets a request reach procurement before a manager acted:
\* only handleManagerApproval inserts procurement steps.
THEOREM ManagerActsFirst == RequestsSpec => []ProcurementFollowsManager
<1>1. RequestsInv => ProcurementFollowsManager
  BY DEF RequestsInv
<1> QED
  BY <1>1, Invariance, PTL

\* A fulfilled loan keeps an assignment that backs it: a cancel that unlinks
\* assignments it did not read takes the request out of fulfilled with them,
\* or unlinks only those made before the request was last fulfilled.
THEOREM LoansAreBacked == RequestsSpec => []FulfilmentIsBacked
<1>1. RequestsInv => FulfilmentIsBacked
  BY DEF RequestsInv, FulfilmentSurvives, FulfilledLoan, Witness,
    FulfilmentIsBacked
<1> QED
  BY <1>1, Invariance, PTL

=============================================================================
