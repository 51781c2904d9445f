-------------------------- MODULE DeparturesProofs --------------------------
(***************************************************************************)
(* Proofs about Departures, for any number of employees that leave while   *)
(* any number of handlers of the workflow and of the inventory is in       *)
(* flight.                                                                 *)
(*                                                                         *)
(* A row that a removal deletes keeps its columns, so what a handler has   *)
(* loaded stays true of the columns and may become false of the status.    *)
(* Every step keeps the columns of the rows ever made; a handler that      *)
(* still writes has found its rows there, and the steps of a handler that  *)
(* has are those that RequestsProofs and SystemProofs are about.           *)
(*                                                                         *)
(* The last parts are about one handler of the workflow at a time (what    *)
(* procurement bought, the flow of a request's status) or one of the       *)
(* inventory (equipment that is out), the other kind in any number.        *)
(***************************************************************************)
EXTENDS Departures, SystemProofs

-----------------------------------------------------------------------------
(* The inductive invariant.                                                *)

\* A request has a requester.
Requested ==
  \A r \in Requests : request[r].status # "absent" => request[r].requester # None

\* What a handler of the workflow has loaded, of rows that may be gone.
CallHolds(c) ==
  /\ call[c].pc = "idle" <=> call[c].op = "none"
  /\ call[c].op # "none" =>
       /\ call[c].request \in Requests
       /\ request[call[c].request].requester # None
  /\ call[c].op = "cancel" =>
       call[c].pc \in {"loaded", "compared", "committed"}
  /\ call[c].op = "create" => call[c].pc = "committed"
  /\ call[c].op \in {"create", "approve", "reject"} =>
       /\ call[c].step \in Steps
       /\ step[call[c].step].request = call[c].request
  /\ At(c, "reject", "ready") =>
       \A s \in call[c].siblings :
         s # call[c].step /\ step[s].request = call[c].request
  /\ At(c, "approve", "ready") => asset[call[c].asset].model # None
  /\ \A g \in Assignments : Names(c, g) =>
       /\ assignment[g].asset \in Assets
       /\ assignment[g].request \in {call[c].request, None}
  /\ LoanReady(c) /\ DecisionReady(c)

\* Procurement has acted on a request, or the approver who did has left.
ProcurementActed(r) ==
  HasStep(r, "procurement_manager", FALSE) \/ LostStep(r, "procurement_manager")

\* What a handler of the inventory has read of the request it is to fulfil.
FulfilHolds(l) ==
  l.fulfils =>
    /\ request[l.request].requester # None
    /\ request[l.request].status # "absent" =>
         request[l.request].type = "procurement" /\ ProcurementActed(l.request)

DeparturesInv ==
  /\ DeparturesTypeOK
  /\ HistoryKeepsAsset
  /\ StepsBelong
  /\ ColumnsAgree
  /\ Requested
  /\ \A c \in Calls : CallHolds(c)
  /\ \A j \in Jobs : Fits(job[j]) /\ EntityReady(job[j]) /\ FulfilHolds(job[j])
  /\ ExplainedUnlessOrphaned
  /\ OneName
  /\ LoansSurvive

-----------------------------------------------------------------------------
(* What every step keeps.                                                  *)

\* No step changes the columns of a row that was ever made, brings a deleted
\* request or step back, or makes a decided step pending again.
Stays ==
  /\ \A r \in Requests : request[r].requester # None =>
       /\ request'[r].type = request[r].type
       /\ request'[r].requester = request[r].requester
       /\ request'[r].model = request[r].model
       /\ request[r].status = "absent" => request'[r].status = "absent"
  /\ \A s \in Steps : step[s].request # None =>
       /\ step'[s].request = step[s].request
       /\ step'[s].role = step[s].role
       /\ step'[s].approver = step[s].approver
       /\ step[s].status = "absent" => step'[s].status = "absent"
       /\ step[s].status # "pending" => step'[s].status # "pending"
  /\ \A a \in Assets : asset[a].model # None => asset'[a].model = asset[a].model
  /\ \A g \in Assignments : assignment[g].asset # None =>
       /\ assignment'[g].asset = assignment[g].asset
       /\ assignment'[g].employee = assignment[g].employee

\* No foreign key dangles.
KeysHold ==
  /\ \A r \in Requests :
       request[r].status # "absent" => request[r].requester \notin gone
  /\ \A s \in Steps : step[s].status # "absent" =>
       /\ step[s].approver \notin gone
       /\ request[step[s].request].status # "absent"
  /\ \A g \in Assignments : assignment[g].status # "absent" =>
       /\ assignment[g].employee \notin gone
       /\ assignment[g].request # None =>
            request[assignment[g].request].status # "absent"
  /\ \A a \in Assets : asset[a].assignedEmployee \notin gone

LEMMA TypesAndKeys ==
  DeparturesTypeOK <=>
    /\ RequestsTypeOK /\ InventoryTypeOK
    /\ gone \subseteq Leavers /\ KeysHold
  BY DEF DeparturesTypeOK, KeysHold

\* A handler keeps what it holds while others move.
LEMMA CallHeld ==
  ASSUME RequestsTypeOK, Stays, NEW c \in Calls, CallHolds(c), call'[c] = call[c],
         \A g \in Assignments :
           Names(c, g) => assignment'[g].request \in {call[c].request, None}
  PROVE  CallHolds(c)'
<1> DEFINE r == call[c].request
           s == call[c].step
           a == call[c].asset
<1>1. /\ s \in Steps \cup {None} /\ call[c].siblings \subseteq Steps
      /\ call[c].links \subseteq Assignments
      /\ call[c].op \in {"none", "create", "approve", "reject", "cancel"}
  BY DEF RequestsTypeOK, Call
<1>2. call[c].op # "none" => /\ r \in Requests /\ r # None
                             /\ request'[r].requester # None
                             /\ request'[r].type = request[r].type
                             /\ request'[r].model = request[r].model
  BY NoneAssumption DEF CallHolds, Stays
<1>3. call[c].op \in {"create", "approve", "reject"} =>
        /\ s \in Steps /\ step[s].request = r
        /\ step'[s].request = r /\ step'[s].role = step[s].role
        /\ step[s].status # "pending" => step'[s].status # "pending"
  BY <1>2 DEF CallHolds, Stays
<1>4. At(c, "reject", "ready") =>
        \A n \in call[c].siblings : n # s /\ step'[n].request = r
  BY <1>1, <1>2 DEF CallHolds, Stays, At
<1>5. At(c, "approve", "ready") =>
        /\ a \in Assets /\ asset[a].model # None
        /\ asset'[a].model = asset[a].model
  BY DEF CallHolds, LoanReady, Stays
<1>6. LoanReady(c)'
  BY <1>2, <1>3, <1>5 DEF CallHolds, LoanReady, At
<1>7. DecisionReady(c)'
  <2>1. call[c].pc \in {"reloaded", "locked", "ready"} =>
          call[c].op \in {"approve", "reject"}
    BY <1>1 DEF CallHolds
  <2> QED
    BY <1>3, <2>1 DEF CallHolds, DecisionReady
<1>8. \A g \in Assignments : Names(c, g)' =>
        /\ assignment'[g].asset \in Assets
        /\ assignment'[g].request \in {r, None}
  BY <1>1, NoneAssumption DEF CallHolds, Stays, Names
<1> QED
  BY <1>2, <1>3, <1>4, <1>5, <1>6, <1>7, <1>8 DEF CallHolds, At

\* A step that went with its approver is not forgotten.
LEMMA LostStays ==
  ASSUME Stays, gone \subseteq gone', NEW r \in Requests, NEW role, LostStep(r, role)
  PROVE  LostStep(r, role)'
  BY NoneAssumption DEF LostStep, Stays

LEMMA FulfilHeld ==
  ASSUME Stays, gone \subseteq gone', NEW l, Fits(l), FulfilHolds(l),
         \A r \in Requests :
           request'[r].status # "absent" /\ HasStep(r, "procurement_manager", FALSE)
             => ProcurementActed(r)'
  PROVE  FulfilHolds(l)'
<1> SUFFICES ASSUME l.fulfils PROVE FulfilHolds(l)'
  BY DEF FulfilHolds
<1>1. l.request \in Requests /\ request[l.request].requester # None
  BY DEF Fits, FulfilHolds
<1>2. /\ request'[l.request].requester # None
      /\ request'[l.request].type = request[l.request].type
      /\ request'[l.request].status # "absent" => request[l.request].status # "absent"
  BY <1>1 DEF Stays
<1>3. ASSUME request'[l.request].status # "absent"
      PROVE  /\ request'[l.request].type = "procurement"
             /\ ProcurementActed(l.request)'
  <2>1. /\ request[l.request].type = "procurement"
        /\ ProcurementActed(l.request)
    BY <1>2, <1>3 DEF FulfilHolds
  <2>2. CASE HasStep(l.request, "procurement_manager", FALSE)
    BY <1>1, <1>2, <1>3, <2>1, <2>2
  <2>3. CASE LostStep(l.request, "procurement_manager")
    BY <1>1, <1>2, <2>1, <2>3, LostStays DEF ProcurementActed
  <2> QED
    BY <2>1, <2>2, <2>3 DEF ProcurementActed
<1> QED
  BY <1>2, <1>3 DEF FulfilHolds

\* The locals of the inventory's handlers still fit the rows.
LEMMA FitsHeld ==
  ASSUME Stays, NEW l, Fits(l), EntityReady(l)
  PROVE  Fits(l)' /\ EntityReady(l)'
  BY NoneAssumption DEF Stays, Fits, EntityReady, Returns

-----------------------------------------------------------------------------
(* A step of the workflow by a handler that finds its rows there.          *)

LEMMA RequestSet ==
  ASSUME RequestsTypeOK, NEW q \in Requests, request[q].status # "absent",
         NEW status, request' = [request EXCEPT ![q].status = status]
  PROVE  \A r \in Requests :
           /\ request'[r].type = request[r].type
           /\ request'[r].requester = request[r].requester
           /\ request'[r].model = request[r].model
           /\ request[r].status = "absent" => request'[r].status = "absent"
  BY DEF RequestsTypeOK, TablesTypeOK, EquipmentRequest

\* A decision, and the rejection of the steps it skips, touch no column but
\* the status and no step that is not there.
LEMMA DecisionStays ==
  ASSUME RequestsTypeOK, NEW c \in Calls, Refers(c),
         call[c].op \in {"approve", "reject"}, NEW s \in Steps,
         \/ step'[s] = Decided(c)[s]
         \/ step'[s] = [step[s] EXCEPT !.status = "skipped"] /\ step[s].status # "absent"
  PROVE  /\ step'[s].request = step[s].request
         /\ step'[s].role = step[s].role
         /\ step'[s].approver = step[s].approver
         /\ step[s].status = "absent" => step'[s].status = "absent"
         /\ step[s].status # "pending" => step'[s].status # "pending"
<1>1. CASE step'[s] = Decided(c)[s]
  BY <1>1, DecidedOK
<1>2. CASE step'[s] = [step[s] EXCEPT !.status = "skipped"] /\ step[s].status # "absent"
  BY <1>2 DEF RequestsTypeOK, TablesTypeOK, ApprovalStep
<1> QED
  BY <1>1, <1>2

LEMMA WorkflowStays ==
  ASSUME RequestsTypeOK, NEW c \in Calls, Refers(c), RejectionReady(c),
         Arrive(c) \/ Proceed(c) \/ Interrupt(c)
  PROVE  /\ Stays
         /\ \A g \in Assignments : assignment[g].asset # None =>
              \/ assignment'[g].request \in {assignment[g].request, None}
              \/ Names(c, g) /\ assignment'[g].request = call[c].request
<1> DEFINE Goal ==
      /\ Stays
      /\ \A g \in Assignments : assignment[g].asset # None =>
           \/ assignment'[g].request \in {assignment[g].request, None}
           \/ Names(c, g) /\ assignment'[g].request = call[c].request
<1> USE DEF RequestsTypeOK, TablesTypeOK
<1>1. CASE ~Writes(c)
  BY <1>1, OnlyWritesWrite DEF Stays
<1>2. ASSUME NEW u \in Employees, NEW r \in Requests, NEW s \in Steps,
             NEW type \in RequestType, NEW model \in Models \cup {None},
             NEW manager \in Managers,
             Create(c, u, r, s, type, model, manager)
      PROVE  Goal
  <2>1. request[r].requester = None /\ step[s].request = None
    BY <1>2 DEF Create, FreeRequests, FreeSteps, NoRequest, NoStep
  <2>2. /\ \A q \in Requests \ {r} : request'[q] = request[q]
        /\ \A n \in Steps \ {s} : step'[n] = step[n]
        /\ UNCHANGED <<asset, assignment>>
    BY <1>2 DEF Create
  <2> QED
    BY <2>1, <2>2 DEF Stays
<1>3. CASE CommitRejection(c)
  <2>1. /\ call[c].op = "reject" /\ call[c].request \in Requests
        /\ request[call[c].request].status # "absent"
        /\ \A s \in call[c].siblings : step[s].status # "absent"
    BY <1>3 DEF CommitRejection, At, Refers, RejectionReady
  <2>2. /\ request' = [request EXCEPT ![call[c].request].status = "rejected"]
        /\ UNCHANGED <<asset, assignment>>
        /\ \A s \in Steps :
             \/ step'[s] = Decided(c)[s]
             \/ /\ step'[s] = [step[s] EXCEPT !.status = "skipped"]
                /\ step[s].status # "absent"
    BY <1>3, <2>1 DEF CommitRejection
  <2> QED
    BY <2>1, <2>2, RequestSet, DecisionStays DEF Stays
<1>4. ASSUME NEW n \in Steps, NEW p \in ProcurementManagers,
             CommitManagerApproval(c, n, p)
      PROVE  Goal
  <2>1. /\ call[c].op = "approve" /\ call[c].request \in Requests
        /\ request[call[c].request].status # "absent"
        /\ step[n].request = None
    BY <1>4 DEF CommitManagerApproval, At, Refers, FreeSteps, NoStep
  <2>2. /\ request' = [request EXCEPT
             ![call[c].request].status = "pending_procurement_approval"]
        /\ UNCHANGED <<asset, assignment>>
        /\ \A s \in Steps \ {n} : step'[s] = Decided(c)[s]
    BY <1>4, <2>1, DecidedOK DEF CommitManagerApproval
  <2> QED
    BY <2>1, <2>2, RequestSet, DecisionStays DEF Stays
<1>5. CASE CommitProcurementApproval(c)
  <2>1. /\ call[c].op = "approve" /\ call[c].request \in Requests
        /\ request[call[c].request].status # "absent"
    BY <1>5 DEF CommitProcurementApproval, At, Refers
  <2>2. /\ request' = [request EXCEPT ![call[c].request].status = "procurement_approved"]
        /\ UNCHANGED <<asset, assignment>>
        /\ \A s \in Steps : step'[s] = Decided(c)[s]
    BY <1>5 DEF CommitProcurementApproval
  <2> QED
    BY <2>1, <2>2, RequestSet, DecisionStays DEF Stays
<1>6. ASSUME NEW g \in Assignments, CommitLoanApproval(c, g)
      PROVE  Goal
  <2> DEFINE r == call[c].request
             a == call[c].asset
  <2>1. /\ call[c].op = "approve" /\ r \in Requests
        /\ request[r].status # "absent" /\ assignment[g].asset = None
    BY <1>6 DEF CommitLoanApproval, At, Refers, FreeAssignments, NoAssignment
  <2>2. /\ request' = [request EXCEPT ![r].status = "fulfilled"]
        /\ \A s \in Steps : step'[s] = Decided(c)[s]
        /\ \A h \in Assignments \ {g} : assignment'[h] = assignment[h]
    BY <1>6 DEF CommitLoanApproval
  <2>3. asset' = [asset EXCEPT ![a].status = "in_use",
                    ![a].assignedEmployee = request[r].requester,
                    ![a].retiredAt = call[c].retired]
    BY <1>6 DEF CommitLoanApproval
  <2>4. \A b \in Assets : asset'[b].model = asset[b].model
    BY <2>3 DEF EquipmentAsset
  <2> QED
    BY <2>1, <2>2, <2>4, RequestSet, DecisionStays DEF Stays
<1>7. CASE CommitCancel(c)
  <2> DEFINE r == call[c].request
             status == IF call[c].dirty THEN "cancelled" ELSE request[r].status
  <2>1. r \in Requests /\ request[r].status # "absent"
    BY <1>7 DEF CommitCancel, At, Refers
  <2>2. /\ request' = [request EXCEPT ![r].status = status]
        /\ UNCHANGED <<step, asset>>
    BY <1>7 DEF CommitCancel
  <2>3. assignment' = Linked(c)
    BY <1>7 DEF CommitCancel
  <2>4. ASSUME NEW g \in Assignments
        PROVE  /\ assignment'[g].asset = assignment[g].asset
               /\ assignment'[g].employee = assignment[g].employee
               /\ \/ assignment'[g].request \in {assignment[g].request, None}
                  \/ Names(c, g) /\ assignment'[g].request = call[c].request
    BY <1>7, <2>3 DEF EquipmentAssignment, Linked, Names, At, CommitCancel
  <2> HIDE DEF status
  <2> QED
    BY <2>1, <2>2, <2>4, RequestSet DEF Stays
<1> QED
  BY <1>1, <1>2, <1>3, <1>4, <1>5, <1>6, <1>7 DEF Writes

\* A handler that finds its rows there refers to nobody who is gone.
LEMMA WorkflowKeys ==
  ASSUME RequestsTypeOK, RowsKeep, StepsBelong, StepsBelong', KeysHold, Stays,
         HistoryKeepsAsset, NEW c \in Calls, Refers(c), LoanReady(c),
         RejectionReady(c), NamesNobodyGone, UNCHANGED gone,
         Arrive(c) \/ Proceed(c) \/ Interrupt(c)
  PROVE  KeysHold'
<1> USE DEF RequestsTypeOK, TablesTypeOK
<1>1. ASSUME NEW r \in Requests, request'[r].status # "absent"
      PROVE  request'[r].requester \notin gone
  BY <1>1 DEF NamesNobodyGone, KeysHold, RowsKeep
<1>2. ASSUME NEW s \in Steps, step'[s].status # "absent"
      PROVE  /\ step'[s].approver \notin gone
             /\ request'[step'[s].request].status # "absent"
  <2>1. CASE step[s].status # "absent"
    <3>1. step[s].request # None
      BY <2>1, NoneAssumption DEF StepsBelong
    <3> QED
      BY <1>2, <2>1, <3>1 DEF Stays, KeysHold, StepsBelong
  <2>2. CASE step[s].status = "absent"
    BY <1>2, <2>2 DEF NamesNobodyGone, StepsBelong
  <2> QED
    BY <2>1, <2>2
<1>3. ASSUME NEW h \in Assignments, assignment'[h].status # "absent",
             assignment[h].status # "absent"
      PROVE  /\ assignment'[h].employee \notin gone
             /\ assignment'[h].request # None =>
                  request'[assignment'[h].request].status # "absent"
  <2>1. /\ assignment'[h].employee = assignment[h].employee
        /\ \/ assignment'[h].request \in {assignment[h].request, None}
           \/ Names(c, h) /\ assignment'[h].request = call[c].request
    BY <1>3, NoneAssumption, WorkflowStays DEF HistoryKeepsAsset, RowsKeep
  <2>2. assignment[h].request # None =>
          /\ assignment[h].request \in Requests
          /\ request[assignment[h].request].status # "absent"
    BY <1>3 DEF KeysHold, EquipmentAssignment
  <2>3. Names(c, h) => /\ call[c].request \in Requests
                       /\ request[call[c].request].status # "absent"
    BY DEF Names, Refers
  <2> QED
    BY <1>3, <2>1, <2>2, <2>3 DEF KeysHold, RowsKeep
<1>4. ASSUME NEW g \in Assignments, CommitLoanApproval(c, g)
      PROVE  KeysHold'
  <2> DEFINE r == call[c].request
             a == call[c].asset
  <2>1. /\ r \in Requests /\ request[r].status # "absent"
        /\ request[r].requester \notin gone
    BY <1>4 DEF CommitLoanApproval, At, Refers, KeysHold
  <2>2. \A h \in Assignments : assignment'[h] =
          IF h = g THEN [status |-> "active", asset |-> a,
                         employee |-> request[r].requester, request |-> r]
                   ELSE assignment[h]
    BY <1>4 DEF CommitLoanApproval
  <2>3. asset' = [asset EXCEPT ![a].status = "in_use",
                    ![a].assignedEmployee = request[r].requester,
                    ![a].retiredAt = call[c].retired]
    BY <1>4 DEF CommitLoanApproval
  <2>4. \A b \in Assets : asset'[b].assignedEmployee \in
          {asset[b].assignedEmployee, request[r].requester}
    BY <2>3 DEF EquipmentAsset
  <2>5. request'[r].status # "absent"
    BY <2>1 DEF RowsKeep
  <2> QED
    BY <1>1, <1>2, <1>3, <2>1, <2>2, <2>4, <2>5 DEF KeysHold
<1>5. CASE UNCHANGED asset /\ (\A g \in Assignments :
             assignment[g].status = "absent" => assignment'[g].status = "absent")
  BY <1>1, <1>2, <1>3, <1>5 DEF KeysHold
<1> QED
  BY <1>4, <1>5, WorkflowStock

\* Whoever makes a request is its requester.
LEMMA WorkflowRequests ==
  ASSUME RequestsTypeOK, RowsKeep, Requested, NEW c \in Calls, Refers(c),
         Arrive(c) \/ Proceed(c) \/ Interrupt(c)
  PROVE  Requested'
<1> SUFFICES ASSUME NEW r \in Requests, request'[r].status # "absent",
                    request[r].status = "absent"
             PROVE  request'[r].requester # None
  BY DEF Requested, RowsKeep
<1> USE DEF RequestsTypeOK, TablesTypeOK
<1>1. ASSUME NEW u \in Employees, NEW q \in Requests, NEW s \in Steps,
             NEW type \in RequestType, NEW model \in Models \cup {None},
             NEW manager \in Managers,
             Create(c, u, q, s, type, model, manager)
      PROVE  request'[r].requester # None
  <2>1. request'[r].requester = u
    BY <1>1 DEF Create
  <2> QED
    BY <2>1, NoneAssumption
<1>2. ASSUME call[c].op # "none", NEW status,
             request' = [request EXCEPT ![call[c].request].status = status]
      PROVE  FALSE
  BY <1>2 DEF Refers
<1>3. CASE CommitCancel(c)
  <2>1. call[c].op # "none"
    BY <1>3 DEF CommitCancel, At
  <2> QED
    BY <1>2, <1>3, <2>1 DEF CommitCancel
<1>4. ~Writes(c) => FALSE
  BY OnlyWritesWrite
<1> QED
  BY <1>1, <1>2, <1>3, <1>4 DEF Writes, At, CommitRejection,
     CommitManagerApproval, CommitProcurementApproval, CommitLoanApproval

LEMMA WorkflowCalls ==
  ASSUME DeparturesInv, RequestsTypeOK', ColumnsAgree', HistoryKeepsAsset',
         Requested', NEW c \in Calls, Arrive(c) \/ Proceed(c) \/ Interrupt(c),
         Refers(c), Refers(c)', RejectionReady(c)
  PROVE  \A d \in Calls : CallHolds(d)'
<1> SUFFICES ASSUME NEW d \in Calls PROVE CallHolds(d)'
  OBVIOUS
<1>0. RequestsTypeOK /\ CallHolds(d) /\ DecisionReady(c)
  BY DEF DeparturesInv, DeparturesTypeOK, CallHolds
<1>1. CASE d = c
  <2>1. RejectionReady(c)' /\ LoanReady(c)' /\ DecisionReady(c)'
    BY <1>0, MoverReady
  <2>2. call'[c] \in Call
    BY DEF RequestsTypeOK
  <2>3. At(c, "approve", "ready")' => asset'[call'[c].asset].model # None
    BY <2>1 DEF LoanReady, ColumnsAgree, Refers, At
  <2>4. ASSUME NEW g \in Assignments, Names(c, g)'
        PROVE  /\ assignment'[g].asset \in Assets
               /\ assignment'[g].request \in {call'[c].request, None}
    <3>1. /\ UNCHANGED tables
          /\ \/ assignment[g].status # "absent"
                  /\ assignment[g].request = call'[c].request
             \/ Names(c, g) /\ call'[c].request = call[c].request
      BY <1>0, <2>4, NamedNow
    <3>2. CASE assignment[g].status # "absent" /\ assignment[g].request = call'[c].request
      BY <3>1, <3>2 DEF tables, DeparturesInv, HistoryKeepsAsset
    <3>3. CASE Names(c, g) /\ call'[c].request = call[c].request
      BY <1>0, <1>1, <3>1, <3>3 DEF tables, CallHolds
    <3> QED
      BY <3>1, <3>2, <3>3
  <2>5. call'[c].op # "none" => request'[call'[c].request].requester # None
    BY DEF Refers, Requested
  <2> QED
    BY <1>1, <2>1, <2>3, <2>4, <2>5 DEF CallHolds, Refers, RejectionReady, At
<1>2. CASE d # c
  <2>1. Stays /\ call'[d] = call[d]
    BY <1>0, <1>2, WorkflowStays, OneHandlerMoves
  <2>2. ASSUME NEW g \in Assignments, Names(d, g)
        PROVE  assignment'[g].request \in {call[d].request, None}
    <3>1. /\ assignment[g].asset # None
          /\ assignment[g].request \in {call[d].request, None}
          /\ call[d].request \in Requests
      BY <1>0, <2>2, NoneAssumption DEF CallHolds, Names
    <3>2. Names(c, g) => call[c].request = call[d].request
      <4> SUFFICES ASSUME Names(c, g) PROVE call[c].request = call[d].request
        OBVIOUS
      <4>1. call[c].request \in Requests
        BY DEF Names, Refers
      <4>2. Named(g, call[c].request) /\ Named(g, call[d].request)
        BY <2>2 DEF Named, NamedBy
      <4> QED
        BY <3>1, <4>1, <4>2 DEF DeparturesInv, OneName
    <3> QED
      BY <1>0, <3>1, <3>2, WorkflowStays
  <2> QED
    BY <1>0, <2>1, <2>2, CallHeld
<1> QED
  BY <1>1, <1>2

LEMMA WorkflowJobs ==
  ASSUME DeparturesInv, RowsKeep, Stays, UNCHANGED <<job, gone>>
  PROVE  \A j \in Jobs : (Fits(job[j]) /\ EntityReady(job[j]) /\ FulfilHolds(job[j]))'
<1> SUFFICES ASSUME NEW j \in Jobs
             PROVE  (Fits(job[j]) /\ EntityReady(job[j]) /\ FulfilHolds(job[j]))'
  OBVIOUS
<1>1. PICK l : l = job[j]
  OBVIOUS
<1>2. Fits(l) /\ EntityReady(l) /\ FulfilHolds(l)
  BY <1>1 DEF DeparturesInv
<1>3. Fits(l)' /\ EntityReady(l)'
  BY <1>2, FitsHeld
<1>4. FulfilHolds(l)'
  BY <1>2, ActedStays, FulfilHeld DEF ProcurementActed
<1>5. job'[j] = l
  BY <1>1
<1> QED
  BY <1>3, <1>4, <1>5 DEF Fits, EntityReady, FulfilHolds

\* A request that only waits for somebody who has left still does.
LEMMA OrphanStays ==
  ASSUME Stays, gone \subseteq gone', NEW r \in Requests,
         request'[r].status = request[r].status,
         \E role \in StageOf(request[r].status) : LostStep(r, role)
  PROVE  \E role \in StageOf(request'[r].status) : LostStep(r, role)'
<1>1. PICK role \in StageOf(request[r].status) : LostStep(r, role)
  OBVIOUS
<1>2. LostStep(r, role)'
  BY <1>1, LostStays
<1>3. StageOf(request'[r].status) = StageOf(request[r].status)
  BY DEF StageOf
<1> QED
  BY <1>1, <1>2, <1>3

LEMMA WorkflowExplains ==
  ASSUME DeparturesInv, Stays, UNCHANGED gone, NEW c \in Calls,
         Arrive(c) \/ Proceed(c) \/ Interrupt(c), Refers(c), RejectionReady(c)
  PROVE  ExplainedUnlessOrphaned'
<1> SUFFICES ASSUME NEW r \in Requests, request'[r].status # "absent"
             PROVE  \/ Explained(r)'
                    \/ \E role \in StageOf(request'[r].status) : LostStep(r, role)'
  BY DEF ExplainedUnlessOrphaned
<1>1. RequestsTypeOK /\ LoanReady(c) /\ DecisionReady(c)
  BY DEF DeparturesInv, DeparturesTypeOK, CallHolds
<1>2. CASE LeftAlone(r)
  <2>1. \/ Explained(r)
        \/ \E role \in StageOf(request[r].status) : LostStep(r, role)
    BY <1>2 DEF DeparturesInv, ExplainedUnlessOrphaned, LeftAlone
  <2> QED
    BY <1>2, <2>1, ExplainedStays, OrphanStays DEF LeftAlone
<1> QED
  BY <1>1, <1>2, MoverExplains

\* What a cancel knows are assignments that were made.
LEMMA NamedWasMade ==
  ASSUME NEW c \in Calls, CallHolds(c), NEW g \in Assignments, Names(c, g)
  PROVE  assignment[g] # NoAssignment /\ assignment[g].asset # None
  BY NoneAssumption DEF CallHolds, NoAssignment

LEMMA LinksWereMade ==
  ASSUME RequestsTypeOK, NEW c \in Calls, CallHolds(c), At(c, "cancel", "compared"),
         NEW g \in call[c].links
  PROVE  assignment[g] # NoAssignment
<1>1. g \in Assignments /\ Names(c, g)
  BY DEF RequestsTypeOK, Call, At, Names
<1> QED
  BY <1>1, NamedWasMade

LEMMA WorkflowNames ==
  ASSUME DeparturesInv, UNCHANGED job, NEW c \in Calls,
         Arrive(c) \/ Proceed(c) \/ Interrupt(c), Refers(c), RejectionReady(c)
  PROVE  OneName'
<1>0. RequestsTypeOK /\ \A d \in Calls : CallHolds(d)
  BY DEF DeparturesInv, DeparturesTypeOK
<1>1. \A d \in Calls \ {c} : call'[d] = call[d]
  BY <1>0, OneHandlerMoves
<1>2. ASSUME NEW g \in Assignments, NEW r \in Requests, NEW d \in Calls, NamedBy(d, g, r)'
      PROVE  \/ NamedBy(d, g, r)
             \/ assignment[g].request = r /\ assignment'[g].request = r
  <2>1. CASE d = c
    <3>1. Names(c, g)' /\ call'[c].request = r
      BY <1>2, <2>1 DEF NamedBy
    <3>2. /\ UNCHANGED tables
          /\ \/ assignment[g].status # "absent"
                  /\ assignment[g].request = call'[c].request
             \/ Names(c, g) /\ call'[c].request = call[c].request
      BY <1>0, <3>1, NamedNow
    <3> QED
      BY <2>1, <3>1, <3>2 DEF NamedBy, tables
  <2>2. CASE d # c
    BY <1>1, <1>2, <2>2 DEF NamedBy, Names
  <2> QED
    BY <2>1, <2>2
<1>3. ASSUME NEW g \in Assignments
      PROVE  \/ \A r \in Requests : Named(g, r)' => Named(g, r)
             \/ \A r \in Requests : Named(g, r)' => assignment'[g].request = r
  <2>1. \A j \in Jobs : Brings(j, g)' <=> Brings(j, g)
    BY DEF Brings
  <2>2. CASE assignment[g].asset # None
    <3>1. \/ assignment'[g].request \in {assignment[g].request, None}
          \/ Names(c, g) /\ assignment'[g].request = call[c].request
      BY <1>0, <2>2, WorkflowStays
    <3>2. \A r \in Requests : assignment'[g].request = r => Named(g, r)
      BY <3>1, NoneAssumption DEF Named, NamedBy
    <3> QED
      BY <1>2, <2>1, <3>2 DEF Named
  <2>3. CASE assignment[g].asset = None
    <3>1. \A j \in Jobs : ~Brings(j, g)
      BY <2>3, NoneAssumption DEF Brings, DeparturesInv, Fits
    <3>2. \A d \in Calls, r \in Requests : ~NamedBy(d, g, r)
      BY <1>0, <2>3, NamedWasMade DEF NamedBy
    <3>3. \A d \in Calls, r \in Requests : NamedBy(d, g, r)' => assignment'[g].request = r
      BY <1>2, <3>2
    <3> QED
      BY <2>1, <3>1, <3>3 DEF Named
  <2> QED
    BY <2>2, <2>3
<1> QED
  BY <1>3, OneNameStep DEF DeparturesInv

LEMMA WorkflowLoans ==
  ASSUME DeparturesInv, RowsKeep, UNCHANGED job, NEW c \in Calls,
         Arrive(c) \/ Proceed(c) \/ Interrupt(c), Refers(c)
  PROVE  LoansSurvive'
<1> SUFFICES ASSUME NEW r \in Requests, FulfilledLoan(r)'
             PROVE  \E g \in Assignments : Witness(g, r)' /\ Kept(g, r)'
  BY DEF LoansSurvive
<1>0. RequestsTypeOK /\ LoanReady(c) /\ \A d \in Calls : CallHolds(d)
  BY DEF DeparturesInv, DeparturesTypeOK, CallHolds
<1>1. CASE FulfilledLoan(r)
  <2>1. PICK g \in Assignments : Witness(g, r) /\ Kept(g, r)
    BY <1>1 DEF DeparturesInv, LoansSurvive
  <2>2. Names(c, g) => call[c].request = r
    BY <1>0, <2>1, NoneAssumption DEF CallHolds, Witness, AssignmentsOf
  <2>3. Witness(g, r)'
    BY <1>0, <1>1, <2>1, <2>2, WitnessStays
  <2>4. Kept(g, r)'
    BY <2>1 DEF Kept, Brings
  <2> QED
    BY <2>3, <2>4
<1>2. CASE ~FulfilledLoan(r)
  <2>1. PICK g \in Assignments : assignment[g] = NoAssignment /\ Witness(g, r)'
    BY <1>0, <1>2, LinksWereMade, WitnessMade
  <2>2. Kept(g, r)'
    BY <2>1, NoneAssumption DEF Kept, Brings, DeparturesInv, Fits, NoAssignment
  <2> QED
    BY <2>1, <2>2
<1> QED
  BY <1>1, <1>2

\* The step of a handler that finds its rows there, and whose new rows name
\* nobody who is gone.
LEMMA WorkflowKeepsDepartures ==
  ASSUME DeparturesInv, UNCHANGED <<job, gone>>, NamesNobodyGone, NEW c \in Calls,
         Arrive(c) \/ Proceed(c), Refers(c), RejectionReady(c)
  PROVE  DeparturesInv'
<1> DEFINE acts == Arrive(c) \/ Proceed(c) \/ Interrupt(c)
<1>0. /\ RequestsTypeOK /\ StepsBelong /\ ColumnsAgree /\ HistoryKeepsAsset
      /\ KeysHold /\ InventoryTypeOK /\ gone \subseteq Leavers
      /\ LoanReady(c) /\ Requested
  BY TypesAndKeys DEF DeparturesInv, CallHolds
<1>1. TablesTypeOK' /\ RowsKeep /\ Stays
  BY <1>0, MoverTables, WorkflowStays
<1>2. RequestsTypeOK' /\ InventoryTypeOK'
  <2>1. [RequestsNext]_requestVars
    BY DEF RequestsNext
  <2> QED
    BY <1>0, <1>1, <2>1, CallTypeOK DEF RequestsTypeOK, InventoryTypeOK
<1>3. StepsBelong' /\ Refers(c)'
  BY <1>0, <1>1, StepsBelongStep, MoverRefers
<1>4. HistoryKeepsAsset' /\ ColumnsAgree' /\ Requested'
  BY <1>0, <1>1, <1>2, WorkflowKeepsHistory, WorkflowKeepsColumns, WorkflowRequests
<1>5. KeysHold'
  BY <1>0, <1>1, <1>3, WorkflowKeys
<1>6. DeparturesTypeOK'
  BY <1>0, <1>2, <1>5 DEF DeparturesTypeOK, KeysHold
<1> QED
  BY <1>1, <1>2, <1>3, <1>4, <1>6, WorkflowCalls, WorkflowJobs, WorkflowExplains,
     WorkflowNames, WorkflowLoans DEF DeparturesInv

-----------------------------------------------------------------------------
(* A step of the workflow by a handler that ends.                          *)

\* A handler that is not thwarted and has not committed finds its rows there.
LEMMA RowsFound ==
  ASSUME NEW c \in Calls, CallHolds(c), ~Thwarted(c), call[c].pc # "committed"
  PROVE  Refers(c) /\ RejectionReady(c)
<1>1. call[c].op # "none" => request[call[c].request].status # "absent"
  BY DEF CallHolds, Thwarted
<1>2. call[c].op \in {"approve", "reject"} =>
        \A s \in {call[c].step} \cup call[c].siblings : step[s].status # "absent"
  BY DEF CallHolds, Thwarted, StepGone
<1> QED
  BY <1>1, <1>2 DEF CallHolds, Refers, RejectionReady, At

LEMMA ArrivesIdle ==
  ASSUME NEW c \in Calls, Arrive(c)
  PROVE  call[c].pc = "idle"
<1>1. ASSUME NEW u, NEW r, NEW s, NEW type, NEW model, NEW manager,
             Create(c, u, r, s, type, model, manager)
      PROVE  call[c].pc = "idle"
  BY <1>1 DEF Create
<1>2. ASSUME NEW op, NEW s, NEW user, Check(c, op, s, user)
      PROVE  call[c].pc = "idle"
  BY <1>2 DEF Check
<1>3. ASSUME NEW r, NEW user, CancelRead(c, r, user)
      PROVE  call[c].pc = "idle"
  BY <1>3 DEF CancelRead
<1> QED
  BY <1>1, <1>2, <1>3 DEF Arrive

LEMMA CommittedOnlyNotifies ==
  ASSUME NEW c \in Calls, call[c].pc = "committed", Proceed(c)
  PROVE  Notify(c)
  BY DEF Proceed, ReadFreshStep, ReloadStep, LockStep, FindPendingSteps,
     FindAvailableAsset, CommitRejection, CommitManagerApproval,
     NoProcurementManager, CommitProcurementApproval, CommitLoanApproval,
     CancelReload, CommitCancel, DeadlockVictim, WaitsFor, At

\* A handler ends, and with it what it holds.
LEMMA EndKeepsDepartures ==
  ASSUME DeparturesInv, NEW c \in Calls, Return(c),
         UNCHANGED <<request, step, asset, assignment, job, gone>>,
         notice' \subseteq Notification
  PROVE  DeparturesInv'
<1>0. RequestsTypeOK /\ InventoryTypeOK
  BY DEF DeparturesInv, DeparturesTypeOK
<1>1. /\ call' = [call EXCEPT ![c] = NoCall] /\ NoCall \in Call
      /\ call'[c] = NoCall /\ \A d \in Calls \ {c} : call'[d] = call[d]
  BY <1>0 DEF Return, NoCall, Call, RetiredAt, RequestsTypeOK
<1>2. DeparturesTypeOK'
  <2>1. RequestsTypeOK' /\ InventoryTypeOK'
    BY <1>0, <1>1 DEF RequestsTypeOK, InventoryTypeOK, TablesTypeOK
  <2> QED
    BY <2>1 DEF DeparturesInv, DeparturesTypeOK
<1>3. HistoryKeepsAsset' /\ StepsBelong' /\ ColumnsAgree' /\ Requested'
  BY DEF DeparturesInv, HistoryKeepsAsset, StepsBelong, ColumnsAgree, Requested
<1>4. ASSUME NEW d \in Calls PROVE CallHolds(d)'
  <2>1. CASE d = c
    BY <1>1, <2>1 DEF CallHolds, LoanReady, DecisionReady, Names, At, NoCall
  <2>2. CASE d # c
    <3>1. CallHolds(d) /\ call'[d] = call[d]
      BY <1>1, <2>2 DEF DeparturesInv
    <3> QED
      BY <3>1 DEF CallHolds, LoanReady, DecisionReady, Names, At
  <2> QED
    BY <2>1, <2>2
<1>5. \A j \in Jobs : (Fits(job[j]) /\ EntityReady(job[j]) /\ FulfilHolds(job[j]))'
  BY DEF DeparturesInv, Fits, EntityReady, FulfilHolds, ProcurementActed, HasStep,
     StepsOf, LostStep
<1>6. ExplainedUnlessOrphaned'
  BY DEF DeparturesInv, ExplainedUnlessOrphaned, Explained, HasStep, StepsOf, LostStep
<1>7. \A d \in Calls : call'[d].op = "cancel" => call'[d] = call[d]
  BY <1>1 DEF NoCall
<1>8. OneName'
  <2>1. ASSUME NEW g \in Assignments, NEW r \in Requests, Named(g, r)'
        PROVE  Named(g, r)
    BY <1>7, <2>1 DEF Named, Brings, NamedBy, Names
  <2> QED
    BY <2>1 DEF DeparturesInv, OneName
<1>9. LoansSurvive'
  <2> SUFFICES ASSUME NEW r \in Requests, FulfilledLoan(r)'
               PROVE  \E g \in Assignments : Witness(g, r)' /\ Kept(g, r)'
    BY DEF LoansSurvive
  <2>1. PICK g \in Assignments : Witness(g, r) /\ Kept(g, r)
    BY DEF DeparturesInv, LoansSurvive, FulfilledLoan
  <2>2. Survives(g, r)'
    BY <1>7, <2>1 DEF Witness, Survives, At
  <2>3. Witness(g, r)'
    BY <2>1, <2>2 DEF Witness, AssignmentsOf, Backs
  <2>4. Kept(g, r)'
    BY <2>1 DEF Kept, Brings
  <2> QED
    BY <2>3, <2>4
<1> QED
  BY <1>2, <1>3, <1>4, <1>5, <1>6, <1>8, <1>9 DEF DeparturesInv

LEMMA NotifyKeepsDepartures ==
  ASSUME DeparturesInv, UNCHANGED <<job, gone>>, NEW c \in Calls, Notify(c)
  PROVE  DeparturesInv'
<1>1. /\ RequestsTypeOK /\ CallHolds(c) /\ call[c].op # "none"
      /\ call[c].request \in Requests
      /\ call[c].op = "create" => call[c].step \in Steps
  BY DEF DeparturesInv, DeparturesTypeOK, CallHolds, Notify
<1>2. PICK sent \in Notices(c, call[c].request) : notice' = notice \cup sent
  BY DEF Notify
<1>3. notice' \subseteq Notification
  BY <1>1, <1>2, NoticesOK DEF RequestsTypeOK, TablesTypeOK
<1> QED
  BY <1>3, EndKeepsDepartures DEF Notify

LEMMA WorkflowDeparts ==
  ASSUME DeparturesInv, WorkflowWhileLeaving
  PROVE  DeparturesInv'
<1>1. PICK c \in Calls :
        \/ Arrive(c) /\ NamesNobodyGone
        \/ ~Thwarted(c) /\ Proceed(c) /\ NamesNobodyGone
        \/ Thwarted(c) /\ Return(c) /\ UNCHANGED tables
        \/ Interrupt(c)
  BY DEF WorkflowWhileLeaving
<1>2. UNCHANGED <<job, gone>> /\ CallHolds(c)
  BY DEF DeparturesInv, WorkflowWhileLeaving
<1>3. CASE Arrive(c) /\ NamesNobodyGone
  <2>1. call[c].pc = "idle"
    BY <1>3, ArrivesIdle
  <2> QED
    BY <1>2, <1>3, <2>1, RowsFound, WorkflowKeepsDepartures DEF Thwarted
<1>4. CASE ~Thwarted(c) /\ Proceed(c) /\ NamesNobodyGone
  BY <1>2, <1>4, RowsFound, CommittedOnlyNotifies, WorkflowKeepsDepartures,
     NotifyKeepsDepartures
<1>5. CASE Return(c) /\ UNCHANGED tables
  <2>1. notice' \subseteq Notification
    BY <1>5 DEF tables, DeparturesInv, DeparturesTypeOK, RequestsTypeOK, TablesTypeOK
  <2> QED
    BY <1>2, <1>5, <2>1, EndKeepsDepartures DEF tables
<1> QED
  BY <1>1, <1>3, <1>4, <1>5 DEF Interrupt

-----------------------------------------------------------------------------
(* A step of the inventory.                                                *)

\* What handler j does when the row it is to fulfil is there.
FulfilsPresent(j) ==
  FulfilRequest(j) => request[job[j].request].status # "absent"

\* What a step of the inventory does to a request.
LEMMA RequestLeft ==
  ASSUME DeparturesInv, NEW j \in Jobs, InventoryKeeps(j), FulfilsPresent(j),
         NEW r \in Requests
  PROVE  \/ request'[r] = request[r]
         \/ /\ request'[r] = [request[r] EXCEPT !.status = "fulfilled"]
            /\ request'[r].status = "fulfilled"
            /\ request[r].status # "absent"
            /\ request[r].type = "procurement"
            /\ ProcurementActed(r)
<1>1. CASE FulfilRequest(j)
  <2>1. /\ job[j].pc = "inserted"
        /\ request' = [request EXCEPT ![job[j].request].status = "fulfilled"]
        /\ request[job[j].request].status # "absent"
    BY <1>1 DEF FulfilRequest, FulfilsPresent
  <2>2. job[j].fulfils /\ FulfilHolds(job[j])
    BY <2>1 DEF DeparturesInv, EntityReady
  <2>3. request \in [Requests -> EquipmentRequest]
    BY DEF DeparturesInv, DeparturesTypeOK, RequestsTypeOK, TablesTypeOK
  <2>4. CASE r = job[j].request
    BY <2>1, <2>2, <2>3, <2>4 DEF FulfilHolds, EquipmentRequest
  <2>5. CASE r # job[j].request
    BY <2>1, <2>3, <2>5
  <2> QED
    BY <2>4, <2>5
<1> QED
  BY <1>1 DEF InventoryKeeps

LEMMA InventoryStays ==
  ASSUME DeparturesInv, NEW j \in Jobs, InventoryKeeps(j), FulfilsPresent(j)
  PROVE  /\ Stays
         /\ \A r \in Requests :
              /\ request'[r].type = request[r].type
              /\ request'[r].requester = request[r].requester
              /\ request'[r].model = request[r].model
              /\ (request'[r].status = "absent") = (request[r].status = "absent")
              /\ request'[r].status = "procurement_approved"
                   => request[r].status = "procurement_approved"
              /\ request[r].type = "loan" => request'[r].status = request[r].status
         /\ \A g \in Assignments : assignment[g].asset # None =>
              \/ assignment'[g].request = assignment[g].request
              \/ Brings(j, g) /\ assignment'[g].request = job[j].links
<1>1. ASSUME NEW r \in Requests
      PROVE  /\ request'[r].type = request[r].type
             /\ request'[r].requester = request[r].requester
             /\ request'[r].model = request[r].model
             /\ (request'[r].status = "absent") = (request[r].status = "absent")
             /\ request'[r].status = "procurement_approved"
                  => request[r].status = "procurement_approved"
             /\ request[r].type = "loan" => request'[r].status = request[r].status
  <2>1. request[r] \in EquipmentRequest
    BY DEF DeparturesInv, DeparturesTypeOK, RequestsTypeOK, TablesTypeOK
  <2> QED
    BY <2>1, RequestLeft DEF EquipmentRequest
<1>2. ASSUME NEW g \in Assignments, assignment[g].asset # None
      PROVE  /\ assignment'[g].asset = assignment[g].asset
             /\ assignment'[g].employee = assignment[g].employee
             /\ \/ assignment'[g].request = assignment[g].request
                \/ Brings(j, g) /\ assignment'[g].request = job[j].links
  BY <1>2 DEF InventoryKeeps, NoAssignment
<1>3. Stays
  BY <1>1, <1>2 DEF Stays, InventoryKeeps
<1> QED
  BY <1>1, <1>2, <1>3

LEMMA InventoryCalls ==
  ASSUME DeparturesInv, UNCHANGED call, NEW j \in Jobs, InventoryKeeps(j),
         FulfilsPresent(j)
  PROVE  \A c \in Calls : CallHolds(c)'
<1> SUFFICES ASSUME NEW c \in Calls PROVE CallHolds(c)'
  OBVIOUS
<1>0. RequestsTypeOK /\ CallHolds(c) /\ Stays
  BY InventoryStays DEF DeparturesInv, DeparturesTypeOK
<1>1. ASSUME NEW g \in Assignments, Names(c, g)
      PROVE  assignment'[g].request \in {call[c].request, None}
  <2>1. /\ assignment[g].asset # None
        /\ assignment[g].request \in {call[c].request, None}
        /\ call[c].request \in Requests
    BY <1>0, <1>1, NamedWasMade DEF CallHolds, Names
  <2>2. CASE Brings(j, g) /\ assignment'[g].request = job[j].links
    <3>1. job[j].links \in Requests \cup {None}
      BY DEF DeparturesInv, DeparturesTypeOK, InventoryTypeOK, Job
    <3>2. NamedBy(c, g, call[c].request)
      BY <1>1 DEF NamedBy
    <3> QED
      BY <2>1, <2>2, <3>1, <3>2 DEF DeparturesInv, OneName, Named
  <2> QED
    BY <2>1, <2>2, InventoryStays
<1> QED
  BY <1>0, <1>1, CallHeld

\* An approved request is one that procurement has acted on.
LEMMA ApprovedActed ==
  ASSUME DeparturesInv, NEW r \in Requests, request[r].status = "procurement_approved"
  PROVE  /\ request[r].requester # None /\ request[r].type = "procurement"
         /\ ProcurementActed(r)
<1>1. \/ Explained(r)
      \/ \E role \in StageOf(request[r].status) : LostStep(r, role)
  BY DEF DeparturesInv, ExplainedUnlessOrphaned
<1>2. StageOf(request[r].status) = {"procurement_manager"}
  BY DEF StageOf
<1>3. ProcurementActed(r)
  BY <1>1, <1>2 DEF Explained, ProcurementActed
<1> QED
  BY <1>3 DEF DeparturesInv, Requested, ColumnsAgree

LEMMA ProcurementActedStays ==
  ASSUME Stays, gone \subseteq gone', UNCHANGED step, NEW r \in Requests,
         ProcurementActed(r)
  PROVE  ProcurementActed(r)'
<1>1. HasStep(r, "procurement_manager", FALSE) => HasStep(r, "procurement_manager", FALSE)'
  BY DEF HasStep, StepsOf
<1> QED
  BY <1>1, LostStays DEF ProcurementActed

LEMMA InventoryJobs ==
  ASSUME DeparturesInv, InventoryFits', UNCHANGED gone, NEW j \in Jobs, Effect(j),
         FulfilsPresent(j)
  PROVE  \A i \in Jobs : (Fits(job[i]) /\ EntityReady(job[i]) /\ FulfilHolds(job[i]))'
<1>0. Stays /\ UNCHANGED step
  BY InventoryStays DEF Effect, InventoryKeeps
<1>1. ASSUME NEW l, Fits(l), FulfilHolds(l)
      PROVE  FulfilHolds(l)'
  BY <1>0, <1>1, FulfilHeld, ProcurementActedStays DEF ProcurementActed
<1>2. ASSUME NEW i \in Jobs \ {j}
      PROVE  EntityReady(job[i])' /\ FulfilHolds(job[i])'
  <2>1. PICK l : l = job[i]
    OBVIOUS
  <2>2. Fits(l) /\ EntityReady(l) /\ FulfilHolds(l)
    BY <2>1 DEF DeparturesInv
  <2>3. EntityReady(l)' /\ FulfilHolds(l)'
    BY <1>0, <1>1, <2>2, FitsHeld
  <2>4. job'[i] = l
    BY <2>1 DEF Effect
  <2> QED
    BY <2>3, <2>4 DEF EntityReady, FulfilHolds
<1>3. FulfilHolds(job[j])'
  <2> SUFFICES ASSUME job'[j].fulfils PROVE FulfilHolds(job[j])'
    BY DEF FulfilHolds
  <2>1. CASE job[j].fulfils /\ job'[j].request = job[j].request
    <3>1. PICK l : l = job[j]
      OBVIOUS
    <3>2. FulfilHolds(l)' /\ l.fulfils
      BY <1>1, <2>1, <3>1 DEF DeparturesInv
    <3> QED
      BY <2>1, <3>1, <3>2 DEF FulfilHolds
  <2>2. CASE /\ UNCHANGED tables /\ job'[j].request \in Requests
             /\ request[job'[j].request].status = "procurement_approved"
    BY <1>0, <2>2, ApprovedActed, ProcurementActedStays DEF FulfilHolds, tables
  <2> QED
    BY <2>1, <2>2 DEF Effect, StillFulfils
<1> QED
  BY <1>2, <1>3 DEF Effect, InventoryFits

LEMMA InventoryExplains ==
  ASSUME DeparturesInv, UNCHANGED gone, NEW j \in Jobs, InventoryKeeps(j),
         FulfilsPresent(j)
  PROVE  ExplainedUnlessOrphaned'
<1> SUFFICES ASSUME NEW r \in Requests, request'[r].status # "absent"
             PROVE  \/ Explained(r)'
                    \/ \E role \in StageOf(request'[r].status) : LostStep(r, role)'
  BY DEF ExplainedUnlessOrphaned
<1>0. Stays /\ UNCHANGED step
  BY InventoryStays DEF InventoryKeeps
<1>1. CASE request'[r] = request[r]
  <2>1. \/ Explained(r)
        \/ \E role \in StageOf(request[r].status) : LostStep(r, role)
    BY <1>1 DEF DeparturesInv, ExplainedUnlessOrphaned
  <2> QED
    BY <1>0, <1>1, <2>1, ExplainedStays, OrphanStays
<1>2. CASE request'[r].status = "fulfilled" /\ ProcurementActed(r)
  <2>1. ProcurementActed(r)'
    BY <1>0, <1>2, ProcurementActedStays
  <2>2. StageOf(request'[r].status) = {"procurement_manager"}
    BY <1>2 DEF StageOf
  <2>3. CASE HasStep(r, "procurement_manager", FALSE)'
    BY <1>2, <2>3 DEF Explained
  <2> QED
    BY <2>1, <2>2, <2>3 DEF ProcurementActed
<1> QED
  BY <1>1, <1>2, RequestLeft

LEMMA InventoryNames ==
  ASSUME DeparturesInv, UNCHANGED call, NEW j \in Jobs, Effect(j), FulfilsPresent(j)
  PROVE  OneName'
<1>1. ASSUME NEW g \in Assignments
      PROVE  \/ \A r \in Requests : Named(g, r)' => Named(g, r)
             \/ \A r \in Requests : Named(g, r)' => assignment'[g].request = r
  <2>1. \A c \in Calls, r \in Requests : NamedBy(c, g, r)' <=> NamedBy(c, g, r)
    BY DEF NamedBy, Names
  <2>2. CASE assignment[g].asset # None
    <3>1. \A r \in Requests : assignment'[g].request = r => Named(g, r)
      BY <2>2, InventoryStays DEF Effect, Named
    <3>2. ASSUME NEW i \in Jobs, NEW r \in Requests, Brings(i, g)', job'[i].links = r
          PROVE  Named(g, r)
      <4>1. CASE i = j
        BY <3>2, <4>1 DEF Effect, HoldsLink, Named
      <4>2. CASE i # j
        BY <3>2, <4>2 DEF Effect, Brings, Named
      <4> QED
        BY <4>1, <4>2
    <3> QED
      BY <2>1, <3>1, <3>2 DEF Named
  <2>3. CASE assignment[g].asset = None
    <3>1. ASSUME NEW i \in Jobs, Brings(i, g)'
          PROVE  FALSE
      <4>1. CASE i = j
        BY <2>3, <3>1, <4>1, NoneAssumption DEF Effect, HoldsLink
      <4>2. CASE i # j
        BY <2>3, <3>1, <4>2, NoneAssumption DEF Effect, Brings, DeparturesInv, Fits
      <4> QED
        BY <4>1, <4>2
    <3>2. \A c \in Calls, r \in Requests : ~NamedBy(c, g, r)
      BY <2>3, NamedWasMade DEF NamedBy, DeparturesInv, DeparturesTypeOK
    <3> QED
      BY <2>1, <3>1, <3>2 DEF Named
  <2> QED
    BY <2>2, <2>3
<1> QED
  BY <1>1, OneNameStep DEF DeparturesInv

LEMMA InventoryLoans ==
  ASSUME DeparturesInv, UNCHANGED call, NEW j \in Jobs, Effect(j), FulfilsPresent(j)
  PROVE  LoansSurvive'
<1> SUFFICES ASSUME NEW r \in Requests, FulfilledLoan(r)'
             PROVE  \E g \in Assignments : Witness(g, r)' /\ Kept(g, r)'
  BY DEF LoansSurvive
<1>1. /\ FulfilledLoan(r)
      /\ request'[r].requester = request[r].requester
      /\ request'[r].model = request[r].model
      /\ request[r].model # None
  BY InventoryStays DEF Effect, FulfilledLoan, DeparturesInv, ColumnsAgree
<1>2. PICK g \in Assignments : Witness(g, r) /\ Kept(g, r)
  BY <1>1 DEF DeparturesInv, LoansSurvive
<1>3. /\ assignment[g].status # "absent" /\ assignment[g].request = r
      /\ assignment[g].asset \in Assets
      /\ assignment[g].employee = request[r].requester
      /\ asset[assignment[g].asset].model = request[r].model
      /\ Survives(g, r)
  BY <1>2 DEF Witness, AssignmentsOf, Backs
<1>4. /\ assignment'[g].status # "absent"
      /\ assignment'[g].asset = assignment[g].asset
      /\ assignment'[g].employee = assignment[g].employee
      /\ assignment'[g].request = r
      /\ asset'[assignment[g].asset].model = asset[assignment[g].asset].model
  BY <1>1, <1>2, <1>3 DEF Effect, InventoryKeeps, Kept
<1>5. Survives(g, r)'
  BY <1>3 DEF Survives, At
<1>6. Witness(g, r)'
  BY <1>1, <1>3, <1>4, <1>5 DEF Witness, AssignmentsOf, Backs
<1>7. ASSUME NEW i \in Jobs, Brings(i, g)'
      PROVE  job'[i].links = r
  <2>1. CASE i = j
    BY <1>2, <1>3, <1>7, <2>1 DEF Effect, HoldsLink, Kept
  <2>2. CASE i # j
    BY <1>2, <1>7, <2>2 DEF Effect, Brings, Kept
  <2> QED
    BY <2>1, <2>2
<1> QED
  BY <1>6, <1>7 DEF Kept

LEMMA InventoryKeepsDepartures ==
  ASSUME DeparturesInv, InventoryFits', KeysHold', UNCHANGED <<call, gone>>,
         NEW j \in Jobs, Effect(j), FulfilsPresent(j)
  PROVE  DeparturesInv'
<1>0. InventoryKeeps(j)
  BY DEF Effect
<1>1. DeparturesTypeOK' /\ HistoryKeepsAsset'
  BY DEF DeparturesInv, DeparturesTypeOK, InventoryFits, InventoryTypeOK,
     RequestsTypeOK, KeysHold
<1>2. StepsBelong' /\ Requested'
  BY <1>0, InventoryStays DEF DeparturesInv, StepsBelong, Requested, InventoryKeeps
<1>3. ColumnsAgree'
  BY <1>0, InventoryStays DEF DeparturesInv, ColumnsAgree, InventoryKeeps
<1> QED
  BY <1>0, <1>1, <1>2, <1>3, InventoryCalls, InventoryJobs, InventoryExplains,
     InventoryNames, InventoryLoans DEF DeparturesInv

\* What a handler writes refers to nobody and to no request that is gone.
LEMMA KeysKept ==
  ASSUME DeparturesInv, UNCHANGED gone, NEW j \in Jobs, InventoryKeeps(j),
         FulfilsPresent(j),
         \A g \in Assignments :
           \/ assignment'[g] = assignment[g]
           \/ /\ assignment'[g].employee \notin gone
              /\ assignment'[g].request # None =>
                   request[assignment'[g].request].status # "absent",
         \A a \in Assets :
           \/ asset'[a].assignedEmployee = asset[a].assignedEmployee
           \/ asset'[a].assignedEmployee \notin gone,
         assignment' \in [Assignments -> EquipmentAssignment]
  PROVE  KeysHold'
<1>0. KeysHold /\ StepsBelong
  BY TypesAndKeys DEF DeparturesInv
<1>1. \A g \in Assignments : assignment'[g].request \in Requests \cup {None}
  BY DEF EquipmentAssignment
<1>2. \A g \in Assignments : assignment'[g].status # "absent" =>
        /\ assignment'[g].employee \notin gone
        /\ assignment'[g].request # None =>
             request'[assignment'[g].request].status # "absent"
  BY <1>0, <1>1, InventoryStays DEF KeysHold
<1>3. \A s \in Steps : step'[s].status # "absent" =>
        /\ step'[s].approver \notin gone
        /\ request'[step'[s].request].status # "absent"
  BY <1>0, InventoryStays DEF KeysHold, StepsBelong, InventoryKeeps
<1>4. \A r \in Requests :
        request'[r].status # "absent" => request'[r].requester \notin gone
  BY <1>0, InventoryStays DEF KeysHold
<1> QED
  BY <1>0, <1>2, <1>3, <1>4 DEF KeysHold

LEMMA NobodyGone == DeparturesInv => None \notin gone
  BY LeaverAssumption, NoneAssumption DEF DeparturesInv, DeparturesTypeOK

\* A handler that starts writes nothing, unless it enters an asset.
LEMMA StartWrites ==
  ASSUME NEW j \in Jobs, StartJob(j)
  PROVE  /\ job[j].pc = "idle"
         /\ \/ UNCHANGED tables
            \/ \E a \in Assets, model \in Models, status \in Manual \cup {"available"} :
                 CreateAsset(j, a, model, status)
<1>1. ASSUME NEW op, NEW a, NEW entity, NEW columns, Load(j, op, a, entity, columns)
      PROVE  job[j].pc = "idle" /\ UNCHANGED tables
  BY <1>1 DEF Load
<1>2. ASSUME NEW a, Update(j, a) \/ Retire(j, a) \/ \E status \in Manual : UpdateStatus(j, a, status)
      PROVE  job[j].pc = "idle" /\ UNCHANGED tables
  BY <1>1, <1>2 DEF Update, Retire, UpdateStatus
<1>3. ASSUME NEW a, NEW u, NEW r, Assign(j, a, u, r)
      PROVE  job[j].pc = "idle" /\ UNCHANGED tables
  BY <1>3 DEF Assign
<1>4. ASSUME NEW a, FindRemovable(j, a)
      PROVE  job[j].pc = "idle" /\ UNCHANGED tables
  BY <1>4 DEF FindRemovable
<1>5. ASSUME NEW g, RequestReturn(j, g) \/ CompleteReturn(j, g)
      PROVE  job[j].pc = "idle" /\ UNCHANGED tables
  BY <1>5 DEF RequestReturn, CompleteReturn, LoadAssignment
<1>6. ASSUME NEW a, NEW model, NEW status, CreateAsset(j, a, model, status)
      PROVE  job[j].pc = "idle"
  BY <1>6 DEF CreateAsset
<1> QED
  BY <1>2, <1>3, <1>4, <1>5, <1>6 DEF StartJob

LEMMA StartKeys ==
  ASSUME DeparturesInv, InventoryFits', UNCHANGED gone, NEW j \in Jobs,
         InventoryKeeps(j), StartJob(j)
  PROVE  KeysHold'
<1>1. UNCHANGED assignment
  BY StartWrites DEF CreateAsset, tables
<1>2. ASSUME NEW a \in Assets
      PROVE  \/ asset'[a].assignedEmployee = asset[a].assignedEmployee
             \/ asset'[a].assignedEmployee \notin gone
  <2>1. ASSUME NEW b \in Assets, NEW model, NEW status, CreateAsset(j, b, model, status)
        PROVE  \/ asset'[a].assignedEmployee = asset[a].assignedEmployee
               \/ asset'[a].assignedEmployee \notin gone
    <3>1. asset[a] = asset'[a] \/ asset'[a].assignedEmployee = None
      BY <2>1 DEF CreateAsset, DeparturesInv, DeparturesTypeOK, RequestsTypeOK, TablesTypeOK
    <3> QED
      BY <3>1, NobodyGone
  <2> QED
    BY <2>1, StartWrites DEF tables
<1>3. FulfilsPresent(j)
  BY StartWrites DEF FulfilRequest, FulfilsPresent
<1>4. assignment' \in [Assignments -> EquipmentAssignment]
  BY DEF InventoryFits, InventoryTypeOK, TablesTypeOK
<1> QED
  BY <1>1, <1>2, <1>3, <1>4, KeysKept

\* What a job that is not thwarted finds there.
LEMMA JobFinds ==
  ASSUME DeparturesInv, NEW j \in Jobs, ~ThwartedJob(j)
  PROVE  /\ FulfilsPresent(j)
         /\ WriteAssignment(j) => assignment[job[j].assignment].status # "absent"
<1>1. Fits(job[j])
  BY DEF DeparturesInv
<1>2. FulfilsPresent(j)
  BY <1>1, NoneAssumption DEF FulfilsPresent, FulfilRequest, ThwartedJob, Fits
<1>3. WriteAssignment(j) => assignment[job[j].assignment].status # "absent"
  BY <1>1 DEF WriteAssignment, ThwartedJob, Fits, Returns, Returning
<1> QED
  BY <1>2, <1>3

\* Which action of a handler that goes on writes which table.
LEMMA ContinueWrites ==
  ASSUME NEW j \in Jobs, ContinueJob(j)
  PROVE  /\ UNCHANGED asset \/ WriteAsset(j) \/ InsertMissing(j) \/ Delete(j)
         /\ \/ UNCHANGED assignment \/ WriteAssignment(j)
            \/ \E g \in Assignments : InsertAssignment(j, g)
<1>1. CompareAsset(j) \/ FindRequest(j) \/ CountHistory(j) \/ CompareAssignment(j)
        => UNCHANGED tables
  <2>1. ASSUME CompareAsset(j) PROVE UNCHANGED tables
    BY <2>1 DEF CompareAsset
  <2>2. ASSUME FindRequest(j) PROVE UNCHANGED tables
    BY <2>2, ZenonT(60) DEF FindRequest
  <2>3. ASSUME CountHistory(j) PROVE UNCHANGED tables
    BY <2>3 DEF CountHistory
  <2>4. ASSUME CompareAssignment(j) PROVE UNCHANGED tables
    BY <2>4 DEF CompareAssignment
  <2> QED
    BY <2>1, <2>2, <2>3, <2>4
<1>2. FulfilRequest(j) \/ NotifyHolder(j) => UNCHANGED <<asset, assignment>>
  BY DEF FulfilRequest, NotifyHolder
<1>3. WriteAsset(j) \/ InsertMissing(j) \/ Delete(j) => UNCHANGED assignment
  BY DEF WriteAsset, InsertMissing, Delete
<1>4. WriteAssignment(j) \/ (\E g \in Assignments : InsertAssignment(j, g))
        => UNCHANGED asset
  BY DEF WriteAssignment, InsertAssignment
<1> QED
  BY <1>1, <1>2, <1>3, <1>4 DEF ContinueJob, tables

LEMMA AssetKeys ==
  ASSUME DeparturesInv, NEW j \in Jobs, ~ThwartedJob(j), ContinueJob(j),
         NEW a \in Assets
  PROVE  \/ asset'[a].assignedEmployee = asset[a].assignedEmployee
         \/ asset'[a].assignedEmployee \notin gone
<1> DEFINE b == job[j].asset
           x == job[j].entity
           Goal == \/ asset'[a].assignedEmployee = asset[a].assignedEmployee
                   \/ asset'[a].assignedEmployee \notin gone
<1>0. /\ asset \in [Assets -> EquipmentAsset] /\ job[j] \in Job /\ Fits(job[j])
  BY DEF DeparturesInv, DeparturesTypeOK, InventoryTypeOK, TablesTypeOK
<1>1. CASE WriteAsset(j)
  <2>1. /\ job[j].pc = "compared"
        /\ asset' = IF asset[b].status = "absent" THEN asset ELSE
             [asset EXCEPT ![b] = [k \in DOMAIN asset[b] |->
                IF k \in job[j].columns THEN x[k] ELSE asset[b][k]]]
    BY <1>1 DEF WriteAsset
  <2>2. "assignedEmployee" \in job[j].columns => x.assignedEmployee \notin gone
    BY <2>1 DEF ThwartedJob
  <2>3. CASE asset[b].status # "absent" /\ a = b
    <3>1. asset[b] \in EquipmentAsset
      BY <1>0, <2>3
    <3>2. asset'[a].assignedEmployee = IF "assignedEmployee" \in job[j].columns
                                       THEN x.assignedEmployee
                                       ELSE asset[a].assignedEmployee
      BY <1>0, <2>1, <2>3, <3>1 DEF EquipmentAsset
    <3> QED
      BY <2>2, <3>2
  <2>4. CASE asset[b].status = "absent" \/ a # b
    BY <1>0, <2>1, <2>4
  <2> QED
    BY <2>3, <2>4
<1>2. CASE InsertMissing(j)
  <2> DEFINE holder == IF "assignedEmployee" \in job[j].columns
                       THEN x.assignedEmployee ELSE None
             row == [x EXCEPT !.assignedEmployee = holder]
  <2>1. /\ job[j].pc = "missing"
        /\ asset' = [asset EXCEPT ![b] = row] \/ UNCHANGED asset
    BY <1>2 DEF InsertMissing
  <2>2. holder \notin gone
    BY <2>1, NobodyGone DEF ThwartedJob
  <2>3. row.assignedEmployee = holder
    BY <1>0 DEF Job, EquipmentAsset
  <2> HIDE DEF holder, row
  <2> QED
    BY <1>0, <2>1, <2>2, <2>3
<1>3. CASE Delete(j)
  <2>1. \/ asset' = [asset EXCEPT ![b].status = "absent"]
        \/ UNCHANGED asset
    BY <1>3 DEF Delete
  <2> QED
    BY <1>0, <2>1 DEF EquipmentAsset
<1>4. CASE UNCHANGED asset
  BY <1>4
<1> QED
  BY <1>1, <1>2, <1>3, <1>4, ContinueWrites

LEMMA AssignmentKeys ==
  ASSUME DeparturesInv, NEW j \in Jobs, ~ThwartedJob(j), ContinueJob(j),
         NEW g \in Assignments
  PROVE  \/ assignment'[g] = assignment[g]
         \/ /\ assignment'[g].employee \notin gone
            /\ assignment'[g].request # None =>
                 request[assignment'[g].request].status # "absent"
<1>0. /\ assignment \in [Assignments -> EquipmentAssignment]
      /\ job[j] \in Job /\ Fits(job[j]) /\ KeysHold
  BY TypesAndKeys DEF DeparturesInv, DeparturesTypeOK, InventoryTypeOK, TablesTypeOK
<1>1. ASSUME NEW h \in Assignments, InsertAssignment(j, h)
      PROVE  \/ assignment'[g] = assignment[g]
             \/ /\ assignment'[g].employee \notin gone
                /\ assignment'[g].request # None =>
                     request[assignment'[g].request].status # "absent"
  <2>1. /\ job[j].pc = "found"
        /\ \/ UNCHANGED assignment
           \/ assignment' = [assignment EXCEPT ![h] =
                [status |-> "active", asset |-> job[j].asset,
                 employee |-> job[j].employee, request |-> job[j].request]]
    BY <1>1 DEF InsertAssignment
  <2>2. /\ job[j].employee \notin gone
        /\ job[j].request # None => request[job[j].request].status # "absent"
    BY <2>1 DEF ThwartedJob
  <2> QED
    BY <1>0, <2>1, <2>2
<1>2. CASE WriteAssignment(j)
  <2> DEFINE h == job[j].assignment
             dirty == job[j].dirty
             link == IF "request" \in dirty THEN job[j].links ELSE assignment[h].request
             row == [assignment[h] EXCEPT
                       !.status = IF "status" \in dirty THEN ReturnStatus(j) ELSE @,
                       !.request = IF "request" \in dirty THEN job[j].links ELSE @]
  <2>1. job[j].pc = "matched" /\ assignment' = [assignment EXCEPT ![h] = row]
    BY <1>2 DEF WriteAssignment
  <2>2. /\ h \in Assignments /\ assignment[h].status # "absent"
        /\ assignment[h] \in EquipmentAssignment
    BY <1>0, <1>2, <2>1, JobFinds DEF Fits
  <2>3. /\ assignment[h].employee \notin gone
        /\ link # None => request[link].status # "absent"
    BY <1>0, <2>1, <2>2 DEF KeysHold, ThwartedJob
  <2>4. row.employee = assignment[h].employee /\ row.request = link
    BY <2>2 DEF EquipmentAssignment
  <2> HIDE DEF link, row
  <2> QED
    BY <1>0, <2>1, <2>2, <2>3, <2>4
<1>3. CASE UNCHANGED assignment
  BY <1>3
<1> QED
  BY <1>1, <1>2, <1>3, ContinueWrites

LEMMA ContinueKeys ==
  ASSUME DeparturesInv, InventoryFits', UNCHANGED gone, NEW j \in Jobs,
         InventoryKeeps(j), ~ThwartedJob(j), ContinueJob(j)
  PROVE  KeysHold'
<1>1. assignment' \in [Assignments -> EquipmentAssignment]
  BY DEF InventoryFits, InventoryTypeOK, TablesTypeOK
<1> QED
  BY <1>1, JobFinds, AssetKeys, AssignmentKeys, KeysKept

\* A handler of the inventory ends, cut off or thwarted.
LEMMA GiveUpKeepsDepartures ==
  ASSUME DeparturesInv, UNCHANGED <<call, gone>>, NEW j \in Jobs, Finish(j),
         UNCHANGED tables
  PROVE  DeparturesInv'
<1>1. JobsFit /\ InventoryFits
  BY DEF DeparturesInv, DeparturesTypeOK, JobsFit, InventoryFits
<1>2. InventoryFits' /\ Effect(j) /\ InventoryKeeps(j)
  BY <1>1, GiveUpInv, NothingWritten, FinishEffect
<1>3. FulfilsPresent(j)
  <2>1. job[j] \in Job /\ ~(Finish(j) /\ Move(j, "done"))
    BY <1>1, JobsTyped DEF Finish, Move, NoJob, Job, InventoryFits, InventoryTypeOK
  <2> QED
    BY <2>1 DEF FulfilsPresent, FulfilRequest
<1>4. KeysHold'
  BY TypesAndKeys DEF DeparturesInv, KeysHold, tables
<1> QED
  BY <1>2, <1>3, <1>4, InventoryKeepsDepartures

LEMMA InventoryDeparts ==
  ASSUME DeparturesInv, InventoryWhileLeaving
  PROVE  DeparturesInv'
<1>1. PICK j \in Jobs :
        \/ StartJob(j)
        \/ ~ThwartedJob(j) /\ ContinueJob(j)
        \/ Finish(j) /\ UNCHANGED tables
  BY DEF InventoryWhileLeaving, CutOff
<1>2. UNCHANGED <<call, gone>>
  BY DEF InventoryWhileLeaving
<1>3. JobsFit /\ InventoryFits
  BY DEF DeparturesInv, DeparturesTypeOK, JobsFit, InventoryFits
<1>4. CASE StartJob(j)
  <2>1. ~WriteAssignment(j) /\ FulfilsPresent(j)
    BY <1>4, StartWrites DEF WriteAssignment, FulfilsPresent, FulfilRequest
  <2>2. InventoryFits' /\ Effect(j) /\ InventoryKeeps(j)
    BY <1>3, <1>4, <2>1, StepFits, InventoryEffect DEF Effect
  <2> QED
    BY <1>2, <1>4, <2>1, <2>2, StartKeys, InventoryKeepsDepartures
<1>5. CASE ~ThwartedJob(j) /\ ContinueJob(j)
  <2>1. InventoryFits' /\ Effect(j) /\ InventoryKeeps(j)
    BY <1>3, <1>5, JobFinds, StepFits, InventoryEffect DEF Effect
  <2> QED
    BY <1>2, <1>5, <2>1, JobFinds, ContinueKeys, InventoryKeepsDepartures
<1> QED
  BY <1>1, <1>2, <1>4, <1>5, GiveUpKeepsDepartures

-----------------------------------------------------------------------------
(* The removal of an employee.                                             *)

\* What the foreign keys do to the rows of the other tables.
LEMMA RemovedRows ==
  ASSUME DeparturesInv, NEW u \in Leavers, RemoveUser(u)
  PROVE  /\ \A r \in Requests :
              request'[r] = IF request[r].requester = u
                            THEN [request[r] EXCEPT !.status = "absent"]
                            ELSE request[r]
         /\ \A s \in Steps :
              step'[s] = IF s \in StepsWith(u)
                         THEN [step[s] EXCEPT !.status = "absent"]
                         ELSE step[s]
         /\ \A a \in Assets :
              asset'[a] = IF asset[a].assignedEmployee = u
                          THEN [asset[a] EXCEPT !.assignedEmployee = None]
                          ELSE asset[a]
         /\ \A g \in Assignments :
              /\ assignment'[g].status = IF assignment[g].employee = u
                                         THEN "absent" ELSE assignment[g].status
              /\ assignment'[g].asset = assignment[g].asset
              /\ assignment'[g].employee = assignment[g].employee
              /\ assignment'[g].request = IF assignment[g].request \in RequestsWith(u)
                                          THEN None ELSE assignment[g].request
         /\ gone' = gone \cup {u} /\ UNCHANGED <<notice, call, job>>
<1>1. TablesTypeOK
  BY DEF DeparturesInv, DeparturesTypeOK, RequestsTypeOK
<1>2. \A r \in Requests :
        request'[r] = IF request[r].requester = u
                      THEN [request[r] EXCEPT !.status = "absent"]
                      ELSE request[r]
  BY <1>1 DEF RemoveUser, Deleted, RequestsWith, TablesTypeOK
<1>3. \A s \in Steps :
        step'[s] = IF s \in StepsWith(u)
                   THEN [step[s] EXCEPT !.status = "absent"]
                   ELSE step[s]
  BY <1>1 DEF RemoveUser, Deleted, TablesTypeOK
<1>4. ASSUME NEW g \in Assignments
      PROVE  /\ assignment'[g].status = IF assignment[g].employee = u
                                        THEN "absent" ELSE assignment[g].status
             /\ assignment'[g].asset = assignment[g].asset
             /\ assignment'[g].employee = assignment[g].employee
             /\ assignment'[g].request = IF assignment[g].request \in RequestsWith(u)
                                         THEN None ELSE assignment[g].request
  <2> DEFINE row == IF assignment[g].employee = u
                    THEN [assignment[g] EXCEPT !.status = "absent"]
                    ELSE assignment[g]
  <2>1. assignment[g] \in EquipmentAssignment /\ g \in DOMAIN assignment
    BY <1>1 DEF TablesTypeOK
  <2>2. Deleted(assignment, AssignmentsWith(u))[g] = row
    BY <2>1 DEF Deleted, AssignmentsWith
  <2>3. assignment'[g] =
          [row EXCEPT !.request = IF row.request \in RequestsWith(u) THEN None
                                                                     ELSE row.request]
    BY <2>2 DEF RemoveUser
  <2>4. /\ row \in EquipmentAssignment
        /\ row.status = IF assignment[g].employee = u
                        THEN "absent" ELSE assignment[g].status
        /\ row.asset = assignment[g].asset /\ row.employee = assignment[g].employee
        /\ row.request = assignment[g].request
    BY <2>1 DEF EquipmentAssignment
  <2> HIDE DEF row
  <2> QED
    BY <2>3, <2>4 DEF EquipmentAssignment
<1> QED
  BY <1>2, <1>3, <1>4 DEF RemoveUser

LEMMA RemovalTables ==
  ASSUME DeparturesInv, NEW u \in Leavers, RemoveUser(u)
  PROVE  TablesTypeOK'
<1>1. TablesTypeOK
  BY DEF DeparturesInv, DeparturesTypeOK, RequestsTypeOK
<1>2. request' \in [Requests -> EquipmentRequest]
  <2>1. /\ request' = [r \in Requests |-> request'[r]]
        /\ \A r \in Requests : request[r] \in EquipmentRequest
    BY <1>1 DEF RemoveUser, Deleted, TablesTypeOK
  <2>2. \A r \in Requests : request'[r] \in EquipmentRequest
    BY <2>1, RemovedRows DEF EquipmentRequest
  <2> QED
    BY <2>1, <2>2
<1>3. step' \in [Steps -> ApprovalStep]
  <2>1. /\ step' = [s \in Steps |-> step'[s]]
        /\ \A s \in Steps : step[s] \in ApprovalStep
    BY <1>1 DEF RemoveUser, Deleted, TablesTypeOK
  <2>2. \A s \in Steps : step'[s] \in ApprovalStep
    BY <2>1, RemovedRows DEF ApprovalStep
  <2> QED
    BY <2>1, <2>2
<1>4. asset' \in [Assets -> EquipmentAsset]
  <2>1. /\ asset' = [a \in Assets |-> asset'[a]]
        /\ \A a \in Assets : asset[a] \in EquipmentAsset
    BY <1>1 DEF RemoveUser, TablesTypeOK
  <2>2. \A a \in Assets : asset'[a] \in EquipmentAsset
    BY <2>1, RemovedRows DEF EquipmentAsset
  <2> QED
    BY <2>1, <2>2
<1>5. assignment' \in [Assignments -> EquipmentAssignment]
  <2>1. assignment' = [g \in Assignments |->
          [Deleted(assignment, AssignmentsWith(u))[g] EXCEPT
             !.request = IF @ \in RequestsWith(u) THEN None ELSE @]]
    BY DEF RemoveUser
  <2>2. ASSUME NEW g \in Assignments
        PROVE  Deleted(assignment, AssignmentsWith(u))[g] \in EquipmentAssignment
    BY <1>1 DEF Deleted, TablesTypeOK, EquipmentAssignment
  <2> QED
    BY <2>1, <2>2 DEF EquipmentAssignment
<1> QED
  BY <1>1, <1>2, <1>3, <1>4, <1>5 DEF RemoveUser, TablesTypeOK

LEMMA RemovalStays ==
  ASSUME DeparturesInv, NEW u \in Leavers, RemoveUser(u)
  PROVE  Stays
<1>1. /\ \A r \in Requests : request[r] \in EquipmentRequest
      /\ \A s \in Steps : step[s] \in ApprovalStep
      /\ \A a \in Assets : asset[a] \in EquipmentAsset
  BY DEF DeparturesInv, DeparturesTypeOK, RequestsTypeOK, TablesTypeOK
<1>2. ASSUME NEW r \in Requests
      PROVE  /\ request'[r].type = request[r].type
             /\ request'[r].requester = request[r].requester
             /\ request'[r].model = request[r].model
             /\ request[r].status = "absent" => request'[r].status = "absent"
  <2>1. request'[r] \in {request[r], [request[r] EXCEPT !.status = "absent"]}
    BY RemovedRows
  <2> QED
    BY <1>1, <2>1 DEF EquipmentRequest
<1>3. ASSUME NEW s \in Steps
      PROVE  /\ step'[s].request = step[s].request
             /\ step'[s].role = step[s].role
             /\ step'[s].approver = step[s].approver
             /\ step'[s].status \in {step[s].status, "absent"}
  <2>1. step'[s] \in {step[s], [step[s] EXCEPT !.status = "absent"]}
    BY RemovedRows
  <2> QED
    BY <1>1, <2>1 DEF ApprovalStep
<1>4. ASSUME NEW a \in Assets
      PROVE  asset'[a].model = asset[a].model
  <2>1. asset'[a] \in {asset[a], [asset[a] EXCEPT !.assignedEmployee = None]}
    BY RemovedRows
  <2> QED
    BY <1>1, <2>1 DEF EquipmentAsset
<1>5. \A g \in Assignments :
        /\ assignment'[g].asset = assignment[g].asset
        /\ assignment'[g].employee = assignment[g].employee
  BY RemovedRows
<1>6. \A s \in Steps :
        /\ step'[s].request = step[s].request
        /\ step'[s].role = step[s].role
        /\ step'[s].approver = step[s].approver
        /\ step[s].status = "absent" => step'[s].status = "absent"
        /\ step[s].status # "pending" => step'[s].status # "pending"
  BY <1>3
<1> QED
  BY <1>2, <1>4, <1>5, <1>6 DEF Stays

\* A step of a request that stays is there, or went with its approver.
LEMMA RemovalSteps ==
  ASSUME DeparturesInv, NEW u \in Leavers, RemoveUser(u), NEW r \in Requests,
         request'[r].status # "absent", NEW role, NEW pending, HasStep(r, role, pending)
  PROVE  HasStep(r, role, pending)' \/ LostStep(r, role)'
<1>1. PICK s \in Steps :
        /\ step[s].status # "absent" /\ step[s].request = r /\ step[s].role = role
        /\ (step[s].status = "pending") = pending
  BY DEF HasStep, StepsOf
<1>2. /\ request[r] \in EquipmentRequest /\ step[s] \in ApprovalStep
  BY DEF DeparturesInv, DeparturesTypeOK, RequestsTypeOK, TablesTypeOK
<1>3. CASE s \in StepsWith(u)
  <2>1. r \notin RequestsWith(u)
    <3>1. request[r].requester = u =>
            request'[r] = [request[r] EXCEPT !.status = "absent"]
      BY RemovedRows
    <3> QED
      BY <1>2, <3>1 DEF RequestsWith, EquipmentRequest
  <2>2. step[s].approver = u
    BY <1>1, <1>3, <2>1 DEF StepsWith
  <2>3. step'[s] = [step[s] EXCEPT !.status = "absent"] /\ u \in gone'
    BY <1>3, RemovedRows
  <2>4. /\ step'[s].status = "absent" /\ step'[s].approver \in gone'
        /\ step'[s].request = r /\ step'[s].role = role
    BY <1>1, <1>2, <2>2, <2>3 DEF ApprovalStep
  <2> QED
    BY <2>4 DEF LostStep
<1>4. CASE s \notin StepsWith(u)
  <2>1. step'[s] = step[s]
    BY <1>4, RemovedRows
  <2> QED
    BY <1>1, <2>1 DEF HasStep, StepsOf
<1> QED
  BY <1>3, <1>4

\* A row that is there after the removal was there, and does not refer to the
\* employee removed.
LEMMA RemovalLeaves ==
  ASSUME DeparturesInv, NEW u \in Leavers, RemoveUser(u)
  PROVE  /\ \A r \in Requests : request'[r].status # "absent" =>
              request'[r] = request[r] /\ request[r].requester # u
         /\ \A s \in Steps : step'[s].status # "absent" =>
              /\ step'[s] = step[s] /\ step[s].approver # u
              /\ step[s].request \notin RequestsWith(u)
         /\ \A g \in Assignments : assignment'[g].status # "absent" =>
              /\ assignment[g].status # "absent" /\ assignment[g].employee # u
              /\ assignment'[g].request # None =>
                   /\ assignment'[g].request = assignment[g].request
                   /\ assignment[g].request \notin RequestsWith(u)
<1>1. /\ \A r \in Requests : request[r] \in EquipmentRequest
      /\ \A s \in Steps : step[s] \in ApprovalStep
  BY DEF DeparturesInv, DeparturesTypeOK, RequestsTypeOK, TablesTypeOK
<1>2. ASSUME NEW r \in Requests, request'[r].status # "absent"
      PROVE  request'[r] = request[r] /\ request[r].requester # u
  <2>1. request[r].requester = u =>
          request'[r] = [request[r] EXCEPT !.status = "absent"]
    BY RemovedRows
  <2> QED
    BY <1>1, <1>2, <2>1, RemovedRows DEF EquipmentRequest
<1>3. ASSUME NEW s \in Steps, step'[s].status # "absent"
      PROVE  step'[s] = step[s] /\ s \notin StepsWith(u)
  <2>1. s \in StepsWith(u) => step'[s] = [step[s] EXCEPT !.status = "absent"]
    BY RemovedRows
  <2> QED
    BY <1>1, <1>3, <2>1, RemovedRows DEF ApprovalStep
<1>4. ASSUME NEW g \in Assignments, assignment'[g].status # "absent"
      PROVE  /\ assignment[g].status # "absent" /\ assignment[g].employee # u
             /\ assignment'[g].request # None =>
                  /\ assignment'[g].request = assignment[g].request
                  /\ assignment[g].request \notin RequestsWith(u)
  BY <1>4, RemovedRows
<1> QED
  BY <1>2, <1>3, <1>4 DEF StepsWith

LEMMA RemovalKeys ==
  ASSUME DeparturesInv, NEW u \in Leavers, RemoveUser(u)
  PROVE  KeysHold' /\ StepsBelong'
<1>0. KeysHold /\ StepsBelong /\ TablesTypeOK /\ gone' = gone \cup {u}
  BY TypesAndKeys, RemovedRows DEF DeparturesInv, RequestsTypeOK
<1>1. u # None /\ None \notin gone
  BY NobodyGone, LeaverAssumption, NoneAssumption
<1>2. ASSUME NEW r \in Requests, request[r].status # "absent", r \notin RequestsWith(u)
      PROVE  request'[r].status # "absent"
  BY <1>2, RemovedRows DEF RequestsWith
<1>3. ASSUME NEW s \in Steps, step'[s].status # "absent"
      PROVE  /\ step'[s].approver \notin gone'
             /\ step'[s].request \in Requests
             /\ request'[step'[s].request].status # "absent"
  <2>1. /\ step'[s] = step[s] /\ step[s].approver # u
        /\ step[s].request \notin RequestsWith(u)
    BY <1>3, RemovalLeaves
  <2> QED
    BY <1>0, <1>2, <1>3, <2>1 DEF KeysHold, StepsBelong
<1>4. ASSUME NEW g \in Assignments, assignment'[g].status # "absent"
      PROVE  /\ assignment'[g].employee \notin gone'
             /\ assignment'[g].request # None =>
                  request'[assignment'[g].request].status # "absent"
  <2>1. /\ assignment[g].status # "absent" /\ assignment[g].employee # u
        /\ assignment'[g].request # None =>
             /\ assignment'[g].request = assignment[g].request
             /\ assignment[g].request \notin RequestsWith(u)
    BY <1>4, RemovalLeaves
  <2>2. assignment'[g].employee = assignment[g].employee
    BY RemovedRows
  <2>3. assignment[g].request \in Requests \cup {None}
    BY <1>0 DEF TablesTypeOK, EquipmentAssignment
  <2> QED
    BY <1>0, <1>2, <2>1, <2>2, <2>3 DEF KeysHold
<1>5. ASSUME NEW a \in Assets
      PROVE  asset'[a].assignedEmployee \notin gone'
  <2>1. asset[a] \in EquipmentAsset /\ asset[a].assignedEmployee \notin gone
    BY <1>0 DEF KeysHold, TablesTypeOK
  <2>2. asset'[a] = IF asset[a].assignedEmployee = u
                    THEN [asset[a] EXCEPT !.assignedEmployee = None]
                    ELSE asset[a]
    BY RemovedRows
  <2> QED
    BY <1>0, <1>1, <2>1, <2>2 DEF EquipmentAsset
<1>6. ASSUME NEW r \in Requests, request'[r].status # "absent"
      PROVE  request'[r].requester \notin gone'
  <2>1. request'[r] = request[r] /\ request[r].requester # u
    BY <1>6, RemovalLeaves
  <2> QED
    BY <1>0, <1>6, <2>1 DEF KeysHold
<1> QED
  BY <1>3, <1>4, <1>5, <1>6 DEF KeysHold, StepsBelong

LEMMA RemovalExplains ==
  ASSUME DeparturesInv, NEW u \in Leavers, RemoveUser(u)
  PROVE  ExplainedUnlessOrphaned'
<1> SUFFICES ASSUME NEW r \in Requests, request'[r].status # "absent"
             PROVE  \/ Explained(r)'
                    \/ \E role \in StageOf(request'[r].status) : LostStep(r, role)'
  BY DEF ExplainedUnlessOrphaned
<1>1. request'[r] = request[r] /\ gone \subseteq gone' /\ Stays
  BY RemovalLeaves, RemovedRows, RemovalStays
<1>2. \A role, pending : HasStep(r, role, pending) =>
        HasStep(r, role, pending)' \/ LostStep(r, role)'
  BY RemovalSteps
<1>3. CASE Explained(r)
  <2> DEFINE status == request[r].status
  <2>1. CASE status = "pending_manager_approval"
    <3>1. StageOf(status) = {"direct_manager"}
      BY <2>1 DEF StageOf
    <3> QED
      BY <1>1, <1>2, <1>3, <2>1, <3>1 DEF Explained
  <2>2. CASE status = "pending_procurement_approval"
    <3>1. StageOf(status) = {"procurement_manager"}
      BY <2>2 DEF StageOf
    <3> QED
      BY <1>1, <1>2, <1>3, <2>2, <3>1 DEF Explained
  <2>3. CASE status \in {"procurement_approved", "fulfilled"}
    <3>1. StageOf(status) = {"procurement_manager"}
      BY <2>3 DEF StageOf
    <3> QED
      BY <1>1, <1>2, <1>3, <2>3, <3>1 DEF Explained
  <2>4. CASE status = "rejected"
    <3>1. StageOf(status) = ApprovalRole
      BY <2>4 DEF StageOf
    <3>2. PICK role \in ApprovalRole : HasStep(r, role, FALSE)
      BY <1>3, <2>4 DEF Explained
    <3> QED
      BY <1>1, <1>2, <2>4, <3>1, <3>2 DEF Explained
  <2>5. CASE status \notin {"pending_manager_approval", "pending_procurement_approval",
                            "procurement_approved", "fulfilled", "rejected"}
    BY <1>1, <2>5 DEF Explained
  <2> QED
    BY <2>1, <2>2, <2>3, <2>4, <2>5
<1>4. CASE \E role \in StageOf(request[r].status) : LostStep(r, role)
  BY <1>1, <1>4, OrphanStays
<1> QED
  BY <1>1, <1>3, <1>4 DEF DeparturesInv, ExplainedUnlessOrphaned

LEMMA RemovalJobs ==
  ASSUME DeparturesInv, NEW u \in Leavers, RemoveUser(u)
  PROVE  \A j \in Jobs : (Fits(job[j]) /\ EntityReady(job[j]) /\ FulfilHolds(job[j]))'
<1> SUFFICES ASSUME NEW j \in Jobs
             PROVE  (Fits(job[j]) /\ EntityReady(job[j]) /\ FulfilHolds(job[j]))'
  OBVIOUS
<1>0. Stays /\ gone \subseteq gone' /\ UNCHANGED job
  BY RemovalStays, RemovedRows
<1>1. PICK l : l = job[j]
  OBVIOUS
<1>2. Fits(l) /\ EntityReady(l) /\ FulfilHolds(l)
  BY <1>1 DEF DeparturesInv
<1>3. Fits(l)' /\ EntityReady(l)'
  BY <1>0, <1>2, FitsHeld
<1>4. FulfilHolds(l)'
  BY <1>0, <1>2, RemovalSteps, FulfilHeld DEF ProcurementActed
<1>5. job'[j] = l
  BY <1>0, <1>1
<1> QED
  BY <1>3, <1>4, <1>5 DEF Fits, EntityReady, FulfilHolds

\* What the assignment of a fulfilled loan names goes only with the requester.
LEMMA RemovalLoans ==
  ASSUME DeparturesInv, NEW u \in Leavers, RemoveUser(u)
  PROVE  LoansSurvive'
<1> SUFFICES ASSUME NEW r \in Requests, FulfilledLoan(r)'
             PROVE  \E g \in Assignments : Witness(g, r)' /\ Kept(g, r)'
  BY DEF LoansSurvive
<1>1. request'[r] = request[r] /\ request[r].requester # u
  BY RemovalLeaves DEF FulfilledLoan
<1>2. PICK g \in Assignments : Witness(g, r) /\ Kept(g, r)
  BY <1>1 DEF DeparturesInv, LoansSurvive, FulfilledLoan
<1>3. /\ assignment[g].status # "absent" /\ assignment[g].request = r
      /\ assignment[g].asset \in Assets
      /\ assignment[g].employee = request[r].requester
      /\ asset[assignment[g].asset].model = request[r].model
      /\ Survives(g, r)
  BY <1>2 DEF Witness, AssignmentsOf, Backs
<1>4. r \notin RequestsWith(u) /\ UNCHANGED <<call, job>>
  BY <1>1, RemovedRows DEF RequestsWith
<1>5. /\ assignment'[g].status # "absent"
      /\ assignment'[g].asset = assignment[g].asset
      /\ assignment'[g].employee = assignment[g].employee
      /\ assignment'[g].request = r
  BY <1>1, <1>3, <1>4, RemovedRows
<1>6. asset'[assignment[g].asset].model = asset[assignment[g].asset].model
  <2>1. assignment[g].asset \in Assets /\ asset[assignment[g].asset].status # "absent"
    BY <1>3 DEF DeparturesInv, HistoryKeepsAsset
  <2>2. asset[assignment[g].asset].model # None
    BY <2>1 DEF DeparturesInv, ColumnsAgree
  <2> QED
    BY <2>1, <2>2, RemovalStays DEF Stays
<1>7. Survives(g, r)' /\ Kept(g, r)'
  BY <1>2, <1>3, <1>4 DEF Survives, At, Kept, Brings
<1>8. Witness(g, r)'
  BY <1>1, <1>3, <1>5, <1>6, <1>7 DEF Witness, AssignmentsOf, Backs
<1> QED
  BY <1>7, <1>8

LEMMA RemovalDeparts ==
  ASSUME DeparturesInv, NEW u \in Leavers, RemoveUser(u)
  PROVE  DeparturesInv'
<1>0. /\ Stays /\ UNCHANGED <<call, job>> /\ gone' = gone \cup {u}
      /\ RequestsTypeOK /\ InventoryTypeOK /\ gone \subseteq Leavers
  BY RemovalStays, RemovedRows DEF DeparturesInv, DeparturesTypeOK
<1>1. RequestsTypeOK' /\ InventoryTypeOK'
  BY <1>0, RemovalTables DEF RequestsTypeOK, InventoryTypeOK
<1>2. DeparturesTypeOK' /\ StepsBelong'
  BY <1>0, <1>1, RemovalKeys DEF DeparturesTypeOK, KeysHold
<1>3. \A a \in Assets : /\ asset'[a].status = asset[a].status
                        /\ asset'[a].model = asset[a].model
  <2> SUFFICES ASSUME NEW a \in Assets
               PROVE  /\ asset'[a].status = asset[a].status
                      /\ asset'[a].model = asset[a].model
    OBVIOUS
  <2>1. /\ asset[a] \in EquipmentAsset
        /\ asset'[a] \in {asset[a], [asset[a] EXCEPT !.assignedEmployee = None]}
    BY <1>0, RemovedRows DEF RequestsTypeOK, TablesTypeOK
  <2> QED
    BY <2>1 DEF EquipmentAsset
<1>4. HistoryKeepsAsset'
  <2>1. \A g \in Assignments : assignment'[g].asset = assignment[g].asset
    BY RemovedRows
  <2> QED
    BY <1>3, <2>1, RemovalLeaves DEF DeparturesInv, HistoryKeepsAsset
<1>5. ColumnsAgree' /\ Requested'
  <2>1. \A r \in Requests : request'[r].status # "absent" => request'[r] = request[r]
    BY RemovalLeaves
  <2> QED
    BY <1>3, <2>1 DEF DeparturesInv, ColumnsAgree, Requested
<1>6. ASSUME NEW c \in Calls PROVE CallHolds(c)'
  <2>1. CallHolds(c) /\ call'[c] = call[c]
    BY <1>0 DEF DeparturesInv
  <2>2. \A g \in Assignments :
          Names(c, g) => assignment'[g].request \in {call[c].request, None}
    BY <1>0, <2>1, NamedWasMade, RemovedRows DEF CallHolds
  <2> QED
    BY <1>0, <2>1, <2>2, CallHeld
<1>7. OneName'
  <2>1. ASSUME NEW g \in Assignments, NEW r \in Requests, Named(g, r)'
        PROVE  Named(g, r)
    <3>1. assignment'[g].request = r => assignment[g].request = r
      BY NoneAssumption, RemovedRows
    <3> QED
      BY <1>0, <2>1, <3>1 DEF Named, Brings, NamedBy, Names
  <2> QED
    BY <2>1 DEF DeparturesInv, OneName
<1> QED
  BY <1>2, <1>4, <1>5, <1>6, <1>7, RemovalJobs, RemovalExplains, RemovalLoans
     DEF DeparturesInv

-----------------------------------------------------------------------------
(* The theorems.                                                           *)

LEMMA DeparturesInitInv == DeparturesInit => DeparturesInv
<1> SUFFICES ASSUME DeparturesInit PROVE DeparturesInv
  OBVIOUS
<1>1. SystemInv /\ gone = {}
  BY SystemInitInv DEF DeparturesInit
<1>2. /\ \A r \in Requests : request[r].status = "absent"
      /\ \A s \in Steps : step[s].status = "absent"
      /\ \A g \in Assignments : assignment[g].status = "absent"
      /\ call = [c \in Calls |-> NoCall] /\ job = [j \in Jobs |-> NoJob]
  BY DEF DeparturesInit, SystemInit, RequestsInit, InventoryInit, TablesInit,
     StockInit, NoRequest, NoStep, NoAssignment
<1>3. RequestsTypeOK /\ InventoryTypeOK /\ HistoryKeepsAsset /\ StepsBelong
  BY <1>1 DEF SystemInv, RequestsInv, Refs, InventoryInv
<1>4. DeparturesTypeOK
  BY <1>1, <1>2, <1>3 DEF DeparturesTypeOK
<1>5. Requested /\ ExplainedUnlessOrphaned
  BY <1>2 DEF Requested, ExplainedUnlessOrphaned
<1>6. \A c \in Calls : CallHolds(c)
  BY <1>2 DEF CallHolds, LoanReady, DecisionReady, Names, At, NoCall
<1>7. \A j \in Jobs : Fits(job[j]) /\ EntityReady(job[j]) /\ FulfilHolds(job[j])
  BY <1>1, <1>2 DEF FulfilHolds, NoJob, SystemInv, InventoryInv, LocalsOK,
     JobsReady, JobReady
<1> QED
  BY <1>1, <1>3, <1>4, <1>5, <1>6, <1>7 DEF DeparturesInv, SystemInv

LEMMA DeparturesStutter ==
  ASSUME DeparturesInv, UNCHANGED departureVars
  PROVE  DeparturesInv'
<1> USE DEF DeparturesInv, departureVars, systemVars, tables
<1>1. DeparturesTypeOK' /\ HistoryKeepsAsset' /\ StepsBelong' /\ ColumnsAgree' /\ Requested'
  BY DEF DeparturesTypeOK, RequestsTypeOK, InventoryTypeOK, TablesTypeOK,
     HistoryKeepsAsset, StepsBelong, ColumnsAgree, Requested
<1>2. \A c \in Calls : CallHolds(c)'
  BY DEF CallHolds, LoanReady, DecisionReady, Names, At
<1>3. \A j \in Jobs : (Fits(job[j]) /\ EntityReady(job[j]) /\ FulfilHolds(job[j]))'
  BY DEF Fits, EntityReady, FulfilHolds, ProcurementActed, HasStep, StepsOf, LostStep
<1>4. ExplainedUnlessOrphaned'
  BY DEF ExplainedUnlessOrphaned, Explained, HasStep, StepsOf, LostStep
<1>5. OneName' /\ LoansSurvive'
  BY DEF OneName, Named, Brings, NamedBy, Names, At, LoansSurvive, FulfilledLoan, Witness,
     AssignmentsOf, Backs, Survives, Kept
<1> QED
  BY <1>1, <1>2, <1>3, <1>4, <1>5

\* The invariant holds in every reachable state, with any number of employees
\* leaving and of handlers of both kinds in flight.
THEOREM DeparturesInvariant == DeparturesSpec => []DeparturesInv
<1>1. DeparturesInv /\ [DeparturesNext]_departureVars => DeparturesInv'
  BY WorkflowDeparts, InventoryDeparts, RemovalDeparts, DeparturesStutter
     DEF DeparturesNext
<1> QED
  BY <1>1, DeparturesInitInv, PTL DEF DeparturesSpec

\* Whatever a handler had loaded when an employee was removed, no row it writes
\* afterwards refers to that employee or to a request that went along: the
\* foreign keys hold, and every row and every local is of its type.
THEOREM NoReferenceDangles == DeparturesSpec => []DeparturesTypeOK
<1>1. DeparturesInv => DeparturesTypeOK
  BY DEF DeparturesInv
<1> QED
  BY <1>1, DeparturesInvariant, PTL

\* A removal between any two awaits of any handlers leaves a request without
\* the step that explains its status only by deleting that very step with its
\* approver, as the foreign key of approval_steps tells it to.
THEOREM OnlyRemovalOrphans == DeparturesSpec => []ExplainedUnlessOrphaned
<1>1. DeparturesInv => ExplainedUnlessOrphaned
  BY DEF DeparturesInv
<1> QED
  BY <1>1, DeparturesInvariant, PTL

\* Although assignments go with their employees while the removal of an asset
\* counts them, an asset that an assignment is still on is never deleted.
THEOREM HistoryOutlivesDepartures == DeparturesSpec => []HistoryKeepsAsset
<1>1. DeparturesInv => HistoryKeepsAsset
  BY DEF DeparturesInv
<1> QED
  BY <1>1, DeparturesInvariant, PTL

\* A fulfilled loan whose requester has not left is backed by an assignment of
\* an asset of the requested model to the requester, whoever else leaves.
THEOREM LoansOutliveDepartures == DeparturesSpec => []FulfilmentIsBacked
<1>1. DeparturesInv => FulfilmentIsBacked
  BY DEF DeparturesInv, LoansSurvive, FulfilmentIsBacked, FulfilledLoan, Witness
<1> QED
  BY <1>1, DeparturesInvariant, PTL

-----------------------------------------------------------------------------
(* One handler of the workflow at a time, any number of the inventory and  *)
(* of employees that leave: the inductive invariant.                       *)

\* A step that was ever made is one of a request that was made.
StepsKnown ==
  \A s \in Steps : step[s].request # None =>
    /\ step[s].request \in Requests
    /\ request[step[s].request].requester # None

\* No request was ever given two steps of a role, not even where the first is
\* deleted, ...
RoutedOnce ==
  \A s, t \in Steps :
    /\ step[s].request # None
    /\ step[s].request = step[t].request /\ step[s].role = step[t].role
    => s = t

\* ... and one of procurement only once a manager's was decided.
ManagerWasFirst ==
  \A p \in Steps :
    step[p].request # None /\ step[p].role = "procurement_manager" =>
      \E m \in Steps :
        /\ step[m].request = step[p].request
        /\ step[m].role = "direct_manager" /\ step[m].status # "pending"

Settled == {"fulfilled", "rejected", "procurement_approved"}

Deciding(c) ==
  call[c].op \in {"approve", "reject"} /\ call[c].pc \notin {"idle", "committed"}

\* The step a handler decides is still pending unless it is gone, and a
\* rejection knows the other pending ones.
DecisionHolds(c) ==
  Deciding(c) =>
    /\ step[call[c].step].status \in {"pending", "absent"}
    /\ call[c].pc \in {"reloaded", "locked", "ready"} => call[c].dirty
    /\ At(c, "reject", "ready") =>
         PendingStepsOf(call[c].request) \subseteq {call[c].step} \cup call[c].siblings

\* The request a handler cancels still may be cancelled, unless it is gone.
CancelHolds(c) ==
  /\ call[c].op = "cancel" /\ call[c].pc # "committed" =>
       request[call[c].request].status \in CANCELLABLE_REQUEST_STATUSES \cup {"absent"}
  /\ At(c, "cancel", "compared") => call[c].dirty

\* What an assign handler has read as approved has not gone back.
FulfilsApproved(l) ==
  l.fulfils =>
    request[l.request].status \in {"procurement_approved", "fulfilled", "absent"}

\* g names r, has gone only with its employee, and no return takes it from r.
BackedBy(g, r) ==
  /\ assignment[g].request = r
  /\ assignment[g].status = "absent" => assignment[g].employee \in gone
  /\ Kept(g, r)

\* r is fulfilled, or its assignment has been inserted.
NeedsBacking(r) ==
  \/ request[r].status = "fulfilled" /\ request[r].type = "procurement"
  \/ /\ request[r].status # "absent"
     /\ \E j \in Jobs : job[j].pc = "inserted" /\ job[j].request = r

BackingInv ==
  /\ StepsKnown /\ RoutedOnce /\ ManagerWasFirst /\ SettledHasNoPendingStep
  /\ \A c \in Calls : DecisionHolds(c) /\ CancelHolds(c)
  /\ \A j \in Jobs : FulfilsApproved(job[j])
  /\ \A r \in Requests : NeedsBacking(r) => \E g \in Assignments : BackedBy(g, r)

OneAtATime == \A c, d \in Calls : c = d

-----------------------------------------------------------------------------
(* A step of the one handler of the workflow.                              *)

\* A pending procurement step is the only pending step of its request.
LEMMA PendingIsLast ==
  ASSUME RoutedOnce, ManagerWasFirst, NEW s \in Steps, NEW t \in Steps,
         step[s].request # None, step[s].request = step[t].request,
         step[s].role = "procurement_manager",
         step[t].role \in ApprovalRole, step[t].status = "pending"
  PROVE  t = s
<1>1. PICK m \in Steps : /\ step[m].request = step[s].request
                         /\ step[m].role = "direct_manager"
                         /\ step[m].status # "pending"
  BY DEF ManagerWasFirst
<1>2. CASE step[t].role = "procurement_manager"
  BY <1>2 DEF RoutedOnce
<1>3. CASE step[t].role = "direct_manager"
  <2>1. t = m
    BY <1>1, <1>3 DEF RoutedOnce
  <2> QED
    BY <1>1, <2>1
<1> QED
  BY <1>2, <1>3 DEF ApprovalRole

\* Nothing makes a step but a new request and a manager's approval.
LEMMA NoStepMade ==
  ASSUME RequestsTypeOK, NEW c \in Calls, Refers(c), RejectionReady(c),
         Arrive(c) \/ Proceed(c) \/ Interrupt(c),
         \A u \in Employees, r \in Requests, s \in Steps, type \in RequestType,
            model \in Models \cup {None}, manager \in Managers :
           ~Create(c, u, r, s, type, model, manager),
         \A n \in Steps, p \in ProcurementManagers : ~CommitManagerApproval(c, n, p),
         NEW s \in Steps
  PROVE  /\ step'[s].request = step[s].request
         /\ step'[s].role = step[s].role
         /\ step[s].status = "absent" => step'[s].status = "absent"
         /\ step[s].status # "pending" => step'[s].status # "pending"
<1>1. CASE ~Writes(c) \/ CommitCancel(c)
  BY <1>1, OnlyWritesWrite DEF CommitCancel
<1>2. CASE CommitRejection(c)
  <2>1. /\ call[c].op = "reject"
        /\ \A n \in call[c].siblings : step[n].status # "absent"
    BY <1>2 DEF CommitRejection, At, RejectionReady
  <2>2. \/ step'[s] = Decided(c)[s]
        \/ step'[s] = [step[s] EXCEPT !.status = "skipped"] /\ step[s].status # "absent"
    BY <1>2, <2>1 DEF CommitRejection
  <2> QED
    BY <2>1, <2>2, DecisionStays
<1>3. CASE \/ CommitProcurementApproval(c)
           \/ \E g \in Assignments : CommitLoanApproval(c, g)
  <2>1. call[c].op = "approve" /\ step' = Decided(c)
    BY <1>3 DEF CommitProcurementApproval, CommitLoanApproval, At
  <2> QED
    BY <2>1, DecisionStays
<1> QED
  BY <1>1, <1>2, <1>3 DEF Writes

\* A step made for a request that was, of a role it had no step of, or for a
\* request that was not.
LEMMA StepMade ==
  ASSUME RoutedOnce, ManagerWasFirst, NEW n \in Steps, step[n].request = None,
         step'[n].request # None,
         \A s \in Steps : step[s].request = step'[n].request =>
           step[s].role # step'[n].role,
         step'[n].role = "procurement_manager" =>
           \E m \in Steps \ {n} :
             /\ step'[m].request = step'[n].request
             /\ step'[m].role = "direct_manager" /\ step'[m].status # "pending",
         \A s \in Steps \ {n} :
           /\ step'[s].request = step[s].request /\ step'[s].role = step[s].role
           /\ step[s].status # "pending" => step'[s].status # "pending"
  PROVE  RoutedOnce' /\ ManagerWasFirst'
<1>1. RoutedOnce'
  BY DEF RoutedOnce
<1>2. ASSUME NEW p \in Steps, step'[p].request # None,
             step'[p].role = "procurement_manager"
      PROVE  \E m \in Steps :
               /\ step'[m].request = step'[p].request
               /\ step'[m].role = "direct_manager" /\ step'[m].status # "pending"
  <2>1. CASE p = n
    BY <1>2, <2>1
  <2>2. CASE p # n
    <3>1. PICK m \in Steps :
            /\ step[m].request = step[p].request
            /\ step[m].role = "direct_manager" /\ step[m].status # "pending"
      BY <1>2, <2>2 DEF ManagerWasFirst
    <3>2. m # n
      BY <1>2, <2>2, <3>1
    <3> QED
      BY <2>2, <3>1, <3>2
  <2> QED
    BY <2>1, <2>2
<1> QED
  BY <1>1, <1>2 DEF ManagerWasFirst

LEMMA NoStepRouted ==
  ASSUME RoutedOnce, ManagerWasFirst,
         \A s \in Steps :
           /\ step'[s].request = step[s].request /\ step'[s].role = step[s].role
           /\ step[s].status # "pending" => step'[s].status # "pending"
  PROVE  RoutedOnce' /\ ManagerWasFirst'
<1>1. RoutedOnce'
  BY DEF RoutedOnce
<1>2. ManagerWasFirst'
  BY DEF ManagerWasFirst
<1> QED
  BY <1>1, <1>2

\* The step that a handler decides is pending, so its request is not settled.
LEMMA StillPending ==
  ASSUME DeparturesInv, BackingInv, NEW c \in Calls, Refers(c), Deciding(c)
  PROVE  /\ call[c].step \in Steps /\ step[call[c].step].request = call[c].request
         /\ call[c].request \in Requests /\ call[c].request # None
         /\ step[call[c].step].status = "pending"
         /\ request[call[c].request].status \notin Settled
<1>1. /\ call[c].step \in Steps /\ step[call[c].step].request = call[c].request
      /\ step[call[c].step].status # "absent"
      /\ call[c].request \in Requests /\ call[c].request # None
  BY NoneAssumption DEF Deciding, Refers
<1>2. step[call[c].step].status = "pending"
  BY <1>1 DEF BackingInv, DecisionHolds
<1>3. call[c].step \in PendingStepsOf(call[c].request)
  BY <1>1, <1>2 DEF PendingStepsOf, StepsOf
<1>4. request[call[c].request].status \notin Settled
  BY <1>1, <1>3 DEF BackingInv, SettledHasNoPendingStep, Settled
<1> QED
  BY <1>1, <1>2, <1>4

LEMMA WorkflowRoutes ==
  ASSUME DeparturesInv, BackingInv, NEW c \in Calls, Refers(c), RejectionReady(c),
         Arrive(c) \/ Proceed(c)
  PROVE  StepsKnown' /\ RoutedOnce' /\ ManagerWasFirst'
<1>0. /\ RequestsTypeOK /\ TablesTypeOK /\ Stays
      /\ StepsKnown /\ RoutedOnce /\ ManagerWasFirst
  BY WorkflowStays DEF DeparturesInv, DeparturesTypeOK, RequestsTypeOK, BackingInv
<1>1. ASSUME NEW u \in Employees, NEW r \in Requests, NEW s \in Steps,
             NEW type \in RequestType, NEW model \in Models \cup {None},
             NEW manager \in Managers,
             Create(c, u, r, s, type, model, manager)
      PROVE  StepsKnown' /\ RoutedOnce' /\ ManagerWasFirst'
  <2>1. /\ request[r].requester = None /\ step[s].request = None
        /\ request'[r].requester # None /\ r # None
        /\ step'[s].request = r /\ step'[s].role = "direct_manager"
    BY <1>0, <1>1, NoneAssumption
       DEF Create, FreeRequests, FreeSteps, NoRequest, NoStep, TablesTypeOK
  <2>2. \A n \in Steps \ {s} : step'[n] = step[n]
    BY <1>0, <1>1 DEF Create, TablesTypeOK
  <2>3. \A n \in Steps : step[n].request # r
    BY <1>0, <2>1 DEF StepsKnown
  <2>4. RoutedOnce' /\ ManagerWasFirst'
    BY <1>0, <2>1, <2>2, <2>3, StepMade
  <2>5. StepsKnown'
    BY <1>0, <2>1, <2>2 DEF StepsKnown, Stays
  <2> QED
    BY <2>4, <2>5
<1>2. ASSUME NEW n \in Steps, NEW p \in ProcurementManagers,
             CommitManagerApproval(c, n, p)
      PROVE  StepsKnown' /\ RoutedOnce' /\ ManagerWasFirst'
  <2> DEFINE r == call[c].request
             m == call[c].step
  <2>1. /\ At(c, "approve", "locked") /\ step[m].role = "direct_manager"
        /\ step[n].request = None
    BY <1>2 DEF CommitManagerApproval, FreeSteps, NoStep
  <2>2. Deciding(c) /\ call[c].dirty /\ call[c].op = "approve"
    BY <2>1 DEF At, Deciding, BackingInv, DecisionHolds
  <2>3. /\ m \in Steps /\ step[m].request = r /\ step[m].status = "pending"
        /\ r \in Requests /\ r # None
    BY <2>2, StillPending
  <2>4. /\ step' = [Decided(c) EXCEPT ![n] =
             [status |-> "pending", request |-> r,
              role |-> "procurement_manager", approver |-> p]]
        /\ Decided(c) \in [Steps -> ApprovalStep]
    BY <1>0, <1>2, <2>2, DecidedOK DEF CommitManagerApproval
  <2>5. /\ \A s \in Steps \ {n} : step'[s] = Decided(c)[s]
        /\ step'[n].request = r /\ step'[n].role = "procurement_manager"
    BY <2>4
  <2>6. \A s \in Steps \ {n} :
          /\ step'[s].request = step[s].request /\ step'[s].role = step[s].role
          /\ step[s].status # "pending" => step'[s].status # "pending"
    BY <1>0, <2>2, <2>5, DecisionStays
  <2>7. m # n /\ step'[m].status # "pending"
    BY <1>0, <2>2, <2>3, <2>1, <2>5, DecidedDone DEF DecisionReady, At
  <2>8. \A s \in Steps : step[s].request = r => step[s].role # "procurement_manager"
    <3> SUFFICES ASSUME NEW s \in Steps, step[s].request = r,
                        step[s].role = "procurement_manager"
                 PROVE  FALSE
      OBVIOUS
    <3>1. step[m].role \in ApprovalRole
      BY <2>1 DEF ApprovalRole
    <3>2. m = s
      BY <1>0, <2>3, <3>1, PendingIsLast
    <3> QED
      BY <2>1, <3>2
  <2>9. RoutedOnce' /\ ManagerWasFirst'
    BY <1>0, <2>1, <2>3, <2>5, <2>6, <2>7, <2>8, StepMade
  <2>10. StepsKnown'
    <3>1. request[r].requester # None
      BY <1>0, <2>3 DEF StepsKnown
    <3> QED
      BY <1>0, <2>3, <2>5, <2>6, <3>1 DEF StepsKnown, Stays
  <2> QED
    BY <2>9, <2>10
<1>3. CASE /\ \A u \in Employees, r \in Requests, s \in Steps, type \in RequestType,
                 model \in Models \cup {None}, manager \in Managers :
                ~Create(c, u, r, s, type, model, manager)
           /\ \A n \in Steps, p \in ProcurementManagers : ~CommitManagerApproval(c, n, p)
  <2>1. \A s \in Steps :
          /\ step'[s].request = step[s].request /\ step'[s].role = step[s].role
          /\ step[s].status # "pending" => step'[s].status # "pending"
    BY <1>0, <1>3, NoStepMade
  <2> QED
    BY <1>0, <2>1, NoStepRouted DEF StepsKnown, Stays
<1> QED
  BY <1>1, <1>2, <1>3

\* What a step of the one handler does to a request and to its pending steps:
\* nothing to a settled request.
LEMMA WorkflowSettles ==
  ASSUME DeparturesInv, BackingInv, NEW c \in Calls, Refers(c), RejectionReady(c),
         Arrive(c) \/ Proceed(c), NEW r \in Requests
  PROVE  /\ request[r].status \in Settled => request'[r].status = request[r].status
         /\ request'[r].status \in Settled => PendingStepsOf(r)' = {}
         /\ request'[r].status = "fulfilled" /\ request[r].status # "fulfilled"
              => request'[r].type = "loan"
<1>q. PICK q : q = call[c].request
  OBVIOUS
<1>m. PICK m : m = call[c].step
  OBVIOUS
<1> DEFINE Goal == /\ request[r].status \in Settled =>
                        request'[r].status = request[r].status
                   /\ request'[r].status \in Settled => PendingStepsOf(r)' = {}
                   /\ request'[r].status = "fulfilled" /\ request[r].status # "fulfilled"
                        => request'[r].type = "loan"
<1>0. /\ RequestsTypeOK /\ request \in [Requests -> EquipmentRequest]
      /\ \A s \in Steps : step[s] \in ApprovalStep
      /\ StepsKnown /\ RoutedOnce /\ ManagerWasFirst
      /\ request[r].status \in Settled => PendingStepsOf(r) = {}
  BY DEF DeparturesInv, DeparturesTypeOK, RequestsTypeOK, TablesTypeOK, BackingInv,
     SettledHasNoPendingStep, Settled
<1>1. ASSUME request'[r].status = request[r].status,
             \A s \in PendingStepsOf(r)' : s \in PendingStepsOf(r)
      PROVE  Goal
  BY <1>0, <1>1
<1>2. CASE ~Writes(c)
  <2>1. UNCHANGED <<request, step>>
    BY <1>2, OnlyWritesWrite
  <2> QED
    BY <1>1, <2>1 DEF PendingStepsOf, StepsOf
<1>3. ASSUME NEW u \in Employees, NEW n \in Requests, NEW s \in Steps,
             NEW type \in RequestType, NEW model \in Models \cup {None},
             NEW manager \in Managers,
             Create(c, u, n, s, type, model, manager)
      PROVE  Goal
  <2>1. /\ request[n].status = "absent"
        /\ request'[n].status = "pending_manager_approval"
        /\ \A k \in Requests \ {n} : request'[k] = request[k]
        /\ step'[s].request = n /\ \A t \in Steps \ {s} : step'[t] = step[t]
    BY <1>0, <1>3 DEF Create, FreeRequests, NoRequest, RequestsTypeOK, TablesTypeOK
  <2>2. CASE r = n
    BY <2>1, <2>2 DEF Settled
  <2>3. CASE r # n
    <3>1. \A t \in PendingStepsOf(r)' : t \in PendingStepsOf(r)
      BY <2>1, <2>3 DEF PendingStepsOf, StepsOf
    <3> QED
      BY <1>1, <2>1, <2>3, <3>1
  <2> QED
    BY <2>2, <2>3
\* A commit that decides: other requests and their steps stay as they are.
<1>4. ASSUME Deciding(c), NEW status \in RequestStatus,
             request' = [request EXCEPT ![q].status = status],
             \A s \in Steps : step'[s] = step[s] \/ step[s].request = q
                              \/ step'[s].request = q,
             \A s \in Steps : step[s].request # None =>
                                step'[s].request = step[s].request,
             status \in Settled => PendingStepsOf(q)' = {},
             status = "fulfilled" => request[q].type = "loan"
      PROVE  Goal
  <2>1. q \in Requests /\ q # None /\ request[q].status \notin Settled
    BY <1>q, <1>4, StillPending
  <2>2. CASE r = q
    <3>1. request'[q].status = status /\ request'[q].type = request[q].type
      BY <1>0, <1>4, <2>1 DEF EquipmentRequest
    <3> QED
      BY <1>4, <2>1, <2>2, <3>1
  <2>3. CASE r # q
    <3>1. request'[r] = request[r]
      BY <1>0, <1>4, <2>1, <2>3
    <3>2. r # None
      BY NoneAssumption
    <3>3. \A s \in PendingStepsOf(r)' : s \in PendingStepsOf(r)
      BY <1>4, <2>1, <2>3, <3>2 DEF PendingStepsOf, StepsOf
    <3> QED
      BY <1>1, <3>1, <3>3
  <2> QED
    BY <2>2, <2>3
<1>5. ASSUME Deciding(c), call[c].pc \in {"locked", "ready"}
      PROVE  /\ m \in Steps /\ step[m].request = q /\ q # None
             /\ step[m].status = "pending"
             /\ \A s \in Steps : /\ Decided(c)[s].request = step[s].request
                                 /\ s # m => Decided(c)[s] = step[s]
                                 /\ Decided(c)[s].status = "pending" =>
                                      step[s].status = "pending"
             /\ Decided(c)[m].status # "pending"
  <2>1. call[c].op \in {"approve", "reject"} /\ DecisionReady(c)
    BY <1>5 DEF Deciding, DeparturesInv, CallHolds
  <2> QED
    BY <1>0, <1>q, <1>m, <1>5, <2>1, StillPending, DecidedOK, DecidedDone
<1>6. CASE CommitRejection(c)
  <2>1. /\ At(c, "reject", "ready") /\ Deciding(c) /\ call[c].pc = "ready"
        /\ request' = [request EXCEPT ![q].status = "rejected"]
        /\ \A s \in Steps : step'[s] = IF s \in call[c].siblings
                                       THEN [step[s] EXCEPT !.status = "skipped"]
                                       ELSE Decided(c)[s]
    BY <1>q, <1>6 DEF CommitRejection, At, Deciding
  <2>2. \A s \in call[c].siblings : s # m /\ step[s].request = q
    BY <1>q, <1>m, <2>1 DEF RejectionReady
  <2>3. PendingStepsOf(q) \subseteq {m} \cup call[c].siblings
    BY <1>q, <1>m, <2>1 DEF BackingInv, DecisionHolds
  <2>4. \A s \in Steps : step'[s].request = step[s].request
    <3> SUFFICES ASSUME NEW s \in Steps PROVE step'[s].request = step[s].request
      OBVIOUS
    <3>1. Decided(c)[s].request = step[s].request
      BY <1>5, <2>1
    <3>2. [step[s] EXCEPT !.status = "skipped"].request = step[s].request
      BY <1>0 DEF ApprovalStep
    <3> QED
      BY <2>1, <3>1, <3>2
  <2>5. \A s \in call[c].siblings : s \in Steps => step'[s].status = "skipped"
    BY <1>0, <2>1 DEF ApprovalStep
  <2>6. PendingStepsOf(q)' = {}
    <3> SUFFICES ASSUME NEW s \in Steps, step'[s].status = "pending",
                        step'[s].request = q
                 PROVE  FALSE
      BY DEF PendingStepsOf, StepsOf
    <3>1. s \notin call[c].siblings
      BY <2>5
    <3>2. step'[s] = Decided(c)[s] /\ step[s].request = q
      BY <2>1, <2>4, <3>1
    <3>3. s # m /\ step[s].status = "pending"
      BY <1>5, <2>1, <3>2
    <3>4. s \in PendingStepsOf(q)
      BY <3>2, <3>3 DEF PendingStepsOf, StepsOf
    <3> QED
      BY <2>3, <3>1, <3>3, <3>4
  <2>7. \A s \in Steps : step'[s] = step[s] \/ step[s].request = q
    BY <1>5, <2>1, <2>2
  <2> QED
    BY <1>4, <2>1, <2>4, <2>6, <2>7 DEF RequestStatus
<1>7. ASSUME NEW n \in Steps, NEW p \in ProcurementManagers,
             CommitManagerApproval(c, n, p)
      PROVE  Goal
  <2>1. /\ Deciding(c) /\ call[c].pc = "locked" /\ call[c].op = "approve"
        /\ request' = [request EXCEPT ![q].status = "pending_procurement_approval"]
        /\ step[n].request = None
    BY <1>q, <1>7 DEF CommitManagerApproval, At, Deciding, FreeSteps, NoStep
  <2>2. /\ \A s \in Steps \ {n} : step'[s] = Decided(c)[s]
        /\ step'[n].request = q
    BY <1>0, <1>q, <1>7, <2>1, DecidedOK DEF CommitManagerApproval
  <2>3. "pending_procurement_approval" \notin Settled
        /\ "pending_procurement_approval" \in RequestStatus
    BY DEF Settled, RequestStatus
  <2> QED
    BY <1>4, <1>5, <2>1, <2>2, <2>3
\* An approval by procurement: no other step of the request is pending.
<1>8. ASSUME Deciding(c), call[c].pc \in {"locked", "ready"},
             step[m].role = "procurement_manager", step' = Decided(c)
      PROVE  /\ PendingStepsOf(q)' = {}
             /\ \A s \in Steps : /\ step'[s] = step[s] \/ step[s].request = q
                                 /\ step'[s].request = step[s].request
  <2>1. ASSUME NEW s \in Steps, step'[s].status = "pending", step'[s].request = q
        PROVE  FALSE
    <3>1. /\ s # m /\ step[s].request = q /\ step[s].status = "pending"
          /\ step[s].role \in ApprovalRole
      BY <1>0, <1>5, <1>8, <2>1 DEF ApprovalStep
    <3> QED
      BY <1>0, <1>5, <1>8, <3>1, PendingIsLast
  <2> QED
    BY <1>5, <1>8, <2>1 DEF PendingStepsOf, StepsOf
<1>9. CASE CommitProcurementApproval(c)
  <2>1. /\ Deciding(c) /\ call[c].pc = "locked" /\ step' = Decided(c)
        /\ step[m].role = "procurement_manager"
        /\ request' = [request EXCEPT ![q].status = "procurement_approved"]
    BY <1>q, <1>m, <1>9 DEF CommitProcurementApproval, At, Deciding
  <2> QED
    BY <1>4, <1>8, <2>1 DEF RequestStatus
<1>10. ASSUME NEW g \in Assignments, CommitLoanApproval(c, g)
       PROVE  Goal
  <2>1. /\ Deciding(c) /\ call[c].pc = "ready" /\ step' = Decided(c)
        /\ At(c, "approve", "ready")
        /\ request' = [request EXCEPT ![q].status = "fulfilled"]
    BY <1>q, <1>10 DEF CommitLoanApproval, At, Deciding
  <2>2. step[m].role = "procurement_manager" /\ request[q].type = "loan"
    BY <1>q, <1>m, <2>1 DEF DeparturesInv, CallHolds, LoanReady
  <2> QED
    BY <1>4, <1>8, <2>1, <2>2 DEF RequestStatus
<1>11. CASE CommitCancel(c)
  <2>1. /\ At(c, "cancel", "compared") /\ UNCHANGED step
        /\ request' = [request EXCEPT ![q].status =
             IF call[c].dirty THEN "cancelled" ELSE @]
    BY <1>q, <1>11 DEF CommitCancel
  <2>2. /\ q \in Requests /\ call[c].dirty
        /\ request[q].status \in CANCELLABLE_REQUEST_STATUSES
    BY <1>q, <2>1 DEF Refers, At, BackingInv, CancelHolds
  <2>3. CASE r = q
    <3>1. request'[r].status = "cancelled"
      BY <1>0, <2>1, <2>2, <2>3 DEF EquipmentRequest
    <3> QED
      BY <2>2, <2>3, <3>1 DEF Settled, CANCELLABLE_REQUEST_STATUSES
  <2>4. CASE r # q
    <3>1. request'[r] = request[r] /\ PendingStepsOf(r)' = PendingStepsOf(r)
      BY <1>0, <2>1, <2>4 DEF PendingStepsOf, StepsOf
    <3> QED
      BY <1>1, <3>1
  <2> QED
    BY <2>3, <2>4
<1> QED
  BY <1>2, <1>3, <1>6, <1>7, <1>9, <1>10, <1>11 DEF Writes

\* What the handler reads is so, and stays so while it is alone.
LEMMA EndDecides ==
  ASSUME RequestsTypeOK, NEW c \in Calls, Return(c) \/ Goto(c, "committed")
  PROVE  DecisionHolds(c)' /\ CancelHolds(c)'
<1>1. \/ call'[c].pc = "idle" /\ call'[c].op = "none"
      \/ call'[c].pc = "committed"
  BY DEF Return, Goto, NoCall, RequestsTypeOK, Call
<1> QED
  BY <1>1 DEF DecisionHolds, CancelHolds, Deciding, At

LEMMA ArriveDecides ==
  ASSUME RequestsTypeOK, NEW c \in Calls, Arrive(c)
  PROVE  DecisionHolds(c)' /\ CancelHolds(c)'
<1> USE DEF RequestsTypeOK, TablesTypeOK
<1>1. ASSUME NEW u \in Employees, NEW r \in Requests, NEW s \in Steps,
             NEW type \in RequestType, NEW model \in Models \cup {None},
             NEW manager \in Managers,
             Create(c, u, r, s, type, model, manager)
      PROVE  DecisionHolds(c)' /\ CancelHolds(c)'
  <2>1. call'[c].op = "create" /\ call'[c].pc = "committed"
    BY <1>1 DEF Create, NoCall
  <2> QED
    BY <2>1 DEF DecisionHolds, CancelHolds, Deciding, At
<1>2. ASSUME NEW op \in {"approve", "reject"}, NEW s \in Steps,
             NEW user \in Employees, Check(c, op, s, user)
      PROVE  DecisionHolds(c)' /\ CancelHolds(c)'
  <2>1. /\ call'[c].op = op /\ call'[c].pc = "checked" /\ call'[c].step = s
        /\ step[s].status = "pending" /\ UNCHANGED tables
    BY <1>2 DEF Check, NoCall
  <2> QED
    BY <2>1 DEF DecisionHolds, CancelHolds, Deciding, At, tables
<1>3. ASSUME NEW r \in Requests, NEW user \in Employees,
             CancelRead(c, r, user)
      PROVE  DecisionHolds(c)' /\ CancelHolds(c)'
  <2>1. /\ call'[c].op = "cancel" /\ call'[c].pc = "loaded"
        /\ call'[c].request = r
        /\ request[r].status \in CANCELLABLE_REQUEST_STATUSES
        /\ UNCHANGED tables
    BY <1>3 DEF CancelRead, NoCall
  <2> QED
    BY <2>1 DEF DecisionHolds, CancelHolds, Deciding, At, tables
<1> QED
  BY <1>1, <1>2, <1>3 DEF Arrive

LEMMA AssetFound ==
  ASSUME NEW c, FindAvailableAsset(c)
  PROVE  /\ At(c, "approve", "locked") /\ UNCHANGED tables
         /\ \/ Return(c)
            \/ \E a \in AvailableAssets(request[call[c].request].model) :
                 call' = [call EXCEPT ![c].pc = "ready", ![c].asset = a,
                                      ![c].retired = asset[a].retiredAt]
BY Zenon DEF FindAvailableAsset

LEMMA ProceedDecides ==
  ASSUME DeparturesInv, BackingInv, NEW c \in Calls, Refers(c), Proceed(c)
  PROVE  DecisionHolds(c)' /\ CancelHolds(c)'
<1> USE DEF RequestsTypeOK, TablesTypeOK
<1>0. /\ RequestsTypeOK /\ call[c] \in Call
      /\ DecisionHolds(c) /\ CancelHolds(c)
      /\ Deciding(c) => /\ step[call[c].step].status = "pending"
                        /\ call[c].request \in Requests
  BY StillPending DEF DeparturesInv, DeparturesTypeOK, BackingInv
<1>1. ASSUME NEW l \in Call, call' = [call EXCEPT ![c] = l], UNCHANGED tables,
             l.op = call[c].op, l.step = call[c].step,
             l.request = call[c].request, Deciding(c),
             l.pc \in {"reloaded", "locked", "ready"} => l.dirty,
             l.op = "reject" /\ l.pc = "ready" =>
               PendingStepsOf(l.request) \subseteq {l.step} \cup l.siblings
      PROVE  DecisionHolds(c)' /\ CancelHolds(c)'
  <2>1. call'[c] = l
    BY <1>0, <1>1
  <2>2. PendingStepsOf(l.request)' = PendingStepsOf(l.request)
    BY <1>1 DEF PendingStepsOf, StepsOf, tables
  <2>3. step[l.step].status = "pending" /\ l.op # "cancel"
    BY <1>0, <1>1 DEF Deciding
  <2> QED
    BY <1>1, <2>1, <2>2, <2>3 DEF DecisionHolds, CancelHolds, At, tables
<1>2. CASE ReadFreshStep(c)
  <2>1. Deciding(c)
    BY <1>0, <1>2 DEF ReadFreshStep, DeparturesInv, CallHolds, Refers, Deciding, Call
  <2>2. CASE Goto(c, "read")
    <3>1. PICK l \in Call : l = [call[c] EXCEPT !.pc = "read"]
      BY <1>0 DEF Call
    <3>2. /\ l.pc = "read" /\ l.op = call[c].op /\ l.step = call[c].step
          /\ l.request = call[c].request
      BY <1>0, <3>1 DEF Call
    <3>3. call' = [call EXCEPT ![c] = l] /\ UNCHANGED tables
      BY <1>2, <2>2, <3>1 DEF Goto, ReadFreshStep
    <3> QED
      BY <1>1, <2>1, <3>2, <3>3
  <2> QED
    BY <1>0, <1>2, <2>2, EndDecides DEF ReadFreshStep
<1>3. CASE ReloadStep(c)
  <2>1. Deciding(c) /\ call[c].op \in {"approve", "reject"}
    BY <1>0, <1>3 DEF ReloadStep, DeparturesInv, CallHolds, Refers, Deciding, Call
  <2>2. step[call[c].step].status # Target(c)
    BY <1>0, <2>1 DEF Target
  <2>3. PICK l \in Call : l = [call[c] EXCEPT !.pc = "reloaded", !.dirty = TRUE]
    BY <1>0 DEF Call
  <2>4. /\ l.pc = "reloaded" /\ l.op = call[c].op /\ l.step = call[c].step
        /\ l.request = call[c].request /\ l.dirty
    BY <1>0, <2>3 DEF Call
  <2>5. call' = [call EXCEPT ![c] = l] /\ UNCHANGED tables
    BY <1>3, <2>2, <2>3 DEF ReloadStep
  <2> QED
    BY <1>1, <2>1, <2>4, <2>5
<1>4. CASE LockStep(c)
  <2>1. Deciding(c) /\ call[c].dirty
    BY <1>0, <1>4 DEF LockStep, DeparturesInv, CallHolds, Refers, Deciding, Call,
       DecisionHolds
  <2>2. PICK l \in Call : l = [call[c] EXCEPT !.pc = "locked"]
    BY <1>0 DEF Call
  <2>3. /\ l.pc = "locked" /\ l.op = call[c].op /\ l.step = call[c].step
        /\ l.request = call[c].request /\ l.dirty
    BY <1>0, <2>1, <2>2 DEF Call
  <2>4. call' = [call EXCEPT ![c] = l] /\ UNCHANGED tables
    BY <1>4, <2>2 DEF LockStep, Goto
  <2> QED
    BY <1>1, <2>1, <2>3, <2>4
<1>5. CASE FindPendingSteps(c)
  <2>1. call[c].op = "reject" /\ Deciding(c) /\ call[c].dirty
    BY <1>0, <1>5 DEF FindPendingSteps, Deciding, DecisionHolds, At
  <2> DEFINE siblings == PendingStepsOf(call[c].request) \ {call[c].step}
  <2>2. siblings \in SUBSET Steps
    BY DEF PendingStepsOf, StepsOf
  <2>3. PICK l \in Call : l = [call[c] EXCEPT !.pc = "ready", !.siblings = siblings]
    BY <1>0, <2>2 DEF Call
  <2>4. /\ l.pc = "ready" /\ l.op = call[c].op /\ l.step = call[c].step
        /\ l.request = call[c].request /\ l.dirty /\ l.siblings = siblings
    BY <1>0, <2>1, <2>3 DEF Call
  <2>5. call' = [call EXCEPT ![c] = l] /\ UNCHANGED tables
    BY <1>5, <2>3 DEF FindPendingSteps
  <2> QED
    BY <1>1, <2>1, <2>4, <2>5
<1>6. CASE FindAvailableAsset(c)
  <2>0. At(c, "approve", "locked") /\ UNCHANGED tables
    BY <1>6, AssetFound, Zenon
  <2>1. call[c].op = "approve" /\ Deciding(c) /\ call[c].dirty
    BY <1>0, <2>0 DEF Deciding, DecisionHolds, At
  <2>2. ASSUME NEW a \in AvailableAssets(request[call[c].request].model),
               call' = [call EXCEPT ![c].pc = "ready", ![c].asset = a,
                                    ![c].retired = asset[a].retiredAt]
        PROVE  DecisionHolds(c)' /\ CancelHolds(c)'
    <3>1. a \in Assets /\ asset[a].retiredAt \in RetiredAt
      BY <1>0 DEF AvailableAssets, EquipmentAsset
    <3>2. PICK l \in Call : l = [call[c] EXCEPT !.pc = "ready", !.asset = a,
                                   !.retired = asset[a].retiredAt]
      BY <1>0, <3>1 DEF Call
    <3>3. /\ l.pc = "ready" /\ l.op = call[c].op /\ l.step = call[c].step
          /\ l.request = call[c].request /\ l.dirty
      BY <1>0, <2>1, <3>2 DEF Call
    <3>4. call' = [call EXCEPT ![c] = l] /\ UNCHANGED tables
      BY <2>0, <2>2, <3>2
    <3> QED
      BY <1>1, <2>1, <3>3, <3>4
  <2> QED
    <3>1. CASE Return(c)
      BY <1>0, <3>1, EndDecides
    <3> QED
      BY <1>6, <2>2, <3>1, AssetFound, Zenon
<1>7. CASE CancelReload(c)
  <2> DEFINE r == call[c].request
             links == AssignmentsOf(r) \ call[c].links
             relinks == call[c].links \ AssignmentsOf(r)
  <2>1. /\ call[c].op = "cancel" /\ r \in Requests /\ UNCHANGED tables
        /\ request[r].status \in CANCELLABLE_REQUEST_STATUSES
    BY <1>0, <1>7 DEF CancelReload, CancelHolds, At, Refers
  <2>2. CASE ~Return(c)
    <3>0. links \in SUBSET Assignments /\ relinks \in SUBSET Assignments
      BY <1>0 DEF AssignmentsOf, Call
    <3>1. PICK l \in Call : l = [call[c] EXCEPT !.pc = "compared", !.links = links,
                                   !.relinks = relinks, !.dirty = TRUE]
      BY <1>0, <3>0 DEF Call
    <3>2. request[r].status # "cancelled"
      BY <2>1 DEF CANCELLABLE_REQUEST_STATUSES
    <3>3. call' = [call EXCEPT ![c] = l]
      BY <1>7, <2>2, <3>1, <3>2 DEF CancelReload
    <3>4. /\ l.op = "cancel" /\ l.pc = "compared" /\ l.request = r /\ l.dirty
      BY <1>0, <2>1, <3>1 DEF Call
    <3>5. call'[c] = l
      BY <1>0, <3>3
    <3> QED
      BY <2>1, <3>4, <3>5 DEF DecisionHolds, CancelHolds, Deciding, At, tables
  <2> QED
    BY <1>0, <2>2, EndDecides
<1> QED
  BY <1>0, <1>2, <1>3, <1>4, <1>5, <1>6, <1>7, EndDecides
     DEF Proceed, CommitRejection, CommitManagerApproval, NoProcurementManager,
       CommitProcurementApproval, CommitLoanApproval, CommitCancel, Notify,
       DeadlockVictim

\* The handler takes the link to r from no assignment while r is settled.
LEMMA WorkflowLinks ==
  ASSUME DeparturesInv, BackingInv, UNCHANGED job, NEW c \in Calls, Refers(c),
         Arrive(c) \/ Proceed(c) \/ Interrupt(c),
         NEW r \in Requests, request[r].status \in Settled,
         NEW g \in Assignments, assignment[g].request = r
  PROVE  assignment'[g] = assignment[g]
<1>0. RequestsTypeOK /\ TablesTypeOK /\ r # None
  BY NoneAssumption DEF DeparturesInv, DeparturesTypeOK, RequestsTypeOK
<1>1. CASE ~Writes(c)
  BY <1>1, OnlyWritesWrite
<1>2. ASSUME NEW h \in Assignments, CommitLoanApproval(c, h)
      PROVE  assignment'[g] = assignment[g]
  <2>1. assignment[h].request = None
    BY <1>2 DEF CommitLoanApproval, FreeAssignments, NoAssignment
  <2> QED
    BY <1>0, <1>2, <2>1 DEF CommitLoanApproval, TablesTypeOK
<1>3. CASE CommitCancel(c)
  <2>1. At(c, "cancel", "compared")
    BY <1>3 DEF CommitCancel
  <2>2. request[call[c].request].status \in CANCELLABLE_REQUEST_STATUSES \cup {"absent"}
    BY <2>1 DEF BackingInv, CancelHolds, At
  <2>3. call[c].request # r
    BY <2>2 DEF Settled, CANCELLABLE_REQUEST_STATUSES
  <2>4. ~Names(c, g)
    BY <1>0, <2>3 DEF DeparturesInv, CallHolds
  <2> QED
    BY <1>3, <2>1, <2>4 DEF CommitCancel, Linked, Names, At
<1>4. ASSUME NEW u, NEW n, NEW s, NEW type, NEW model, NEW manager,
             Create(c, u, n, s, type, model, manager)
      PROVE  assignment'[g] = assignment[g]
  BY <1>4 DEF Create
<1>5. ASSUME NEW n, NEW p, CommitManagerApproval(c, n, p)
      PROVE  assignment'[g] = assignment[g]
  BY <1>5 DEF CommitManagerApproval
<1>6. CASE CommitRejection(c) \/ CommitProcurementApproval(c)
  BY <1>6 DEF CommitRejection, CommitProcurementApproval
<1> QED
  BY <1>1, <1>2, <1>3, <1>4, <1>5, <1>6 DEF Writes

\* What needs an assignment is settled.
LEMMA NeedsSettled ==
  ASSUME DeparturesInv, BackingInv, NEW r \in Requests, NeedsBacking(r)
  PROVE  request[r].status \in Settled
<1>1. ASSUME request[r].status # "absent", NEW j \in Jobs,
             job[j].pc = "inserted", job[j].request = r
      PROVE  request[r].status \in Settled
  <2>1. job[j].fulfils
    BY <1>1 DEF DeparturesInv, EntityReady
  <2> QED
    BY <1>1, <2>1 DEF BackingInv, FulfilsApproved, Settled
<1> QED
  BY <1>1 DEF NeedsBacking, Settled

LEMMA WorkflowBacks ==
  ASSUME DeparturesInv, BackingInv, UNCHANGED <<job, gone>>, NEW c \in Calls,
         Refers(c), RejectionReady(c), Arrive(c) \/ Proceed(c)
  PROVE  /\ \A j \in Jobs : FulfilsApproved(job[j])'
         /\ \A r \in Requests : NeedsBacking(r)' => \E g \in Assignments : BackedBy(g, r)'
<1>0. Stays
  BY WorkflowStays DEF DeparturesInv, DeparturesTypeOK
<1>1. ASSUME NEW j \in Jobs
      PROVE  FulfilsApproved(job[j])'
  <2>1. PICK l : l = job[j]
    OBVIOUS
  <2>2. SUFFICES ASSUME l.fulfils
                 PROVE  request'[l.request].status
                          \in {"procurement_approved", "fulfilled", "absent"}
    BY <2>1 DEF FulfilsApproved
  <2>3. /\ l.request \in Requests /\ request[l.request].requester # None
        /\ request[l.request].status \in {"procurement_approved", "fulfilled", "absent"}
    BY <2>1, <2>2 DEF DeparturesInv, BackingInv, FulfilsApproved, Fits, FulfilHolds
  <2>4. CASE request[l.request].status = "absent"
    BY <1>0, <2>3, <2>4 DEF Stays
  <2>5. CASE request[l.request].status \in Settled
    BY <2>3, <2>5, WorkflowSettles
  <2> QED
    BY <2>3, <2>4, <2>5 DEF Settled
<1>2. ASSUME NEW r \in Requests, NeedsBacking(r)'
      PROVE  \E g \in Assignments : BackedBy(g, r)'
  <2>1. NeedsBacking(r)
    <3>1. CASE request'[r].status = "fulfilled" /\ request'[r].type = "procurement"
      <4>1. request[r].status = "fulfilled"
        BY <3>1, WorkflowSettles
      <4>2. request'[r].type = request[r].type
        BY <1>0, <4>1 DEF Stays, DeparturesInv, Requested
      <4> QED
        BY <3>1, <4>1, <4>2 DEF NeedsBacking
    <3>2. ASSUME request'[r].status # "absent", NEW j \in Jobs,
                 job[j].pc = "inserted", job[j].request = r
          PROVE  NeedsBacking(r)
      <4>1. job[j].fulfils
        BY <3>2 DEF DeparturesInv, EntityReady
      <4>2. request[r].requester # None
        BY <3>2, <4>1 DEF DeparturesInv, FulfilHolds
      <4>3. request[r].status # "absent"
        BY <1>0, <3>2, <4>2 DEF Stays
      <4> QED
        BY <3>2, <4>3 DEF NeedsBacking
    <3> QED
      BY <1>2, <3>1, <3>2 DEF NeedsBacking
  <2>2. PICK g \in Assignments : BackedBy(g, r)
    BY <2>1 DEF BackingInv
  <2>3. request[r].status \in Settled
    BY <2>1, NeedsSettled
  <2>4. assignment'[g] = assignment[g]
    BY <2>2, <2>3, WorkflowLinks DEF BackedBy
  <2>5. BackedBy(g, r)'
    BY <2>2, <2>4 DEF BackedBy, Kept, Brings
  <2> QED
    BY <2>5
<1> QED
  BY <1>1, <1>2

LEMMA WorkflowKeepsBacking ==
  ASSUME OneAtATime, DeparturesInv, BackingInv, UNCHANGED <<job, gone>>,
         NEW c \in Calls, Refers(c), RejectionReady(c), Arrive(c) \/ Proceed(c)
  PROVE  BackingInv'
<1>1. SettledHasNoPendingStep'
  BY WorkflowSettles DEF SettledHasNoPendingStep, Settled
<1>2. DecisionHolds(c)' /\ CancelHolds(c)'
  BY ArriveDecides, ProceedDecides DEF DeparturesInv, DeparturesTypeOK
<1>3. \A d \in Calls : DecisionHolds(d)' /\ CancelHolds(d)'
  BY <1>2 DEF OneAtATime
<1> QED
  BY <1>1, <1>3, WorkflowRoutes, WorkflowBacks DEF BackingInv

\* A handler ends; what it leaves is as it was.
LEMMA EndKeepsBacking ==
  ASSUME OneAtATime, DeparturesInv, BackingInv, NEW c \in Calls, Return(c),
         UNCHANGED <<request, step, asset, assignment, job, gone>>
  PROVE  BackingInv'
<1>1. StepsKnown' /\ RoutedOnce' /\ ManagerWasFirst' /\ SettledHasNoPendingStep'
  BY DEF BackingInv, StepsKnown, RoutedOnce, ManagerWasFirst,
     SettledHasNoPendingStep, PendingStepsOf, StepsOf
<1>2. \A d \in Calls : DecisionHolds(d)' /\ CancelHolds(d)'
  BY EndDecides DEF OneAtATime, DeparturesInv, DeparturesTypeOK
<1>3. \A j \in Jobs : FulfilsApproved(job[j])'
  BY DEF BackingInv, FulfilsApproved
<1>4. \A r \in Requests : NeedsBacking(r)' => \E g \in Assignments : BackedBy(g, r)'
  BY DEF BackingInv, NeedsBacking, BackedBy, Kept, Brings
<1> QED
  BY <1>1, <1>2, <1>3, <1>4 DEF BackingInv

LEMMA WorkflowStepBacks ==
  ASSUME OneAtATime, DeparturesInv, BackingInv, WorkflowWhileLeaving
  PROVE  BackingInv'
<1>1. PICK c \in Calls :
        \/ Arrive(c)
        \/ ~Thwarted(c) /\ Proceed(c)
        \/ Return(c) /\ UNCHANGED tables
  BY DEF WorkflowWhileLeaving, Interrupt
<1>2. UNCHANGED <<job, gone>> /\ CallHolds(c)
  BY DEF DeparturesInv, WorkflowWhileLeaving
<1>3. CASE Arrive(c)
  <2>1. call[c].pc = "idle"
    BY <1>3, ArrivesIdle
  <2>2. Refers(c) /\ RejectionReady(c)
    BY <1>2, <2>1, RowsFound DEF Thwarted
  <2> QED
    BY <1>2, <1>3, <2>2, WorkflowKeepsBacking
<1>4. CASE ~Thwarted(c) /\ Proceed(c) /\ call[c].pc # "committed"
  BY <1>2, <1>4, RowsFound, WorkflowKeepsBacking
<1>5. CASE Proceed(c) /\ call[c].pc = "committed"
  <2>1. Return(c) /\ UNCHANGED <<request, step, asset, assignment>>
    BY <1>5, CommittedOnlyNotifies DEF Notify
  <2> QED
    BY <1>2, <2>1, EndKeepsBacking
<1>6. CASE Return(c) /\ UNCHANGED tables
  BY <1>2, <1>6, EndKeepsBacking DEF tables
<1> QED
  BY <1>1, <1>3, <1>4, <1>5, <1>6

-----------------------------------------------------------------------------
(* What the handlers of the inventory hold, action by action.              *)

\* The locals of a handler that has just read its rows.
Starting(l) ==
  \/ /\ l.op = "save" /\ l.pc = "loaded"
     /\ asset[l.asset].status # "absent"
     /\ l.entity.status \in {asset[l.asset].status, "retired"} \cup Manual
  \/ /\ l.op = "assign" /\ l.pc = "loaded"
     /\ asset[l.asset].status = "available"
     /\ l.request # None => request[l.request].status # "absent"
  \/ l.op = "remove" /\ l.pc \in {"deletable", "counting"}
  \/ /\ l.op = "request_return" /\ l.pc = "loaded"
     /\ l.assignment \in Assignments /\ l.asset = assignment[l.assignment].asset
     /\ assignment[l.assignment].status = "active"
  \/ /\ l.op = "complete_return" /\ l.pc = "loaded"
     /\ l.assignment \in Assignments /\ l.asset = assignment[l.assignment].asset
     /\ assignment[l.assignment].status = "return_requested"
     /\ l.entity.status = "available" /\ "status" \in l.columns

\* A handler that starts only reads, unless it enters an asset.
LEMMA StartLocals ==
  ASSUME InventoryTypeOK, HistoryKeepsAsset, NEW j \in Jobs, StartJob(j)
  PROVE  \/ /\ UNCHANGED job
            /\ \E a \in Assets, model \in Models, status \in Manual \cup {"available"} :
                 CreateAsset(j, a, model, status)
         \/ /\ UNCHANGED tables
            /\ \E l : job' = [job EXCEPT ![j] = l] /\ Starting(l)
<1> DEFINE Goal == /\ UNCHANGED tables
                   /\ \E l : job' = [job EXCEPT ![j] = l] /\ Starting(l)
<1>0. \A a \in Assets : asset[a] \in EquipmentAsset
  BY DEF InventoryTypeOK, TablesTypeOK
<1>1. ASSUME NEW a \in Assets, NEW entity, NEW columns,
             entity.status \in {asset[a].status, "retired"} \cup Manual,
             Load(j, "save", a, entity, columns)
      PROVE  Goal
  <2> DEFINE l == [NoJob EXCEPT !.op = "save", !.pc = "loaded", !.asset = a,
                                !.entity = entity, !.columns = columns,
                                !.history = HistoryOf(a)]
  <2>1. /\ job' = [job EXCEPT ![j] = l] /\ UNCHANGED tables
        /\ asset[a].status # "absent"
        /\ l.op = "save" /\ l.pc = "loaded" /\ l.asset = a /\ l.entity = entity
    BY <1>1 DEF Load, NoJob
  <2> HIDE DEF l
  <2> QED
    BY <1>1, <2>1 DEF Starting
<1>2. ASSUME NEW a \in Assets,
             Update(j, a) \/ Retire(j, a) \/ \E status \in Manual : UpdateStatus(j, a, status)
      PROVE  Goal
  <2>1. CASE Update(j, a)
    BY <1>1, <2>1 DEF Update
  <2>2. CASE Retire(j, a)
    <3>1. [asset[a] EXCEPT !.status = "retired", !.retiredAt = "set"].status = "retired"
      BY <1>0 DEF EquipmentAsset
    <3> QED
      BY <1>1, <2>2, <3>1 DEF Retire
  <2>3. ASSUME NEW status \in Manual, UpdateStatus(j, a, status)
        PROVE  Goal
    <3>1. [asset[a] EXCEPT !.status = status].status = status
      BY <1>0 DEF EquipmentAsset
    <3> QED
      BY <1>1, <2>3, <3>1 DEF UpdateStatus
  <2> QED
    BY <1>2, <2>1, <2>2, <2>3
<1>3. ASSUME NEW a \in Assets, NEW u, NEW r, Assign(j, a, u, r)
      PROVE  Goal
  <2> DEFINE entity == [asset[a] EXCEPT !.status = "in_use", !.assignedEmployee = u]
             l == [NoJob EXCEPT !.op = "assign", !.pc = "loaded", !.asset = a,
                     !.entity = entity, !.columns = AssetColumns,
                     !.history = HistoryOf(a), !.employee = u, !.request = r]
  <2>1. /\ job' = [job EXCEPT ![j] = l] /\ UNCHANGED tables
        /\ asset[a].status = "available"
        /\ r # None => request[r].status # "absent"
    BY <1>3 DEF Assign
  <2> HIDE DEF entity
  <2>2. l.op = "assign" /\ l.pc = "loaded" /\ l.asset = a /\ l.request = r
    BY DEF NoJob
  <2> HIDE DEF l
  <2> QED
    BY <2>1, <2>2 DEF Starting
<1>4. ASSUME NEW a \in Assets, FindRemovable(j, a)
      PROVE  Goal
  <2> DEFINE pc == IF asset[a].status = "retired" THEN "deletable" ELSE "counting"
             l == [NoJob EXCEPT !.op = "remove", !.asset = a, !.entity = asset[a], !.pc = pc]
  <2>1. /\ l.op = "remove" /\ l.pc \in {"deletable", "counting"} /\ l.asset = a
        /\ job' = [job EXCEPT ![j] = l] /\ UNCHANGED tables
    BY <1>4 DEF FindRemovable, NoJob
  <2> HIDE DEF l
  <2> QED
    BY <2>1 DEF Starting
<1>5. ASSUME NEW g \in Assignments, NEW op, NEW status, LoadAssignment(j, op, g, status)
      PROVE  /\ UNCHANGED tables
             /\ \E l : /\ job' = [job EXCEPT ![j] = l]
                       /\ l.op = op /\ l.pc = "loaded" /\ l.assignment = g
                       /\ l.asset = assignment[g].asset
                       /\ l.entity = [asset[assignment[g].asset] EXCEPT !.status = status]
                       /\ "status" \in l.columns
  <2> DEFINE a == assignment[g].asset
             entity == [asset[a] EXCEPT !.status = status]
             l == [NoJob EXCEPT !.op = op, !.pc = "loaded", !.asset = a,
                     !.entity = entity, !.columns = AssetColumns \ {"assignedEmployee"},
                     !.history = Assignments,
                     !.assignment = g, !.links = assignment[g].request]
  <2>1. job' = [job EXCEPT ![j] = l] /\ UNCHANGED tables
    BY <1>5 DEF LoadAssignment
  <2> HIDE DEF entity
  <2>2. /\ l.op = op /\ l.pc = "loaded" /\ l.assignment = g /\ l.asset = a
        /\ l.entity = entity /\ "status" \in l.columns
    BY DEF NoJob, AssetColumns
  <2> HIDE DEF l
  <2> QED
    BY <2>1, <2>2 DEF entity
<1>6. ASSUME NEW g \in Assignments, RequestReturn(j, g)
      PROVE  Goal
  <2>1. assignment[g].status = "active"
        /\ LoadAssignment(j, "request_return", g, "return_requested")
    BY <1>6 DEF RequestReturn
  <2>2. PICK l : /\ job' = [job EXCEPT ![j] = l]
                 /\ l.op = "request_return" /\ l.pc = "loaded" /\ l.assignment = g
                 /\ l.asset = assignment[g].asset
                 /\ l.entity = [asset[assignment[g].asset] EXCEPT
                                 !.status = "return_requested"]
                 /\ "status" \in l.columns
    BY <1>5, <2>1
  <2>3. Starting(l)
    BY <2>1, <2>2 DEF Starting
  <2> QED
    BY <1>5, <2>1, <2>2, <2>3
<1>7. ASSUME NEW g \in Assignments, CompleteReturn(j, g)
      PROVE  Goal
  <2>1. assignment[g].status = "return_requested"
        /\ LoadAssignment(j, "complete_return", g, "available")
    BY <1>7 DEF CompleteReturn
  <2>0. assignment[g].asset \in Assets
    BY <2>1 DEF HistoryKeepsAsset
  <2>2. [asset[assignment[g].asset] EXCEPT !.status = "available"].status = "available"
    BY <1>0, <2>0 DEF EquipmentAsset
  <2>3. PICK l : /\ job' = [job EXCEPT ![j] = l]
                 /\ l.op = "complete_return" /\ l.pc = "loaded" /\ l.assignment = g
                 /\ l.asset = assignment[g].asset
                 /\ l.entity = [asset[assignment[g].asset] EXCEPT !.status = "available"]
                 /\ "status" \in l.columns
    BY <1>5, <2>1
  <2>4. Starting(l)
    BY <2>1, <2>2, <2>3 DEF Starting
  <2> QED
    BY <1>5, <2>1, <2>3, <2>4
<1> QED
  BY <1>2, <1>3, <1>4, <1>6, <1>7 DEF StartJob, CreateAsset

\* The locals l carry on with what handler j was to write.
Carries(l, j) ==
  /\ SameWork(l, job[j])
  /\ l.request = job[j].request /\ l.columns = job[j].columns

\* The locals of handler j after its next step, unless it ends with it.
Going(l, j) ==
  \/ /\ CompareAsset(j) /\ l.pc = "missing" /\ Carries(l, j)
     /\ asset[job[j].asset].status = "absent"
  \/ /\ CompareAsset(j) /\ l.pc = "compared"
     /\ SameWork(l, job[j]) /\ l.request = job[j].request
     /\ l.columns = {k \in job[j].columns :
                       job[j].entity[k] # asset[job[j].asset][k]}
  \/ WriteAsset(j) /\ l.pc = "saved" /\ Carries(l, j) /\ job[j].op # "save"
  \/ InsertMissing(j) /\ l.pc = "saved" /\ Carries(l, j)
  \/ /\ FindRequest(j) /\ l.pc = "found"
     /\ SameWork(l, job[j]) /\ l.request \in {job[j].request, None}
  \/ /\ \E g \in Assignments : InsertAssignment(j, g)
     /\ l.pc = "inserted" /\ Carries(l, j)
     /\ job[j].fulfils /\ asset[job[j].asset].status # "absent"
  \/ FulfilRequest(j) /\ l.pc = "done" /\ Carries(l, j)
  \/ CountHistory(j) /\ l.pc = "deletable" /\ Carries(l, j)
  \/ CompareAssignment(j) /\ l.pc = "matched" /\ Carries(l, j)
  \/ WriteAssignment(j) /\ l.pc = "done" /\ Carries(l, j)

LEMMA MoveCarries ==
  ASSUME InventoryTypeOK, NEW j \in Jobs, NEW pc, Move(j, pc)
  PROVE  \E l : job' = [job EXCEPT ![j] = l] /\ l.pc = pc /\ Carries(l, j)
<1>1. job[j] \in Job
  BY DEF InventoryTypeOK
<1>2. PICK l : l = [job[j] EXCEPT !.pc = pc]
  OBVIOUS
<1>3. job' = [job EXCEPT ![j] = l]
  BY <1>2 DEF Move
<1>4. l.pc = pc /\ Carries(l, j)
  BY <1>1, <1>2 DEF Job, Carries, SameWork
<1> QED
  BY <1>3, <1>4

LEMMA ContinueLocals ==
  ASSUME InventoryTypeOK, NEW j \in Jobs, ContinueJob(j)
  PROVE  Finish(j) \/ \E l : job' = [job EXCEPT ![j] = l] /\ Going(l, j)
<1> DEFINE Goal == Finish(j) \/ \E l : job' = [job EXCEPT ![j] = l] /\ Going(l, j)
<1>0. job[j] \in Job
  BY DEF InventoryTypeOK
<1>1. CASE CompareAsset(j)
  <2> DEFINE a == job[j].asset
             columns == {k \in job[j].columns : job[j].entity[k] # asset[a][k]}
  <2>1. CASE Move(j, "missing") /\ asset[a].status = "absent"
    <3>1. PICK l : job' = [job EXCEPT ![j] = l] /\ l.pc = "missing" /\ Carries(l, j)
      BY <2>1, MoveCarries
    <3> QED
      BY <1>1, <2>1, <3>1 DEF Going
  <2>2. CASE job' = [job EXCEPT ![j].pc = "compared", ![j].columns = columns]
    <3>1. PICK l : l = [job[j] EXCEPT !.pc = "compared", !.columns = columns]
      OBVIOUS
    <3>2. job' = [job EXCEPT ![j] = l]
      BY <2>2, <3>1
    <3>3. /\ l.pc = "compared" /\ SameWork(l, job[j]) /\ l.request = job[j].request
          /\ l.columns = columns
      BY <1>0, <3>1 DEF Job, SameWork
    <3> QED
      BY <1>1, <3>2, <3>3 DEF Going
  <2>3. CASE Finish(j)
    BY <2>3
  <2> QED
    BY <1>1, <2>1, <2>2, <2>3 DEF CompareAsset
<1>2. CASE WriteAsset(j)
  <2>1. CASE job[j].op # "save"
    <3>1. Move(j, "saved")
      BY <1>2, <2>1 DEF WriteAsset, AssetSaved
    <3>2. PICK l : job' = [job EXCEPT ![j] = l] /\ l.pc = "saved" /\ Carries(l, j)
      BY <3>1, MoveCarries
    <3> QED
      BY <1>2, <2>1, <3>2 DEF Going
  <2>2. CASE job[j].op = "save"
    BY <1>2, <2>2 DEF WriteAsset, AssetSaved
  <2> QED
    BY <2>1, <2>2
<1>3. CASE InsertMissing(j)
  <2>1. Finish(j) \/ Move(j, "saved")
    BY <1>3 DEF InsertMissing, AssetSaved
  <2>2. ASSUME Move(j, "saved")
        PROVE  Goal
    <3>1. PICK l : job' = [job EXCEPT ![j] = l] /\ l.pc = "saved" /\ Carries(l, j)
      BY <2>2, MoveCarries
    <3> QED
      BY <1>3, <3>1 DEF Going
  <2> QED
    BY <2>1, <2>2
<1>4. CASE FindRequest(j)
  <2> DEFINE found == {r \in {job[j].request} \cap Requests : request[r].status # "absent"}
             f == \E r \in found : request[r].status = "procurement_approved"
             q == IF found = {} THEN None ELSE job[j].request
  <2>1. PICK l : l = [job[j] EXCEPT !.pc = "found", !.request = q, !.fulfils = f]
    OBVIOUS
  <2>2. job' = [job EXCEPT ![j] = l]
    BY <1>4, <2>1 DEF FindRequest
  <2>3. q \in {job[j].request, None}
    OBVIOUS
  <2> HIDE DEF f, q
  <2>4. l.pc = "found" /\ SameWork(l, job[j]) /\ l.request = q
    BY <1>0, <2>1 DEF Job, SameWork
  <2> QED
    BY <1>4, <2>2, <2>3, <2>4 DEF Going
<1>5. ASSUME NEW g \in Assignments, InsertAssignment(j, g)
      PROVE  Goal
  <2>1. \/ Finish(j)
        \/ Move(j, "inserted") /\ job[j].fulfils /\ asset[job[j].asset].status # "absent"
    BY <1>5 DEF InsertAssignment
  <2>2. ASSUME Move(j, "inserted"), job[j].fulfils, asset[job[j].asset].status # "absent"
        PROVE  Goal
    <3>1. PICK l : job' = [job EXCEPT ![j] = l] /\ l.pc = "inserted" /\ Carries(l, j)
      BY <2>2, MoveCarries
    <3>2. Going(l, j)
      BY <1>5, <2>2, <3>1 DEF Going
    <3> QED
      BY <3>1, <3>2
  <2> QED
    BY <2>1, <2>2
<1>6. CASE FulfilRequest(j) \/ WriteAssignment(j)
  <2>1. Move(j, "done")
    BY <1>6 DEF FulfilRequest, WriteAssignment
  <2>2. PICK l : job' = [job EXCEPT ![j] = l] /\ l.pc = "done" /\ Carries(l, j)
    BY <2>1, MoveCarries
  <2> QED
    BY <1>6, <2>2 DEF Going
<1>7. CASE CountHistory(j)
  <2>1. Finish(j) \/ Move(j, "deletable")
    BY <1>7 DEF CountHistory
  <2>2. ASSUME Move(j, "deletable")
        PROVE  Goal
    <3>1. PICK l : job' = [job EXCEPT ![j] = l] /\ l.pc = "deletable" /\ Carries(l, j)
      BY <2>2, MoveCarries
    <3> QED
      BY <1>7, <3>1 DEF Going
  <2> QED
    BY <2>1, <2>2
<1>8. CASE CompareAssignment(j)
  <2> DEFINE g == job[j].assignment
             dirty == {k \in {"status", "request"} :
                         (k = "status" /\ assignment[g].status # ReturnStatus(j))
                           \/ (k = "request" /\ assignment[g].request # job[j].links)}
  <2>1. PICK l : l = [job[j] EXCEPT !.pc = "matched", !.dirty = dirty]
    OBVIOUS
  <2>2. job' = [job EXCEPT ![j] = l]
    BY <1>8, <2>1 DEF CompareAssignment
  <2> HIDE DEF dirty
  <2>3. l.pc = "matched" /\ Carries(l, j)
    BY <1>0, <2>1 DEF Job, Carries, SameWork
  <2> QED
    BY <1>8, <2>2, <2>3 DEF Going
<1>9. CASE Delete(j) \/ NotifyHolder(j)
  BY <1>9 DEF Delete, NotifyHolder
<1> QED
  BY <1>1, <1>2, <1>3, <1>4, <1>5, <1>6, <1>7, <1>8, <1>9 DEF ContinueJob

\* A handler is about to fulfil a request only by having made its assignment.
LEMMA NewlyInserted ==
  ASSUME InventoryTypeOK, HistoryKeepsAsset, NEW j \in Jobs,
         StartJob(j) \/ ContinueJob(j) \/ Finish(j), job'[j].pc = "inserted"
  PROVE  \/ job'[j] = job[j]
         \/ /\ job'[j].request = job[j].request
            /\ \E g \in Assignments :
                 /\ assignment[g] = NoAssignment
                 /\ assignment'[g].request = job[j].request
                 /\ assignment'[g].status = "active"
<1>1. CASE StartJob(j)
  <2>1. ASSUME NEW l, job' = [job EXCEPT ![j] = l], Starting(l)
        PROVE  FALSE
    <3>1. job'[j] = l
      BY <2>1, OneJobMoves
    <3> QED
      BY <2>1, <3>1 DEF Starting
  <2> QED
    BY <1>1, <2>1, StartLocals
<1>2. CASE Finish(j)
  BY <1>2, OneJobMoves DEF Finish, NoJob
<1>3. CASE ContinueJob(j) /\ ~Finish(j)
  <2>1. PICK l : job' = [job EXCEPT ![j] = l] /\ Going(l, j)
    BY <1>3, ContinueLocals
  <2>2. l.pc = "inserted" /\ job'[j] = l
    BY <2>1, OneJobMoves
  <2>3. /\ \E g \in Assignments : InsertAssignment(j, g)
        /\ Carries(l, j) /\ asset[job[j].asset].status # "absent"
    BY <2>1, <2>2 DEF Going
  <2>4. PICK g \in Assignments : InsertAssignment(j, g)
    BY <2>3
  <2>5. /\ assignment[g] = NoAssignment
        /\ assignment' = [assignment EXCEPT ![g] =
             [status |-> "active", asset |-> job[j].asset,
              employee |-> job[j].employee, request |-> job[j].request]]
    BY <2>3, <2>4 DEF InsertAssignment, FreeAssignments
  <2>6. assignment'[g].request = job[j].request /\ assignment'[g].status = "active"
    BY <2>5 DEF InventoryTypeOK, TablesTypeOK
  <2> QED
    BY <2>2, <2>3, <2>5, <2>6 DEF Carries
<1> QED
  BY <1>1, <1>2, <1>3

-----------------------------------------------------------------------------
(* A step of the inventory, with the invariant of one workflow handler.    *)

\* A request is fulfilled once it is approved and has its assignment.
LEMMA FulfilledFrom ==
  ASSUME DeparturesInv, BackingInv, NEW j \in Jobs, InventoryKeeps(j),
         FulfilsPresent(j), NEW r \in Requests
  PROVE  \/ request'[r] = request[r]
         \/ /\ request[r].status \in {"procurement_approved", "fulfilled"}
            /\ request'[r].status = "fulfilled" /\ NeedsBacking(r)
<1>1. CASE FulfilRequest(j)
  <2>1. /\ job[j].pc = "inserted" /\ job[j].fulfils
        /\ request' = [request EXCEPT ![job[j].request].status = "fulfilled"]
        /\ request[job[j].request].status # "absent"
    BY <1>1 DEF FulfilRequest, FulfilsPresent, DeparturesInv, EntityReady
  <2>2. request[job[j].request].status \in {"procurement_approved", "fulfilled"}
    BY <2>1 DEF BackingInv, FulfilsApproved
  <2>3. request \in [Requests -> EquipmentRequest]
    BY DEF DeparturesInv, DeparturesTypeOK, RequestsTypeOK, TablesTypeOK
  <2>4. CASE r = job[j].request
    <3>1. request'[r].status = "fulfilled"
      BY <2>1, <2>3, <2>4 DEF EquipmentRequest
    <3> QED
      BY <2>1, <2>2, <2>4, <3>1 DEF NeedsBacking
  <2>5. CASE r # job[j].request
    BY <2>1, <2>3, <2>5
  <2> QED
    BY <2>4, <2>5
<1> QED
  BY <1>1 DEF InventoryKeeps

\* The assignment that backs a request still does.
LEMMA InventoryKeepsBacked ==
  ASSUME DeparturesInv, UNCHANGED gone, NEW j \in Jobs, Effect(j),
         NEW r \in Requests, NEW g \in Assignments, BackedBy(g, r)
  PROVE  BackedBy(g, r)'
<1>0. r # None /\ InventoryKeeps(j) /\ HoldsLink(j)
  BY NoneAssumption DEF Effect
<1>1. /\ assignment[g].request = r /\ assignment[g] # NoAssignment
      /\ assignment[g].status = "absent" => assignment[g].employee \in gone
      /\ Kept(g, r)
  BY <1>0 DEF BackedBy, NoAssignment
<1>2. /\ assignment'[g].request = r
      /\ assignment'[g].status = "absent" => assignment'[g].employee \in gone
  <2>1. CASE assignment[g].status = "absent"
    BY <1>0, <1>1, <2>1 DEF InventoryKeeps
  <2>2. CASE assignment[g].status # "absent"
    BY <1>0, <1>1, <2>2 DEF InventoryKeeps, Kept
  <2> QED
    BY <2>1, <2>2
<1>3. ASSUME NEW i \in Jobs, Brings(i, g)'
      PROVE  job'[i].links = r
  <2>1. CASE i = j
    BY <1>0, <1>1, <1>3, <2>1 DEF HoldsLink, Kept
  <2>2. CASE i # j
    BY <1>1, <1>3, <2>2 DEF Effect, Brings, Kept
  <2> QED
    BY <2>1, <2>2
<1> QED
  BY <1>2, <1>3 DEF BackedBy, Kept

LEMMA InventoryBacks ==
  ASSUME DeparturesInv, BackingInv, UNCHANGED gone, NEW j \in Jobs, Effect(j),
         FulfilsPresent(j), StartJob(j) \/ ContinueJob(j) \/ Finish(j),
         NEW r \in Requests, NeedsBacking(r)'
  PROVE  \E g \in Assignments : BackedBy(g, r)'
<1>1. CASE NeedsBacking(r)
  BY <1>1, InventoryKeepsBacked DEF BackingInv
<1>2. CASE ~NeedsBacking(r)
  <2>1. request'[r] = request[r]
    BY <1>2, FulfilledFrom DEF Effect
  <2>2. PICK i \in Jobs : job'[i].pc = "inserted" /\ job'[i].request = r
    BY <1>2, <2>1 DEF NeedsBacking
  <2>3. request[r].status # "absent"
    BY <1>2, <2>1 DEF NeedsBacking
  <2>4. i = j /\ job'[j] # job[j]
    BY <1>2, <2>2, <2>3 DEF Effect, NeedsBacking
  <2>5. PICK g \in Assignments : /\ assignment[g] = NoAssignment
                                 /\ assignment'[g].request = r
                                 /\ assignment'[g].status = "active"
    BY <2>2, <2>4, NewlyInserted DEF DeparturesInv, DeparturesTypeOK
  <2>6. assignment[g].asset \notin Assets
    BY <2>5, NoneAssumption DEF NoAssignment
  <2>7. \A k \in Jobs : ~Brings(k, g)'
    <3> SUFFICES ASSUME NEW k \in Jobs, Brings(k, g)' PROVE FALSE
      OBVIOUS
    <3>1. CASE k = j
      BY <2>6, <3>1 DEF Effect, HoldsLink
    <3>2. CASE k # j
      BY <2>6, <3>2 DEF Effect, Brings, DeparturesInv, Fits
    <3> QED
      BY <3>1, <3>2
  <2> QED
    BY <2>5, <2>7 DEF BackedBy, Kept
<1> QED
  BY <1>1, <1>2

LEMMA InventoryKeepsBacking ==
  ASSUME DeparturesInv, BackingInv, UNCHANGED <<call, gone>>, NEW j \in Jobs,
         Effect(j), FulfilsPresent(j), StartJob(j) \/ ContinueJob(j) \/ Finish(j)
  PROVE  BackingInv'
<1>0. InventoryKeeps(j) /\ UNCHANGED step
  BY DEF Effect, InventoryKeeps
<1>1. StepsKnown' /\ RoutedOnce' /\ ManagerWasFirst'
  BY <1>0, InventoryStays DEF BackingInv, StepsKnown, RoutedOnce, ManagerWasFirst
<1>2. \A r \in Requests : PendingStepsOf(r)' = PendingStepsOf(r)
  BY <1>0 DEF PendingStepsOf, StepsOf
<1>3. SettledHasNoPendingStep'
  BY <1>0, <1>2, FulfilledFrom DEF BackingInv, SettledHasNoPendingStep
<1>4. ASSUME NEW c \in Calls
      PROVE  DecisionHolds(c)' /\ CancelHolds(c)'
  <2>1. PICK q : q = call[c].request
    OBVIOUS
  <2>2. DecisionHolds(c)'
    BY <1>0 DEF BackingInv, DecisionHolds, Deciding, At, PendingStepsOf, StepsOf
  <2>3. CASE call[c].op = "cancel" /\ call[c].pc # "committed"
    <3>1. /\ q \in Requests
          /\ request[q].status \in CANCELLABLE_REQUEST_STATUSES \cup {"absent"}
      BY <2>1, <2>3 DEF DeparturesInv, CallHolds, BackingInv, CancelHolds
    <3>2. request'[q] = request[q]
      BY <1>0, <3>1, FulfilledFrom DEF CANCELLABLE_REQUEST_STATUSES
    <3> QED
      BY <2>1, <2>2, <3>1, <3>2 DEF BackingInv, CancelHolds, At
  <2>4. CASE ~(call[c].op = "cancel" /\ call[c].pc # "committed")
    BY <2>2, <2>4 DEF CancelHolds, At
  <2> QED
    BY <2>3, <2>4
<1>5. ASSUME NEW l, Fits(l), FulfilsApproved(l)
      PROVE  FulfilsApproved(l)'
  BY <1>0, <1>5, FulfilledFrom DEF Fits, FulfilsApproved
<1>6. ASSUME NEW i \in Jobs
      PROVE  FulfilsApproved(job[i])'
  <2>1. PICK l : l = job[i]
    OBVIOUS
  <2>2. FulfilsApproved(l)'
    BY <1>5, <2>1 DEF DeparturesInv, BackingInv
  <2>3. CASE job'[i].fulfils = l.fulfils /\ job'[i].request = l.request
    BY <2>2, <2>3 DEF FulfilsApproved
  <2>4. CASE i # j
    BY <2>1, <2>2, <2>4 DEF FulfilsApproved, Effect
  <2>5. CASE i = j
    <3>1. CASE ~job'[j].fulfils
      BY <2>5, <3>1 DEF FulfilsApproved
    <3>2. CASE l.fulfils /\ job'[j].request = l.request
      BY <2>2, <2>5, <3>2 DEF FulfilsApproved
    <3>3. CASE /\ UNCHANGED tables
               /\ request[job'[j].request].status = "procurement_approved"
      BY <2>5, <3>3 DEF FulfilsApproved, tables
    <3> QED
      BY <2>1, <2>5, <3>1, <3>2, <3>3 DEF Effect, StillFulfils
  <2> QED
    BY <2>4, <2>5
<1> QED
  BY <1>1, <1>3, <1>4, <1>6, InventoryBacks DEF BackingInv

LEMMA InventoryStepBacks ==
  ASSUME DeparturesInv, BackingInv, InventoryWhileLeaving
  PROVE  BackingInv'
<1>1. PICK j \in Jobs :
        \/ StartJob(j)
        \/ ~ThwartedJob(j) /\ ContinueJob(j)
        \/ Finish(j) /\ UNCHANGED tables
  BY DEF InventoryWhileLeaving, CutOff
<1>2. UNCHANGED <<call, gone>>
  BY DEF InventoryWhileLeaving
<1>3. JobsFit /\ InventoryFits
  BY DEF DeparturesInv, DeparturesTypeOK, JobsFit, InventoryFits
<1>4. CASE StartJob(j)
  <2>1. ~WriteAssignment(j) /\ FulfilsPresent(j)
    BY <1>4, StartWrites DEF WriteAssignment, FulfilsPresent, FulfilRequest
  <2>2. Effect(j)
    BY <1>3, <1>4, <2>1, InventoryEffect
  <2> QED
    BY <1>2, <1>4, <2>1, <2>2, InventoryKeepsBacking
<1>5. CASE ~ThwartedJob(j) /\ ContinueJob(j)
  <2>1. Effect(j)
    BY <1>3, <1>5, JobFinds, InventoryEffect
  <2> QED
    BY <1>2, <1>5, <2>1, JobFinds, InventoryKeepsBacking
<1>6. CASE Finish(j) /\ UNCHANGED tables
  <2>1. InventoryKeeps(j) /\ Effect(j)
    BY <1>3, <1>6, NothingWritten, FinishEffect
  <2>2. FulfilsPresent(j)
    <3>1. job[j] \in Job /\ ~(Finish(j) /\ Move(j, "done"))
      BY <1>3, JobsTyped DEF Finish, Move, NoJob, Job, InventoryFits, InventoryTypeOK
    <3> QED
      BY <1>6, <3>1 DEF FulfilsPresent, FulfilRequest
  <2> QED
    BY <1>2, <1>6, <2>1, <2>2, InventoryKeepsBacking
<1> QED
  BY <1>1, <1>4, <1>5, <1>6

-----------------------------------------------------------------------------
(* The removal of an employee, with the invariant of one workflow handler. *)

LEMMA RemovalBacks ==
  ASSUME DeparturesInv, BackingInv, NEW u \in Leavers, RemoveUser(u)
  PROVE  BackingInv'
<1>0. /\ gone' = gone \cup {u} /\ UNCHANGED <<call, job>>
      /\ RequestsTypeOK /\ TablesTypeOK
  BY RemovedRows DEF DeparturesInv, DeparturesTypeOK, RequestsTypeOK
<1>1. ASSUME NEW s \in Steps
      PROVE  /\ step'[s].request = step[s].request /\ step'[s].role = step[s].role
             /\ step'[s].status \in {step[s].status, "absent"}
  <2>1. /\ step[s] \in ApprovalStep
        /\ step'[s] \in {step[s], [step[s] EXCEPT !.status = "absent"]}
    BY <1>0, RemovedRows DEF TablesTypeOK
  <2> QED
    BY <2>1 DEF ApprovalStep
<1>2. ASSUME NEW r \in Requests
      PROVE  request'[r].status \in {request[r].status, "absent"}
  BY RemovalLeaves
<1>3. ASSUME NEW r, NEW s \in PendingStepsOf(r)'
      PROVE  s \in PendingStepsOf(r)
  BY <1>1, <1>3 DEF PendingStepsOf, StepsOf
<1>4. StepsKnown' /\ RoutedOnce' /\ ManagerWasFirst'
  <2>1. StepsKnown'
    BY <1>1, RemovalStays DEF BackingInv, StepsKnown, Stays
  <2>2. \A s \in Steps : step[s].status # "pending" => step'[s].status # "pending"
    BY <1>1
  <2> QED
    BY <1>1, <2>1, <2>2, NoStepRouted DEF BackingInv
<1>5. SettledHasNoPendingStep'
  <2> SUFFICES ASSUME NEW r \in Requests, request'[r].status \in Settled
               PROVE  PendingStepsOf(r)' = {}
    BY DEF SettledHasNoPendingStep, Settled
  <2>1. request[r].status \in Settled
    BY <1>2 DEF Settled
  <2> QED
    BY <1>3, <2>1 DEF BackingInv, SettledHasNoPendingStep, Settled
<1>6. ASSUME NEW c \in Calls
      PROVE  DecisionHolds(c)' /\ CancelHolds(c)'
  <2>q. PICK q : q = call[c].request
    OBVIOUS
  <2>m. PICK m : m = call[c].step
    OBVIOUS
  <2>0. CallHolds(c) /\ DecisionHolds(c) /\ CancelHolds(c) /\ call'[c] = call[c]
    BY <1>0 DEF DeparturesInv, BackingInv
  <2>1. Deciding(c) => m \in Steps /\ step'[m].status \in {step[m].status, "absent"}
    BY <1>1, <2>0, <2>m DEF Deciding, CallHolds
  <2>2. \A s \in PendingStepsOf(q)' : s \in PendingStepsOf(q)
    BY <1>3
  <2>3. DecisionHolds(c)'
    BY <2>0, <2>1, <2>2, <2>q, <2>m DEF DecisionHolds, Deciding, At
  <2>4. call[c].op = "cancel" =>
          request'[q].status \in {request[q].status, "absent"}
    BY <1>2, <2>0, <2>q DEF CallHolds
  <2>5. CancelHolds(c)'
    BY <2>0, <2>4, <2>q DEF CancelHolds, At
  <2> QED
    BY <2>3, <2>5
<1>7. ASSUME NEW j \in Jobs
      PROVE  FulfilsApproved(job[j])'
  <2>1. PICK l : l = job[j]
    OBVIOUS
  <2>2. Fits(l) /\ FulfilsApproved(l)
    BY <2>1 DEF DeparturesInv, BackingInv
  <2>3. FulfilsApproved(l)'
    BY <1>2, <2>2 DEF Fits, FulfilsApproved
  <2>4. job'[j] = l
    BY <1>0, <2>1
  <2> QED
    BY <2>3, <2>4 DEF FulfilsApproved
<1>8. ASSUME NEW r \in Requests, NeedsBacking(r)'
      PROVE  \E g \in Assignments : BackedBy(g, r)'
  <2>1. request'[r] = request[r] /\ request[r].requester # u
    BY <1>8, RemovalLeaves DEF NeedsBacking
  <2>2. NeedsBacking(r) /\ r \notin RequestsWith(u)
    BY <1>0, <1>8, <2>1 DEF NeedsBacking, RequestsWith
  <2>3. PICK g \in Assignments : BackedBy(g, r)
    BY <2>2 DEF BackingInv
  <2>4. /\ assignment'[g].request = r
        /\ assignment'[g].status = "absent" => assignment'[g].employee \in gone'
    BY <1>0, <2>2, <2>3, RemovedRows DEF BackedBy
  <2>5. Kept(g, r)'
    BY <1>0, <2>3 DEF BackedBy, Kept, Brings
  <2> QED
    BY <2>4, <2>5 DEF BackedBy
<1> QED
  BY <1>4, <1>5, <1>6, <1>7, <1>8 DEF BackingInv

LEMMA StutterBacks ==
  ASSUME BackingInv, UNCHANGED departureVars
  PROVE  BackingInv'
<1> USE DEF BackingInv, departureVars, systemVars, tables
<1>1. StepsKnown' /\ RoutedOnce' /\ ManagerWasFirst' /\ SettledHasNoPendingStep'
  BY DEF StepsKnown, RoutedOnce, ManagerWasFirst, SettledHasNoPendingStep,
     PendingStepsOf, StepsOf
<1>2. \A c \in Calls : DecisionHolds(c)' /\ CancelHolds(c)'
  BY DEF DecisionHolds, CancelHolds, Deciding, At, PendingStepsOf, StepsOf
<1>3. \A j \in Jobs : FulfilsApproved(job[j])'
  BY DEF FulfilsApproved
<1>4. \A r \in Requests : NeedsBacking(r)' => \E g \in Assignments : BackedBy(g, r)'
  BY DEF NeedsBacking, BackedBy, Kept, Brings
<1> QED
  BY <1>1, <1>2, <1>3, <1>4

LEMMA DeparturesInitBacking == DeparturesInit => BackingInv
<1> SUFFICES ASSUME DeparturesInit PROVE BackingInv
  OBVIOUS
<1>1. /\ \A r \in Requests : request[r].status = "absent"
      /\ \A s \in Steps : step[s].request = None /\ step[s].status = "absent"
      /\ call = [c \in Calls |-> NoCall] /\ job = [j \in Jobs |-> NoJob]
  BY DEF DeparturesInit, SystemInit, RequestsInit, InventoryInit, TablesInit,
     NoRequest, NoStep
<1>2. StepsKnown /\ RoutedOnce /\ ManagerWasFirst /\ SettledHasNoPendingStep
  BY <1>1 DEF StepsKnown, RoutedOnce, ManagerWasFirst, SettledHasNoPendingStep
<1>3. \A c \in Calls : DecisionHolds(c) /\ CancelHolds(c)
  BY <1>1 DEF DecisionHolds, CancelHolds, Deciding, At, NoCall
<1>4. \A j \in Jobs : FulfilsApproved(job[j])
  BY <1>1 DEF FulfilsApproved, NoJob
<1>5. \A r \in Requests : ~NeedsBacking(r)
  BY <1>1 DEF NeedsBacking
<1> QED
  BY <1>2, <1>3, <1>4, <1>5 DEF BackingInv

\* With one handler of the workflow at a time, cut off wherever it may be, and
\* any number of inventory handlers and of removals in between.
THEOREM BackingInvariant ==
  ASSUME OneAtATime
  PROVE  DeparturesSpec => []BackingInv
<1>1. ASSUME DeparturesInv, BackingInv, [DeparturesNext]_departureVars
      PROVE  BackingInv'
  BY <1>1, WorkflowStepBacks, InventoryStepBacks, RemovalBacks, StutterBacks
     DEF DeparturesNext
<1>2. DeparturesInv /\ BackingInv /\ [DeparturesNext]_departureVars => BackingInv'
  BY <1>1
<1> QED
  BY <1>2, DeparturesInvariant, DeparturesInitBacking, PTL DEF DeparturesSpec

\* What procurement bought is handed over to whom it was bought for: a
\* fulfilled procurement request names its assignment, or it went with the
\* employee. Neither an assign cut off half way, nor a return that saves the
\* link it had loaded, nor a cancellation, takes it away.
THEOREM ProcurementOutlivesDepartures ==
  ASSUME OneAtATime
  PROVE  DeparturesSpec => []ProcurementBackedOrLeft
<1>1. BackingInv => ProcurementBackedOrLeft
  BY DEF BackingInv, NeedsBacking, BackedBy, ProcurementBackedOrLeft
<1> QED
  BY <1>1, BackingInvariant, PTL

\* Though steps go with their approvers, a decided request has nobody's step
\* left to decide, so no late approval or rejection reopens it.
THEOREM SettledStaysDecided ==
  ASSUME OneAtATime
  PROVE  DeparturesSpec => []SettledHasNoPendingStep
<1>1. BackingInv => SettledHasNoPendingStep
  BY DEF BackingInv
<1> QED
  BY <1>1, BackingInvariant, PTL

\* A request is routed to each stage once, even when the step that took it
\* there went with its approver.
THEOREM RoutedOnceDespiteDepartures ==
  ASSUME OneAtATime
  PROVE  DeparturesSpec => []OneStepPerRole
<1>1. DeparturesInv /\ BackingInv => OneStepPerRole
  BY NoneAssumption DEF DeparturesInv, StepsBelong, BackingInv, RoutedOnce, OneStepPerRole
<1> QED
  BY <1>1, DeparturesInvariant, BackingInvariant, PTL

\* As long as nobody has left, what procurement bought is held by an assignment
\* that is still there, though any number of inventory handlers overlap with
\* each other and with the workflow and are cut off anywhere.
THEOREM BoughtIsBackedDespiteOverlap ==
  ASSUME OneAtATime
  PROVE  DeparturesSpec => [](gone = {} => ProcurementIsBacked)
<1>1. BackingInv => (gone = {} => ProcurementIsBacked)
  BY DEF BackingInv, NeedsBacking, BackedBy, ProcurementIsBacked, AssignmentsOf
<1> QED
  BY <1>1, BackingInvariant, PTL

-----------------------------------------------------------------------------
(* Equipment that is out and with nobody, whatever handlers are in flight. *)

\* A return saves the asset of the assignment it brings back, and one that
\* completes it is to make the asset available.
BringsBack(l) ==
  /\ l.op \in Returns => assignment[l.assignment].asset = l.asset
  /\ l.op = "complete_return" => l.entity.status = "available"
  /\ l.op = "complete_return" /\ l.pc = "loaded" => "status" \in l.columns

ReturnsFit == \A j \in Jobs : BringsBack(job[j])

LEMMA ReturnKeeps ==
  ASSUME Stays, NEW l, Fits(l), BringsBack(l)
  PROVE  BringsBack(l)'
  BY NoneAssumption DEF Stays, Fits, BringsBack

LEMMA StepStays ==
  ASSUME DeparturesInv, [DeparturesNext]_departureVars
  PROVE  Stays
<1>1. ASSUME UNCHANGED <<request, step, asset, assignment>>
      PROVE  Stays
  BY <1>1 DEF Stays
<1>2. CASE WorkflowWhileLeaving
  <2>1. PICK c \in Calls :
          \/ Arrive(c)
          \/ ~Thwarted(c) /\ Proceed(c)
          \/ Return(c) /\ UNCHANGED tables
    BY <1>2 DEF WorkflowWhileLeaving, Interrupt
  <2>2. RequestsTypeOK /\ CallHolds(c)
    BY DEF DeparturesInv, DeparturesTypeOK
  <2>3. CASE Arrive(c)
    <3>1. call[c].pc = "idle"
      BY <2>3, ArrivesIdle
    <3> QED
      BY <2>2, <2>3, <3>1, RowsFound, WorkflowStays DEF Thwarted
  <2>4. CASE ~Thwarted(c) /\ Proceed(c) /\ call[c].pc # "committed"
    BY <2>2, <2>4, RowsFound, WorkflowStays
  <2>5. CASE Proceed(c) /\ call[c].pc = "committed"
    BY <1>1, <2>5, CommittedOnlyNotifies DEF Notify
  <2> QED
    BY <1>1, <2>1, <2>3, <2>4, <2>5 DEF tables
<1>3. CASE InventoryWhileLeaving
  <2>1. PICK j \in Jobs :
          \/ StartJob(j)
          \/ ~ThwartedJob(j) /\ ContinueJob(j)
          \/ Finish(j) /\ UNCHANGED tables
    BY <1>3 DEF InventoryWhileLeaving, CutOff
  <2>2. JobsFit
    BY DEF DeparturesInv, DeparturesTypeOK, JobsFit, InventoryFits
  <2>3. CASE StartJob(j)
    <3>1. ~WriteAssignment(j) /\ FulfilsPresent(j)
      BY <2>3, StartWrites DEF WriteAssignment, FulfilsPresent, FulfilRequest
    <3> QED
      BY <2>2, <2>3, <3>1, InventoryEffect, InventoryStays DEF Effect
  <2>4. CASE ~ThwartedJob(j) /\ ContinueJob(j)
    <3>1. FulfilsPresent(j) /\ InventoryKeeps(j)
      BY <2>2, <2>4, JobFinds, InventoryEffect DEF Effect
    <3> QED
      BY <3>1, InventoryStays
  <2> QED
    BY <1>1, <2>1, <2>3, <2>4 DEF tables
<1>4. CASE UNCHANGED departureVars
  BY <1>1, <1>4 DEF departureVars, systemVars, tables
<1> QED
  BY <1>2, <1>3, <1>4, RemovalStays DEF DeparturesNext

LEMMA StepKeepsReturns ==
  ASSUME DeparturesInv, ReturnsFit, [DeparturesNext]_departureVars
  PROVE  ReturnsFit'
<1>0. InventoryTypeOK /\ HistoryKeepsAsset
  BY DEF DeparturesInv, DeparturesTypeOK
<1>1. CASE UNCHANGED departureVars
  BY <1>1 DEF departureVars, systemVars, tables, ReturnsFit, BringsBack
<1>2. ASSUME Stays, UNCHANGED job
      PROVE  ReturnsFit'
  <2>1. ASSUME NEW j \in Jobs
        PROVE  BringsBack(job[j])'
    <3>1. PICK l : l = job[j]
      OBVIOUS
    <3>2. BringsBack(l)'
      BY <1>2, <3>1, ReturnKeeps DEF DeparturesInv, ReturnsFit
    <3>3. job'[j] = l
      BY <1>2, <3>1
    <3> QED
      BY <3>2, <3>3 DEF BringsBack
  <2> QED
    BY <2>1 DEF ReturnsFit
<1>3. ASSUME NEW j \in Jobs, NEW l, Stays, job' = [job EXCEPT ![j] = l], BringsBack(l)'
      PROVE  ReturnsFit'
  <2>1. ASSUME NEW i \in Jobs
        PROVE  BringsBack(job[i])'
    <3>1. PICK k : k = job'[i]
      OBVIOUS
    <3>2. k = l \/ k = job[i]
      BY <1>0, <1>3, <3>1, OneJobMoves
    <3>3. ASSUME k = job[i]
          PROVE  BringsBack(k)'
      BY <1>3, <3>3, ReturnKeeps DEF DeparturesInv, ReturnsFit
    <3>4. BringsBack(k)'
      BY <1>3, <3>2, <3>3 DEF BringsBack
    <3> QED
      BY <3>1, <3>4 DEF BringsBack
  <2> QED
    BY <2>1 DEF ReturnsFit
<1>4. Stays
  BY StepStays
<1>5. CASE WorkflowWhileLeaving
  BY <1>2, <1>4, <1>5 DEF WorkflowWhileLeaving
<1>6. CASE InventoryWhileLeaving
  <2>1. PICK j \in Jobs : StartJob(j) \/ ContinueJob(j) \/ Finish(j)
    BY <1>6 DEF InventoryWhileLeaving, CutOff
  <2>2. CASE Finish(j)
    BY <1>3, <1>4, <2>2 DEF Finish, NoJob, BringsBack, Returns
  <2>3. ASSUME NEW l, job' = [job EXCEPT ![j] = l], Going(l, j)
        PROVE  ReturnsFit'
    <3>1. PICK k : k = job[j]
      OBVIOUS
    <3>2. BringsBack(k)' /\ SameWork(l, k)
      BY <1>4, <2>3, <3>1, ReturnKeeps DEF DeparturesInv, ReturnsFit, Going, Carries
    <3>3. l.pc # "loaded"
      BY <2>3 DEF Going
    <3>4. BringsBack(l)'
      BY <3>2, <3>3 DEF BringsBack, SameWork
    <3> QED
      BY <1>3, <1>4, <2>3, <3>4
  <2>4. ASSUME NEW l, job' = [job EXCEPT ![j] = l], Starting(l), UNCHANGED tables
        PROVE  ReturnsFit'
    <3>1. BringsBack(l)
      BY <2>4 DEF Starting, BringsBack, Returns
    <3>2. BringsBack(l)'
      BY <2>4, <3>1 DEF BringsBack, tables
    <3> QED
      BY <1>3, <1>4, <2>4, <3>2
  <2> QED
    BY <1>0, <1>2, <1>4, <2>1, <2>2, <2>3, <2>4, StartLocals, ContinueLocals
<1>7. ASSUME NEW u \in Leavers, RemoveUser(u)
      PROVE  ReturnsFit'
  BY <1>2, <1>4, <1>7 DEF RemoveUser
<1> QED
  BY <1>1, <1>5, <1>6, <1>7 DEF DeparturesNext

LEMMA ReturnsInvariant == DeparturesSpec => []ReturnsFit
<1>1. DeparturesInit => ReturnsFit
  BY DEF DeparturesInit, SystemInit, InventoryInit, NoJob, ReturnsFit, BringsBack, Returns
<1>2. DeparturesInv /\ ReturnsFit /\ [DeparturesNext]_departureVars => ReturnsFit'
  BY StepKeepsReturns
<1> QED
  BY <1>1, <1>2, DeparturesInvariant, PTL DEF DeparturesSpec

-----------------------------------------------------------------------------
(* What accounts for equipment that is out, step by step.                  *)

\* What the open assignments of the assets are, nothing having been written.
LEMMA SameOpen ==
  ASSUME UNCHANGED assignment, NEW a
  PROVE  OpenOn(a)' = OpenOn(a)
  BY DEF OpenOn, HistoryOf

\* What accounts for asset a does so still after a step of handler j.
LEMMA AccountCarries ==
  ASSUME InventoryTypeOK, NEW j \in Jobs, NEW l, job' = [job EXCEPT ![j] = l],
         NEW a, Accounted(a), HandsOut(job[j], a) => HandsOut(l, a),
         \A h \in OpenOn(a) : Spares(job[j], h) => h \in OpenOn(a)' /\ Spares(l, h)
  PROVE  Accounted(a)'
<1>1. job'[j] = l /\ \A i \in Jobs \ {j} : job'[i] = job[i]
  BY OneJobMoves
<1>2. ASSUME NEW h \in OpenOn(a), \A i \in Jobs : Spares(job[i], h)
      PROVE  Accounted(a)'
  <2>1. h \in OpenOn(a)' /\ Spares(l, h)
    BY <1>2
  <2>2. ASSUME NEW i \in Jobs
        PROVE  Spares(job'[i], h)
    BY <1>1, <1>2, <2>1
  <2> QED
    BY <2>1, <2>2 DEF Accounted, Spares
<1>3. ASSUME NEW i \in Jobs, HandsOut(job[i], a)
      PROVE  Accounted(a)'
  <2>1. HandsOut(job'[i], a)
    BY <1>1, <1>3
  <2> QED
    BY <2>1 DEF Accounted, HandsOut
<1> QED
  BY <1>2, <1>3 DEF Accounted

\* A handler ends that was not to insert an assignment of a.
LEMMA EndAccounts ==
  ASSUME InventoryTypeOK, NEW j \in Jobs, Finish(j), UNCHANGED assignment,
         NEW a, Accounted(a), ~HandsOut(job[j], a)
  PROVE  Accounted(a)'
<1>1. \A h : Spares(NoJob, h)
  BY DEF Spares, NoJob
<1>2. OpenOn(a)' = OpenOn(a)
  BY SameOpen
<1>3. PICK l : l = NoJob
  OBVIOUS
<1> QED
  BY <1>1, <1>2, <1>3, AccountCarries DEF Finish

\* A handler goes on that has saved its asset, if it had one to save.
LEMMA LaterAccounts ==
  ASSUME InventoryTypeOK, NEW j \in Jobs, NEW l, job' = [job EXCEPT ![j] = l],
         SameWork(l, job[j]), UNCHANGED assignment,
         \/ job[j].pc \notin {"loaded", "compared"}
         \/ job[j].pc = "compared" /\ "status" \notin job[j].columns,
         NEW a, Accounted(a), HandsOut(job[j], a) => HandsOut(l, a)
  PROVE  Accounted(a)'
<1>1. OpenOn(a)' = OpenOn(a)
  BY SameOpen
<1>2. \A h : Spares(job[j], h) => Spares(l, h)
  BY DEF Spares, SameWork
<1> QED
  BY <1>1, <1>2, AccountCarries

LEMMA CompareAssetAccounts ==
  ASSUME DeparturesInv, ReturnsFit, NEW j \in Jobs, CompareAsset(j),
         NEW a \in Assets, asset[a].status \in Out, Accounted(a)
  PROVE  Accounted(a)'
<1>0. /\ InventoryTypeOK /\ BringsBack(job[j]) /\ job[j].pc = "loaded"
      /\ UNCHANGED <<asset, assignment>>
  BY DEF DeparturesInv, DeparturesTypeOK, ReturnsFit, CompareAsset, tables
<1>1. ~HandsOut(job[j], a)
  BY <1>0 DEF HandsOut
<1>2. CASE Finish(j)
  BY <1>0, <1>1, <1>2, EndAccounts
<1>3. ASSUME NEW l, job' = [job EXCEPT ![j] = l], Going(l, j)
      PROVE  Accounted(a)'
  <2>1. /\ SameWork(l, job[j])
        /\ \/ l.pc = "missing" /\ asset[job[j].asset].status = "absent"
           \/ /\ l.pc = "compared"
              /\ l.columns = {k \in job[j].columns :
                                job[j].entity[k] # asset[job[j].asset][k]}
    BY <1>0, <1>3 DEF Going, Carries, WriteAsset, InsertMissing, FindRequest,
       InsertAssignment, FulfilRequest, CountHistory, CompareAssignment,
       WriteAssignment
  <2>2. ASSUME NEW h \in OpenOn(a), l.op = "complete_return", l.assignment = h
        PROVE  l.pc = "compared" /\ "status" \in l.columns
    <3>1. /\ job[j].asset = a /\ job[j].entity.status = "available"
          /\ "status" \in job[j].columns
      BY <1>0, <2>1, <2>2 DEF BringsBack, SameWork, Returns, OpenOn, HistoryOf
    <3>2. job[j].entity["status"] # asset[job[j].asset]["status"]
      BY <3>1 DEF Out
    <3> QED
      BY <2>1, <3>1, <3>2 DEF Out
  <2>3. OpenOn(a)' = OpenOn(a)
    BY <1>0, SameOpen
  <2>4. \A h \in OpenOn(a) : Spares(l, h)
    BY <2>2 DEF Spares
  <2> QED
    BY <1>0, <1>1, <1>3, <2>3, <2>4, AccountCarries
<1> QED
  BY <1>0, <1>2, <1>3, ContinueLocals DEF ContinueJob

\* The UPDATE of an asset that is there.
LEMMA AssetAfter ==
  ASSUME TablesTypeOK, NEW j \in Jobs, job[j] \in Job, WriteAsset(j),
         job[j].asset \in Assets, asset[job[j].asset].status # "absent"
  PROVE  LET b == job[j].asset IN
         /\ \A a \in Assets : a # b => asset'[a] = asset[a]
         /\ asset'[b].status = IF "status" \in job[j].columns
                               THEN job[j].entity.status ELSE asset[b].status
         /\ UNCHANGED <<request, assignment>>
<1> DEFINE b == job[j].asset
<1>1. /\ asset' = [asset EXCEPT ![b] = [k \in DOMAIN asset[b] |->
             IF k \in job[j].columns THEN job[j].entity[k] ELSE asset[b][k]]]
      /\ UNCHANGED <<request, assignment>>
  BY DEF WriteAsset
<1>2. b \in DOMAIN asset /\ "status" \in DOMAIN asset[b]
  BY DEF TablesTypeOK, EquipmentAsset
<1>3. asset'[b] = [k \in DOMAIN asset[b] |->
             IF k \in job[j].columns THEN job[j].entity[k] ELSE asset[b][k]]
  BY <1>1, <1>2
<1>4. \A a \in Assets : a # b => asset'[a] = asset[a]
  BY <1>1 DEF TablesTypeOK
<1> QED
  BY <1>1, <1>2, <1>3, <1>4

\* Saving the asset. Only a save() that says the asset is out, and a return asked
\* for too late, bring it out with nobody to account for it.
LEMMA SaveAccounts ==
  ASSUME DeparturesInv, ReturnsFit, NEW j \in Jobs, WriteAsset(j) \/ InsertMissing(j),
         NEW a \in Assets, asset'[a].status \in Out, ~Stranded(a)
  PROVE  Accounted(a)' \/ SavedAsOut(j, a) \/ AskedBackLate(j, a)
<1> DEFINE b == job[j].asset
<1>0. /\ InventoryTypeOK /\ TablesTypeOK /\ job[j] \in Job /\ Fits(job[j])
      /\ BringsBack(job[j]) /\ UNCHANGED assignment
  BY DEF DeparturesInv, DeparturesTypeOK, InventoryTypeOK, ReturnsFit, WriteAsset,
     InsertMissing
<1>1. /\ job[j].pc \in {"compared", "missing"} /\ b \in Assets
      /\ job[j].op \in {"save", "assign"} \cup Returns
  BY <1>0 DEF WriteAsset, InsertMissing, Fits, Job, Returns
<1>2. \/ UNCHANGED asset /\ (WriteAsset(j) => asset[b].status = "absent")
      \/ /\ asset'[b].status = job[j].entity.status
         /\ \A d \in Assets : d # b => asset'[d] = asset[d]
         /\ \/ job[j].pc = "compared" /\ "status" \in job[j].columns
            \/ job[j].pc = "missing" /\ asset[b].status = "absent"
      \/ /\ asset'[b].status = asset[b].status
         /\ \A d \in Assets : d # b => asset'[d] = asset[d]
         /\ job[j].pc = "compared" /\ "status" \notin job[j].columns
  <2>1. CASE WriteAsset(j)
    <3>1. CASE asset[b].status = "absent"
      BY <2>1, <3>1 DEF WriteAsset
    <3>2. CASE asset[b].status # "absent"
      BY <1>0, <1>1, <2>1, <3>2, AssetAfter DEF WriteAsset
    <3> QED
      BY <3>1, <3>2
  <2>2. CASE InsertMissing(j)
    <3>1. CASE asset[b].status # "absent"
      BY <2>2, <3>1 DEF InsertMissing, WriteAsset
    <3>2. CASE asset[b].status = "absent"
      <4> DEFINE holder == IF "assignedEmployee" \in job[j].columns
                           THEN job[j].entity.assignedEmployee ELSE None
      <4>1. asset' = [asset EXCEPT ![b] =
                        [job[j].entity EXCEPT !.assignedEmployee = holder]]
        BY <2>2, <3>2 DEF InsertMissing
      <4> HIDE DEF holder
      <4>2. job[j].entity \in EquipmentAsset
        BY <1>0 DEF Job
      <4>3. /\ asset'[b].status = job[j].entity.status
            /\ \A d \in Assets : d # b => asset'[d] = asset[d]
        BY <1>0, <1>1, <4>1, <4>2 DEF TablesTypeOK, EquipmentAsset
      <4> QED
        BY <2>2, <3>2, <4>3 DEF InsertMissing
    <3> QED
      BY <3>1, <3>2
  <2> QED
    BY <2>1, <2>2
<1>3. Finish(j) \/ \E l : /\ job' = [job EXCEPT ![j] = l] /\ SameWork(l, job[j])
                          /\ l.pc = "saved"
  <2>1. Finish(j) \/ \E l : job' = [job EXCEPT ![j] = l] /\ Going(l, j)
    BY <1>0, ContinueLocals DEF ContinueJob
  <2>2. ASSUME NEW l, Going(l, j)
        PROVE  SameWork(l, job[j]) /\ l.pc = "saved"
    BY <1>1, <2>2 DEF Going, Carries, CompareAsset, FindRequest, InsertAssignment,
       FulfilRequest, CountHistory, CompareAssignment, WriteAssignment
  <2> QED
    BY <2>1, <2>2
<1>4. ~HandsOut(job[j], a)
  BY <1>1 DEF HandsOut
<1>5. CASE asset'[a].status = asset[a].status
  <2>1. Accounted(a)
    BY <1>5 DEF Stranded
  <2>2. CASE Finish(j)
    BY <1>0, <1>4, <2>1, <2>2, EndAccounts
  <2>3. ASSUME NEW l, job' = [job EXCEPT ![j] = l], SameWork(l, job[j])
        PROVE  Accounted(a)'
    <3>1. ASSUME NEW h \in OpenOn(a), Spares(job[j], h)
          PROVE  Spares(l, h)
      <4> SUFFICES ASSUME job[j].op = "complete_return", job[j].assignment = h
                   PROVE  FALSE
        BY <2>3 DEF Spares, SameWork
      <4>1. /\ a = b /\ job[j].entity.status = "available"
            /\ job[j].pc = "compared" /\ "status" \in job[j].columns
        BY <1>0, <1>1, <3>1 DEF BringsBack, Returns, OpenOn, HistoryOf, Spares
      <4>2. WriteAsset(j)
        BY <4>1 DEF InsertMissing
      <4>3. asset'[a].status \in {"absent", "available"}
        BY <1>2, <4>1, <4>2
      <4> QED
        BY <4>3 DEF Out
    <3>2. OpenOn(a)' = OpenOn(a)
      BY <1>0, SameOpen
    <3> QED
      BY <1>0, <1>4, <2>1, <2>3, <3>1, <3>2, AccountCarries
  <2> QED
    BY <1>3, <2>2, <2>3
<1>6. CASE asset'[a].status # asset[a].status
  <2>1. /\ a = b /\ job[j].entity.status \in Out
        /\ \/ job[j].pc = "compared" /\ "status" \in job[j].columns
           \/ job[j].pc = "missing"
    BY <1>2, <1>6
  <2>2. job[j].op # "complete_return"
    BY <1>0, <2>1 DEF BringsBack, Out
  <2>3. CASE job[j].op = "save"
    BY <2>1, <2>3 DEF SavedAsOut
  <2>4. CASE job[j].op # "save"
    <3>1. Move(j, "saved")
      BY <1>6, <2>4 DEF WriteAsset, InsertMissing, AssetSaved
    <3>2. PICK l : /\ job' = [job EXCEPT ![j] = l] /\ SameWork(l, job[j])
                   /\ l.pc = "saved"
      BY <1>0, <3>1, MoveCarries DEF Carries
    <3>3. job'[j] = l /\ \A i \in Jobs \ {j} : job'[i] = job[i]
      BY <1>0, <3>2, OneJobMoves
    <3>4. CASE job[j].op = "assign"
      <4>1. HandsOut(job'[j], a)
        BY <2>1, <3>2, <3>3, <3>4 DEF HandsOut, SameWork
      <4> QED
        BY <4>1 DEF Accounted, HandsOut
    <3>5. CASE job[j].op = "request_return" /\ ~AskedBackLate(j, a)
      <4> DEFINE g == job[j].assignment
      <4>1. g \in OpenOn(a) /\ \A i \in Jobs : Spares(job[i], g)
        BY <1>1, <2>1, <3>5 DEF AskedBackLate
      <4>2. Spares(l, g)
        BY <3>2, <3>5 DEF Spares, SameWork
      <4>3. \A i \in Jobs : Spares(job'[i], g)
        BY <3>3, <4>1, <4>2
      <4>4. g \in OpenOn(a)'
        BY <1>0, <4>1, SameOpen
      <4>5. PICK h : h = g
        OBVIOUS
      <4> QED
        BY <4>3, <4>4, <4>5 DEF Accounted, Spares
    <3> QED
      BY <1>1, <2>2, <2>4, <3>4, <3>5 DEF Returns
  <2> QED
    BY <2>3, <2>4
<1> QED
  BY <1>5, <1>6

\* A handler that writes neither an asset nor an assignment.
LEMMA QuietAccounts ==
  ASSUME DeparturesInv, NEW j \in Jobs,
         \/ FindRequest(j) \/ CountHistory(j) \/ CompareAssignment(j)
         \/ FulfilRequest(j) \/ NotifyHolder(j),
         NEW a \in Assets, asset'[a].status \in Out, ~Stranded(a)
  PROVE  Accounted(a)'
<1>0. /\ InventoryTypeOK /\ Fits(job[j]) /\ UNCHANGED <<asset, assignment>>
  <2>1. ASSUME FindRequest(j) PROVE UNCHANGED tables
    BY <2>1, ZenonT(60) DEF FindRequest
  <2> QED
    BY <2>1 DEF DeparturesInv, DeparturesTypeOK, CountHistory, CompareAssignment,
       FulfilRequest, NotifyHolder, tables
<1>1. Accounted(a)
  BY <1>0 DEF Stranded
<1>2. job[j].pc \in {"saved", "counting", "inserted", "done"}
  BY DEF FindRequest, CountHistory, CompareAssignment, FulfilRequest, NotifyHolder
<1>3. HandsOut(job[j], a) => FindRequest(j)
  BY DEF HandsOut, CountHistory, CompareAssignment, FulfilRequest, NotifyHolder, Returning
<1>4. FindRequest(j) => ~Finish(j)
  <2> SUFFICES ASSUME FindRequest(j), Finish(j) PROVE FALSE
    OBVIOUS
  <2> DEFINE found == {r \in {job[j].request} \cap Requests :
                         request[r].status # "absent"}
             f == \E r \in found : request[r].status = "procurement_approved"
             q == IF found = {} THEN None ELSE job[j].request
  <2>1. PICK l : l = [job[j] EXCEPT !.pc = "found", !.request = q, !.fulfils = f]
    OBVIOUS
  <2>2. job' = [job EXCEPT ![j] = l]
    BY <2>1 DEF FindRequest
  <2> HIDE DEF f, q
  <2>3. l.pc = "found"
    BY <1>0, <2>1 DEF InventoryTypeOK, Job
  <2>4. job'[j] = l
    BY <1>0, <2>2, OneJobMoves
  <2>5. job'[j] = NoJob
    BY <1>0, OneJobMoves DEF Finish
  <2> QED
    BY <2>3, <2>4, <2>5 DEF NoJob
<1>5. CASE Finish(j)
  BY <1>0, <1>1, <1>3, <1>4, <1>5, EndAccounts
<1>6. ASSUME NEW l, job' = [job EXCEPT ![j] = l], Going(l, j)
      PROVE  Accounted(a)'
  <2>1. SameWork(l, job[j])
    BY <1>6 DEF Going, Carries
  <2>2. HandsOut(job[j], a) => HandsOut(l, a)
    <3>1. FindRequest(j) => l.pc = "found"
      BY <1>6 DEF Going, FindRequest, CompareAsset, WriteAsset, InsertMissing,
         InsertAssignment, FulfilRequest, CountHistory, CompareAssignment,
         WriteAssignment, Returning
    <3> QED
      BY <1>3, <2>1, <3>1 DEF HandsOut, SameWork
  <2> QED
    BY <1>0, <1>1, <1>2, <1>6, <2>1, <2>2, LaterAccounts
<1> QED
  BY <1>0, <1>5, <1>6, ContinueLocals DEF ContinueJob, NotifyHolder

\* assign inserts the assignment of what it brought out.
LEMMA InsertAccounts ==
  ASSUME DeparturesInv, NEW j \in Jobs, NEW g \in Assignments, InsertAssignment(j, g),
         NEW a \in Assets, asset'[a].status \in Out, ~Stranded(a)
  PROVE  Accounted(a)'
<1> DEFINE b == job[j].asset
<1>0. /\ InventoryTypeOK /\ TablesTypeOK /\ \A i \in Jobs : Fits(job[i])
      /\ job[j].pc = "found" /\ UNCHANGED asset
  BY DEF DeparturesInv, DeparturesTypeOK, InventoryTypeOK, InsertAssignment
<1>1. Accounted(a) /\ asset[a].status \in Out
  BY <1>0 DEF Stranded
<1>2. /\ job[j].op = "assign" /\ b \in Assets
      /\ Finish(j) \/ \E l : /\ job' = [job EXCEPT ![j] = l] /\ SameWork(l, job[j])
                             /\ l.pc = "inserted"
  <2>1. \A l : Going(l, j) => SameWork(l, job[j]) /\ l.pc = "inserted"
    BY <1>0 DEF Going, Carries, CompareAsset, WriteAsset, InsertMissing, FindRequest,
       FulfilRequest, CountHistory, CompareAssignment, WriteAssignment
  <2> QED
    BY <1>0, <2>1, ContinueLocals DEF ContinueJob, Fits
<1>3. CASE asset[b].status = "absent"
  <2>1. Finish(j) /\ UNCHANGED assignment /\ a # b
    BY <1>1, <1>3 DEF InsertAssignment, Out
  <2> QED
    BY <1>0, <1>1, <2>1, EndAccounts DEF HandsOut
<1>4. CASE asset[b].status # "absent"
  <2>1. /\ assignment[g] = NoAssignment
        /\ assignment' = [assignment EXCEPT ![g] =
             [status |-> "active", asset |-> b, employee |-> job[j].employee,
              request |-> job[j].request]]
    BY <1>0, <1>4 DEF InsertAssignment, FreeAssignments
  <2>2. /\ assignment[g].status = "absent" /\ assignment[g].asset = None
        /\ assignment'[g].status = "active" /\ assignment'[g].asset = b
        /\ \A h \in Assignments : h # g => assignment'[h] = assignment[h]
    BY <1>0, <2>1 DEF TablesTypeOK, NoAssignment
  <2>3. CASE a = b
    <3>1. g \in OpenOn(a)'
      BY <2>2, <2>3 DEF OpenOn, HistoryOf
    <3>2. ASSUME NEW i \in Jobs
          PROVE  Spares(job'[i], g)
      <4>1. CASE i = j
        <5>1. job'[j] = NoJob \/ \E l : job'[j] = l /\ SameWork(l, job[j])
          BY <1>0, <1>2, OneJobMoves DEF Finish
        <5>2. job'[j].op # "complete_return"
          BY <1>2, <5>1 DEF NoJob, SameWork
        <5> QED
          BY <4>1, <5>2 DEF Spares
      <4>2. CASE i # j
        <5>1. job'[i] = job[i]
          BY <1>0, <1>2, <4>2, OneJobMoves DEF Finish
        <5>2. job[i].op = "complete_return" => job[i].assignment # g
          BY <1>0, <2>2, NoneAssumption DEF Fits, Returns
        <5> QED
          BY <5>1, <5>2 DEF Spares
      <4> QED
        BY <4>1, <4>2
    <3> QED
      BY <3>1, <3>2 DEF Accounted, Spares
  <2>4. CASE a # b
    <3>1. ~HandsOut(job[j], a)
      BY <2>4 DEF HandsOut
    <3>2. \A h \in OpenOn(a) : h \in OpenOn(a)'
      BY <2>2 DEF OpenOn, HistoryOf
    <3>3. \A l : l = NoJob \/ SameWork(l, job[j]) => \A h : Spares(l, h)
      BY <1>2 DEF Spares, NoJob, SameWork
    <3>4. PICK l : job' = [job EXCEPT ![j] = l] /\ (l = NoJob \/ SameWork(l, job[j]))
      BY <1>2 DEF Finish
    <3> QED
      BY <1>0, <1>1, <3>1, <3>2, <3>3, <3>4, AccountCarries
  <2> QED
    BY <2>3, <2>4
<1> QED
  BY <1>3, <1>4

\* A return saves its assignment, which no longer accounts for anything if it
\* is to end there.
LEMMA WriteAssignmentAccounts ==
  ASSUME DeparturesInv, NEW j \in Jobs, WriteAssignment(j), ~ThwartedJob(j),
         NEW a \in Assets, asset'[a].status \in Out, ~Stranded(a)
  PROVE  Accounted(a)'
<1> DEFINE g == job[j].assignment
           status == IF "status" \in job[j].dirty THEN ReturnStatus(j)
                                                  ELSE assignment[g].status
           link == IF "request" \in job[j].dirty THEN job[j].links
                                                 ELSE assignment[g].request
<1>0. /\ InventoryTypeOK /\ TablesTypeOK /\ Fits(job[j])
      /\ job[j].pc = "matched" /\ UNCHANGED asset
  BY DEF DeparturesInv, DeparturesTypeOK, InventoryTypeOK, WriteAssignment
<1>1. Accounted(a) /\ ~HandsOut(job[j], a)
  BY <1>0 DEF Stranded, HandsOut
<1>2. /\ job[j].op \in Returns /\ g \in Assignments /\ Move(j, "done")
      /\ assignment' = [assignment EXCEPT ![g] =
           [assignment[g] EXCEPT !.status = status, !.request = link]]
  BY <1>0 DEF WriteAssignment, Fits
<1>3. /\ assignment'[g].status = status /\ assignment'[g].asset = assignment[g].asset
      /\ \A h \in Assignments : h # g => assignment'[h] = assignment[h]
  <2>1. assignment[g] \in EquipmentAssignment /\ g \in DOMAIN assignment
    BY <1>0, <1>2 DEF TablesTypeOK
  <2> HIDE DEF status, link
  <2> QED
    BY <1>0, <1>2, <2>1 DEF TablesTypeOK, EquipmentAssignment
<1>4. PICK l : job' = [job EXCEPT ![j] = l] /\ Carries(l, j)
  BY <1>0, <1>2, MoveCarries
<1>5. ASSUME NEW h \in OpenOn(a), Spares(job[j], h)
      PROVE  h \in OpenOn(a)' /\ Spares(l, h)
  <2>1. job[j].op = "complete_return" => h # g
    BY <1>0, <1>5 DEF Spares
  <2>2. Spares(l, h)
    BY <1>4, <2>1 DEF Spares, Carries, SameWork
  <2>3. job[j].op = "request_return" => ReturnStatus(j) = "return_requested"
    BY DEF ReturnStatus
  <2>4. h \in OpenOn(a)'
    BY <1>2, <1>3, <1>5, <2>1, <2>3 DEF OpenOn, HistoryOf, Returns
  <2> QED
    BY <2>2, <2>4
<1> QED
  BY <1>0, <1>1, <1>4, <1>5, AccountCarries

LEMMA DeleteAccounts ==
  ASSUME DeparturesInv, NEW j \in Jobs, Delete(j),
         NEW a \in Assets, asset'[a].status \in Out, ~Stranded(a)
  PROVE  Accounted(a)'
<1>0. InventoryTypeOK /\ asset \in [Assets -> EquipmentAsset]
  BY DEF DeparturesInv, DeparturesTypeOK, InventoryTypeOK, TablesTypeOK
<1>1. /\ job[j].pc = "deletable" /\ Finish(j) /\ UNCHANGED assignment
      /\ \/ UNCHANGED asset
         \/ asset' = [asset EXCEPT ![job[j].asset].status = "absent"]
  BY DEF Delete
<1>2. asset[a].status \in Out
  BY <1>0, <1>1 DEF EquipmentAsset, Out
<1> QED
  BY <1>0, <1>1, <1>2, EndAccounts DEF Stranded, HandsOut

LEMMA ContinueAccounts ==
  ASSUME DeparturesInv, ReturnsFit, NEW j \in Jobs, ContinueJob(j), ~ThwartedJob(j),
         NEW a \in Assets, asset'[a].status \in Out, ~Stranded(a)
  PROVE  Accounted(a)' \/ SavedAsOut(j, a) \/ AskedBackLate(j, a)
<1>1. CASE CompareAsset(j)
  BY <1>1, CompareAssetAccounts DEF Stranded, CompareAsset, tables
<1> QED
  BY <1>1, SaveAccounts, QuietAccounts, InsertAccounts, WriteAssignmentAccounts,
     DeleteAccounts DEF ContinueJob

LEMMA StartAccounts ==
  ASSUME DeparturesInv, NEW j \in Jobs, StartJob(j),
         NEW a \in Assets, asset'[a].status \in Out, ~Stranded(a)
  PROVE  Accounted(a)' \/ SavedAsOut(j, a)
<1>0. InventoryTypeOK /\ TablesTypeOK /\ HistoryKeepsAsset /\ job[j].pc = "idle"
  BY StartWrites DEF DeparturesInv, DeparturesTypeOK, RequestsTypeOK
<1>1. ASSUME UNCHANGED job, NEW b \in Assets, NEW model,
             NEW status \in Manual \cup {"available"}, CreateAsset(j, b, model, status)
      PROVE  Accounted(a)' \/ SavedAsOut(j, a)
  <2>1. /\ asset[b] = NoAsset /\ UNCHANGED assignment
        /\ asset' = [asset EXCEPT ![b] =
             [status |-> status, model |-> model, assignedEmployee |-> None,
              retiredAt |-> None]]
    BY <1>1 DEF CreateAsset, FreeAssets
  <2>2. asset'[b].status = status /\ (b # a => asset'[a] = asset[a])
    BY <1>0, <2>1 DEF TablesTypeOK
  <2>3. CASE a = b
    BY <2>1, <2>2, <2>3 DEF SavedAsOut, Out
  <2>4. CASE a # b
    <3>1. Accounted(a)
      BY <2>2, <2>4 DEF Stranded
    <3> QED
      BY <1>1, <2>1, <3>1 DEF Accounted, OpenOn, HistoryOf, Spares, HandsOut
  <2> QED
    BY <2>3, <2>4
<1>2. ASSUME UNCHANGED tables, NEW l, job' = [job EXCEPT ![j] = l], Starting(l)
      PROVE  Accounted(a)'
  <2>1. UNCHANGED <<asset, assignment>>
    BY <1>2 DEF tables
  <2>2. Accounted(a) /\ ~HandsOut(job[j], a)
    BY <1>0, <2>1 DEF Stranded, HandsOut
  <2>3. \A h : Spares(l, h)
    BY <1>2 DEF Starting, Spares
  <2>4. OpenOn(a)' = OpenOn(a)
    BY <2>1, SameOpen
  <2> QED
    BY <1>0, <1>2, <2>2, <2>3, <2>4, AccountCarries
<1> QED
  BY <1>0, <1>1, <1>2, StartLocals

LEMMA InventoryAccounts ==
  ASSUME DeparturesInv, ReturnsFit, InventoryWhileLeaving,
         NEW a \in Assets, asset'[a].status \in Out, ~Stranded(a)
  PROVE  \/ Accounted(a)'
         \/ \E j \in Jobs : AssignFails(j, a) \/ SavedAsOut(j, a) \/ AskedBackLate(j, a)
<1>0. InventoryTypeOK
  BY DEF DeparturesInv, DeparturesTypeOK
<1>1. PICK j \in Jobs :
        \/ StartJob(j)
        \/ ~ThwartedJob(j) /\ ContinueJob(j)
        \/ ThwartedJob(j) /\ Finish(j) /\ UNCHANGED tables
        \/ CutOff(j)
  BY DEF InventoryWhileLeaving
<1>2. CASE \/ ThwartedJob(j) /\ Finish(j) /\ UNCHANGED tables
           \/ CutOff(j)
  <2>1. Finish(j) /\ UNCHANGED <<asset, assignment>>
    BY <1>2 DEF CutOff, tables
  <2>2. Accounted(a)
    BY <2>1 DEF Stranded
  <2>3. CASE ~HandsOut(job[j], a)
    BY <1>0, <2>1, <2>2, <2>3, EndAccounts
  <2> QED
    BY <1>2, <2>3 DEF AssignFails
<1> QED
  BY <1>1, <1>2, StartAccounts, ContinueAccounts

\* The workflow brings an asset out only with a new assignment of it.
LEMMA WorkflowHandsOut ==
  ASSUME DeparturesInv, RowsKeep, NEW c \in Calls, Refers(c),
         Arrive(c) \/ Proceed(c) \/ Interrupt(c)
  PROVE  /\ \A a \in Assets :
              \/ asset'[a] = asset[a]
              \/ /\ asset'[a].status = "in_use"
                 /\ \E g \in Assignments :
                      /\ assignment[g] = NoAssignment
                      /\ assignment'[g].asset = a /\ assignment'[g].status = "active"
         /\ \A g \in Assignments : assignment[g].status # "absent" =>
              assignment'[g].status = assignment[g].status
<1>0. RequestsTypeOK /\ ColumnsAgree /\ LoanReady(c)
  BY DEF DeparturesInv, DeparturesTypeOK, CallHolds
<1>1. ASSUME NEW g \in Assignments, CommitLoanApproval(c, g)
      PROVE  /\ \A a \in Assets :
                  \/ asset'[a] = asset[a]
                  \/ /\ asset'[a].status = "in_use"
                     /\ assignment[g] = NoAssignment
                     /\ assignment'[g].asset = a /\ assignment'[g].status = "active"
             /\ \A h \in Assignments : assignment[h].status # "absent" =>
                  assignment'[h].status = assignment[h].status
  <2>1. assignment[g] = NoAssignment
    BY <1>1 DEF CommitLoanApproval, FreeAssignments
  <2> QED
    BY <1>0, <1>1, <2>1, LoanStock
<1>2. CASE ~Writes(c)
  BY <1>2, OnlyWritesWrite
<1>3. CASE CommitCancel(c)
  <2>1. \A g \in Assignments : assignment[g] \in EquipmentAssignment
    BY <1>0 DEF RequestsTypeOK, TablesTypeOK
  <2>2. \A g \in Assignments :
          \/ assignment'[g] = assignment[g]
          \/ \E q : assignment'[g] = [assignment[g] EXCEPT !.request = q]
    BY <1>3 DEF CommitCancel, Linked
  <2>3. UNCHANGED asset
    BY <1>3 DEF CommitCancel
  <2> QED
    BY <2>1, <2>2, <2>3 DEF EquipmentAssignment
<1>4. ASSUME NEW u, NEW n, NEW s, NEW type, NEW model, NEW manager,
             Create(c, u, n, s, type, model, manager)
      PROVE  UNCHANGED <<asset, assignment>>
  BY <1>4 DEF Create
<1>5. ASSUME NEW n, NEW p, CommitManagerApproval(c, n, p)
      PROVE  UNCHANGED <<asset, assignment>>
  BY <1>5 DEF CommitManagerApproval
<1>6. ASSUME CommitRejection(c) \/ CommitProcurementApproval(c)
      PROVE  UNCHANGED <<asset, assignment>>
  BY <1>6 DEF CommitRejection, CommitProcurementApproval
<1> QED
  BY <1>1, <1>2, <1>3, <1>4, <1>5, <1>6 DEF Writes

LEMMA WorkflowAccounts ==
  ASSUME DeparturesInv, WorkflowWhileLeaving,
         NEW a \in Assets, asset'[a].status \in Out, ~Stranded(a)
  PROVE  Accounted(a)'
<1>1. PICK c \in Calls :
        \/ Arrive(c)
        \/ ~Thwarted(c) /\ Proceed(c)
        \/ Return(c) /\ UNCHANGED tables
  BY DEF WorkflowWhileLeaving, Interrupt
<1>2. UNCHANGED job /\ CallHolds(c) /\ RequestsTypeOK
  BY DEF DeparturesInv, DeparturesTypeOK, WorkflowWhileLeaving
<1>3. ASSUME asset'[a] = asset[a],
             \A g \in Assignments : assignment[g].status # "absent" =>
               /\ assignment'[g].status = assignment[g].status
               /\ assignment'[g].asset = assignment[g].asset
      PROVE  Accounted(a)'
  <2>1. Accounted(a)
    BY <1>3 DEF Stranded
  <2>2. \A h \in OpenOn(a) : h \in OpenOn(a)'
    BY <1>3 DEF OpenOn, HistoryOf
  <2> QED
    BY <1>2, <2>1, <2>2 DEF Accounted, Spares, HandsOut
<1>4. ASSUME NEW g \in Assignments, assignment[g] = NoAssignment,
             assignment'[g].asset = a, assignment'[g].status = "active"
      PROVE  Accounted(a)'
  <2>1. g \in OpenOn(a)'
    BY <1>4 DEF OpenOn, HistoryOf
  <2>2. ASSUME NEW j \in Jobs PROVE Spares(job[j], g)
    <3>1. Fits(job[j])
      BY DEF DeparturesInv
    <3>2. assignment[g].asset \notin Assets
      BY <1>4, NoneAssumption DEF NoAssignment
    <3> QED
      BY <3>1, <3>2 DEF Spares, Fits, Returns
  <2> QED
    BY <1>2, <2>1, <2>2 DEF Accounted, Spares
<1>5. ASSUME Refers(c), Arrive(c) \/ Proceed(c)
      PROVE  Accounted(a)'
  BY <1>2, <1>3, <1>4, <1>5, MoverTables, WorkflowHandsOut DEF RowsKeep
<1>6. CASE Arrive(c)
  <2>1. call[c].pc = "idle"
    BY <1>6, ArrivesIdle
  <2> QED
    BY <1>2, <1>5, <1>6, <2>1, RowsFound DEF Thwarted
<1>7. CASE ~Thwarted(c) /\ Proceed(c) /\ call[c].pc # "committed"
  BY <1>2, <1>5, <1>7, RowsFound
<1>8. CASE Proceed(c) /\ call[c].pc = "committed"
  BY <1>3, <1>8, CommittedOnlyNotifies DEF Notify
<1>9. CASE UNCHANGED tables
  BY <1>3, <1>9 DEF tables
<1> QED
  BY <1>1, <1>6, <1>7, <1>8, <1>9

LEMMA RemovalAccounts ==
  ASSUME DeparturesInv, NEW u \in Leavers, RemoveUser(u),
         NEW a \in Assets, asset'[a].status \in Out, ~Stranded(a)
  PROVE  Accounted(a)' \/ HolderLeaves(a)
<1>0. TablesTypeOK
  BY DEF DeparturesInv, DeparturesTypeOK, RequestsTypeOK
<1>1. UNCHANGED job /\ u \in gone' \ gone
  BY DEF RemoveUser
<1>2. asset'[a].status = asset[a].status
  <2>1. asset'[a] = IF asset[a].assignedEmployee = u
                    THEN [asset[a] EXCEPT !.assignedEmployee = None] ELSE asset[a]
    BY DEF RemoveUser
  <2> QED
    BY <1>0, <2>1 DEF TablesTypeOK, EquipmentAsset
<1>3. ASSUME NEW h \in OpenOn(a), assignment[h].employee # u
      PROVE  h \in OpenOn(a)'
  <2>1. h \in Assignments /\ h \notin AssignmentsWith(u)
    BY <1>3 DEF OpenOn, HistoryOf, AssignmentsWith
  <2>2. assignment[h] \in EquipmentAssignment /\ h \in DOMAIN assignment
    BY <1>0, <2>1 DEF TablesTypeOK
  <2>3. PICK q : assignment'[h] = [assignment[h] EXCEPT !.request = q]
    BY <2>1, <2>2 DEF RemoveUser, Deleted
  <2>4. /\ assignment'[h].status = assignment[h].status
        /\ assignment'[h].asset = assignment[h].asset
    BY <2>2, <2>3 DEF EquipmentAssignment
  <2> QED
    BY <1>3, <2>4 DEF OpenOn, HistoryOf
<1>4. Accounted(a)
  BY <1>2 DEF Stranded
<1>5. CASE \E j \in Jobs : HandsOut(job[j], a)
  BY <1>1, <1>5 DEF Accounted, HandsOut
<1>6. ASSUME NEW h \in OpenOn(a), \A j \in Jobs : Spares(job[j], h)
      PROVE  Accounted(a)' \/ HolderLeaves(a)
  BY <1>1, <1>3, <1>6 DEF Accounted, Spares, HolderLeaves
<1> QED
  BY <1>4, <1>5, <1>6 DEF Accounted

\* Equipment comes to be out with nobody in the four ways that are named, and
\* in no other: with any number of handlers of the workflow and of the inventory
\* overlapping, cut off anywhere, whatever statuses the staff set by hand and
\* whoever is removed in between.
THEOREM StrandingHasItsReasons == DeparturesSpec => StrandedForAReason
<1>1. ASSUME DeparturesInv, ReturnsFit, DeparturesNext, NEW a \in Assets,
             ~Stranded(a), Stranded(a)'
      PROVE  \/ HolderLeaves(a)
             \/ \E j \in Jobs :
                  AssignFails(j, a) \/ SavedAsOut(j, a) \/ AskedBackLate(j, a)
  <2>1. asset'[a].status \in Out /\ ~Accounted(a)'
    BY <1>1 DEF Stranded, Out
  <2> QED
    BY <1>1, <2>1, WorkflowAccounts, InventoryAccounts, RemovalAccounts
       DEF DeparturesNext
<1>2. DeparturesInv /\ ReturnsFit /\ [DeparturesNext]_departureVars
        => [\A a \in Assets :
              ~Stranded(a) /\ Stranded(a)' =>
                \/ HolderLeaves(a)
                \/ \E j \in Jobs :
                     AssignFails(j, a) \/ SavedAsOut(j, a)
                       \/ AskedBackLate(j, a)]_departureVars
  BY <1>1
<1> QED
  BY <1>2, DeparturesInvariant, ReturnsInvariant, PTL
     DEF DeparturesSpec, StrandedForAReason

-----------------------------------------------------------------------------
(* One handler of the workflow at a time: the flow of a request's status.  *)

StageWaitingFor(role) ==
  IF role = "direct_manager" THEN "pending_manager_approval"
                             ELSE "pending_procurement_approval"

\* A pending step belongs to a request that waits for it, or that is cancelled.
StageInv ==
  \A s \in Steps : step[s].status = "pending" =>
    request[step[s].request].status \in {"cancelled", StageWaitingFor(step[s].role)}

\* The request whose step a handler decides is at the stage of that step.
LEMMA DecidedAtStage ==
  ASSUME DeparturesInv, BackingInv, StageInv, NEW c \in Calls, Refers(c), Deciding(c),
         NEW q, q = call[c].request, NEW m, m = call[c].step
  PROVE  /\ q \in Requests /\ m \in Steps /\ step[m].request = q
         /\ step[m].status = "pending"
         /\ request[q].status \in {"cancelled", StageWaitingFor(step[m].role)}
<1>1. /\ q \in Requests /\ m \in Steps /\ step[m].request = q
      /\ step[m].status = "pending"
  BY StillPending
<1> QED
  BY <1>1 DEF StageInv

LEMMA OneStatusSet ==
  ASSUME request \in [Requests -> EquipmentRequest], NEW q \in Requests, NEW status,
         request' = [request EXCEPT ![q].status = status]
  PROVE  /\ request'[q].status = status
         /\ \A r \in Requests \ {q} : request'[r] = request[r]
BY DEF EquipmentRequest

LEMMA WorkflowFlows ==
  ASSUME DeparturesInv, BackingInv, StageInv, NEW c \in Calls, Refers(c),
         RejectionReady(c), Arrive(c) \/ Proceed(c), NEW r \in Requests
  PROVE  FlowStep(r)
<1>q. PICK q : q = call[c].request
  OBVIOUS
<1>m. PICK m : m = call[c].step
  OBVIOUS
<1>0. request \in [Requests -> EquipmentRequest]
  BY DEF DeparturesInv, DeparturesTypeOK, RequestsTypeOK, TablesTypeOK
<1>1. CASE ~Writes(c)
  BY <1>1, OnlyWritesWrite DEF FlowStep
<1>2. ASSUME NEW u \in Employees, NEW n \in Requests, NEW s \in Steps,
             NEW type \in RequestType, NEW model \in Models \cup {None},
             NEW manager \in Managers,
             Create(c, u, n, s, type, model, manager)
      PROVE  FlowStep(r)
  <2>1. /\ request[n] = NoRequest
        /\ request'[n].status = "pending_manager_approval"
        /\ \A k \in Requests \ {n} : request'[k] = request[k]
    BY <1>0, <1>2 DEF Create, FreeRequests
  <2> QED
    BY <2>1 DEF FlowStep
<1>3. CASE CommitRejection(c)
  <2>1. Deciding(c) /\ request' = [request EXCEPT ![q].status = "rejected"]
    BY <1>q, <1>3 DEF CommitRejection, At, Deciding
  <2>2. /\ r = q => request'[r].status = "rejected"
        /\ r # q => request'[r] = request[r]
        /\ request[q].status \in {"cancelled", StageWaitingFor(step[m].role)}
    <3>1. /\ q \in Requests
          /\ request[q].status \in {"cancelled", StageWaitingFor(step[m].role)}
      BY <1>q, <1>m, <2>1, DecidedAtStage
    <3> QED
      BY <1>0, <2>1, <3>1, OneStatusSet
  <2> QED
    BY <2>2 DEF FlowStep, StageWaitingFor
<1>4. ASSUME NEW n \in Steps, NEW p \in ProcurementManagers,
             CommitManagerApproval(c, n, p)
      PROVE  FlowStep(r)
  <2>1. /\ Deciding(c) /\ step[m].role = "direct_manager"
        /\ request' = [request EXCEPT ![q].status = "pending_procurement_approval"]
    BY <1>q, <1>m, <1>4 DEF CommitManagerApproval, At, Deciding
  <2>2. /\ r = q => request'[r].status = "pending_procurement_approval"
        /\ r # q => request'[r] = request[r]
        /\ request[q].status \in {"cancelled", "pending_manager_approval"}
    <3>1. q \in Requests /\ request[q].status \in {"cancelled", "pending_manager_approval"}
      BY <1>q, <1>m, <2>1, DecidedAtStage DEF StageWaitingFor
    <3> QED
      BY <1>0, <2>1, <3>1, OneStatusSet
  <2> QED
    BY <2>2 DEF FlowStep
<1>5. CASE CommitProcurementApproval(c)
  <2>1. /\ Deciding(c) /\ step[m].role = "procurement_manager"
        /\ request[q].type = "procurement"
        /\ request' = [request EXCEPT ![q].status = "procurement_approved"]
    BY <1>q, <1>m, <1>5 DEF CommitProcurementApproval, At, Deciding
  <2>2. /\ r = q => request'[r].status = "procurement_approved"
        /\ r # q => request'[r] = request[r]
        /\ request[q].status \in {"cancelled", "pending_procurement_approval"}
    <3>1. q \in Requests /\ request[q].status \in {"cancelled", "pending_procurement_approval"}
      BY <1>q, <1>m, <2>1, DecidedAtStage DEF StageWaitingFor
    <3> QED
      BY <1>0, <2>1, <3>1, OneStatusSet
  <2> QED
    BY <2>1, <2>2 DEF FlowStep
<1>6. ASSUME NEW g \in Assignments, CommitLoanApproval(c, g)
      PROVE  FlowStep(r)
  <2>1. /\ Deciding(c) /\ At(c, "approve", "ready")
        /\ request' = [request EXCEPT ![q].status = "fulfilled"]
    BY <1>q, <1>6 DEF CommitLoanApproval, At, Deciding
  <2>2. step[m].role = "procurement_manager" /\ request[q].type = "loan"
    BY <1>q, <1>m, <2>1 DEF DeparturesInv, CallHolds, LoanReady
  <2>3. /\ r = q => request'[r].status = "fulfilled"
        /\ r # q => request'[r] = request[r]
        /\ request[q].status \in {"cancelled", "pending_procurement_approval"}
    <3>1. q \in Requests /\ request[q].status \in {"cancelled", "pending_procurement_approval"}
      BY <1>q, <1>m, <2>1, <2>2, DecidedAtStage DEF StageWaitingFor
    <3> QED
      BY <1>0, <2>1, <3>1, OneStatusSet
  <2> QED
    BY <2>2, <2>3 DEF FlowStep
<1>7. CASE CommitCancel(c)
  <2>1. /\ At(c, "cancel", "compared")
        /\ request' = [request EXCEPT ![q].status =
             IF call[c].dirty THEN "cancelled" ELSE @]
    BY <1>q, <1>7 DEF CommitCancel
  <2>2. /\ q \in Requests /\ call[c].dirty
        /\ request[q].status \in CANCELLABLE_REQUEST_STATUSES
    BY <1>q, <2>1 DEF Refers, At, BackingInv, CancelHolds
  <2>3. /\ r = q => request'[r].status = "cancelled"
        /\ r # q => request'[r] = request[r]
    BY <1>0, <2>1, <2>2 DEF EquipmentRequest
  <2> QED
    BY <2>2, <2>3 DEF FlowStep, CANCELLABLE_REQUEST_STATUSES
<1> QED
  BY <1>1, <1>2, <1>3, <1>4, <1>5, <1>6, <1>7 DEF Writes

\* A step that is pending after a write that makes none was pending before.
LEMMA PendingWas ==
  ASSUME RequestsTypeOK, StepsBelong, NEW c \in Calls, Refers(c), RejectionReady(c),
         Arrive(c) \/ Proceed(c),
         \A u \in Employees, r \in Requests, s \in Steps, type \in RequestType,
            model \in Models \cup {None}, manager \in Managers :
           ~Create(c, u, r, s, type, model, manager),
         \A n \in Steps, p \in ProcurementManagers : ~CommitManagerApproval(c, n, p),
         NEW s \in Steps, step'[s].status = "pending"
  PROVE  /\ step[s].status = "pending" /\ step[s].request \in Requests
         /\ step'[s].request = step[s].request /\ step'[s].role = step[s].role
BY NoStepMade DEF StepsBelong

LEMMA WorkflowStages ==
  ASSUME DeparturesInv, BackingInv, StageInv, NEW c \in Calls, Refers(c),
         RejectionReady(c), Arrive(c) \/ Proceed(c)
  PROVE  StageInv'
<1>q. PICK q : q = call[c].request
  OBVIOUS
<1>m. PICK m : m = call[c].step
  OBVIOUS
<1>0. /\ RequestsTypeOK /\ TablesTypeOK /\ StepsBelong
      /\ StepsKnown /\ RoutedOnce /\ ManagerWasFirst
  BY DEF DeparturesInv, DeparturesTypeOK, RequestsTypeOK, BackingInv
<1> SUFFICES ASSUME NEW s \in Steps, step'[s].status = "pending"
             PROVE  request'[step'[s].request].status
                      \in {"cancelled", StageWaitingFor(step'[s].role)}
  BY DEF StageInv
<1> DEFINE Goal == request'[step'[s].request].status
                     \in {"cancelled", StageWaitingFor(step'[s].role)}
<1>1. ASSUME step[s].status = "pending", step[s].request \in Requests,
             step'[s].request = step[s].request, step'[s].role = step[s].role,
             request'[step[s].request].status \in {request[step[s].request].status, "cancelled"}
      PROVE  Goal
  BY <1>1 DEF StageInv
<1>2. ASSUME NEW u \in Employees, NEW n \in Requests, NEW t \in Steps,
             NEW type \in RequestType, NEW model \in Models \cup {None},
             NEW manager \in Managers,
             Create(c, u, n, t, type, model, manager)
      PROVE  Goal
  <2>1. /\ request[n].requester = None
        /\ request'[n].status = "pending_manager_approval"
        /\ \A k \in Requests \ {n} : request'[k] = request[k]
        /\ step'[t].request = n /\ step'[t].role = "direct_manager"
        /\ \A k \in Steps \ {t} : step'[k] = step[k]
    BY <1>0, <1>2 DEF Create, FreeRequests, NoRequest, TablesTypeOK
  <2>2. CASE s = t
    BY <2>1, <2>2 DEF StageWaitingFor
  <2>3. CASE s # t
    <3>1. step'[s] = step[s] /\ step[s].status = "pending" /\ step[s].request \in Requests
      BY <1>0, <2>1, <2>3 DEF StepsBelong
    <3>2. step[s].request # n
      BY <1>0, <2>1, <3>1, NoneAssumption DEF StepsKnown
    <3> QED
      BY <1>1, <2>1, <3>1, <3>2
  <2> QED
    BY <2>2, <2>3
<1>3. ASSUME NEW n \in Steps, NEW p \in ProcurementManagers,
             CommitManagerApproval(c, n, p)
      PROVE  Goal
  <2>1. /\ Deciding(c) /\ call[c].pc = "locked" /\ call[c].op = "approve"
        /\ request' = [request EXCEPT ![q].status = "pending_procurement_approval"]
        /\ step[m].role = "direct_manager"
    BY <1>q, <1>m, <1>3 DEF CommitManagerApproval, At, Deciding
  <2>2. /\ \A k \in Steps \ {n} : step'[k] = Decided(c)[k]
        /\ step'[n].request = q /\ step'[n].role = "procurement_manager"
    BY <1>0, <1>q, <1>3, <2>1, DecidedOK DEF CommitManagerApproval
  <2>3. /\ q \in Requests /\ m \in Steps /\ step[m].request = q
        /\ step[m].status = "pending"
        /\ request'[q].status = "pending_procurement_approval"
        /\ \A k \in Requests \ {q} : request'[k] = request[k]
    <3>1. q \in Requests /\ m \in Steps /\ step[m].request = q /\ step[m].status = "pending"
      BY <1>q, <1>m, <2>1, DecidedAtStage
    <3>2. request \in [Requests -> EquipmentRequest]
      BY <1>0 DEF TablesTypeOK
    <3> QED
      BY <2>1, <3>1, <3>2, OneStatusSet
  <2>4. CASE s = n
    BY <2>2, <2>3, <2>4 DEF StageWaitingFor
  <2>5. CASE s # n
    <3>1. step'[s] = Decided(c)[s] /\ DecisionReady(c)
      BY <2>2, <2>5 DEF DeparturesInv, CallHolds
    <3>2. /\ s # m /\ step[s].status = "pending"
          /\ step'[s].request = step[s].request /\ step'[s].role = step[s].role
      BY <1>0, <1>m, <2>1, <3>1, DecidedOK, DecidedDone
    <3>3. step[s].request \in Requests /\ step[s].role \in ApprovalRole
      BY <1>0, <3>2 DEF StepsBelong, TablesTypeOK, ApprovalStep
    <3>4. step[s].request # q
      <4> SUFFICES ASSUME step[s].request = q PROVE FALSE
        OBVIOUS
      <4>1. q # None /\ step[m].role \in ApprovalRole
        BY <2>1, <2>3, NoneAssumption DEF ApprovalRole
      <4>2. CASE step[s].role = "direct_manager"
        BY <1>0, <2>1, <2>3, <3>2, <4>1, <4>2 DEF RoutedOnce
      <4>3. CASE step[s].role = "procurement_manager"
        BY <1>0, <2>3, <3>2, <4>1, <4>3, PendingIsLast
      <4> QED
        BY <3>3, <4>2, <4>3 DEF ApprovalRole
    <3> QED
      BY <1>1, <2>3, <3>2, <3>3, <3>4
  <2> QED
    BY <2>4, <2>5
<1>4. CASE /\ \A u \in Employees, r \in Requests, t \in Steps, type \in RequestType,
                 model \in Models \cup {None}, manager \in Managers :
                ~Create(c, u, r, t, type, model, manager)
           /\ \A n \in Steps, p \in ProcurementManagers : ~CommitManagerApproval(c, n, p)
  <2>1. /\ step[s].status = "pending" /\ step[s].request \in Requests
        /\ step'[s].request = step[s].request /\ step'[s].role = step[s].role
    BY <1>0, <1>4, PendingWas
  <2>2. FlowStep(step[s].request) /\ request'[step[s].request].status \notin Settled
    <3>1. s \in PendingStepsOf(step[s].request)'
      BY <2>1 DEF PendingStepsOf, StepsOf
    <3> QED
      BY <2>1, <3>1, WorkflowFlows, WorkflowSettles
  <2>3. request'[step[s].request].status \in {request[step[s].request].status, "cancelled"}
    <3>1. CASE ~Writes(c)
      BY <3>1, OnlyWritesWrite
    <3>2. CASE CommitCancel(c)
      <4>1. /\ request' = [request EXCEPT ![q].status =
                 IF call[c].dirty THEN "cancelled" ELSE @]
            /\ request \in [Requests -> EquipmentRequest]
        BY <1>0, <1>q, <3>2 DEF CommitCancel, TablesTypeOK
      <4> QED
        BY <2>1, <4>1 DEF EquipmentRequest
    <3>3. ASSUME NEW status \in Settled, Deciding(c),
                 request' = [request EXCEPT ![q].status = status]
          PROVE  request'[step[s].request] = request[step[s].request]
      <4>1. q \in Requests /\ request \in [Requests -> EquipmentRequest]
        BY <1>0, <1>q, <1>m, <3>3, DecidedAtStage DEF TablesTypeOK
      <4>2. /\ request'[q].status = status
            /\ \A r \in Requests \ {q} : request'[r] = request[r]
        BY <3>3, <4>1, OneStatusSet
      <4> QED
        BY <2>1, <2>2, <3>3, <4>2
    <3>4. CASE CommitRejection(c)
      BY <1>q, <3>3, <3>4 DEF CommitRejection, At, Deciding, Settled
    <3>5. CASE CommitProcurementApproval(c)
      BY <1>q, <3>3, <3>5 DEF CommitProcurementApproval, At, Deciding, Settled
    <3>6. ASSUME NEW g \in Assignments, CommitLoanApproval(c, g)
          PROVE  request'[step[s].request] = request[step[s].request]
      BY <1>q, <3>3, <3>6 DEF CommitLoanApproval, At, Deciding, Settled
    <3> QED
      BY <1>4, <3>1, <3>2, <3>4, <3>5, <3>6 DEF Writes
  <2> QED
    BY <1>1, <2>1, <2>3
<1> QED
  BY <1>2, <1>3, <1>4

\* One statement changes one request.
OneMoves ==
  \/ UNCHANGED request
  \/ \E q \in Requests : \A r \in Requests \ {q} : request'[r] = request[r]

LEMMA WorkflowMovesOne ==
  ASSUME RequestsTypeOK, NEW c \in Calls, Refers(c), Arrive(c) \/ Proceed(c)
  PROVE  OneMoves
<1> USE DEF RequestsTypeOK, TablesTypeOK
<1>1. CASE ~Writes(c)
  BY <1>1, OnlyWritesWrite DEF OneMoves
<1>2. ASSUME NEW u \in Employees, NEW n \in Requests, NEW s \in Steps,
             NEW type \in RequestType, NEW model \in Models \cup {None},
             NEW manager \in Managers,
             Create(c, u, n, s, type, model, manager)
      PROVE  OneMoves
  BY <1>2 DEF Create, OneMoves
<1>3. ASSUME NEW status, request' = [request EXCEPT ![call[c].request].status = status],
             call[c].op # "none"
      PROVE  OneMoves
  BY <1>3 DEF Refers, OneMoves
<1>4. CASE \/ CommitRejection(c)
           \/ \E n \in Steps, p \in ProcurementManagers : CommitManagerApproval(c, n, p)
           \/ CommitProcurementApproval(c)
           \/ \E g \in Assignments : CommitLoanApproval(c, g)
  BY <1>3, <1>4 DEF CommitRejection, CommitManagerApproval, CommitProcurementApproval,
     CommitLoanApproval, At
<1>5. CASE CommitCancel(c)
  BY <1>3, <1>5 DEF CommitCancel, At
<1> QED
  BY <1>1, <1>2, <1>4, <1>5 DEF Writes

\* What the handlers do to the requests, the columns they keep included.
Flows == OneMoves /\ Stays /\ \A r \in Requests : FlowStep(r)

LEMMA NothingFlows == ASSUME UNCHANGED tables PROVE StageInv => StageInv' /\ Flows
BY DEF tables, StageInv, Flows, OneMoves, Stays, FlowStep

LEMMA WorkflowStepFlows ==
  ASSUME DeparturesInv, BackingInv, StageInv, WorkflowWhileLeaving
  PROVE  StageInv' /\ Flows
<1>1. PICK c \in Calls :
        \/ Arrive(c)
        \/ ~Thwarted(c) /\ Proceed(c)
        \/ UNCHANGED tables
  BY DEF WorkflowWhileLeaving, Interrupt
<1>2. CallHolds(c) /\ RequestsTypeOK
  BY DEF DeparturesInv, DeparturesTypeOK
<1>3. CASE Arrive(c)
  <2>1. call[c].pc = "idle"
    BY <1>3, ArrivesIdle
  <2>2. Refers(c) /\ RejectionReady(c)
    BY <1>2, <2>1, RowsFound DEF Thwarted
  <2> QED
    BY <1>2, <1>3, <2>2, WorkflowFlows, WorkflowStages, WorkflowMovesOne, WorkflowStays
       DEF Flows
<1>4. CASE ~Thwarted(c) /\ Proceed(c) /\ call[c].pc # "committed"
  BY <1>2, <1>4, RowsFound, WorkflowFlows, WorkflowStages, WorkflowMovesOne, WorkflowStays
     DEF Flows
<1>5. CASE Proceed(c) /\ call[c].pc = "committed"
  <2>1. UNCHANGED <<request, step, asset, assignment>>
    BY <1>5, CommittedOnlyNotifies DEF Notify
  <2> QED
    BY <2>1 DEF StageInv, Flows, OneMoves, Stays, FlowStep
<1>6. CASE UNCHANGED tables
  BY <1>6, NothingFlows
<1> QED
  BY <1>1, <1>3, <1>4, <1>5, <1>6

-----------------------------------------------------------------------------
(* The inventory, and a removal.                                           *)

\* The inventory gives a request no status but fulfilled.
FulfilsOnly ==
  \A r \in Requests : request'[r].status \in {request[r].status, "fulfilled"}

LEMMA InventoryStepFlows ==
  ASSUME DeparturesInv, BackingInv, StageInv, InventoryWhileLeaving
  PROVE  StageInv' /\ Flows /\ FulfilsOnly
<1>1. PICK j \in Jobs :
        \/ StartJob(j)
        \/ ~ThwartedJob(j) /\ ContinueJob(j)
        \/ UNCHANGED tables
  BY DEF InventoryWhileLeaving, CutOff
<1>2. JobsFit
  BY DEF DeparturesInv, DeparturesTypeOK, JobsFit, InventoryFits
<1>3. ASSUME InventoryKeeps(j), FulfilsPresent(j)
      PROVE  StageInv' /\ Flows /\ FulfilsOnly
  <2>1. ASSUME NEW r \in Requests
        PROVE  \/ request'[r] = request[r]
               \/ /\ request[r].status \in {"procurement_approved", "fulfilled"}
                  /\ request'[r].status = "fulfilled"
    BY <1>3, FulfilledFrom
  <2>2. ASSUME NEW s \in Steps, step'[s].status = "pending"
        PROVE  request'[step'[s].request].status
                 \in {"cancelled", StageWaitingFor(step'[s].role)}
    <3>1. /\ step'[s] = step[s] /\ step[s].request \in Requests
          /\ request[step[s].request].status
               \in {"cancelled", StageWaitingFor(step[s].role)}
      BY <1>3, <2>2 DEF InventoryKeeps, DeparturesInv, StepsBelong, StageInv
    <3> QED
      BY <2>1, <3>1 DEF StageWaitingFor
  <2>3. OneMoves
    <3>1. CASE FulfilRequest(j)
      <4>1. /\ job[j].request \in Requests
            /\ request' = [request EXCEPT ![job[j].request].status = "fulfilled"]
        BY <3>1 DEF FulfilRequest, DeparturesInv, EntityReady, Fits
      <4> QED
        BY <4>1 DEF OneMoves, DeparturesInv, DeparturesTypeOK, RequestsTypeOK, TablesTypeOK
    <3> QED
      BY <1>3, <3>1 DEF InventoryKeeps, OneMoves
  <2>4. \A r \in Requests : FlowStep(r)
    BY <2>1 DEF FlowStep
  <2> QED
    BY <1>3, <2>1, <2>2, <2>3, <2>4, InventoryStays DEF StageInv, Flows, FulfilsOnly
<1>4. CASE StartJob(j)
  <2>1. ~WriteAssignment(j) /\ FulfilsPresent(j)
    BY <1>4, StartWrites DEF WriteAssignment, FulfilsPresent, FulfilRequest
  <2>2. InventoryKeeps(j)
    BY <1>2, <1>4, <2>1, InventoryEffect DEF Effect
  <2> QED
    BY <1>3, <2>1, <2>2
<1>5. CASE ~ThwartedJob(j) /\ ContinueJob(j)
  <2>1. InventoryKeeps(j) /\ FulfilsPresent(j)
    BY <1>2, <1>5, JobFinds, InventoryEffect DEF Effect
  <2> QED
    BY <1>3, <2>1
<1>6. CASE UNCHANGED tables
  BY <1>6, NothingFlows DEF tables, FulfilsOnly
<1> QED
  BY <1>1, <1>4, <1>5, <1>6

LEMMA RemovalFlows ==
  ASSUME DeparturesInv, StageInv, NEW u \in Leavers, RemoveUser(u)
  PROVE  StageInv' /\ \A r \in Requests : FlowStep(r)
<1>1. ASSUME NEW r \in Requests
      PROVE  FlowStep(r)
  <2>1. request[r] \in EquipmentRequest
    BY DEF DeparturesInv, DeparturesTypeOK, RequestsTypeOK, TablesTypeOK
  <2>2. CASE request[r].requester = u
    <3>1. request'[r] = [request[r] EXCEPT !.status = "absent"] /\ u \in gone'
      BY <2>2, RemovedRows
    <3>2. request'[r].status = "absent"
      BY <2>1, <3>1 DEF EquipmentRequest
    <3> QED
      BY <2>2, <3>1, <3>2 DEF FlowStep
  <2>3. CASE request[r].requester # u
    BY <2>3, RemovedRows DEF FlowStep
  <2> QED
    BY <2>2, <2>3
<1>2. ASSUME NEW s \in Steps, step'[s].status = "pending"
      PROVE  request'[step'[s].request].status
               \in {"cancelled", StageWaitingFor(step'[s].role)}
  <2>1. step'[s] = step[s] /\ step[s].request \notin RequestsWith(u)
    BY <1>2, RemovalLeaves
  <2>2. step[s].request \in Requests
    BY <1>2, <2>1 DEF DeparturesInv, StepsBelong
  <2>3. request'[step[s].request] = request[step[s].request]
    BY <2>1, <2>2, RemovedRows DEF RequestsWith
  <2> QED
    BY <1>2, <2>1, <2>3 DEF StageInv
<1> QED
  BY <1>1, <1>2 DEF StageInv

\* A pending step belongs to a request that waits for it or is cancelled,
\* whoever leaves and whatever the inventory is doing.
THEOREM StageInvariant ==
  ASSUME OneAtATime
  PROVE  DeparturesSpec => []StageInv
<1>1. ASSUME DeparturesInv, BackingInv, StageInv, [DeparturesNext]_departureVars
      PROVE  StageInv'
  <2>1. CASE UNCHANGED departureVars
    BY <1>1, <2>1 DEF departureVars, systemVars, tables, StageInv
  <2> QED
    BY <1>1, <2>1, WorkflowStepFlows, InventoryStepFlows, RemovalFlows
       DEF DeparturesNext
<1>2. DeparturesInv /\ BackingInv /\ StageInv /\ [DeparturesNext]_departureVars
        => StageInv'
  BY <1>1
<1>3. DeparturesInit => StageInv
  BY DEF DeparturesInit, SystemInit, InventoryInit, TablesInit, NoStep, StageInv
<1> QED
  BY <1>2, <1>3, DeparturesInvariant, BackingInvariant, PTL DEF DeparturesSpec

\* Every request takes the steps of the status flow, but for decisions on
\* cancelled ones, until it goes with its requester: nobody skips a stage or
\* takes up again what was settled, with any number of inventory handlers and
\* of removals between the awaits of the one handler of the workflow.
THEOREM FlowHoldsUntilGone ==
  ASSUME OneAtATime
  PROVE  DeparturesSpec => FlowUntilGone
<1>1. ASSUME DeparturesInv, BackingInv, StageInv, DeparturesNext
      PROVE  \A r \in Requests : FlowStep(r)
  BY <1>1, WorkflowStepFlows, InventoryStepFlows, RemovalFlows DEF DeparturesNext, Flows
<1>2. DeparturesInv /\ BackingInv /\ StageInv /\ [DeparturesNext]_departureVars
        => [\A r \in Requests : FlowStep(r)]_departureVars
  BY <1>1
<1> QED
  BY <1>2, DeparturesInvariant, BackingInvariant, StageInvariant, PTL
     DEF DeparturesSpec, FlowUntilGone

-----------------------------------------------------------------------------
(* The refinement of RequestLifecycle, with the inventory overlapping.     *)

\* Where one request takes a step of the flow and nobody leaves, the step is one
\* the documentation draws, or a decision on a cancelled request.
LEMMA FlowDrawn ==
  ASSUME DeparturesInv, DeparturesInv', Flows, gone' = gone
  PROVE  Lifecycle!Next \/ UNCHANGED Lifecycle!lifecycleVars
<1>0. /\ \A r \in Requests : request[r].type \in {"loan", "procurement"}
      /\ \A r \in Requests : request'[r].type \in {"loan", "procurement"}
  BY DEF DeparturesInv, DeparturesTypeOK, RequestsTypeOK, TablesTypeOK,
     EquipmentRequest, RequestType
<1>1. CASE UNCHANGED request
  BY <1>1 DEF Lifecycle!lifecycleVars
<1>2. ASSUME NEW q \in Requests, \A r \in Requests \ {q} : request'[r] = request[r]
      PROVE  Lifecycle!Next \/ UNCHANGED Lifecycle!lifecycleVars
  <2> DEFINE from == request[q].status
             to == request'[q].status
  <2>1. FlowStep(q)
    BY DEF Flows
  <2>2. from # "absent" => to # "absent" /\ request'[q].type = request[q].type
    <3> SUFFICES ASSUME from # "absent"
                 PROVE  to # "absent" /\ request'[q].type = request[q].type
      OBVIOUS
    <3>1. request[q].requester # None /\ request[q].requester \notin gone
      BY DEF DeparturesInv, Requested, DeparturesTypeOK
    <3>2. request'[q].type = request[q].type
      BY <3>1 DEF Flows, Stays
    <3> QED
      BY <2>1, <3>1, <3>2 DEF FlowStep
  <2>3. Status' = [Status EXCEPT ![q] = to] /\ Status[q] = from
    <3>1. \A r \in Requests : request'[r].status = [Status EXCEPT ![q] = to][r]
      BY <1>2 DEF Status
    <3> QED
      BY <3>1 DEF Status
  <2>4. to = "absent" \/ from # "absent" => Type' = Type
    <3>1. ASSUME to = "absent" \/ from # "absent", NEW r \in Requests
          PROVE  (IF request'[r].status = "absent" THEN None ELSE request'[r].type) =
                 (IF request[r].status = "absent" THEN None ELSE request[r].type)
      BY <1>2, <2>2, <3>1
    <3> QED
      BY <3>1 DEF Type
  <2>5. CASE to = from
    <3>1. Status' = Status
      BY <2>3, <2>5 DEF Status
    <3> QED
      BY <2>4, <2>5, <3>1 DEF Status, Type, Lifecycle!lifecycleVars
  <2>6. CASE to # from /\ from = "absent"
    <3>1. to = "pending_manager_approval"
      BY <2>1, <2>6 DEF FlowStep
    <3>2. \A r \in Requests :
            (IF request'[r].status = "absent" THEN None ELSE request'[r].type)
              = [Type EXCEPT ![q] = request'[q].type][r]
      BY <1>2, <3>1 DEF Type
    <3>3. Type' = [Type EXCEPT ![q] = request'[q].type]
      BY <3>2 DEF Type
    <3> QED
      BY <1>0, <2>3, <2>6, <3>1, <3>3
         DEF Status, Type, Lifecycle!Next, Lifecycle!Drawn, Lifecycle!Submit
  <2>7. CASE to # from /\ from # "absent"
    <3>1. /\ Status' = [Status EXCEPT ![q] = to] /\ Status[q] = from
          /\ Type' = Type /\ Type[q] = request[q].type
      BY <2>3, <2>4, <2>7 DEF Type
    <3>2. \/ /\ from \in {"pending_manager_approval", "pending_procurement_approval"}
             /\ to \in {"rejected", "cancelled"}
          \/ /\ from = "pending_manager_approval"
             /\ to = "pending_procurement_approval"
          \/ /\ from = "pending_procurement_approval"
             /\ to = Lifecycle!Approval(Type[q])
          \/ from = "procurement_approved" /\ to = "fulfilled"
          \/ /\ from = "cancelled"
             /\ to \in {"rejected", "pending_procurement_approval",
                       Lifecycle!Approval(Type[q])}
      BY <1>0, <2>1, <2>2, <2>7, <3>1 DEF FlowStep, NoRequest, Lifecycle!Approval
    <3>9. PICK x, y : x = from /\ y = to
      OBVIOUS
    <3> HIDE DEF from, to
    <3>3. Lifecycle!Move(q, x, y)
      BY <3>1, <3>9 DEF Status, Type, Lifecycle!Move
    <3>4. CASE x = "cancelled"
      <4>1. y \in {"rejected", "pending_procurement_approval",
                   Lifecycle!Approval(Type[q])}
        BY <3>2, <3>4, <3>9
      <4> QED
        BY <3>3, <3>4, <4>1 DEF Type, Lifecycle!Next, Lifecycle!Revived, Lifecycle!Revive
    <3>5. CASE x = "pending_procurement_approval" /\ y = Lifecycle!Approval(Type[q])
      <4>1. Lifecycle!ProcurementApproves(q)
        BY <3>3, <3>5 DEF Type, Lifecycle!ProcurementApproves, Lifecycle!Move
      <4> QED
        BY <4>1 DEF Lifecycle!Next, Lifecycle!Drawn
    <3>6. CASE /\ x \in {"pending_manager_approval", "pending_procurement_approval"}
               /\ y \in {"rejected", "cancelled"}
      BY <3>3, <3>6 DEF Lifecycle!Next, Lifecycle!Drawn, Lifecycle!Close
    <3>7. CASE /\ x = "pending_manager_approval"
               /\ y = "pending_procurement_approval"
      BY <3>3, <3>7 DEF Lifecycle!Next, Lifecycle!Drawn, Lifecycle!ManagerApproves
    <3>8. CASE x = "procurement_approved" /\ y = "fulfilled"
      BY <3>3, <3>8 DEF Lifecycle!Next, Lifecycle!Drawn, Lifecycle!Fulfil
    <3> QED
      BY <3>2, <3>9, <3>4, <3>5, <3>6, <3>7, <3>8
  <2> QED
    BY <2>5, <2>6, <2>7
<1> QED
  BY <1>1, <1>2 DEF Flows, OneMoves

\* With one handler of the workflow and any number of the inventory overlapping
\* it, cut off or not, every step is one the documentation draws, or a decision
\* on a cancelled request, or leaves status and type alone, but for the removal
\* of an employee.
THEOREM OnlyRemovalsDepart ==
  ASSUME OneAtATime
  PROVE  DeparturesSpec =>
           [][gone' = gone =>
                Lifecycle!Next \/ UNCHANGED Lifecycle!lifecycleVars]_departureVars
<1>1. ASSUME DeparturesInv, DeparturesInv', BackingInv, StageInv, DeparturesNext,
             gone' = gone
      PROVE  Lifecycle!Next \/ UNCHANGED Lifecycle!lifecycleVars
  <2>1. ASSUME NEW u \in Leavers PROVE ~RemoveUser(u)
    BY <1>1 DEF RemoveUser
  <2> QED
    BY <1>1, <2>1, WorkflowStepFlows, InventoryStepFlows, FlowDrawn DEF DeparturesNext
<1>2. DeparturesInv /\ DeparturesInv' /\ BackingInv /\ StageInv
      /\ [DeparturesNext]_departureVars
        => [gone' = gone =>
              Lifecycle!Next \/ UNCHANGED Lifecycle!lifecycleVars]_departureVars
  BY <1>1
<1> QED
  BY <1>2, DeparturesInvariant, BackingInvariant, StageInvariant, PTL DEF DeparturesSpec

\* The refinement, as long as nobody leaves: the system implements the status
\* flow of the documentation, with the revival of cancelled requests, though
\* inventory handlers, which read a request some awaits before they fulfil it,
\* overlap with the workflow and with each other.
THEOREM OverlapFollowsLifecycle ==
  ASSUME OneAtATime, Leavers = {}
  PROVE  DeparturesSpec => FollowsLifecycle
<1>1. DeparturesInit => Lifecycle!Init
  <2> SUFFICES ASSUME DeparturesInit
               PROVE  Lifecycle!Init
    OBVIOUS
  <2>1. \A r \in Requests : request[r].status = "absent"
    BY DEF DeparturesInit, SystemInit, RequestsInit, TablesInit, NoRequest
  <2> QED
    BY <2>1 DEF Lifecycle!Init
<1>2. ASSUME DeparturesInv, DeparturesInv', BackingInv, StageInv,
             [DeparturesNext]_departureVars
      PROVE  [Lifecycle!Next]_(Lifecycle!lifecycleVars)
  <2>1. CASE UNCHANGED departureVars
    BY <2>1 DEF departureVars, systemVars, tables, Lifecycle!lifecycleVars
  <2>2. CASE WorkflowWhileLeaving \/ InventoryWhileLeaving
    <3>1. gone' = gone
      BY <2>2 DEF WorkflowWhileLeaving, InventoryWhileLeaving
    <3> QED
      BY <1>2, <2>2, <3>1, WorkflowStepFlows, InventoryStepFlows, FlowDrawn
  <2> QED
    BY <1>2, <2>1, <2>2 DEF DeparturesNext
<1>3. DeparturesInv /\ DeparturesInv' /\ BackingInv /\ StageInv
      /\ [DeparturesNext]_departureVars => [Lifecycle!Next]_(Lifecycle!lifecycleVars)
  BY <1>2
<1> QED
  BY <1>1, <1>3, DeparturesInvariant, BackingInvariant, StageInvariant, PTL
     DEF DeparturesSpec, FollowsLifecycle, Lifecycle!Spec

=============================================================================
