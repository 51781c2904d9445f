---------------------------- MODULE SystemProofs ----------------------------
(***************************************************************************)
(* Proofs about EquipmentSystem: what RequestsProofs and InventoryProofs   *)
(* show of each half alone still holds when the handlers of both overlap   *)
(* on the same tables, any number of them, cut off or not.                 *)
(*                                                                         *)
(* The inventory reaches into the workflow in two ways: assign fulfils a   *)
(* bought request, and the save of a returned assignment may write back    *)
(* the link to a request that a cancellation has cut.  The workflow        *)
(* reaches into the inventory by giving out assets for loans.              *)
(***************************************************************************)
EXTENDS EquipmentSystem, RequestsProofs, InventoryProofs, FiniteSetTheorems

-----------------------------------------------------------------------------
(* The inductive invariant.                                                *)

\* What an inventory handler has read of its asset, and of the request it is
\* to fulfil.
EntityReady(l) ==
  /\ l.op # "none" => /\ l.entity.model = asset[l.asset].model
                      /\ l.entity.model # None
  /\ l.pc = "inserted" => l.fulfils

FulfilReady(l) ==
  l.fulfils => /\ request[l.request].status # "absent"
               /\ request[l.request].type = "procurement"
               /\ HasStep(l.request, "procurement_manager", FALSE)

JobReady(l) == EntityReady(l) /\ FulfilReady(l)

JobsReady == \A j \in Jobs : JobReady(job[j])

\* An asset has a model, so does the request of a loan, and only bought
\* requests are procurement-approved.
ColumnsAgree ==
  /\ \A a \in Assets : asset[a].status # "absent" => asset[a].model # None
  /\ \A r \in Requests : request[r].status # "absent" =>
       /\ request[r].type = "loan" => request[r].model # None
       /\ request[r].status = "procurement_approved" =>
            request[r].type = "procurement"

\* What the inventory's handlers rest on, rows deleted under them or not.
JobsFit ==
  /\ InventoryFits
  /\ ColumnsAgree
  /\ \A j \in Jobs : EntityReady(job[j])

\* r is the request that assignment g names, or that a handler in flight would
\* make it name, or stop naming.
Brings(j, g) == job[j].op \in Returns /\ job[j].assignment = g

NamedBy(c, g, r) == Names(c, g) /\ call[c].request = r

Named(g, r) ==
  \/ assignment[g].request = r
  \/ \E j \in Jobs : Brings(j, g) /\ job[j].links = r
  \/ \E c \in Calls : NamedBy(c, g, r)

\* An assignment is never about two requests.
OneName ==
  \A g \in Assignments, q, r \in Requests : Named(g, q) /\ Named(g, r) => q = r

\* No return in flight takes g from r.
Kept(g, r) == \A j \in Jobs : Brings(j, g) => job[j].links = r

LoansSurvive ==
  \A r \in Requests :
    FulfilledLoan(r) => \E g \in Assignments : Witness(g, r) /\ Kept(g, r)

SystemInv ==
  /\ RequestsInv
  /\ InventoryInv
  /\ ColumnsAgree
  /\ JobsReady
  /\ OneName
  /\ LoansSurvive

-----------------------------------------------------------------------------
(* What both halves of a step need.                                        *)

\* An assignment that was not there is about the request it is made for.
LEMMA OneNameStep ==
  ASSUME OneName,
         \A g \in Assignments :
           \/ \A r \in Requests : Named(g, r)' => Named(g, r)
           \/ \A r \in Requests : Named(g, r)' => assignment'[g].request = r
  PROVE  OneName'
  BY DEF OneName

\* A handler's look at the workflow outlives a step that keeps the rows.
LEMMA JobReadyStays ==
  ASSUME NEW l \in Job, LocalsOK(l), JobReady(l),
         \A a \in Assets :
           asset[a].model # None => asset'[a].model = asset[a].model,
         \A r \in Requests : request[r].status # "absent" =>
           request'[r].status # "absent" /\ request'[r].type = request[r].type,
         \A r \in Requests : HasStep(r, "procurement_manager", FALSE)
                               => HasStep(r, "procurement_manager", FALSE)'
  PROVE  JobReady(l)'
  BY DEF JobReady, EntityReady, FulfilReady, LocalsOK, Fits

-----------------------------------------------------------------------------
(* A step of the workflow.                                                 *)

\* Only a loan's approval touches assets and makes assignments.
LEMMA WorkflowStock ==
  ASSUME RequestsTypeOK, RowsKeep, NEW c \in Calls, Arrive(c) \/ Proceed(c) \/ Interrupt(c)
  PROVE  \/ /\ UNCHANGED asset
            /\ \A g \in Assignments :
                 /\ assignment[g].status = "absent" => assignment'[g].status = "absent"
                 /\ assignment'[g].asset = assignment[g].asset
         \/ \E g \in Assignments : CommitLoanApproval(c, g)
<1>1. CASE ~Writes(c)
  BY <1>1, OnlyWritesWrite
<1>2. CASE Writes(c)
  <2>1. CASE CommitCancel(c)
    <3>1. \A g \in Assignments : assignment[g] \in EquipmentAssignment
      BY DEF RequestsTypeOK, TablesTypeOK
    <3>2. assignment' = Linked(c)
      BY <2>1 DEF CommitCancel
    <3>3. \A g \in Assignments : /\ assignment'[g].status = assignment[g].status
                                  /\ assignment'[g].asset = assignment[g].asset
      BY <3>1, <3>2 DEF Linked, EquipmentAssignment
    <3> QED
      BY <2>1, <3>3 DEF CommitCancel
  <2> QED
    BY <1>2, <2>1 DEF Writes, Create, CommitRejection, CommitManagerApproval,
       CommitProcurementApproval
<1> QED
  BY <1>1, <1>2

\* A loan's approval gives out an asset that is there, of a model.
LEMMA LoanStock ==
  ASSUME RequestsTypeOK, ColumnsAgree, NEW c \in Calls, Refers(c), LoanReady(c),
         NEW g \in Assignments, CommitLoanApproval(c, g)
  PROVE  LET a == call[c].asset IN
         /\ a \in Assets /\ asset[a].model # None
         /\ asset'[a].status = "in_use"
         /\ \A b \in Assets : b # a => asset'[b] = asset[b]
         /\ assignment[g].status = "absent"
         /\ assignment'[g].asset = a /\ assignment'[g].request = call[c].request
         /\ assignment'[g].status = "active"
         /\ \A h \in Assignments : h # g => assignment'[h] = assignment[h]
<1> DEFINE a == call[c].asset
           r == call[c].request
<1> USE DEF RequestsTypeOK, TablesTypeOK
<1>1. At(c, "approve", "ready")
  BY DEF CommitLoanApproval
<1>2. /\ a \in Assets /\ asset[a].model = request[r].model
      /\ request[r].type = "loan"
  BY <1>1 DEF LoanReady
<1>3. r \in Requests /\ request[r].status # "absent"
  BY <1>1 DEF Refers, At
<1>4. asset[a].model # None
  BY <1>2, <1>3 DEF ColumnsAgree
<1>5. /\ asset'[a].status = "in_use"
      /\ \A b \in Assets : b # a => asset'[b] = asset[b]
  <2>1. asset' = [asset EXCEPT ![a].status = "in_use",
                    ![a].assignedEmployee = request[r].requester,
                    ![a].retiredAt = call[c].retired]
    BY DEF CommitLoanApproval
  <2>2. asset[a] \in EquipmentAsset
    BY <1>2
  <2> QED
    BY <1>2, <2>1, <2>2 DEF EquipmentAsset
<1>6. /\ assignment' = [assignment EXCEPT ![g] =
           [status |-> "active", asset |-> a, employee |-> request[r].requester,
            request |-> r]]
      /\ assignment[g].status = "absent"
  BY DEF CommitLoanApproval, FreeAssignments, NoAssignment
<1> QED
  BY <1>2, <1>4, <1>5, <1>6

LEMMA WorkflowKeepsHistory ==
  ASSUME RequestsTypeOK, ColumnsAgree, HistoryKeepsAsset, RowsKeep,
         NEW c \in Calls, Refers(c), LoanReady(c),
         Arrive(c) \/ Proceed(c) \/ Interrupt(c)
  PROVE  HistoryKeepsAsset'
<1> SUFFICES ASSUME NEW g \in Assignments, assignment'[g].status # "absent"
             PROVE  /\ assignment'[g].asset \in Assets
                    /\ asset'[assignment'[g].asset].status # "absent"
  BY DEF HistoryKeepsAsset
<1>1. CASE UNCHANGED asset /\ assignment[g].status # "absent"
  BY <1>1 DEF HistoryKeepsAsset, RowsKeep
<1>2. ASSUME NEW h \in Assignments, CommitLoanApproval(c, h)
      PROVE  /\ assignment'[g].asset \in Assets
             /\ asset'[assignment'[g].asset].status # "absent"
  BY <1>2, LoanStock DEF HistoryKeepsAsset
<1> QED
  BY <1>1, <1>2, WorkflowStock

\* The inventory's invariant: the workflow deletes nothing.
LEMMA WorkflowKeepsInventory ==
  ASSUME SystemInv, RequestsTypeOK', RowsKeep, UNCHANGED job,
         NEW c \in Calls, Arrive(c) \/ Proceed(c) \/ Interrupt(c)
  PROVE  InventoryInv'
<1>1. InventoryTypeOK'
  BY DEF SystemInv, InventoryInv, InventoryTypeOK, RequestsTypeOK
<1>2. \A j \in Jobs : LocalsOK(job[j])'
  <2> SUFFICES ASSUME NEW j \in Jobs PROVE LocalsOK(job[j])'
    OBVIOUS
  <2>1. LocalsOK(job[j])
    BY DEF SystemInv, InventoryInv
  <2> QED
    BY <2>1 DEF LocalsOK, Fits, RowsKeep
<1>0. RequestsTypeOK /\ ColumnsAgree /\ Refers(c) /\ LoanReady(c)
  BY DEF SystemInv, RequestsInv, Refs, CallsRefer, CallsReady, CallReady
<1>3. HistoryKeepsAsset'
  BY <1>0, WorkflowKeepsHistory DEF SystemInv, InventoryInv
<1>4. NoneDeleted'
  <2> SUFFICES ASSUME NEW g \in Assignments, assignment'[g].asset \in Assets
               PROVE  assignment'[g].status # "absent"
    BY DEF NoneDeleted
  <2>1. CASE assignment'[g].asset = assignment[g].asset
    BY <2>1 DEF SystemInv, InventoryInv, NoneDeleted, RowsKeep
  <2>2. ASSUME NEW h \in Assignments, CommitLoanApproval(c, h)
        PROVE  assignment'[g].status # "absent"
    BY <1>0, <2>2, LoanStock DEF SystemInv, InventoryInv, NoneDeleted
  <2> QED
    BY <1>0, <2>1, <2>2, WorkflowStock
<1> QED
  BY <1>1, <1>2, <1>3, <1>4 DEF InventoryInv

LEMMA WorkflowKeepsColumns ==
  ASSUME RequestsTypeOK, ColumnsAgree, RequestsTypeOK', RowsKeep,
         NEW c \in Calls, Refers(c), LoanReady(c),
         Arrive(c) \/ Proceed(c) \/ Interrupt(c)
  PROVE  ColumnsAgree'
<1> USE DEF RequestsTypeOK, TablesTypeOK
<1>1. \A a \in Assets : asset'[a].status # "absent" => asset'[a].model # None
  <2>1. CASE UNCHANGED asset
    BY <2>1 DEF ColumnsAgree
  <2>2. ASSUME NEW h \in Assignments, CommitLoanApproval(c, h)
        PROVE  \A a \in Assets : asset'[a].status # "absent" => asset'[a].model # None
    BY <2>2, LoanStock DEF ColumnsAgree, RowsKeep
  <2> QED
    BY <2>1, <2>2, WorkflowStock
<1>2. ASSUME NEW r \in Requests, request'[r].status # "absent"
      PROVE  /\ request'[r].type = "loan" => request'[r].model # None
             /\ request'[r].status = "procurement_approved" =>
                  request'[r].type = "procurement"
  <2>1. ASSUME NEW u \in Employees, NEW q \in Requests, NEW s \in Steps,
               NEW type \in RequestType, NEW model \in Models \cup {None},
               NEW manager \in Managers,
               Create(c, u, q, s, type, model, manager)
        PROVE  /\ request'[r].type = "loan" => request'[r].model # None
               /\ request'[r].status = "procurement_approved" =>
                    request'[r].type = "procurement"
    <3>1. /\ request' = [request EXCEPT ![q] =
               [status |-> "pending_manager_approval", type |-> type,
                requester |-> u, model |-> model]]
          /\ (type = "loan") = (model # None)
      BY <2>1 DEF Create
    <3>2. CASE r = q
      BY <3>1, <3>2
    <3>3. CASE r # q
      BY <1>2, <3>1, <3>3 DEF ColumnsAgree
    <3> QED
      BY <3>2, <3>3
  <2>2. ASSUME request[r].status # "absent",
               \/ request'[r].status = request[r].status
               \/ request'[r].status # "procurement_approved"
               \/ request[r].type = "procurement"
        PROVE  /\ request'[r].type = "loan" => request'[r].model # None
               /\ request'[r].status = "procurement_approved" =>
                    request'[r].type = "procurement"
    BY <2>2 DEF ColumnsAgree, RowsKeep
  <2>3. ASSUME NEW status \in RequestStatus,
               \/ status # "procurement_approved"
               \/ request[call[c].request].type = "procurement",
               call[c].op # "none",
               request' = [request EXCEPT ![call[c].request].status = status]
        PROVE  /\ request'[r].type = "loan" => request'[r].model # None
               /\ request'[r].status = "procurement_approved" =>
                    request'[r].type = "procurement"
    <3>1. call[c].request \in Requests /\ request[call[c].request].status # "absent"
      BY <2>3 DEF Refers
    <3>2. CASE r = call[c].request
      <4>1. request'[r].status = status
        BY <2>3, <3>1, <3>2 DEF EquipmentRequest
      <4> QED
        BY <2>2, <2>3, <3>1, <3>2, <4>1
    <3>3. CASE r # call[c].request
      BY <1>2, <2>2, <2>3, <3>3
    <3> QED
      BY <3>2, <3>3
  <2>4. CASE CommitRejection(c)
    <3>1. /\ call[c].op # "none"
          /\ request' = [request EXCEPT ![call[c].request].status = "rejected"]
          /\ "rejected" \in RequestStatus
      BY <2>4 DEF CommitRejection, At, RequestStatus
    <3> QED
      BY <2>3, <3>1
  <2>5. CASE \E n \in Steps, p \in ProcurementManagers : CommitManagerApproval(c, n, p)
    <3>1. /\ call[c].op # "none"
          /\ request' = [request EXCEPT ![call[c].request].status = "pending_procurement_approval"]
          /\ "pending_procurement_approval" \in RequestStatus
      BY <2>5 DEF CommitManagerApproval, At, RequestStatus
    <3> QED
      BY <2>3, <3>1
  <2>6. CASE CommitProcurementApproval(c)
    BY <2>3, <2>6 DEF CommitProcurementApproval, At, RequestStatus
  <2>7. CASE \E g \in Assignments : CommitLoanApproval(c, g)
    <3>1. /\ call[c].op # "none"
          /\ request' = [request EXCEPT ![call[c].request].status = "fulfilled"]
          /\ "fulfilled" \in RequestStatus
      BY <2>7 DEF CommitLoanApproval, At, RequestStatus
    <3> QED
      BY <2>3, <3>1
  <2>8. CASE CommitCancel(c)
    <3>1. request'[r].status \in {request[r].status, "cancelled"}
      BY <2>8 DEF CommitCancel, EquipmentRequest
    <3>2. request[r].status # "absent"
      <4>1. CASE r = call[c].request
        BY <2>8, <4>1 DEF CommitCancel, At, Refers
      <4>2. CASE r # call[c].request
        BY <1>2, <2>8, <4>2 DEF CommitCancel
      <4> QED
        BY <4>1, <4>2
    <3> QED
      BY <2>2, <3>1, <3>2
  <2>9. CASE ~Writes(c)
    BY <1>2, <2>2, <2>9, OnlyWritesWrite
  <2> QED
    BY <2>1, <2>4, <2>5, <2>6, <2>7, <2>8, <2>9 DEF Writes
<1> QED
  BY <1>1, <1>2 DEF ColumnsAgree

LEMMA WorkflowKeepsNames ==
  ASSUME SystemInv, RequestsInv', RowsKeep, UNCHANGED job,
         NEW c \in Calls, Arrive(c) \/ Proceed(c) \/ Interrupt(c)
  PROVE  OneName'
<1> USE DEF SystemInv, RequestsInv
<1>1. \A d \in Calls \ {c} : call'[d] = call[d]
  BY OneHandlerMoves DEF Refs
<1>2. ASSUME NEW g \in Assignments, NEW r \in Requests, NEW d \in Calls, NamedBy(d, g, r)'
      PROVE  /\ Named(g, r)
             /\ assignment[g].status # "absent"
  <2>1. CASE d = c
    <3>1. Names(c, g)' /\ call'[c].request = r
      BY <1>2, <2>1 DEF NamedBy
    <3>2. /\ UNCHANGED tables
          /\ \/ assignment[g].request = r
             \/ Names(c, g) /\ call[c].request = r
      <4>1. RequestsTypeOK
        BY DEF Refs
      <4>2. /\ UNCHANGED tables
            /\ \/ assignment[g].status # "absent"
                    /\ assignment[g].request = call'[c].request
               \/ Names(c, g) /\ call'[c].request = call[c].request
        <5> HIDE DEF SystemInv, RequestsInv
        <5> QED
          BY <3>1, <4>1, NamedNow, Zenon
      <4> QED
        BY <3>1, <4>2
    <3>3. assignment'[g].status # "absent"
      BY <3>1 DEF CallsReady, CallReady, LinksReady
    <3> QED
      BY <3>2, <3>3 DEF Named, NamedBy, tables
  <2>2. CASE d # c
    <3>1. NamedBy(d, g, r)
      BY <1>1, <1>2, <2>2 DEF NamedBy, Names
    <3>2. LinksReady(d)
      BY DEF CallsReady, CallReady
    <3> QED
      BY <3>1, <3>2 DEF Named, NamedBy, LinksReady
  <2> QED
    BY <2>1, <2>2
<1>3. ASSUME NEW g \in Assignments
      PROVE  \/ \A r \in Requests : Named(g, r)' => Named(g, r)
             \/ \A r \in Requests : Named(g, r)' => assignment'[g].request = r
  <2>1. CASE assignment[g].status # "absent"
    <3>1. \A r \in Requests : assignment'[g].request = r => Named(g, r)
      BY <2>1, NoneAssumption DEF RowsKeep, Named, NamedBy
    <3>2. \A r \in Requests : r # None
      BY NoneAssumption
    <3>3. \A j \in Jobs : Brings(j, g)' <=> Brings(j, g)
      BY DEF Brings
    <3> QED
      BY <1>2, <3>1, <3>2, <3>3 DEF Named
  <2>2. CASE assignment[g].status = "absent"
    <3>1. \A j \in Jobs : ~Brings(j, g)'
      BY <2>2 DEF Brings, InventoryInv, LocalsOK, Fits
    <3> QED
      BY <1>2, <2>2, <3>1 DEF Named
  <2> QED
    BY <2>1, <2>2
<1> QED
  BY <1>3, OneNameStep

LEMMA WorkflowKeepsLoans ==
  ASSUME SystemInv, RowsKeep, UNCHANGED job,
         NEW c \in Calls, Arrive(c) \/ Proceed(c) \/ Interrupt(c)
  PROVE  LoansSurvive'
<1> USE DEF SystemInv, RequestsInv
<1> SUFFICES ASSUME NEW r \in Requests, FulfilledLoan(r)'
             PROVE  \E g \in Assignments : Witness(g, r)' /\ Kept(g, r)'
  BY DEF LoansSurvive
<1>1. CASE FulfilledLoan(r)
  <2>1. PICK g \in Assignments : Witness(g, r) /\ Kept(g, r)
    BY <1>1 DEF LoansSurvive
  <2>2. Witness(g, r)'
    BY <1>1, <2>1, LinkedTo, WitnessStays DEF Refs
  <2>3. Kept(g, r)'
    BY <2>1 DEF Kept, Brings
  <2> QED
    BY <2>2, <2>3
<1>2. CASE ~FulfilledLoan(r)
  <2>1. PICK g \in Assignments : assignment[g] = NoAssignment /\ Witness(g, r)'
    BY <1>2, LinksMade, WitnessMade DEF Refs, CallsRefer, CallsReady, CallReady
  <2>2. Kept(g, r)'
    BY <2>1 DEF Kept, Brings, InventoryInv, LocalsOK, Fits, NoAssignment
  <2> QED
    BY <2>1, <2>2
<1> QED
  BY <1>1, <1>2

LEMMA WorkflowInv ==
  ASSUME SystemInv, WorkflowStep
  PROVE  SystemInv'
<1> PICK c \in Calls : Arrive(c) \/ Proceed(c) \/ Interrupt(c)
  BY DEF WorkflowStep
<1>1. UNCHANGED job /\ [RequestsNext]_requestVars
  BY DEF WorkflowStep, RequestsNext
<1>2. RequestsInv'
  BY <1>1, InvStep DEF SystemInv
<1>3. RowsKeep /\ RequestsTypeOK'
  BY <1>1, <1>2, TablesStep DEF SystemInv, RequestsInv, Refs
<1>4. JobsReady'
  <2> SUFFICES ASSUME NEW j \in Jobs PROVE JobReady(job[j])'
    BY DEF JobsReady
  <2>1. job[j] \in Job /\ LocalsOK(job[j]) /\ JobReady(job[j])
    BY RowsTyped DEF SystemInv, JobsReady
  <2> QED
    BY <1>1, <1>3, <2>1, ActedStays, JobReadyStays DEF RowsKeep
<1>5. ColumnsAgree'
  BY <1>3, WorkflowKeepsColumns
     DEF SystemInv, RequestsInv, Refs, CallsRefer, CallsReady, CallReady
<1> QED
  BY <1>1, <1>2, <1>3, <1>4, <1>5, WorkflowKeepsInventory, WorkflowKeepsNames,
     WorkflowKeepsLoans DEF SystemInv

-----------------------------------------------------------------------------
(* A step of the inventory: what every action of a handler has in common.  *)

\* What handler j may do to the tables.  A deleted assignment stays as it is.
InventoryKeeps(j) ==
  /\ UNCHANGED step
  /\ UNCHANGED request \/ FulfilRequest(j)
  /\ \A a \in Assets : asset[a].model # None => asset'[a].model = asset[a].model
  /\ \A a \in Assets : asset'[a].status # "absent" => asset'[a].model # None
  /\ \A g \in Assignments : assignment[g].status # "absent" =>
       /\ assignment'[g].status # "absent"
       /\ assignment'[g].asset = assignment[g].asset
       /\ assignment'[g].employee = assignment[g].employee
       /\ \/ assignment'[g].request = assignment[g].request
          \/ Brings(j, g) /\ assignment'[g].request = job[j].links
  /\ \A g \in Assignments :
       assignment[g].status = "absent" /\ assignment[g] # NoAssignment =>
         assignment'[g] = assignment[g]

\* A handler that returns an assignment holds the link it has loaded.
HoldsLink(j) ==
  \A g \in Assignments : Brings(j, g)' =>
    /\ assignment[g].asset \in Assets
    /\ \/ Brings(j, g) /\ job'[j].links = job[j].links
       \/ job'[j].links = assignment[g].request /\ UNCHANGED assignment

\* A handler that is to fulfil its request was so before, or has just read it
\* as approved.
StillFulfils(j) ==
  job'[j].fulfils =>
    \/ job[j].fulfils /\ job'[j].request = job[j].request
    \/ /\ UNCHANGED tables
       /\ job'[j].request \in Requests
       /\ request[job'[j].request].status = "procurement_approved"

Effect(j) ==
  /\ \A i \in Jobs \ {j} : job'[i] = job[i]
  /\ EntityReady(job[j])'
  /\ HoldsLink(j)
  /\ StillFulfils(j)
  /\ InventoryKeeps(j)

LEMMA JobsTyped ==
  ASSUME JobsFit
  PROVE  /\ asset \in [Assets -> EquipmentAsset]
         /\ assignment \in [Assignments -> EquipmentAssignment]
         /\ \A a \in Assets : asset[a] \in EquipmentAsset
         /\ \A g \in Assignments : assignment[g] \in EquipmentAssignment
         /\ \A j \in Jobs :
              job[j] \in Job /\ Fits(job[j]) /\ EntityReady(job[j])
  BY RowsFit DEF JobsFit

\* The tables as they were.
LEMMA NothingWritten ==
  ASSUME JobsFit, NEW j \in Jobs, UNCHANGED tables
  PROVE  InventoryKeeps(j)
  BY DEF InventoryKeeps, tables, JobsFit, ColumnsAgree

\* Only the assets are written, and every asset there keeps its model.
LEMMA AssetsWritten ==
  ASSUME JobsFit, NEW j \in Jobs, UNCHANGED <<request, step, assignment>>,
         \A a \in Assets : asset[a].model # None => asset'[a].model = asset[a].model,
         \A a \in Assets : asset'[a].status # "absent" => asset'[a].model # None
  PROVE  InventoryKeeps(j)
  BY DEF InventoryKeeps

LEMMA OneJobMoves ==
  ASSUME InventoryTypeOK, NEW j \in Jobs, NEW l, job' = [job EXCEPT ![j] = l]
  PROVE  job'[j] = l /\ \A i \in Jobs \ {j} : job'[i] = job[i]
  BY DEF InventoryTypeOK

\* The handler ends.
LEMMA FinishEffect ==
  ASSUME JobsFit, NEW j \in Jobs, Finish(j), InventoryKeeps(j)
  PROVE  Effect(j)
<1>1. job'[j] = NoJob /\ \A i \in Jobs \ {j} : job'[i] = job[i]
  BY OneJobMoves DEF Finish, JobsFit, InventoryFits
<1>2. EntityReady(job[j])' /\ HoldsLink(j) /\ StillFulfils(j)
  BY <1>1 DEF EntityReady, HoldsLink, StillFulfils, Brings, NoJob, Returns
<1> QED
  BY <1>1, <1>2 DEF Effect

\* The handler starts, on an asset that is there.
LEMMA LoadEffect ==
  ASSUME JobsFit, NEW j \in Jobs, NEW l, job' = [job EXCEPT ![j] = l],
         UNCHANGED tables,
         l.asset \in Assets, asset[l.asset].status # "absent",
         l.entity.model = asset[l.asset].model,
         l.pc # "inserted", ~l.fulfils,
         l.op \in Returns => /\ assignment[l.assignment].asset \in Assets
                             /\ l.links = assignment[l.assignment].request
  PROVE  Effect(j)
<1>1. job'[j] = l /\ \A i \in Jobs \ {j} : job'[i] = job[i]
  BY OneJobMoves DEF JobsFit, InventoryFits
<1>2. EntityReady(job[j])'
  BY <1>1 DEF EntityReady, JobsFit, ColumnsAgree, tables
<1>3. HoldsLink(j) /\ StillFulfils(j)
  BY <1>1 DEF HoldsLink, StillFulfils, Brings, tables
<1> QED
  BY <1>1, <1>2, <1>3, NothingWritten DEF Effect

\* The locals l carry on the work of k.
SameWork(l, k) ==
  /\ l.op = k.op /\ l.asset = k.asset /\ l.entity = k.entity
  /\ l.assignment = k.assignment /\ l.links = k.links

\* The handler goes on.
LEMMA MoveEffect ==
  ASSUME JobsFit, NEW j \in Jobs, NEW l, job' = [job EXCEPT ![j] = l],
         SameWork(l, job[j]), InventoryKeeps(j),
         l.pc = "inserted" => l.fulfils,
         l.fulfils =>
           \/ job[j].fulfils /\ l.request = job[j].request
           \/ /\ UNCHANGED tables
              /\ l.request \in Requests
              /\ request[l.request].status = "procurement_approved"
  PROVE  Effect(j)
<1>1. job'[j] = l /\ \A i \in Jobs \ {j} : job'[i] = job[i]
  BY OneJobMoves DEF JobsFit, InventoryFits
<1>2. Fits(job[j]) /\ EntityReady(job[j])
  BY JobsTyped
<1>3. EntityReady(job[j])'
  <2>1. l.op # "none" => /\ l.entity.model = asset'[l.asset].model
                         /\ l.entity.model # None
    BY <1>2 DEF SameWork, Fits, EntityReady, InventoryKeeps
  <2> QED
    BY <1>1, <2>1 DEF EntityReady
<1>4. HoldsLink(j)
  BY <1>1, <1>2 DEF HoldsLink, Brings, SameWork, Fits
<1>5. StillFulfils(j)
  BY <1>1 DEF StillFulfils
<1> QED
  BY <1>1, <1>3, <1>4, <1>5 DEF Effect

\* The handler goes on, but for its place as it was.
LEMMA GotoEffect ==
  ASSUME JobsFit, NEW j \in Jobs,
         NEW pc \in {"missing", "saved", "found", "inserted", "deletable", "done"},
         Move(j, pc), InventoryKeeps(j), pc = "inserted" => job[j].fulfils
  PROVE  Effect(j)
<1>1. job[j] \in Job
  BY JobsTyped
<1>2. PICK l : l = [job[j] EXCEPT !.pc = pc]
  OBVIOUS
<1>3. /\ job' = [job EXCEPT ![j] = l]
      /\ SameWork(l, job[j]) /\ l.pc = pc
      /\ l.request = job[j].request /\ l.fulfils = job[j].fulfils
  BY <1>1, <1>2 DEF Move, SameWork, Job
<1> QED
  BY <1>3, MoveEffect

-----------------------------------------------------------------------------
(* The actions that start a handler.                                       *)

LEMMA LoadedEffect ==
  ASSUME JobsFit, NEW j \in Jobs, NEW a \in Assets, NEW entity, NEW columns,
         entity.model = asset[a].model, Load(j, "save", a, entity, columns)
  PROVE  Effect(j)
<1> DEFINE l == [NoJob EXCEPT !.op = "save", !.pc = "loaded", !.asset = a,
                              !.entity = entity, !.columns = columns,
                              !.history = HistoryOf(a)]
<1>1. /\ job' = [job EXCEPT ![j] = l] /\ UNCHANGED tables
      /\ asset[a].status # "absent"
  BY DEF Load
<1>2. l.op = "save" /\ l.pc = "loaded" /\ l.asset = a /\ l.entity = entity /\ ~l.fulfils
  BY DEF NoJob
<1> HIDE DEF l
<1> QED
  BY <1>1, <1>2, LoadEffect DEF Returns

LEMMA AssignEffect ==
  ASSUME JobsFit, NEW j \in Jobs, NEW a \in Assets, NEW u \in Employees,
         NEW r \in Requests \cup {None}, Assign(j, a, u, r)
  PROVE  Effect(j)
<1> DEFINE entity == [asset[a] EXCEPT !.status = "in_use", !.assignedEmployee = u]
           l == [NoJob EXCEPT !.op = "assign", !.pc = "loaded", !.asset = a,
                   !.entity = entity, !.columns = AssetColumns,
                   !.history = HistoryOf(a), !.employee = u, !.request = r]
<1>1. entity.model = asset[a].model
  BY JobsTyped DEF EquipmentAsset
<1>2. /\ job' = [job EXCEPT ![j] = l] /\ UNCHANGED tables
      /\ asset[a].status # "absent"
  BY DEF Assign
<1> HIDE DEF entity
<1>3. l.op = "assign" /\ l.pc = "loaded" /\ l.asset = a /\ l.entity = entity /\ ~l.fulfils
  BY DEF NoJob
<1> HIDE DEF l
<1> QED
  BY <1>1, <1>2, <1>3, LoadEffect DEF Returns

LEMMA LoadAssignmentEffect ==
  ASSUME JobsFit, NEW j \in Jobs, NEW g \in Assignments, NEW op \in Returns,
         NEW status, assignment[g].status # "absent", LoadAssignment(j, op, g, status)
  PROVE  Effect(j)
<1> DEFINE a == assignment[g].asset
           entity == [asset[a] EXCEPT !.status = status]
           l == [NoJob EXCEPT !.op = op, !.pc = "loaded", !.asset = a,
                   !.entity = entity, !.columns = AssetColumns \ {"assignedEmployee"},
                   !.history = Assignments,
                   !.assignment = g, !.links = assignment[g].request]
<1>1. a \in Assets /\ asset[a].status # "absent"
  BY DEF JobsFit, InventoryFits, HistoryKeepsAsset
<1>2. entity.model = asset[a].model
  BY <1>1, JobsTyped DEF EquipmentAsset
<1>3. job' = [job EXCEPT ![j] = l] /\ UNCHANGED tables
  BY DEF LoadAssignment
<1> HIDE DEF entity
<1>4. /\ l.op = op /\ l.pc = "loaded" /\ l.asset = a /\ l.entity = entity /\ ~l.fulfils
      /\ l.assignment = g /\ l.links = assignment[g].request
  BY DEF NoJob
<1> HIDE DEF l
<1> QED
  BY <1>1, <1>2, <1>3, <1>4, LoadEffect

LEMMA FindRemovableEffect ==
  ASSUME JobsFit, NEW j \in Jobs, NEW a \in Assets, FindRemovable(j, a)
  PROVE  Effect(j)
<1> DEFINE pc == IF asset[a].status = "retired" THEN "deletable" ELSE "counting"
           l == [NoJob EXCEPT !.op = "remove", !.asset = a, !.entity = asset[a], !.pc = pc]
<1>1. /\ job' = [job EXCEPT ![j] = l] /\ UNCHANGED tables
      /\ asset[a].status # "absent"
  BY DEF FindRemovable
<1>2. /\ l.op = "remove" /\ l.pc # "inserted" /\ l.asset = a
      /\ l.entity = asset[a] /\ ~l.fulfils
  BY DEF NoJob
<1> HIDE DEF l
<1> QED
  BY <1>1, <1>2, LoadEffect DEF Returns

\* A new asset takes a row that no asset, not even a deleted one, had.
LEMMA CreateAssetEffect ==
  ASSUME JobsFit, NEW j \in Jobs, NEW a \in Assets, NEW model \in Models,
         NEW status \in Manual \cup {"available"}, CreateAsset(j, a, model, status)
  PROVE  Effect(j)
<1> DEFINE row == [status |-> status, model |-> model, assignedEmployee |-> None,
                   retiredAt |-> None]
<1>1. /\ asset' = [asset EXCEPT ![a] = row] /\ asset[a].model = None
      /\ UNCHANGED <<request, step, assignment, job>>
  BY DEF CreateAsset, FreeAssets, NoAsset
<1>2. row.model # None
  BY NoneAssumption
<1> HIDE DEF row
<1>3. /\ \A b \in Assets : asset[b].model # None => asset'[b].model = asset[b].model
      /\ \A b \in Assets : asset'[b].status # "absent" => asset'[b].model # None
  BY <1>1, <1>2, JobsTyped DEF JobsFit, ColumnsAgree
<1>4. InventoryKeeps(j)
  BY <1>1, <1>3, AssetsWritten
<1>5. EntityReady(job[j])'
  <2>1. Fits(job[j]) /\ EntityReady(job[j])
    BY JobsTyped
  <2> QED
    BY <1>1, <1>3, <2>1 DEF EntityReady, Fits
<1>6. HoldsLink(j) /\ StillFulfils(j)
  BY <1>1, JobsTyped DEF HoldsLink, StillFulfils, Brings, Fits
<1> QED
  BY <1>1, <1>4, <1>5, <1>6 DEF Effect

LEMMA StartJobEffect ==
  ASSUME JobsFit, NEW j \in Jobs, StartJob(j)
  PROVE  Effect(j)
<1>1. ASSUME NEW a \in Assets, Update(j, a)
      PROVE  Effect(j)
  BY <1>1, LoadedEffect DEF Update
<1>2. ASSUME NEW a \in Assets, NEW status \in Manual, UpdateStatus(j, a, status)
      PROVE  Effect(j)
  <2>1. [asset[a] EXCEPT !.status = status].model = asset[a].model
    BY JobsTyped DEF EquipmentAsset
  <2> QED
    BY <1>2, <2>1, LoadedEffect DEF UpdateStatus
<1>3. ASSUME NEW a \in Assets, Retire(j, a)
      PROVE  Effect(j)
  <2>1. [asset[a] EXCEPT !.status = "retired", !.retiredAt = "set"].model
          = asset[a].model
    BY JobsTyped DEF EquipmentAsset
  <2> QED
    BY <1>3, <2>1, LoadedEffect DEF Retire
<1>4. ASSUME NEW g \in Assignments, RequestReturn(j, g) \/ CompleteReturn(j, g)
      PROVE  Effect(j)
  BY <1>4, LoadAssignmentEffect DEF RequestReturn, CompleteReturn, Returns
<1> QED
  BY <1>1, <1>2, <1>3, <1>4, CreateAssetEffect, AssignEffect, FindRemovableEffect
     DEF StartJob

-----------------------------------------------------------------------------
(* The actions of a handler that goes on.                                  *)

LEMMA CompareAssetEffect ==
  ASSUME JobsFit, NEW j \in Jobs, CompareAsset(j)
  PROVE  Effect(j)
<1> DEFINE a == job[j].asset
           columns == {k \in job[j].columns : job[j].entity[k] # asset[a][k]}
<1>1. PICK l : l = [job[j] EXCEPT !.pc = "compared", !.columns = columns]
  OBVIOUS
<1>2. /\ UNCHANGED tables
      /\ \/ Move(j, "missing")
         \/ job' = [job EXCEPT ![j] = l]
         \/ Finish(j)
  BY <1>1 DEF CompareAsset
<1>3. InventoryKeeps(j)
  BY <1>2, NothingWritten
<1>4. CASE job' = [job EXCEPT ![j] = l]
  <2>1. /\ SameWork(l, job[j]) /\ l.pc = "compared"
        /\ l.request = job[j].request /\ l.fulfils = job[j].fulfils
    BY <1>1, JobsTyped DEF SameWork, Job
  <2> QED
    BY <1>3, <1>4, <2>1, MoveEffect
<1> QED
  BY <1>2, <1>3, <1>4, GotoEffect, FinishEffect

\* The asset of a handler's save is written, with the model it has.
LEMMA SavedEffect ==
  ASSUME JobsFit, NEW j \in Jobs, AssetSaved(j), InventoryKeeps(j)
  PROVE  Effect(j)
  BY GotoEffect, FinishEffect DEF AssetSaved

LEMMA WriteAssetEffect ==
  ASSUME JobsFit, NEW j \in Jobs, WriteAsset(j)
  PROVE  Effect(j)
<1> DEFINE a == job[j].asset
           row == [k \in DOMAIN asset[a] |->
                     IF k \in job[j].columns THEN job[j].entity[k] ELSE asset[a][k]]
<1>1. /\ job[j].pc = "compared" /\ AssetSaved(j)
      /\ UNCHANGED <<request, step, assignment>>
      /\ asset' = IF asset[a].status = "absent" THEN asset
                                                ELSE [asset EXCEPT ![a] = row]
  BY DEF WriteAsset
<1>2. a \in Assets /\ asset[a] \in EquipmentAsset /\ job[j].columns \subseteq AssetColumns
  BY <1>1, JobsTyped DEF Fits, Job
<1>3. row.model = asset[a].model
  BY <1>2 DEF EquipmentAsset, AssetColumns
<1> HIDE DEF row
<1>4. InventoryKeeps(j)
  BY <1>1, <1>2, <1>3, JobsTyped, AssetsWritten DEF JobsFit, ColumnsAgree
<1> QED
  BY <1>1, <1>4, SavedEffect

LEMMA InsertMissingEffect ==
  ASSUME JobsFit, NEW j \in Jobs, InsertMissing(j)
  PROVE  Effect(j)
<1> DEFINE a == job[j].asset
           x == job[j].entity
           holder == IF "assignedEmployee" \in job[j].columns
                       THEN x.assignedEmployee ELSE None
           row == [x EXCEPT !.assignedEmployee = holder]
<1>1. /\ job[j].pc = "missing" /\ UNCHANGED <<request, step, assignment, notice>>
      /\ \/ asset' = [asset EXCEPT ![a] = row] /\ AssetSaved(j)
         \/ Finish(j) /\ UNCHANGED asset
  BY DEF InsertMissing
<1>2. /\ a \in Assets /\ x \in EquipmentAsset
      /\ x.model = asset[a].model /\ x.model # None
  BY <1>1, JobsTyped DEF Fits, Job, EntityReady
<1>3. row.model = x.model
  BY <1>2 DEF EquipmentAsset
<1> HIDE DEF row
<1>4. CASE asset' = [asset EXCEPT ![a] = row] /\ AssetSaved(j)
  <2>1. InventoryKeeps(j)
    BY <1>1, <1>2, <1>3, <1>4, JobsTyped, AssetsWritten DEF JobsFit, ColumnsAgree
  <2> QED
    BY <1>4, <2>1, SavedEffect
<1>5. CASE Finish(j) /\ UNCHANGED asset
  BY <1>1, <1>5, NothingWritten, FinishEffect DEF tables
<1> QED
  BY <1>1, <1>4, <1>5

LEMMA FindRequestEffect ==
  ASSUME JobsFit, NEW j \in Jobs, FindRequest(j)
  PROVE  Effect(j)
<1> DEFINE found == {r \in {job[j].request} \cap Requests : request[r].status # "absent"}
           f == \E r \in found : request[r].status = "procurement_approved"
           r1 == IF found = {} THEN None ELSE job[j].request
<1>1. PICK l : l = [job[j] EXCEPT !.pc = "found", !.request = r1, !.fulfils = f]
  OBVIOUS
<1>2. UNCHANGED tables /\ job' = [job EXCEPT ![j] = l]
  BY <1>1 DEF FindRequest
<1>3. f => /\ r1 \in Requests /\ request[r1].status = "procurement_approved"
  OBVIOUS
<1> HIDE DEF f, r1
<1>4. SameWork(l, job[j]) /\ l.pc = "found" /\ l.request = r1 /\ l.fulfils = f
  BY <1>1, JobsTyped DEF SameWork, Job
<1> QED
  BY <1>2, <1>3, <1>4, NothingWritten, MoveEffect

LEMMA InsertAssignmentEffect ==
  ASSUME JobsFit, NEW j \in Jobs, NEW g \in Assignments, InsertAssignment(j, g)
  PROVE  Effect(j)
<1>1. CASE asset[job[j].asset].status = "absent"
  <2>1. Finish(j) /\ UNCHANGED tables
    BY <1>1 DEF InsertAssignment, tables
  <2> QED
    BY <2>1, NothingWritten, FinishEffect
<1>2. CASE asset[job[j].asset].status # "absent"
  <2>1. /\ assignment[g] = NoAssignment /\ assignment[g].status = "absent"
        /\ \A h \in Assignments : h # g => assignment'[h] = assignment[h]
        /\ UNCHANGED <<request, step, asset>>
        /\ IF job[j].fulfils THEN Move(j, "inserted") ELSE Finish(j)
    BY <1>2, JobsTyped DEF InsertAssignment, FreeAssignments, NoAssignment
  <2>2. InventoryKeeps(j)
    BY <2>1 DEF InventoryKeeps, JobsFit, ColumnsAgree
  <2> QED
    BY <2>1, <2>2, GotoEffect, FinishEffect
<1> QED
  BY <1>1, <1>2

LEMMA FulfilRequestEffect ==
  ASSUME JobsFit, NEW j \in Jobs, FulfilRequest(j)
  PROVE  Effect(j)
<1>1. InventoryKeeps(j)
  BY DEF FulfilRequest, InventoryKeeps, JobsFit, ColumnsAgree
<1> QED
  BY <1>1, GotoEffect DEF FulfilRequest

LEMMA CountHistoryEffect ==
  ASSUME JobsFit, NEW j \in Jobs, CountHistory(j)
  PROVE  Effect(j)
  BY NothingWritten, GotoEffect, FinishEffect DEF CountHistory

LEMMA DeleteEffect ==
  ASSUME JobsFit, NEW j \in Jobs, Delete(j)
  PROVE  Effect(j)
<1> DEFINE row(a) == [asset[a] EXCEPT !.status = "absent"]
<1>1. /\ UNCHANGED <<request, step, assignment>> /\ Finish(j)
      /\ \/ asset' = [asset EXCEPT ![job[j].asset] = row(job[j].asset)]
         \/ UNCHANGED asset
  BY DEF Delete
<1>2. \A a \in Assets : row(a).model = asset[a].model /\ row(a).status = "absent"
  BY JobsTyped DEF EquipmentAsset
<1> HIDE DEF row
<1>3. InventoryKeeps(j)
  BY <1>1, <1>2, JobsTyped, AssetsWritten DEF JobsFit, ColumnsAgree
<1> QED
  BY <1>1, <1>3, FinishEffect

LEMMA CompareAssignmentEffect ==
  ASSUME JobsFit, NEW j \in Jobs, CompareAssignment(j)
  PROVE  Effect(j)
<1> DEFINE g == job[j].assignment
           dirty == {k \in {"status", "request"} :
             (k = "status" /\ assignment[g].status # ReturnStatus(j))
               \/ (k = "request" /\ assignment[g].request # job[j].links)}
<1>1. PICK l : l = [job[j] EXCEPT !.pc = "matched", !.dirty = dirty]
  OBVIOUS
<1>2. UNCHANGED tables /\ job' = [job EXCEPT ![j] = l]
  BY <1>1 DEF CompareAssignment
<1>3. InventoryKeeps(j)
  BY <1>2, NothingWritten
<1>4. /\ SameWork(l, job[j]) /\ l.pc = "matched"
      /\ l.request = job[j].request /\ l.fulfils = job[j].fulfils
  BY <1>1, JobsTyped DEF SameWork, Job
<1> QED
  BY <1>2, <1>3, <1>4, MoveEffect

\* The one write that may bring a link back.
LEMMA WriteAssignmentEffect ==
  ASSUME JobsFit, NEW j \in Jobs, WriteAssignment(j),
         assignment[job[j].assignment].status # "absent"
  PROVE  Effect(j)
<1> DEFINE g == job[j].assignment
           dirty == job[j].dirty
           status == IF "status" \in dirty THEN ReturnStatus(j) ELSE assignment[g].status
           link == IF "request" \in dirty THEN job[j].links ELSE assignment[g].request
           row == [assignment[g] EXCEPT
                     !.status = IF "status" \in dirty THEN ReturnStatus(j) ELSE @,
                     !.request = IF "request" \in dirty THEN job[j].links ELSE @]
<1>1. /\ job[j].pc = "matched" /\ Move(j, "done")
      /\ UNCHANGED <<request, step, asset>>
      /\ assignment' = [assignment EXCEPT ![g] = row]
  BY DEF WriteAssignment
<1>2. /\ g \in Assignments /\ assignment[g] \in EquipmentAssignment
      /\ assignment[g].status # "absent" /\ Brings(j, g)
  BY <1>1, JobsTyped DEF Fits, Brings
<1>3. /\ row.status # "absent" /\ row.asset = assignment[g].asset
      /\ row.employee = assignment[g].employee
      /\ row.request \in {assignment[g].request, job[j].links}
  <2>1. row = [assignment[g] EXCEPT !.status = status, !.request = link]
    BY <1>2 DEF EquipmentAssignment
  <2>2. status # "absent" /\ link \in {assignment[g].request, job[j].links}
    BY <1>2 DEF ReturnStatus
  <2> HIDE DEF status, link, row
  <2> QED
    BY <1>2, <2>1, <2>2 DEF EquipmentAssignment
<1> HIDE DEF row
<1>4. \A h \in Assignments : assignment'[h] = IF h = g THEN row ELSE assignment[h]
  BY <1>1, <1>2, JobsTyped
<1>5. InventoryKeeps(j)
  BY <1>1, <1>2, <1>3, <1>4 DEF InventoryKeeps, JobsFit, ColumnsAgree
<1> QED
  BY <1>1, <1>5, GotoEffect

LEMMA ContinueJobEffect ==
  ASSUME JobsFit, NEW j \in Jobs, ContinueJob(j),
         WriteAssignment(j) => assignment[job[j].assignment].status # "absent"
  PROVE  Effect(j)
<1>1. CASE NotifyHolder(j)
  <2>1. UNCHANGED <<request, step, asset, assignment>> /\ Finish(j)
    BY <1>1 DEF NotifyHolder
  <2>2. InventoryKeeps(j)
    BY <2>1 DEF InventoryKeeps, JobsFit, ColumnsAgree
  <2> QED
    BY <2>1, <2>2, FinishEffect
<1> QED
  BY <1>1, CompareAssetEffect, WriteAssetEffect, InsertMissingEffect,
     FindRequestEffect, InsertAssignmentEffect, FulfilRequestEffect,
     CountHistoryEffect, DeleteEffect, CompareAssignmentEffect,
     WriteAssignmentEffect DEF ContinueJob

LEMMA InventoryEffect ==
  ASSUME JobsFit, NEW j \in Jobs, StartJob(j) \/ ContinueJob(j) \/ CutOff(j),
         WriteAssignment(j) => assignment[job[j].assignment].status # "absent"
  PROVE  Effect(j)
  BY StartJobEffect, ContinueJobEffect, NothingWritten, FinishEffect DEF CutOff

-----------------------------------------------------------------------------
(* A step of the inventory: the invariant.                                 *)

LEMMA SystemEffect ==
  ASSUME SystemInv, NEW j \in Jobs, StartJob(j) \/ ContinueJob(j) \/ CutOff(j)
  PROVE  Effect(j)
<1>1. JobsFit
  BY FitsInv DEF SystemInv, JobsFit, JobsReady, JobReady
<1>2. WriteAssignment(j) => assignment[job[j].assignment].status # "absent"
  BY DEF SystemInv, InventoryInv, LocalsOK, Fits, WriteAssignment
<1> QED
  BY <1>1, <1>2, InventoryEffect

\* What a step of the inventory does to a request.
LEMMA RequestsAfter ==
  ASSUME SystemInv, NEW j \in Jobs, InventoryKeeps(j), NEW r \in Requests
  PROVE  \/ request'[r] = request[r]
         \/ /\ request'[r] = [request[r] EXCEPT !.status = "fulfilled"]
            /\ request[r].status # "absent"
            /\ request[r].type = "procurement"
            /\ HasStep(r, "procurement_manager", FALSE)
<1>1. CASE FulfilRequest(j)
  <2>1. /\ job[j].pc = "inserted"
        /\ request' = [request EXCEPT ![job[j].request].status = "fulfilled"]
    BY <1>1 DEF FulfilRequest
  <2>2. JobReady(job[j]) /\ LocalsOK(job[j])
    BY DEF SystemInv, JobsReady, InventoryInv
  <2>3. request \in [Requests -> EquipmentRequest]
    BY DEF SystemInv, InventoryInv, InventoryTypeOK, TablesTypeOK
  <2>4. CASE r = job[j].request
    BY <2>1, <2>2, <2>3, <2>4 DEF JobReady, EntityReady, FulfilReady
  <2>5. CASE r # job[j].request
    BY <2>1, <2>3, <2>5
  <2> QED
    BY <2>4, <2>5
<1> QED
  BY <1>1 DEF InventoryKeeps

\* No row of a request goes, none changes but for its status.
LEMMA RequestsStay ==
  ASSUME SystemInv, NEW j \in Jobs, InventoryKeeps(j), NEW r \in Requests
  PROVE  /\ request'[r].type = request[r].type
         /\ request'[r].requester = request[r].requester
         /\ request'[r].model = request[r].model
         /\ (request'[r].status = "absent") = (request[r].status = "absent")
         /\ request'[r].status = "procurement_approved"
              => request[r].status = "procurement_approved"
         /\ request[r].type = "loan" => request'[r].status = request[r].status
<1>1. request[r] \in EquipmentRequest
  BY DEF SystemInv, InventoryInv, InventoryTypeOK, TablesTypeOK
<1> QED
  BY <1>1, RequestsAfter DEF EquipmentRequest

LEMMA InventoryKeepsRefs ==
  ASSUME SystemInv, InventoryInv', UNCHANGED call, NEW j \in Jobs, InventoryKeeps(j)
  PROVE  Refs'
<1> USE DEF SystemInv, RequestsInv, Refs
<1>1. RequestsTypeOK'
  BY DEF RequestsTypeOK, InventoryInv, InventoryTypeOK
<1>2. StepsBelong'
  BY RequestsStay DEF StepsBelong, InventoryKeeps
<1>3. CallsRefer'
  BY RequestsStay DEF CallsRefer, Refers, InventoryKeeps
<1> QED
  BY <1>1, <1>2, <1>3

LEMMA InventoryKeepsCalls ==
  ASSUME SystemInv, UNCHANGED call, NEW j \in Jobs, InventoryKeeps(j)
  PROVE  CallsReady'
<1> SUFFICES ASSUME NEW c \in Calls PROVE CallReady(c)'
  BY DEF CallsReady
<1>1. CallReady(c) /\ Refers(c) /\ step' = step /\ call' = call
  BY DEF SystemInv, RequestsInv, Refs, CallsReady, CallsRefer, InventoryKeeps
<1>2. RejectionReady(c)'
  BY <1>1 DEF CallReady, RejectionReady, At
<1>3. LoanReady(c)'
  <2> SUFFICES ASSUME At(c, "approve", "ready")
               PROVE  /\ call[c].asset \in Assets
                      /\ asset'[call[c].asset].model = request'[call[c].request].model
                      /\ step[call[c].step].role = "procurement_manager"
                      /\ request'[call[c].request].type = "loan"
    BY <1>1 DEF LoanReady, At
  <2>1. /\ call[c].asset \in Assets
        /\ asset[call[c].asset].model = request[call[c].request].model
        /\ step[call[c].step].role = "procurement_manager"
        /\ request[call[c].request].type = "loan"
    BY <1>1 DEF CallReady, LoanReady
  <2>2. call[c].request \in Requests /\ request[call[c].request].status # "absent"
    BY <1>1 DEF Refers, At
  <2>3. request[call[c].request].model # None
    BY <2>1, <2>2 DEF SystemInv, ColumnsAgree
  <2> QED
    BY <2>1, <2>2, <2>3, RequestsStay DEF InventoryKeeps
<1>4. DecisionReady(c)'
  BY <1>1 DEF CallReady, DecisionReady
<1>5. LinksReady(c)'
  <2> SUFFICES ASSUME NEW g \in Assignments, Names(c, g)
               PROVE  /\ assignment'[g].status # "absent"
                      /\ assignment'[g].request \in {call[c].request, None}
    BY <1>1 DEF LinksReady, Names
  <2>1. job[j].links \in Requests \cup {None}
    BY RowsTyped DEF SystemInv, Job
  <2>2. call[c].request \in Requests
    BY <1>1 DEF Refers, Names
  <2>3. /\ assignment[g].status # "absent"
        /\ assignment[g].request \in {call[c].request, None}
    BY <1>1 DEF CallReady, LinksReady
  <2>4. Brings(j, g) => job[j].links \in {call[c].request, None}
    <3>1. NamedBy(c, g, call[c].request)
      BY DEF NamedBy
    <3> QED
      BY <2>1, <2>2, <3>1 DEF SystemInv, OneName, Named
  <2> QED
    BY <2>1, <2>3, <2>4 DEF InventoryKeeps
<1> QED
  BY <1>2, <1>3, <1>4, <1>5 DEF CallReady

LEMMA InventoryKeepsAccord ==
  ASSUME SystemInv, NEW j \in Jobs, InventoryKeeps(j)
  PROVE  StatusIsExplained' /\ ProcurementFollowsManager'
<1>1. step' = step
  BY DEF InventoryKeeps
<1>2. ASSUME NEW r \in Requests
      PROVE  Explained(r)'
  <2>1. Explained(r)
    BY DEF SystemInv, RequestsInv, StatusIsExplained
  <2>2. \A role, pending : HasStep(r, role, pending) => HasStep(r, role, pending)'
    BY <1>1 DEF HasStep, StepsOf
  <2>3. CASE request'[r] = request[r]
    BY <2>1, <2>2, <2>3 DEF Explained
  <2>4. CASE /\ request'[r] = [request[r] EXCEPT !.status = "fulfilled"]
             /\ HasStep(r, "procurement_manager", FALSE)
    <3>1. request'[r].status = "fulfilled"
      BY <2>4 DEF SystemInv, InventoryInv, InventoryTypeOK, TablesTypeOK,
         EquipmentRequest
    <3> QED
      BY <2>2, <2>4, <3>1 DEF Explained
  <2> QED
    BY <2>3, <2>4, RequestsAfter
<1>3. ProcurementFollowsManager'
  BY <1>1 DEF SystemInv, RequestsInv, ProcurementFollowsManager, StepsOf
<1> QED
  BY <1>2, <1>3 DEF StatusIsExplained

LEMMA InventoryKeepsColumns ==
  ASSUME SystemInv, NEW j \in Jobs, InventoryKeeps(j)
  PROVE  ColumnsAgree'
<1>1. \A a \in Assets : asset'[a].status # "absent" => asset'[a].model # None
  BY DEF InventoryKeeps
<1>2. \A r \in Requests : request'[r].status # "absent" =>
        /\ request'[r].type = "loan" => request'[r].model # None
        /\ request'[r].status = "procurement_approved" =>
             request'[r].type = "procurement"
  BY RequestsStay DEF SystemInv, ColumnsAgree
<1> QED
  BY <1>1, <1>2 DEF ColumnsAgree

LEMMA InventoryKeepsJobs ==
  ASSUME SystemInv, NEW j \in Jobs, Effect(j)
  PROVE  JobsReady'
<1> SUFFICES ASSUME NEW i \in Jobs PROVE JobReady(job[i])'
  BY DEF JobsReady
<1>0. \A r \in Requests : HasStep(r, "procurement_manager", FALSE)
                            => HasStep(r, "procurement_manager", FALSE)'
  BY DEF Effect, InventoryKeeps, HasStep, StepsOf
<1>1. CASE i = j
  <2> DEFINE r == job'[j].request
  <2>1. EntityReady(job[j])'
    BY DEF Effect
  <2>2. ASSUME job'[j].fulfils
        PROVE  /\ r \in Requests /\ request[r].status # "absent"
               /\ request[r].type = "procurement"
               /\ HasStep(r, "procurement_manager", FALSE)
    <3>1. CASE job[j].fulfils /\ r = job[j].request
      BY <3>1 DEF SystemInv, InventoryInv, LocalsOK, Fits, JobsReady, JobReady,
         FulfilReady
    <3>2. CASE r \in Requests /\ request[r].status = "procurement_approved"
      BY <3>2 DEF SystemInv, RequestsInv, StatusIsExplained, Explained, ColumnsAgree
    <3> QED
      BY <2>2, <3>1, <3>2 DEF Effect, StillFulfils
  <2>3. FulfilReady(job[j])'
    BY <1>0, <2>2, RequestsStay DEF Effect, FulfilReady
  <2> QED
    BY <1>1, <2>1, <2>3 DEF JobReady
<1>2. CASE i # j
  <2>1. PICK l \in Job : l = job[i]
    BY RowsTyped DEF SystemInv
  <2>2. LocalsOK(l) /\ JobReady(l)
    BY <2>1 DEF SystemInv, InventoryInv, JobsReady
  <2>4. JobReady(l)'
    BY <1>0, <2>2, RequestsStay, JobReadyStays DEF Effect, InventoryKeeps
  <2>5. job'[i] = l
    BY <1>2, <2>1 DEF Effect
  <2> QED
    BY <2>4, <2>5 DEF JobReady, EntityReady, FulfilReady
<1> QED
  BY <1>1, <1>2

LEMMA InventoryKeepsNames ==
  ASSUME SystemInv, UNCHANGED call, NEW j \in Jobs, Effect(j)
  PROVE  OneName'
<1>1. ASSUME NEW g \in Assignments
      PROVE  \/ \A r \in Requests : Named(g, r)' => Named(g, r)
             \/ \A r \in Requests : Named(g, r)' => assignment'[g].request = r
  <2>1. \A c \in Calls, r \in Requests : NamedBy(c, g, r)' <=> NamedBy(c, g, r)
    BY DEF NamedBy, Names
  <2>2. CASE assignment[g].status # "absent"
    <3>1. \A r \in Requests : assignment'[g].request = r => Named(g, r)
      BY <2>2 DEF Effect, InventoryKeeps, Named
    <3>2. \A i \in Jobs, r \in Requests : Brings(i, g)' /\ job'[i].links = r => Named(g, r)
      <4> SUFFICES ASSUME NEW i \in Jobs, NEW r \in Requests,
                          Brings(i, g)', job'[i].links = r
                   PROVE  Named(g, r)
        OBVIOUS
      <4>1. CASE i = j
        BY <4>1 DEF Effect, HoldsLink, Named
      <4>2. CASE i # j
        BY <4>2 DEF Effect, Brings, Named
      <4> QED
        BY <4>1, <4>2
    <3> QED
      BY <2>1, <3>1, <3>2 DEF Named
  <2>3. CASE assignment[g].status = "absent"
    <3>1. \A i \in Jobs : ~Brings(i, g)'
      <4> SUFFICES ASSUME NEW i \in Jobs, Brings(i, g)' PROVE FALSE
        OBVIOUS
      <4>1. CASE i = j
        BY <2>3, <4>1 DEF Effect, HoldsLink, SystemInv, InventoryInv, NoneDeleted
      <4>2. CASE i # j
        BY <2>3, <4>2 DEF Effect, Brings, SystemInv, InventoryInv, LocalsOK, Fits
      <4> QED
        BY <4>1, <4>2
    <3>2. \A c \in Calls, r \in Requests : ~NamedBy(c, g, r)
      BY <2>3 DEF NamedBy, SystemInv, RequestsInv, CallsReady, CallReady, LinksReady
    <3> QED
      BY <2>1, <3>1, <3>2 DEF Named
  <2> QED
    BY <2>2, <2>3
<1> QED
  BY <1>1, OneNameStep DEF SystemInv

\* The assignment of a fulfilled loan keeps its link: the returns that save it
\* bring the link it has.
LEMMA InventoryKeepsLoans ==
  ASSUME SystemInv, InventoryInv', UNCHANGED call, NEW j \in Jobs, Effect(j)
  PROVE  LoansSurvive'
<1> SUFFICES ASSUME NEW r \in Requests, FulfilledLoan(r)'
             PROVE  \E g \in Assignments : Witness(g, r)' /\ Kept(g, r)'
  BY DEF LoansSurvive
<1>1. /\ FulfilledLoan(r)
      /\ request'[r].requester = request[r].requester
      /\ request'[r].model = request[r].model
      /\ request'[r].status = request[r].status
      /\ request[r].model # None
  BY RequestsStay DEF Effect, FulfilledLoan, SystemInv, ColumnsAgree
<1>2. PICK g \in Assignments : Witness(g, r) /\ Kept(g, r)
  BY <1>1 DEF SystemInv, LoansSurvive
<1>3. /\ assignment[g].status # "absent" /\ assignment[g].request = r
      /\ assignment[g].asset \in Assets
      /\ assignment[g].employee = request[r].requester
      /\ asset[assignment[g].asset].model = request[r].model
      /\ Survives(g, r)
  BY <1>2 DEF Witness, AssignmentsOf, Backs
<1>4. /\ assignment'[g].status # "absent"
      /\ assignment'[g].asset = assignment[g].asset
      /\ assignment'[g].employee = assignment[g].employee
      /\ assignment'[g].request = r
      /\ asset'[assignment[g].asset].model = asset[assignment[g].asset].model
  BY <1>1, <1>2, <1>3 DEF Effect, InventoryKeeps, Kept
<1>5. Survives(g, r)'
  BY <1>3 DEF Survives, At
<1>6. Witness(g, r)'
  BY <1>1, <1>3, <1>4, <1>5 DEF Witness, AssignmentsOf, Backs
<1>7. Kept(g, r)'
  <2> SUFFICES ASSUME NEW i \in Jobs, Brings(i, g)' PROVE job'[i].links = r
    BY DEF Kept
  <2>1. CASE i = j
    BY <1>2, <1>3, <2>1 DEF Effect, HoldsLink, Kept
  <2>2. CASE i # j
    BY <1>2, <2>2 DEF Effect, Brings, Kept
  <2> QED
    BY <2>1, <2>2
<1> QED
  BY <1>6, <1>7

LEMMA InventoryStepInv ==
  ASSUME SystemInv, InventoryStep
  PROVE  SystemInv'
<1>1. PICK j \in Jobs : StartJob(j) \/ ContinueJob(j) \/ CutOff(j)
  BY DEF InventoryStep
<1>2. UNCHANGED call /\ [InventoryNext]_inventoryVars
  BY <1>1 DEF InventoryStep, InventoryNext
<1>3. InventoryInv'
  BY <1>2, StepInv DEF SystemInv
<1>4. Effect(j) /\ InventoryKeeps(j)
  BY <1>1, SystemEffect DEF Effect
<1>5. LoansSurvive'
  BY <1>2, <1>3, <1>4, InventoryKeepsLoans
<1>6. FulfilmentSurvives'
  BY <1>5 DEF LoansSurvive, FulfilmentSurvives
<1>8. NamedOnce'
  BY <1>2 DEF NamedOnce, Names, SystemInv, RequestsInv
<1>7. RequestsInv'
  BY <1>8, <1>2, <1>3, <1>4, <1>6, InventoryKeepsRefs, InventoryKeepsCalls,
     InventoryKeepsAccord DEF RequestsInv
<1> QED
  BY <1>2, <1>3, <1>4, <1>5, <1>7, InventoryKeepsColumns, InventoryKeepsJobs,
     InventoryKeepsNames DEF SystemInv

-----------------------------------------------------------------------------
(* The theorems.                                                           *)

LEMMA SystemInitInv == SystemInit => SystemInv
<1> SUFFICES ASSUME SystemInit PROVE SystemInv
  OBVIOUS
<1>1. /\ request = [r \in Requests |-> NoRequest]
      /\ asset \in [Assets -> {NoAsset}
                      \cup {[status |-> "available", model |-> m,
                             assignedEmployee |-> None, retiredAt |-> None] :
                              m \in Models}]
      /\ assignment = [g \in Assignments |-> NoAssignment]
      /\ call = [c \in Calls |-> NoCall] /\ job = [j \in Jobs |-> NoJob]
  BY DEF SystemInit, RequestsInit, InventoryInit, TablesInit, StockInit
<1>2. RequestsInv /\ InventoryInv
  BY InvInit, InitInv DEF SystemInit
<1>3. ColumnsAgree
  <2>1. \A a \in Assets : asset[a].status # "absent" => asset[a].model \in Models
    BY <1>1 DEF NoAsset
  <2> QED
    BY <1>1, <2>1, NoneAssumption DEF ColumnsAgree, NoRequest
<1>4. JobsReady
  BY <1>1 DEF JobsReady, JobReady, EntityReady, FulfilReady, NoJob
<1>5. OneName
  BY <1>1, NoneAssumption DEF OneName, Named, Brings, NamedBy, Names, At, NoJob, NoCall,
     NoAssignment, Returns
<1>6. LoansSurvive
  BY <1>1 DEF LoansSurvive, FulfilledLoan, NoRequest
<1> QED
  BY <1>2, <1>3, <1>4, <1>5, <1>6 DEF SystemInv

\* The invariant holds in every reachable state, with any number of handlers
\* of both kinds in flight.
THEOREM SystemInvariant == SystemSpec => []SystemInv
<1>1. SystemInv /\ UNCHANGED systemVars => SystemInv'
  <2> SUFFICES ASSUME SystemInv, UNCHANGED systemVars PROVE SystemInv'
    OBVIOUS
  <2>1. RequestsInv' /\ InventoryInv'
    BY InvStep, StepInv DEF SystemInv, systemVars, requestVars, inventoryVars
  <2>2. ColumnsAgree' /\ JobsReady'
    BY DEF SystemInv, systemVars, tables, ColumnsAgree, JobsReady, JobReady,
       EntityReady, FulfilReady,
       HasStep, StepsOf
  <2>3. OneName' /\ LoansSurvive'
    BY DEF SystemInv, systemVars, tables, OneName, Named, Brings, NamedBy, Names, At,
       LoansSurvive, FulfilledLoan, Witness, AssignmentsOf, Backs, Survives, Kept
  <2> QED
    BY <2>1, <2>2, <2>3 DEF SystemInv
<1>2. SystemInv /\ [SystemNext]_systemVars => SystemInv'
  BY <1>1, WorkflowInv, InventoryStepInv DEF SystemNext
<1> QED
  BY <1>2, SystemInitInv, PTL DEF SystemSpec

\* Bought equipment that is assigned, returned or cut off half way never
\* leaves a request in a status its steps do not explain: the handler that
\* assigns, without a transaction, fulfils only what procurement has acted on,
\* although it read that several awaits before.
THEOREM ExplainedInSystem == SystemSpec => []StatusIsExplained
<1>1. SystemInv => StatusIsExplained
  BY DEF SystemInv, RequestsInv
<1> QED
  BY <1>1, SystemInvariant, PTL

\* With the inventory's handlers in flight as well, no step of procurement
\* exists before a manager has acted on the request.
THEOREM ManagerActsFirstInSystem == SystemSpec => []ProcurementFollowsManager
<1>1. SystemInv => ProcurementFollowsManager
  BY DEF SystemInv, RequestsInv
<1> QED
  BY <1>1, SystemInvariant, PTL

\* A fulfilled loan stays backed by an assignment of an asset of the requested
\* model to the requester, whatever becomes of the asset meanwhile: while
\* staff edit, return, retire and delete stock, and although the save of a
\* returned assignment writes the link to its request as loaded.
THEOREM LoansAreBackedInSystem == SystemSpec => []FulfilmentIsBacked
<1>1. SystemInv => FulfilmentIsBacked
  BY DEF SystemInv, LoansSurvive, FulfilmentIsBacked, FulfilledLoan, Witness
<1> QED
  BY <1>1, SystemInvariant, PTL

\* An asset that a loan or the staff ever assigned is never deleted, although a
\* removal counts its assignments before a loan's approval inserts one.
THEOREM HistoryIsKeptInSystem == SystemSpec => []HistoryKeepsAsset
<1>1. SystemInv => HistoryKeepsAsset
  BY DEF SystemInv, InventoryInv
<1> QED
  BY <1>1, SystemInvariant, PTL

-----------------------------------------------------------------------------
(* The status flow of the documentation, for the proofs that the system    *)
(* implements it (SerialProofs, DeparturesProofs).                         *)

Status == [r \in Requests |-> request[r].status]

Type == [r \in Requests |->
           IF request[r].status = "absent" THEN None ELSE request[r].type]

=============================================================================
