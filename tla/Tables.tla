------------------------------- MODULE Tables -------------------------------
(***************************************************************************)
(* The PostgreSQL tables the services of the equipment API share, one      *)
(* variable per table: a function from row identifiers to rows.  A row     *)
(* that has not been inserted, or that was deleted, has status "absent";   *)
(* a deleted row keeps its other columns, for its id is not given again.   *)
(*                                                                         *)
(* Kept of each entity are the columns some guard of a service reads or    *)
(* some property compares; dates, comments, names and the like are left    *)
(* out.  `level' of an approval step is 1 for a direct manager and 2 for   *)
(* a procurement manager, so the role stands for both columns.             *)
(***************************************************************************)
EXTENDS FiniteSets, Naturals

CONSTANTS
  Requests,             \* ids of equipment_requests
  Steps,                \* ids of approval_steps
  Assets,               \* ids of equipment_assets
  Assignments,          \* ids of equipment_assignments
  Employees,            \* ids of employees
  Models,               \* ids of equipment_models
  Managers,             \* employees a department may have as direct manager
  ProcurementManagers,  \* employees with role procurement_manager
  None                  \* SQL NULL

ASSUME EmployeeAssumption ==
  /\ Managers \subseteq Employees
  /\ ProcurementManagers \subseteq Employees

ASSUME NoneAssumption ==
  None \notin Requests \cup Steps \cup Assets \cup Assignments
                \cup Employees \cup Models

VARIABLES
  request,     \* equipment_requests
  step,        \* approval_steps
  asset,       \* equipment_assets
  assignment,  \* equipment_assignments
  notice       \* notifications: which notices were ever inserted

tables == <<request, step, asset, assignment, notice>>

-----------------------------------------------------------------------------

RequestStatus ==
  {"pending_manager_approval", "pending_procurement_approval",
   "procurement_approved", "approved", "fulfilled", "rejected", "cancelled"}

\* Variant for mutation: approved procurement could be cancelled too.
CancellableTooLong ==
  {"pending_manager_approval", "pending_procurement_approval",
   "procurement_approved"}

CANCELLABLE_REQUEST_STATUSES ==
  {"pending_manager_approval", "pending_procurement_approval"}

RequestType == {"loan", "procurement"}

\* No service makes a step of the third role, admin.
ApprovalRole == {"direct_manager", "procurement_manager"}

ApprovalStepStatus == {"pending", "approved", "rejected", "skipped"}

EquipmentAssetStatus ==
  {"available", "in_use", "reserved", "return_requested", "maintenance",
   "retired"}

EquipmentAssignmentStatus == {"active", "return_requested", "returned",
                              "cancelled"}

\* retired_at: NULL or some time, how long ago being decided where it is read.
RetiredAt == {None, "set"}

NotificationType ==
  {"approval_required", "request_approved", "request_rejected",
   "request_cancelled", "request_update", "procurement_approved",
   "equipment_assigned", "equipment_return_requested", "equipment_returned"}

-----------------------------------------------------------------------------

EquipmentRequest ==
  [status    : RequestStatus \cup {"absent"},
   type      : RequestType,
   requester : Employees \cup {None},
   model     : Models \cup {None}]

ApprovalStep ==
  [status   : ApprovalStepStatus \cup {"absent"},
   request  : Requests \cup {None},
   role     : ApprovalRole,
   approver : Employees \cup {None}]

EquipmentAsset ==
  [status           : EquipmentAssetStatus \cup {"absent"},
   model            : Models \cup {None},
   assignedEmployee : Employees \cup {None},
   retiredAt        : RetiredAt]

EquipmentAssignment ==
  [status   : EquipmentAssignmentStatus \cup {"absent"},
   asset    : Assets \cup {None},
   employee : Employees \cup {None},
   request  : Requests \cup {None}]

\* `about' is the request a notice links to, or the assignment.
Notification ==
  [to : Employees \cup {None}, type : NotificationType,
   about : Requests \cup Assignments]

NoRequest == [status |-> "absent", type |-> "loan", requester |-> None,
              model |-> None]

NoStep == [status |-> "absent", request |-> None, role |-> "direct_manager",
           approver |-> None]

NoAsset == [status |-> "absent", model |-> None, assignedEmployee |-> None,
            retiredAt |-> None]

NoAssignment == [status |-> "absent", asset |-> None, employee |-> None,
                 request |-> None]

TablesTypeOK ==
  /\ request \in [Requests -> EquipmentRequest]
  /\ step \in [Steps -> ApprovalStep]
  /\ asset \in [Assets -> EquipmentAsset]
  /\ assignment \in [Assignments -> EquipmentAssignment]
  /\ notice \subseteq Notification

-----------------------------------------------------------------------------

\* Row ids a generated primary key may still take.
FreeRequests == {r \in Requests : request[r] = NoRequest}
FreeSteps == {s \in Steps : step[s] = NoStep}
FreeAssets == {a \in Assets : asset[a] = NoAsset}
FreeAssignments == {g \in Assignments : assignment[g] = NoAssignment}

\* The one-to-many relations of an equipment request.
StepsOf(r) == {s \in Steps : step[s].status # "absent" /\ step[s].request = r}

AssignmentsOf(r) ==
  {g \in Assignments : assignment[g].status # "absent"
                         /\ assignment[g].request = r}

PendingStepsOf(r) == {s \in StepsOf(r) : step[s].status = "pending"}

\* Variant for mutation: the query forgets the status.
AnyAssets(m) == {a \in Assets : asset[a].model = m}

AvailableAssets(m) ==
  {a \in Assets : asset[a].status = "available" /\ asset[a].model = m}

Notice(to, type, about) == [to |-> to, type |-> type, about |-> about]

\* Stock that has been entered and never assigned.
StockInit ==
  /\ asset \in [Assets -> {NoAsset}
                  \cup {[status |-> "available", model |-> m,
                         assignedEmployee |-> None, retiredAt |-> None] :
                          m \in Models}]
  /\ assignment = [g \in Assignments |-> NoAssignment]
  /\ notice = {}

\* A migrated database whose stock has been entered, every other table empty;
\* the demo seed adds only rows that the handlers can make from there.
TablesInit ==
  /\ request = [r \in Requests |-> NoRequest]
  /\ step = [s \in Steps |-> NoStep]
  /\ StockInit

=============================================================================
