----------------------------- MODULE Departures ------------------------------
(***************************************************************************)
(* AdminService.removeUser over the tables of the workflow and the         *)
(* inventory, while handlers of both are in flight.  Deleting the account  *)
(* is one DELETE; the foreign keys do the rest of it:                      *)
(*                                                                         *)
(*   equipment_requests.requester_id            CASCADE                    *)
(*   approval_steps.request_id, approver_id     CASCADE                    *)
(*   equipment_assignments.employee_id          CASCADE                    *)
(*   equipment_assignments.request_id           SET NULL                   *)
(*   equipment_assets.assigned_employee_id      SET NULL                   *)
(*                                                                         *)
(* A handler in flight still holds what it loaded.  Where it writes a      *)
(* reference to somebody removed, or the row of a request that went with   *)
(* its requester, the foreign key makes the statement fail and the handler *)
(* ends there, its open transaction rolled back.  An UPDATE that finds its *)
(* row deleted changes nothing, and a save() that reloads a deleted row    *)
(* INSERTs it with the references it had, which fails.                     *)
(***************************************************************************)
EXTENDS EquipmentSystem

\* Bound: the employees that may be removed.
CONSTANT Leavers

ASSUME LeaverAssumption == Leavers \subseteq Employees

\* The employees removed.  An id is not given again.
VARIABLE gone

departureVars == <<systemVars, gone>>

DeparturesInit == SystemInit /\ gone = {}

-----------------------------------------------------------------------------

\* The rows that go with employee u.
RequestsWith(u) == {r \in Requests : request[r].requester = u}

StepsWith(u) ==
  {s \in Steps : step[s].approver = u \/ step[s].request \in RequestsWith(u)}

AssignmentsWith(u) == {g \in Assignments : assignment[g].employee = u}

Deleted(table, rows) ==
  [n \in DOMAIN table |->
     IF n \in rows THEN [table[n] EXCEPT !.status = "absent"] ELSE table[n]]

\* Variant for mutation: the assignments stay.
RemoveUserKeepsHistory(u) ==
  /\ u \notin gone
  /\ \A c \in Calls, s \in StepsWith(u) : ~HoldsStep(c, s)
  /\ gone' = gone \cup {u}
  /\ request' = Deleted(request, RequestsWith(u))
  /\ step' = Deleted(step, StepsWith(u))
  /\ asset' = [a \in Assets |->
       IF asset[a].assignedEmployee = u
       THEN [asset[a] EXCEPT !.assignedEmployee = None]
       ELSE asset[a]]
  /\ UNCHANGED <<assignment, notice, call, job, apart>>

\* The DELETE waits for the step rows that transactions in flight hold.
RemoveUser(u) ==
  /\ u \notin gone
  /\ \A c \in Calls, s \in StepsWith(u) : ~HoldsStep(c, s)
  /\ gone' = gone \cup {u}
  /\ request' = Deleted(request, RequestsWith(u))
  /\ step' = Deleted(step, StepsWith(u))
  /\ assignment' = [g \in Assignments |->
       [Deleted(assignment, AssignmentsWith(u))[g] EXCEPT
          !.request = IF @ \in RequestsWith(u) THEN None ELSE @]]
  /\ asset' = [a \in Assets |->
       IF asset[a].assignedEmployee = u
       THEN [asset[a] EXCEPT !.assignedEmployee = None]
       ELSE asset[a]]
  /\ UNCHANGED <<notice, call, job, apart>>

-----------------------------------------------------------------------------
(* Handlers that run into what was removed.                                *)

StepGone(s) == step[s].status = "absent"

\* A call whose request is gone ends with the next statement; so does one
\* that notifies an approver who is gone, that decides a step that is gone,
\* or that skips one.
Thwarted(c) ==
  /\ call[c].pc # "idle"
  /\ \/ request[call[c].request].status = "absent"
     \/ call[c].op = "create" /\ StepGone(call[c].step)
     \/ /\ call[c].op \in {"approve", "reject"} /\ call[c].pc # "committed"
        /\ \E s \in {call[c].step} \cup call[c].siblings : StepGone(s)

\* A job that refers to somebody or to a request that is gone.  An UPDATE of
\* the deleted assignment does nothing, and the notice after it fails.
ThwartedJob(j) ==
  LET pc == job[j].pc
      requestGone == job[j].request # None
                       /\ request[job[j].request].status = "absent"
      linkGone == job[j].links # None
                    /\ request[job[j].links].status = "absent"
      assignmentGone == Returning(j)
                          /\ assignment[job[j].assignment].status = "absent"
  IN \/ /\ pc \in {"compared", "missing"}
        /\ "assignedEmployee" \in job[j].columns
        /\ job[j].entity.assignedEmployee \in gone
     \/ pc = "found" /\ (job[j].employee \in gone \/ requestGone)
     \/ pc \in {"inserted", "done"} /\ requestGone
     \/ pc \in {"saved", "matched", "done"} /\ assignmentGone
     \/ pc = "matched" /\ "request" \in job[j].dirty /\ linkGone

\* Nobody who is gone calls an endpoint, or is found as manager of the
\* requester's department, as procurement manager or as whom to assign to.
NamesNobodyGone ==
  /\ \A r \in Requests : request[r].status = "absent"
                           /\ request'[r].status # "absent" =>
                              request'[r].requester \notin gone
  /\ \A s \in Steps : step[s].status = "absent"
                        /\ step'[s].status # "absent" =>
                           step'[s].approver \notin gone

WorkflowWhileLeaving ==
  /\ \E c \in Calls :
       \/ (Overlap \/ Quiet) /\ Arrive(c) /\ NamesNobodyGone
       \/ ~Thwarted(c) /\ Proceed(c) /\ NamesNobodyGone
       \/ Thwarted(c) /\ Return(c) /\ UNCHANGED tables
       \/ Interrupt(c)
  /\ UNCHANGED <<job, apart, gone>>

InventoryWhileLeaving ==
  /\ \E j \in Jobs :
       \/ (Overlap \/ Quiet) /\ StartJob(j) /\ job'[j].employee \notin gone
       \/ ~ThwartedJob(j) /\ ContinueJob(j)
       \/ ThwartedJob(j) /\ Finish(j) /\ UNCHANGED tables
       \/ CutOff(j)
  /\ UNCHANGED <<call, apart, gone>>

DeparturesNext ==
  \/ WorkflowWhileLeaving
  \/ InventoryWhileLeaving
  \/ (Overlap \/ Quiet) /\ \E u \in Leavers : RemoveUser(u)

DeparturesSpec == DeparturesInit /\ [][DeparturesNext]_departureVars

-----------------------------------------------------------------------------
(* Properties.                                                             *)

\* Every row and every local is of its type, and no foreign key dangles:
\* whatever a handler in flight had loaded, what it writes after a removal
\* refers to nobody and to no request that went.
DeparturesTypeOK ==
  /\ RequestsTypeOK /\ InventoryTypeOK /\ gone \subseteq Leavers
  /\ \A r \in Requests :
       request[r].status # "absent" => request[r].requester \notin gone
  /\ \A s \in Steps : step[s].status # "absent" =>
       /\ step[s].approver \notin gone
       /\ request[step[s].request].status # "absent"
  /\ \A g \in Assignments : assignment[g].status # "absent" =>
       /\ assignment[g].employee \notin gone
       /\ assignment[g].request # None =>
            request[assignment[g].request].status # "absent"
  /\ \A a \in Assets : asset[a].assignedEmployee \notin gone

\* A step of the request that went with its approver.
LostStep(r, role) ==
  \E s \in Steps :
    /\ step[s].status = "absent" /\ step[s].approver \in gone
    /\ step[s].request = r /\ step[s].role = role

\* The role whose step explains a status of a request.
StageOf(status) ==
  CASE status = "pending_manager_approval" -> {"direct_manager"}
    [] status \in {"pending_procurement_approval", "procurement_approved",
                   "fulfilled"} -> {"procurement_manager"}
    [] OTHER -> ApprovalRole

\* A request is explained by its steps unless the one that explains it went
\* with its approver: no removal, wherever it falls between the awaits of a
\* handler, makes a request wait for nobody in another way.
ExplainedUnlessOrphaned ==
  \A r \in Requests :
    request[r].status # "absent" =>
      \/ Explained(r)
      \/ \E role \in StageOf(request[r].status) : LostStep(r, role)

\* With one workflow handler, a fulfilled procurement request has the
\* assignment that names it, or had one that went with the employee the
\* equipment was given to. (With two, a cancellation that read the request
\* before it was approved may unlink the assignment.)
ProcurementBackedOrLeft ==
  \A r \in Requests :
    request[r].status = "fulfilled" /\ request[r].type = "procurement" =>
      \E g \in Assignments :
        /\ assignment[g].request = r
        /\ assignment[g].status = "absent" => assignment[g].employee \in gone

\* A request takes one step of the status flow in docs/database-erd.md, is
\* decided on though it was cancelled, or goes with its requester.
FlowStep(r) ==
  LET from == request[r].status
      to   == request'[r].status
  IN \/ to = from
     \/ request[r] = NoRequest /\ to = "pending_manager_approval"
     \/ /\ from \in {"pending_manager_approval", "pending_procurement_approval"}
        /\ to \in {"rejected", "cancelled"}
     \/ /\ from \in {"pending_manager_approval", "cancelled"}
        /\ to = "pending_procurement_approval"
     \/ /\ from \in {"pending_procurement_approval", "cancelled"}
        /\ to = IF request[r].type = "loan" THEN "fulfilled"
                                            ELSE "procurement_approved"
     \/ from = "procurement_approved" /\ to = "fulfilled"
     \/ from = "cancelled" /\ to = "rejected"
     \/ to = "absent" /\ request[r].requester \in gone'

\* With one workflow handler, requests follow the status flow but for decisions
\* on cancelled ones: no step that goes with its approver, and no assignment
\* under way, makes a handler skip a stage or take up again what was settled.
FlowUntilGone == [][\A r \in Requests : FlowStep(r)]_departureVars

\* The statuses of an asset that somebody has.
Out == {"in_use", "return_requested"}

\* A handler leaves assignment h open, or is to bring the asset in before it
\* ends h.
Spares(l, h) ==
  l.op = "complete_return" /\ l.assignment = h =>
    \/ l.pc = "loaded"
    \/ l.pc = "compared" /\ "status" \in l.columns

\* A handler has brought asset a out and is to insert its assignment.
HandsOut(l, a) == l.op = "assign" /\ l.asset = a /\ l.pc \in {"saved", "found"}

Accounted(a) ==
  \/ \E h \in OpenOn(a) : \A j \in Jobs : Spares(job[j], h)
  \/ \E j \in Jobs : HandsOut(job[j], a)

Stranded(a) == asset[a].status \in Out /\ ~Accounted(a)

\* An open assignment goes with its employee.
HolderLeaves(a) == \E h \in OpenOn(a) : assignment[h].employee \in gone' \ gone

\* assign, having saved the asset, is cut off, or runs into an employee or a
\* requester who has gone.
AssignFails(j, a) ==
  /\ HandsOut(job[j], a)
  /\ \/ ThwartedJob(j) /\ Finish(j)
     \/ CutOff(j)

\* Staff create the asset as out, or save() writes that it is: they set that by
\* hand, or it was out when they loaded it.
SavedAsOut(j, a) ==
  \/ asset[a] = NoAsset /\ asset'[a].status \in Manual
  \/ /\ job[j].op = "save" /\ job[j].asset = a
     /\ job[j].entity.status \in Out
     /\ \/ job[j].pc = "compared" /\ "status" \in job[j].columns
        \/ job[j].pc = "missing"

\* The asset is asked back for an assignment that somebody has ended, or is
\* about to end, since it was loaded.
AskedBackLate(j, a) ==
  /\ job[j].op = "request_return" /\ job[j].asset = a
  /\ job[j].pc \in {"compared", "missing"}
  /\ \/ job[j].assignment \notin OpenOn(a)
     \/ \E i \in Jobs : ~Spares(job[i], job[j].assignment)

\* Equipment that is out comes to be with nobody in four ways alone: its
\* assignment goes with the employee; assign fails between its two saves; a
\* save() of the asset says it is out; or a return is asked for that is already
\* over. Nothing the workflow does, and no return, leaves it that way, however
\* they fall between each other's awaits.
StrandedForAReason ==
  [][\A a \in Assets :
       ~Stranded(a) /\ Stranded(a)' =>
         \/ HolderLeaves(a)
         \/ \E j \in Jobs :
              AssignFails(j, a) \/ SavedAsOut(j, a) \/ AskedBackLate(j, a)]_departureVars

=============================================================================
