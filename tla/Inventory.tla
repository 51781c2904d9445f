----------------------------- MODULE Inventory ------------------------------
(***************************************************************************)
(* EquipmentAssetService and EquipmentAssignmentService: stock is created, *)
(* edited, assigned, retired and deleted by procurement, and assigned      *)
(* equipment is asked back and returned.                                   *)
(*                                                                         *)
(* No handler here opens a transaction: each await is a step of its own,   *)
(* and a handler that fails half way leaves what it already wrote.  `job'  *)
(* holds the locals of the handlers in flight, one slot each, with `pc'    *)
(* the last await it has passed.                                           *)
(*                                                                         *)
(* TypeORM's save(entity) is two steps.  It reloads the row and finds the  *)
(* columns where the entity, as loaded earlier and changed since, differs; *)
(* then it UPDATEs those columns alone.  A column the code sets to         *)
(* `undefined' is not compared, so it keeps its value.  When the row is    *)
(* gone, save() INSERTs the entity again.                                  *)
(***************************************************************************)
EXTENDS Tables

CONSTANTS
  Jobs,     \* slots for handlers in flight
  Crashes,  \* TRUE when a handler may be cut off
  Manual    \* statuses the inventory staff set by hand

ASSUME JobAssumption ==
  Crashes \in BOOLEAN /\ Manual \subseteq EquipmentAssetStatus

VARIABLE job

inventoryVars == <<tables, job>>

\* The columns of an asset that save() may write.
AssetColumns == {"status", "assignedEmployee", "retiredAt"}

Job ==
  [op         : {"none", "save", "assign", "remove", "request_return",
                 "complete_return"},
   pc         : {"idle", "loaded", "compared", "missing", "saved", "found",
                 "inserted", "matched", "counting", "deletable", "done"},
   asset      : Assets \cup {None},
   entity     : EquipmentAsset,          \* the asset as loaded and changed
   columns    : SUBSET AssetColumns,     \* its columns save() will consider
   history    : SUBSET Assignments,      \* its assignments as loaded
   employee   : Employees \cup {None},   \* whom the asset is assigned to
   request    : Requests \cup {None},
   fulfils    : BOOLEAN,                 \* the request was read as approved
   assignment : Assignments \cup {None},
   links      : Requests \cup {None},    \* its request as loaded
   dirty      : SUBSET {"status", "request"}]

NoJob == [op |-> "none", pc |-> "idle", asset |-> None, entity |-> NoAsset,
          columns |-> {}, history |-> {}, employee |-> None, request |-> None,
          fulfils |-> FALSE, assignment |-> None, links |-> None,
          dirty |-> {}]

InventoryInit == TablesInit /\ job = [j \in Jobs |-> NoJob]

-----------------------------------------------------------------------------

AtRest == \A j \in Jobs : job[j].pc = "idle"

Move(j, pc) == job' = [job EXCEPT ![j].pc = pc]

\* The handler ends: with its answer, or with an exception.
Finish(j) == job' = [job EXCEPT ![j] = NoJob]

HistoryOf(a) ==
  {g \in Assignments : assignment[g].status # "absent"
                         /\ assignment[g].asset = a}

\* EquipmentAssetService.findOne, then what the caller made of the entity.
Load(j, op, a, entity, columns) ==
  /\ job[j].pc = "idle"
  /\ asset[a].status # "absent"
  /\ job' = [job EXCEPT ![j] =
       [NoJob EXCEPT !.op = op, !.pc = "loaded", !.asset = a,
                     !.entity = entity, !.columns = columns,
                     !.history = HistoryOf(a)]]
  /\ UNCHANGED tables

-----------------------------------------------------------------------------
(* EquipmentAssetService.                                                  *)

\* create: the body may name any status.
CreateAsset(j, a, model, status) ==
  /\ job[j].pc = "idle"
  /\ a \in FreeAssets
  /\ asset' = [asset EXCEPT ![a] =
       [status |-> status, model |-> model, assignedEmployee |-> None,
        retiredAt |-> None]]
  /\ UNCHANGED <<request, step, assignment, notice, job>>

\* update changes tag, serial number or notes, and saves the entity.
Update(j, a) == Load(j, "save", a, asset[a], AssetColumns)

UpdateStatus(j, a, status) ==
  Load(j, "save", a, [asset[a] EXCEPT !.status = status], AssetColumns)

\* retire does nothing to a retired asset; it sets assignedEmployee to
\* undefined.
Retire(j, a) ==
  /\ asset[a].status # "retired"
  /\ Load(j, "save", a,
          [asset[a] EXCEPT !.status = "retired", !.retiredAt = "set"],
          AssetColumns \ {"assignedEmployee"})

Assign(j, a, u, r) ==
  /\ job[j].pc = "idle"
  /\ asset[a].status = "available"
  /\ r # None => request[r].status # "absent"
  /\ job' = [job EXCEPT ![j] =
       [NoJob EXCEPT !.op = "assign", !.pc = "loaded", !.asset = a,
          !.entity = [asset[a] EXCEPT !.status = "in_use",
                                      !.assignedEmployee = u],
          !.columns = AssetColumns, !.history = HistoryOf(a),
          !.employee = u, !.request = r]]
  /\ UNCHANGED tables

\* save(asset), first half.  Assignments inserted since they were loaded
\* would be detached, which their asset column forbids: the save fails.
CompareAsset(j) ==
  LET a == job[j].asset
  IN /\ job[j].pc = "loaded"
     /\ \/ asset[a].status = "absent" /\ Move(j, "missing")
        \/ /\ asset[a].status # "absent" /\ HistoryOf(a) \subseteq job[j].history
           /\ job' = [job EXCEPT ![j].pc = "compared", ![j].columns =
                {k \in @ : job[j].entity[k] # asset[a][k]}]
        \/ ~(HistoryOf(a) \subseteq job[j].history) /\ Finish(j)
     /\ UNCHANGED tables

\* A handler with nothing left to do once its asset is saved ends there.
AssetSaved(j) == IF job[j].op = "save" THEN Finish(j) ELSE Move(j, "saved")

\* save(asset), second half; the UPDATE of a deleted row changes nothing.
WriteAsset(j) ==
  LET a == job[j].asset
  IN /\ job[j].pc = "compared"
     /\ asset' = IF asset[a].status = "absent" THEN asset ELSE
          [asset EXCEPT ![a] = [k \in DOMAIN @ |->
             IF k \in job[j].columns THEN job[j].entity[k] ELSE @[k]]]
     /\ AssetSaved(j)
     /\ UNCHANGED <<request, step, assignment, notice>>

\* save(asset) of a deleted row: an INSERT, unless another came first.
InsertMissing(j) ==
  LET a == job[j].asset
  IN /\ job[j].pc = "missing"
     /\ IF asset[a].status = "absent"
        THEN /\ asset' = [asset EXCEPT ![a] = [job[j].entity EXCEPT
                  !.assignedEmployee =
                    IF "assignedEmployee" \in job[j].columns THEN @ ELSE None]]
             /\ AssetSaved(j)
        ELSE Finish(j) /\ UNCHANGED asset
     /\ UNCHANGED <<request, step, assignment, notice>>

\* Variants for mutation: any request named is fulfilled; it is fulfilled
\* instead of getting its assignment.
FindAnyRequest(j) ==
  /\ job[j].op = "assign" /\ job[j].pc = "saved"
  /\ job' = [job EXCEPT ![j].pc = "found",
                        ![j].fulfils = job[j].request # None]
  /\ UNCHANGED tables

FulfilFirst(j) ==
  LET r == job[j].request
  IN /\ job[j].op = "assign" /\ job[j].pc = "saved"
     /\ Move(j, IF r # None /\ request[r].status = "procurement_approved"
                THEN "inserted" ELSE "found")
     /\ UNCHANGED tables

\* assign goes on: the request named, if it is still there, as it now reads.
FindRequest(j) ==
  LET found == {r \in {job[j].request} \cap Requests :
                  request[r].status # "absent"}
  IN /\ job[j].op = "assign" /\ job[j].pc = "saved"
     /\ job' = [job EXCEPT ![j].pc = "found",
          ![j].request = IF found = {} THEN None ELSE @,
          ![j].fulfils =
            \E r \in found : request[r].status = "procurement_approved"]
     /\ UNCHANGED tables

\* The INSERT fails when its asset was deleted (foreign key).
InsertAssignment(j, g) ==
  LET a == job[j].asset
  IN /\ job[j].pc = "found"
     /\ g \in FreeAssignments
     /\ IF asset[a].status = "absent"
        THEN Finish(j) /\ UNCHANGED assignment
        ELSE /\ assignment' = [assignment EXCEPT ![g] =
                  [status |-> "active", asset |-> a,
                   employee |-> job[j].employee, request |-> job[j].request]]
             /\ IF job[j].fulfils THEN Move(j, "inserted") ELSE Finish(j)
     /\ UNCHANGED <<request, step, asset, notice>>

FulfilRequest(j) ==
  /\ job[j].pc = "inserted"
  /\ request' = [request EXCEPT ![job[j].request].status = "fulfilled"]
  /\ Move(j, "done")
  /\ UNCHANGED <<step, asset, assignment, notice>>

\* remove: a retired asset needs no further look once its grace period has
\* run out, or when it has no retired_at to count from.
FindRemovable(j, a) ==
  /\ job[j].pc = "idle"
  /\ asset[a].status # "absent"
  /\ job' = [job EXCEPT ![j] =
       [NoJob EXCEPT !.op = "remove", !.asset = a, !.entity = asset[a],
          !.pc = IF asset[a].status = "retired" THEN "deletable"
                                                ELSE "counting"]]
  /\ UNCHANGED tables

\* hasHistory, for the others.
CountHistory(j) ==
  /\ job[j].pc = "counting"
  /\ IF /\ HistoryOf(job[j].asset) = {}
        /\ job[j].entity.status \in {"available", "maintenance"}
     THEN Move(j, "deletable")
     ELSE Finish(j)
  /\ UNCHANGED tables

\* Variant for mutation: no foreign key.
DeleteAnyway(j) ==
  /\ job[j].pc = "deletable"
  /\ asset' = [asset EXCEPT ![job[j].asset].status = "absent"]
  /\ Finish(j)
  /\ UNCHANGED <<request, step, assignment, notice>>

\* The DELETE fails while an assignment refers to the asset (foreign key).
Delete(j) ==
  LET a == job[j].asset
  IN /\ job[j].pc = "deletable"
     /\ asset' = IF HistoryOf(a) = {}
                 THEN [asset EXCEPT ![a].status = "absent"]
                 ELSE asset
     /\ Finish(j)
     /\ UNCHANGED <<request, step, assignment, notice>>

-----------------------------------------------------------------------------
(* EquipmentAssignmentService.  findOne loads the assignment with its      *)
(* asset, but neither the asset's holder nor its assignments.              *)

\* Variant for mutation: the request's link is cleared, then saved.
LoadUnlinked(j, op, g, status) ==
  LET a == assignment[g].asset
  IN /\ job[j].pc = "idle"
     /\ job' = [job EXCEPT ![j] =
          [NoJob EXCEPT !.op = op, !.pc = "loaded", !.asset = a,
             !.entity = [asset[a] EXCEPT !.status = status],
             !.columns = AssetColumns \ {"assignedEmployee"},
             !.history = Assignments, !.assignment = g]]
     /\ UNCHANGED tables

LoadAssignment(j, op, g, status) ==
  LET a == assignment[g].asset
  IN /\ job[j].pc = "idle"
     /\ job' = [job EXCEPT ![j] =
          [NoJob EXCEPT !.op = op, !.pc = "loaded", !.asset = a,
             !.entity = [asset[a] EXCEPT !.status = status],
             !.columns = AssetColumns \ {"assignedEmployee"},
             !.history = Assignments,
             !.assignment = g, !.links = assignment[g].request]]
     /\ UNCHANGED tables

\* Variant for mutation: what came back is asked back again.
RequestReturnAgain(j, g) ==
  /\ assignment[g].status \in {"active", "returned"}
  /\ LoadAssignment(j, "request_return", g, "return_requested")

RequestReturn(j, g) ==
  /\ assignment[g].status = "active"
  /\ LoadAssignment(j, "request_return", g, "return_requested")

CompleteReturn(j, g) ==
  /\ assignment[g].status = "return_requested"
  /\ LoadAssignment(j, "complete_return", g, "available")

Returning(j) == job[j].op \in {"request_return", "complete_return"}

\* Variant for mutation: a returned assignment gets its asset's status.
AssetReturnStatus(j) ==
  IF job[j].op = "request_return" THEN "return_requested" ELSE "available"

\* The status a return handler gives its assignment.
ReturnStatus(j) ==
  IF job[j].op = "request_return" THEN "return_requested" ELSE "returned"

\* save(assignment), after the asset's.
CompareAssignment(j) ==
  LET g == job[j].assignment
  IN /\ Returning(j) /\ job[j].pc = "saved"
     /\ job' = [job EXCEPT ![j].pc = "matched", ![j].dirty =
          {k \in {"status", "request"} :
             (k = "status" /\ assignment[g].status # ReturnStatus(j))
               \/ (k = "request" /\ assignment[g].request # job[j].links)}]
     /\ UNCHANGED tables

WriteAssignment(j) ==
  LET g     == job[j].assignment
      dirty == job[j].dirty
      row   == [assignment[g] EXCEPT
                  !.status = IF "status" \in dirty THEN ReturnStatus(j) ELSE @,
                  !.request = IF "request" \in dirty THEN job[j].links ELSE @]
  IN /\ job[j].pc = "matched"
     /\ assignment' = [assignment EXCEPT ![g] = row]
     /\ Move(j, "done")
     /\ UNCHANGED <<request, step, asset, notice>>

-----------------------------------------------------------------------------

\* The notice a handler sends last, if it has come that far.
HolderNotice(j) ==
  LET g == job[j].assignment
      r == job[j].request
  IN CASE job[j].op = "assign" ->
            Notice(request[r].requester, "equipment_assigned", r)
       [] job[j].op = "request_return" ->
            Notice(assignment[g].employee, "equipment_return_requested", g)
       [] job[j].op = "complete_return" ->
            Notice(assignment[g].employee, "equipment_returned", g)

NotifyHolder(j) ==
  /\ job[j].pc = "done"
  /\ notice' = notice \cup {HolderNotice(j)}
  /\ Finish(j)
  /\ UNCHANGED <<request, step, asset, assignment>>

\* The process crashes or its connection drops between two awaits.
CutOff(j) ==
  /\ Crashes
  /\ job[j].pc # "idle"
  /\ Finish(j)
  /\ UNCHANGED tables

-----------------------------------------------------------------------------

\* A user calls an endpoint.
StartJob(j) ==
  \/ \E a \in Assets, model \in Models, status \in Manual \cup {"available"} :
       CreateAsset(j, a, model, status)
  \/ \E a \in Assets : Update(j, a)
  \/ \E a \in Assets, status \in Manual : UpdateStatus(j, a, status)
  \/ \E a \in Assets : Retire(j, a)
  \/ \E a \in Assets, u \in Employees, r \in Requests \cup {None} :
       Assign(j, a, u, r)
  \/ \E a \in Assets : FindRemovable(j, a)
  \/ \E g \in Assignments : RequestReturn(j, g)
  \/ \E g \in Assignments : CompleteReturn(j, g)

\* A handler in flight takes its next step.
ContinueJob(j) ==
  \/ CompareAsset(j)
  \/ WriteAsset(j)
  \/ InsertMissing(j)
  \/ FindRequest(j)
  \/ \E g \in Assignments : InsertAssignment(j, g)
  \/ FulfilRequest(j)
  \/ CountHistory(j)
  \/ Delete(j)
  \/ CompareAssignment(j)
  \/ WriteAssignment(j)
  \/ NotifyHolder(j)

InventoryNext == \E j \in Jobs : StartJob(j) \/ ContinueJob(j) \/ CutOff(j)

InventorySpec == InventoryInit /\ [][InventoryNext]_inventoryVars

-----------------------------------------------------------------------------
(* Properties.                                                             *)

\* Every row and every local is of its type.
InventoryTypeOK == TablesTypeOK /\ job \in [Jobs -> Job]

\* The assignment history keeps its assets: whatever a removal counted before
\* its DELETE, an asset somebody was ever assigned still exists.
HistoryKeepsAsset ==
  \A g \in Assignments :
    assignment[g].status # "absent" =>
      /\ assignment[g].asset \in Assets
      /\ asset[assignment[g].asset].status # "absent"

Stage == [active |-> 1, return_requested |-> 2, returned |-> 3]

\* An assignment only moves on, active to return requested to returned, and
\* stays with its asset and its employee, wherever a handler is cut off (with
\* handlers that do not overlap).
AssignmentMovesForward ==
  [][\A g \in Assignments :
       assignment[g].status # "absent" =>
         /\ Stage[assignment'[g].status] >= Stage[assignment[g].status]
         /\ assignment'[g].asset = assignment[g].asset
         /\ assignment'[g].employee = assignment[g].employee]_inventoryVars

\* The assignments of an asset whose equipment has not come back.
OpenOn(a) ==
  {g \in HistoryOf(a) :
     assignment[g].status \in {"active", "return_requested"}}

\* An asset and its assignments tell the same story: what is in stock nobody
\* holds, what is out has one open assignment, in the same stage, and the
\* asset's holder is its employee.
Agrees(a) ==
  /\ asset[a].status = "available" => OpenOn(a) = {}
  /\ asset[a].status \in {"in_use", "return_requested"} =>
       \E g \in Assignments :
         /\ OpenOn(a) = {g}
         /\ asset[a].assignedEmployee = assignment[g].employee
         /\ (asset[a].status = "return_requested")
              = (assignment[g].status = "return_requested")

-----------------------------------------------------------------------------
(* What the documentation promises and the handlers do not keep.           *)

\* inventory.controller.ts, retire: the assignment fields are cleared.
RetiredHasNoHolder ==
  AtRest => \A a \in Assets :
    asset[a].status = "retired" => asset[a].assignedEmployee = None

=============================================================================
