--------------------------- MODULE InventoryProofs --------------------------
(***************************************************************************)
(* Proofs about Inventory, for any number of assets, assignments and       *)
(* handlers that overlap, whatever statuses are set by hand, with handlers *)
(* cut off or not.                                                         *)
(***************************************************************************)
EXTENDS Inventory, TLAPS

Returns == {"request_return", "complete_return"}

\* What a handler that has come so far has in its locals: a row to save, the
\* assignment it returns, the request it fulfils.
Fits(l) ==
  /\ l.pc = "idle" <=> l.op = "none"
  /\ l.op # "none" => l.asset \in Assets
  /\ l.op \in {"save", "assign"} \cup Returns => l.entity.status # "absent"
  /\ l.op \in Returns => l.assignment \in Assignments
                           /\ assignment[l.assignment].asset \in Assets
  /\ l.pc \in {"loaded", "compared", "missing", "saved"} => l.op # "remove"
  /\ l.pc \in {"found", "inserted"} => l.op = "assign"
  /\ l.pc = "matched" => l.op \in Returns
  /\ l.pc = "done" => l.op \in {"assign"} \cup Returns
  /\ l.fulfils => l.request \in Requests
  /\ l.op = "assign" /\ l.pc \in {"inserted", "done"} => l.request \in Requests

\* What holds even when assignments are deleted.
InventoryFits ==
  /\ InventoryTypeOK
  /\ HistoryKeepsAsset
  /\ \A j \in Jobs : Fits(job[j])

\* No handler here deletes an assignment; so those being returned are there.
NoneDeleted ==
  \A g \in Assignments :
    assignment[g].asset \in Assets => assignment[g].status # "absent"

LocalsOK(l) ==
  /\ Fits(l)
  /\ l.op \in Returns => assignment[l.assignment].status # "absent"

InventoryInv ==
  /\ InventoryTypeOK
  /\ HistoryKeepsAsset
  /\ NoneDeleted
  /\ \A j \in Jobs : LocalsOK(job[j])

-----------------------------------------------------------------------------
(* Steps in general.                                                       *)

LEMMA NoJobOK == NoJob \in Job /\ Fits(NoJob)
  BY DEF NoJob, Job, Fits, NoAsset, EquipmentAsset, RetiredAt, Returns

LEMMA RowsFit ==
  ASSUME InventoryFits
  PROVE  /\ asset \in [Assets -> EquipmentAsset]
         /\ assignment \in [Assignments -> EquipmentAssignment]
         /\ \A a \in Assets : asset[a] \in EquipmentAsset
         /\ \A g \in Assignments : assignment[g] \in EquipmentAssignment
         /\ \A j \in Jobs : job[j] \in Job /\ Fits(job[j])
  BY DEF InventoryFits, InventoryTypeOK, TablesTypeOK

\* A step of handler j that keeps the tables' types, the history's assets and
\* what every assignment is of.
LEMMA JobStep ==
  ASSUME InventoryFits, NEW j \in Jobs, NEW l \in Job,
         job' = [job EXCEPT ![j] = l], Fits(l)',
         TablesTypeOK', HistoryKeepsAsset',
         \A g \in Assignments :
           assignment[g].asset \in Assets => assignment'[g].asset \in Assets
  PROVE  InventoryFits'
<1>1. job' \in [Jobs -> Job] /\ job'[j] = l /\ (\A i \in Jobs \ {j} : job'[i] = job[i])
  BY DEF InventoryFits, InventoryTypeOK
<1>2. ASSUME NEW i \in Jobs \ {j}
      PROVE  Fits(job[i])'
  <2>1. Fits(job[i]) /\ job'[i] = job[i]
    BY <1>1 DEF InventoryFits
  <2> QED
    BY <2>1 DEF Fits
<1> QED
  BY <1>1, <1>2 DEF InventoryFits, InventoryTypeOK

\* A step that changes no table.
LEMMA LocalStep ==
  ASSUME InventoryFits, NEW j \in Jobs, NEW l \in Job,
         job' = [job EXCEPT ![j] = l], Fits(l), UNCHANGED tables
  PROVE  InventoryFits'
<1>1. UNCHANGED <<request, step, asset, assignment, notice>>
  BY DEF tables
<1>2. TablesTypeOK' /\ HistoryKeepsAsset'
  BY <1>1 DEF InventoryFits, InventoryTypeOK, TablesTypeOK, HistoryKeepsAsset
<1>3. Fits(l)'
  BY <1>1 DEF Fits
<1> QED
  BY <1>1, <1>2, <1>3, JobStep

\* A handler ends, whatever the tables.
LEMMA Finished ==
  ASSUME NEW j \in Jobs, Finish(j)
  PROVE  NoJob \in Job /\ Fits(NoJob)' /\ job' = [job EXCEPT ![j] = NoJob]
<1>1. Fits(NoJob)'
  BY DEF NoJob, Fits, Returns
<1> QED
  BY <1>1, NoJobOK DEF Finish

\* A handler goes on: its locals are as they were, but for the place.
LEMMA Moved ==
  ASSUME InventoryFits, NEW j \in Jobs,
         NEW pc \in {"missing", "saved", "found", "inserted", "deletable", "done"},
         Move(j, pc)
  PROVE  \E l \in Job :
           /\ job' = [job EXCEPT ![j] = l]
           /\ l.pc = pc /\ l.op = job[j].op /\ l.asset = job[j].asset
           /\ l.entity = job[j].entity /\ l.assignment = job[j].assignment
           /\ l.request = job[j].request /\ l.fulfils = job[j].fulfils
<1> DEFINE l == [job[j] EXCEPT !.pc = pc]
<1>1. job[j] \in Job
  BY RowsFit
<1>2. l \in Job /\ l.pc = pc /\ l.op = job[j].op /\ l.asset = job[j].asset
      /\ l.entity = job[j].entity /\ l.assignment = job[j].assignment
      /\ l.request = job[j].request /\ l.fulfils = job[j].fulfils
  BY <1>1 DEF Job
<1>3. job' = [job EXCEPT ![j] = l]
  BY DEF Move
<1> QED
  BY <1>2, <1>3

LEMMA InitFits == InventoryInit => InventoryFits
<1> SUFFICES ASSUME InventoryInit PROVE InventoryFits
  OBVIOUS
<1>1. TablesTypeOK
  BY DEF InventoryInit, TablesInit, StockInit, TablesTypeOK, EquipmentRequest,
       ApprovalStep, EquipmentAsset, EquipmentAssignment, NoRequest, NoStep, NoAsset,
       NoAssignment, RequestType, ApprovalRole, EquipmentAssetStatus, RetiredAt
<1>2. HistoryKeepsAsset
  BY DEF InventoryInit, TablesInit, StockInit, HistoryKeepsAsset, NoAssignment
<1>3. job \in [Jobs -> Job] /\ (\A j \in Jobs : Fits(job[j]))
  BY NoJobOK DEF InventoryInit
<1> QED
  BY <1>1, <1>2, <1>3 DEF InventoryFits, InventoryTypeOK

-----------------------------------------------------------------------------
(* Handlers that load.                                                     *)

\* The locals of a handler that has loaded an asset that is there.
LEMMA LoadInv ==
  ASSUME InventoryFits, NEW j \in Jobs, NEW op \in {"save", "assign"} \cup Returns,
         NEW a \in Assets, NEW l \in Job,
         job' = [job EXCEPT ![j] = l], UNCHANGED tables,
         l.op = op, l.pc = "loaded", l.asset = a, l.entity.status # "absent",
         ~l.fulfils,
         op \in Returns => l.assignment \in Assignments
                             /\ assignment[l.assignment].asset \in Assets
  PROVE  InventoryFits'
<1>1. Fits(l)
  BY DEF Fits, Returns
<1> QED
  BY <1>1, LocalStep

LEMMA AssetLoaded ==
  ASSUME InventoryFits, NEW j \in Jobs, NEW a \in Assets, NEW entity \in EquipmentAsset,
         NEW columns \in SUBSET AssetColumns, entity.status # "absent",
         Load(j, "save", a, entity, columns)
  PROVE  InventoryFits'
<1> DEFINE l == [NoJob EXCEPT !.op = "save", !.pc = "loaded", !.asset = a,
                              !.entity = entity, !.columns = columns,
                              !.history = HistoryOf(a)]
<1>1. l \in Job /\ l.op = "save" /\ l.pc = "loaded" /\ l.asset = a
      /\ l.entity = entity /\ ~l.fulfils
  BY NoJobOK DEF NoJob, Job, HistoryOf
<1>2. job' = [job EXCEPT ![j] = l] /\ UNCHANGED tables
  BY DEF Load
<1> HIDE DEF l
<1> QED
  BY <1>1, <1>2, LoadInv DEF Returns

LEMMA UpdateInv ==
  ASSUME InventoryFits, NEW j \in Jobs, NEW a \in Assets, Update(j, a)
  PROVE  InventoryFits'
<1>1. asset[a] \in EquipmentAsset /\ asset[a].status # "absent"
  BY RowsFit DEF Update, Load
<1> QED
  BY <1>1, AssetLoaded DEF Update

LEMMA UpdateStatusInv ==
  ASSUME InventoryFits, NEW j \in Jobs, NEW a \in Assets, NEW status \in Manual,
         UpdateStatus(j, a, status)
  PROVE  InventoryFits'
<1> DEFINE entity == [asset[a] EXCEPT !.status = status]
<1>1. status \in EquipmentAssetStatus
  BY JobAssumption
<1>2. asset[a] \in EquipmentAsset
  BY RowsFit
<1>3. entity \in EquipmentAsset /\ entity.status # "absent"
  BY <1>1, <1>2 DEF EquipmentAsset, EquipmentAssetStatus
<1> QED
  BY <1>3, AssetLoaded DEF UpdateStatus

LEMMA RetireInv ==
  ASSUME InventoryFits, NEW j \in Jobs, NEW a \in Assets, Retire(j, a)
  PROVE  InventoryFits'
<1> DEFINE entity == [asset[a] EXCEPT !.status = "retired", !.retiredAt = "set"]
<1>1. asset[a] \in EquipmentAsset
  BY RowsFit
<1>2. entity \in EquipmentAsset /\ entity.status # "absent"
  BY <1>1 DEF EquipmentAsset, EquipmentAssetStatus, RetiredAt
<1> QED
  BY <1>2, AssetLoaded DEF Retire

LEMMA AssignInv ==
  ASSUME InventoryFits, NEW j \in Jobs, NEW a \in Assets, NEW u \in Employees,
         NEW r \in Requests \cup {None}, Assign(j, a, u, r)
  PROVE  InventoryFits'
<1> DEFINE entity == [asset[a] EXCEPT !.status = "in_use", !.assignedEmployee = u]
           l == [NoJob EXCEPT !.op = "assign", !.pc = "loaded", !.asset = a,
                   !.entity = entity, !.columns = AssetColumns,
                   !.history = HistoryOf(a), !.employee = u, !.request = r]
<1>1. asset[a] \in EquipmentAsset
  BY RowsFit
<1>2. entity \in EquipmentAsset /\ entity.status # "absent"
  BY <1>1 DEF EquipmentAsset, EquipmentAssetStatus
<1>3. job' = [job EXCEPT ![j] = l] /\ UNCHANGED tables
  BY DEF Assign
<1> HIDE DEF entity
<1>4. l \in Job /\ l.op = "assign" /\ l.pc = "loaded" /\ l.asset = a
      /\ l.entity = entity /\ ~l.fulfils
  BY <1>2, NoJobOK DEF NoJob, Job, HistoryOf
<1> HIDE DEF l
<1> QED
  BY <1>2, <1>3, <1>4, LoadInv DEF Returns

LEMMA LoadAssignmentInv ==
  ASSUME InventoryFits, NEW j \in Jobs, NEW g \in Assignments, NEW op \in Returns,
         NEW status \in {"return_requested", "available"},
         assignment[g].status # "absent", LoadAssignment(j, op, g, status)
  PROVE  InventoryFits'
<1> DEFINE a == assignment[g].asset
           entity == [asset[a] EXCEPT !.status = status]
           l == [NoJob EXCEPT !.op = op, !.pc = "loaded", !.asset = a,
                   !.entity = entity, !.columns = AssetColumns \ {"assignedEmployee"},
                   !.history = Assignments,
                   !.assignment = g, !.links = assignment[g].request]
<1>1. a \in Assets /\ asset[a] \in EquipmentAsset
      /\ assignment[g].request \in Requests \cup {None}
  BY RowsFit DEF InventoryFits, HistoryKeepsAsset, EquipmentAssignment
<1>2. entity \in EquipmentAsset /\ entity.status # "absent"
  BY <1>1 DEF EquipmentAsset, EquipmentAssetStatus
<1>3. job' = [job EXCEPT ![j] = l] /\ UNCHANGED tables
  BY DEF LoadAssignment
<1> HIDE DEF entity
<1>4. l \in Job /\ l.op = op /\ l.pc = "loaded" /\ l.asset = a
      /\ l.entity = entity /\ ~l.fulfils /\ l.assignment = g
  BY <1>1, <1>2, NoJobOK DEF NoJob, Job, Returns
<1> HIDE DEF l
<1> QED
  BY <1>1, <1>2, <1>3, <1>4, LoadInv

LEMMA FindRemovableInv ==
  ASSUME InventoryFits, NEW j \in Jobs, NEW a \in Assets, FindRemovable(j, a)
  PROVE  InventoryFits'
<1> DEFINE pc == IF asset[a].status = "retired" THEN "deletable" ELSE "counting"
           l == [NoJob EXCEPT !.op = "remove", !.asset = a, !.entity = asset[a], !.pc = pc]
<1>1. asset[a] \in EquipmentAsset
  BY RowsFit
<1>2. job' = [job EXCEPT ![j] = l] /\ UNCHANGED tables
  BY DEF FindRemovable
<1>3. l \in Job /\ l.op = "remove" /\ l.pc \in {"deletable", "counting"} /\ l.asset = a
      /\ ~l.fulfils
  BY <1>1, NoJobOK DEF NoJob, Job
<1> HIDE DEF l
<1>4. Fits(l)
  BY <1>3 DEF Fits, Returns
<1> QED
  BY <1>2, <1>3, <1>4, LocalStep

LEMMA CreateAssetInv ==
  ASSUME InventoryFits, NEW j \in Jobs, NEW a \in Assets, NEW model \in Models,
         NEW status \in Manual \cup {"available"}, CreateAsset(j, a, model, status)
  PROVE  InventoryFits'
<1> DEFINE row == [status |-> status, model |-> model, assignedEmployee |-> None,
                   retiredAt |-> None]
<1>1. status \in EquipmentAssetStatus /\ status # "absent"
  BY JobAssumption DEF EquipmentAssetStatus
<1>2. row \in EquipmentAsset /\ row.status # "absent"
  BY <1>1 DEF EquipmentAsset, RetiredAt
<1>3. asset' = [asset EXCEPT ![a] = row]
      /\ UNCHANGED <<request, step, assignment, notice, job>>
  BY DEF CreateAsset
<1> HIDE DEF row
<1>4. TablesTypeOK' /\ HistoryKeepsAsset'
  BY <1>2, <1>3 DEF InventoryFits, InventoryTypeOK, TablesTypeOK, HistoryKeepsAsset
<1> QED
  BY <1>3, <1>4 DEF InventoryFits, InventoryTypeOK, Fits

LEMMA StartJobInv ==
  ASSUME InventoryFits, NEW j \in Jobs, StartJob(j)
  PROVE  InventoryFits'
<1>1. ASSUME NEW g \in Assignments, RequestReturn(j, g)
      PROVE  InventoryFits'
  BY <1>1, LoadAssignmentInv DEF RequestReturn, Returns
<1>2. ASSUME NEW g \in Assignments, CompleteReturn(j, g)
      PROVE  InventoryFits'
  BY <1>2, LoadAssignmentInv DEF CompleteReturn, Returns
<1> QED
  BY <1>1, <1>2, CreateAssetInv, UpdateInv, UpdateStatusInv, RetireInv, AssignInv,
     FindRemovableInv DEF StartJob

-----------------------------------------------------------------------------
(* Handlers that go on.                                                    *)

\* An exception, or a crash between two awaits.
LEMMA GiveUpInv ==
  ASSUME InventoryFits, NEW j \in Jobs, Finish(j), UNCHANGED tables
  PROVE  InventoryFits'
  BY LocalStep, NoJobOK DEF Finish

LEMMA CompareAssetInv ==
  ASSUME InventoryFits, NEW j \in Jobs, CompareAsset(j)
  PROVE  InventoryFits'
<1> DEFINE a == job[j].asset
           columns == {k \in job[j].columns : job[j].entity[k] # asset[a][k]}
           l == [job[j] EXCEPT !.pc = "compared", !.columns = columns]
<1>1. /\ job[j].pc = "loaded" /\ UNCHANGED tables
      /\ \/ Move(j, "missing")
         \/ job' = [job EXCEPT ![j] = l]
         \/ Finish(j)
  BY DEF CompareAsset
<1>2. job[j] \in Job /\ Fits(job[j])
  BY RowsFit
<1>3. CASE Move(j, "missing")
  <2>1. PICK k \in Job :
          /\ job' = [job EXCEPT ![j] = k]
          /\ k.pc = "missing" /\ k.op = job[j].op /\ k.asset = job[j].asset
          /\ k.entity = job[j].entity /\ k.assignment = job[j].assignment
          /\ k.request = job[j].request /\ k.fulfils = job[j].fulfils
    BY <1>3, Moved
  <2>2. Fits(k)
    BY <1>1, <1>2, <2>1 DEF Fits, Returns
  <2> QED
    BY <1>1, <2>1, <2>2, LocalStep
<1>4. CASE job' = [job EXCEPT ![j] = l]
  <2>1. l \in Job /\ l.pc = "compared" /\ l.op = job[j].op /\ l.asset = job[j].asset
        /\ l.entity = job[j].entity /\ l.assignment = job[j].assignment
        /\ l.request = job[j].request /\ l.fulfils = job[j].fulfils
    <3>1. columns \in SUBSET AssetColumns
      BY <1>2 DEF Job
    <3> HIDE DEF columns
    <3> QED
      BY <1>2, <3>1 DEF Job
  <2> HIDE DEF l
  <2>2. Fits(l)
    BY <1>1, <1>2, <2>1 DEF Fits, Returns
  <2> QED
    BY <1>1, <1>4, <2>1, <2>2, LocalStep
<1>5. CASE Finish(j)
  BY <1>1, <1>5, GiveUpInv
<1> QED
  BY <1>1, <1>3, <1>4, <1>5

\* After the save of the asset, whichever way the row was written.
LEMMA SavedInv ==
  ASSUME InventoryFits, NEW j \in Jobs, job[j].pc \in {"compared", "missing"},
         AssetSaved(j), UNCHANGED <<request, step, assignment, notice>>,
         asset' \in [Assets -> EquipmentAsset],
         \A a \in Assets : asset[a].status # "absent" => asset'[a].status # "absent"
  PROVE  InventoryFits'
<1>1. TablesTypeOK' /\ HistoryKeepsAsset'
  BY DEF InventoryFits, InventoryTypeOK, TablesTypeOK, HistoryKeepsAsset
<1>2. CASE job[j].op = "save"
  BY <1>1, <1>2, Finished, JobStep DEF AssetSaved
<1>3. CASE job[j].op # "save"
  <2>1. PICK k \in Job :
          /\ job' = [job EXCEPT ![j] = k]
          /\ k.pc = "saved" /\ k.op = job[j].op /\ k.asset = job[j].asset
          /\ k.entity = job[j].entity /\ k.assignment = job[j].assignment
          /\ k.request = job[j].request /\ k.fulfils = job[j].fulfils
    BY <1>3, Moved DEF AssetSaved
  <2>2. Fits(job[j])
    BY RowsFit
  <2>3. Fits(k)'
    BY <2>1, <2>2 DEF Fits, Returns
  <2> QED
    BY <1>1, <2>1, <2>3, JobStep
<1> QED
  BY <1>2, <1>3

LEMMA WriteAssetInv ==
  ASSUME InventoryFits, NEW j \in Jobs, WriteAsset(j)
  PROVE  InventoryFits'
<1> DEFINE a == job[j].asset
           c == job[j].columns
           x == job[j].entity
           row == [k \in DOMAIN asset[a] |-> IF k \in c THEN x[k] ELSE asset[a][k]]
<1>1. /\ a \in Assets /\ x \in EquipmentAsset /\ x.status # "absent"
      /\ asset[a] \in EquipmentAsset /\ job[j].pc = "compared"
  <2>1. job[j].pc = "compared" /\ job[j] \in Job /\ Fits(job[j])
    BY RowsFit DEF WriteAsset
  <2> QED
    BY <2>1, RowsFit DEF Fits, Job, Returns
<1>2. asset' = IF asset[a].status = "absent" THEN asset ELSE [asset EXCEPT ![a] = row]
  BY DEF WriteAsset
<1>3. /\ row \in EquipmentAsset
      /\ row.status \in {x.status, asset[a].status}
  <2>1. DOMAIN asset[a] = {"status", "model", "assignedEmployee", "retiredAt"}
    BY <1>1 DEF EquipmentAsset
  <2>2. row = [status |-> row.status, model |-> row.model,
               assignedEmployee |-> row.assignedEmployee, retiredAt |-> row.retiredAt]
    BY <2>1
  <2>3. /\ row.status \in {x.status, asset[a].status}
        /\ row.model \in {x.model, asset[a].model}
        /\ row.assignedEmployee \in {x.assignedEmployee, asset[a].assignedEmployee}
        /\ row.retiredAt \in {x.retiredAt, asset[a].retiredAt}
    BY <2>1
  <2> HIDE DEF row
  <2> QED
    BY <1>1, <2>2, <2>3 DEF EquipmentAsset
<1> HIDE DEF row
<1>4. /\ asset' \in [Assets -> EquipmentAsset]
      /\ \A b \in Assets : asset[b].status # "absent" => asset'[b].status # "absent"
  BY <1>1, <1>2, <1>3, RowsFit
<1> QED
  BY <1>1, <1>4, SavedInv DEF WriteAsset

LEMMA InsertMissingInv ==
  ASSUME InventoryFits, NEW j \in Jobs, InsertMissing(j)
  PROVE  InventoryFits'
<1> DEFINE a == job[j].asset
           x == job[j].entity
           holder == IF "assignedEmployee" \in job[j].columns
                       THEN x.assignedEmployee ELSE None
           row == [x EXCEPT !.assignedEmployee = holder]
<1>1. /\ a \in Assets /\ x \in EquipmentAsset /\ x.status # "absent"
      /\ job[j].pc = "missing"
  <2>1. job[j].pc = "missing" /\ job[j] \in Job /\ Fits(job[j])
    BY RowsFit DEF InsertMissing
  <2> QED
    BY <2>1 DEF Fits, Job, Returns
<1>2. /\ UNCHANGED <<request, step, assignment, notice>>
      /\ \/ asset' = [asset EXCEPT ![a] = row] /\ AssetSaved(j)
         \/ Finish(j) /\ UNCHANGED asset
  BY DEF InsertMissing
<1>3. row \in EquipmentAsset /\ row.status # "absent"
  BY <1>1 DEF EquipmentAsset
<1> HIDE DEF row
<1>4. CASE asset' = [asset EXCEPT ![a] = row] /\ AssetSaved(j)
  BY <1>1, <1>2, <1>3, <1>4, RowsFit, SavedInv
<1>5. CASE Finish(j) /\ UNCHANGED asset
  BY <1>2, <1>5, GiveUpInv DEF tables
<1> QED
  BY <1>2, <1>4, <1>5

LEMMA FindRequestInv ==
  ASSUME InventoryFits, NEW j \in Jobs, FindRequest(j)
  PROVE  InventoryFits'
<1> DEFINE found == {r \in {job[j].request} \cap Requests : request[r].status # "absent"}
           f == \E r \in found : request[r].status = "procurement_approved"
           r1 == IF found = {} THEN None ELSE job[j].request
           l == [job[j] EXCEPT !.pc = "found", !.request = r1, !.fulfils = f]
<1>1. /\ job[j].op = "assign" /\ job[j].pc = "saved" /\ UNCHANGED tables
      /\ job' = [job EXCEPT ![j] = l]
  BY DEF FindRequest
<1>2. job[j] \in Job /\ Fits(job[j])
  BY RowsFit
<1>3. /\ f \in BOOLEAN /\ r1 \in Requests \cup {None}
      /\ f => r1 \in Requests
  BY <1>2 DEF Job
<1> HIDE DEF f, r1
<1>4. l \in Job /\ l.pc = "found" /\ l.op = "assign" /\ l.asset = job[j].asset
      /\ l.entity = job[j].entity /\ l.request = r1 /\ l.fulfils = f
  BY <1>1, <1>2, <1>3 DEF Job
<1> HIDE DEF l
<1>5. Fits(l)
  BY <1>1, <1>2, <1>3, <1>4 DEF Fits, Returns
<1> QED
  BY <1>1, <1>4, <1>5, LocalStep

LEMMA InsertAssignmentInv ==
  ASSUME InventoryFits, NEW j \in Jobs, NEW g \in Assignments, InsertAssignment(j, g)
  PROVE  InventoryFits'
<1> DEFINE a == job[j].asset
           row == [status |-> "active", asset |-> a, employee |-> job[j].employee,
                   request |-> job[j].request]
<1>1. /\ job[j].pc = "found" /\ job[j] \in Job /\ Fits(job[j])
      /\ UNCHANGED <<request, step, asset, notice>>
  BY RowsFit DEF InsertAssignment
<1>2. CASE asset[a].status = "absent"
  BY <1>1, <1>2, GiveUpInv DEF InsertAssignment, tables
<1>3. CASE asset[a].status # "absent"
  <2>1. /\ assignment' = [assignment EXCEPT ![g] = row]
        /\ IF job[j].fulfils THEN Move(j, "inserted") ELSE Finish(j)
    BY <1>3 DEF InsertAssignment
  <2>2. a \in Assets
    BY <1>1 DEF Fits
  <2>3. row \in EquipmentAssignment /\ row.status = "active" /\ row.asset = a
    BY <1>1, <2>2 DEF Job, EquipmentAssignment, EquipmentAssignmentStatus
  <2> HIDE DEF row
  <2>4. /\ assignment' \in [Assignments -> EquipmentAssignment]
        /\ assignment'[g] = row
        /\ \A h \in Assignments \ {g} : assignment'[h] = assignment[h]
    BY <2>1, <2>3, RowsFit
  <2>5. TablesTypeOK' /\ HistoryKeepsAsset'
    BY <1>1, <1>3, <2>2, <2>3, <2>4
       DEF InventoryFits, InventoryTypeOK, TablesTypeOK, HistoryKeepsAsset
  <2>6. \A h \in Assignments :
          assignment[h].asset \in Assets => assignment'[h].asset \in Assets
    BY <2>2, <2>3, <2>4
  <2>7. CASE job[j].fulfils
    <3>1. PICK k \in Job :
            /\ job' = [job EXCEPT ![j] = k]
            /\ k.pc = "inserted" /\ k.op = job[j].op /\ k.asset = job[j].asset
            /\ k.entity = job[j].entity /\ k.assignment = job[j].assignment
            /\ k.request = job[j].request /\ k.fulfils = job[j].fulfils
      BY <2>1, <2>7, Moved
    <3>2. Fits(k)'
      BY <1>1, <2>7, <3>1 DEF Fits, Returns
    <3> QED
      BY <2>5, <2>6, <3>1, <3>2, JobStep
  <2>8. CASE ~job[j].fulfils
    BY <2>1, <2>5, <2>6, <2>8, Finished, JobStep
  <2> QED
    BY <2>7, <2>8
<1> QED
  BY <1>2, <1>3

LEMMA FulfilRequestInv ==
  ASSUME InventoryFits, NEW j \in Jobs, FulfilRequest(j)
  PROVE  InventoryFits'
<1>1. /\ job[j].pc = "inserted" /\ job[j] \in Job /\ Fits(job[j])
      /\ UNCHANGED <<step, asset, assignment, notice>>
      /\ request' = [request EXCEPT ![job[j].request].status = "fulfilled"]
  BY RowsFit DEF FulfilRequest
<1>2. request' \in [Requests -> EquipmentRequest]
  <2>1. request \in [Requests -> EquipmentRequest]
    BY DEF InventoryFits, InventoryTypeOK, TablesTypeOK
  <2>2. \A r \in Requests : [request[r] EXCEPT !.status = "fulfilled"] \in EquipmentRequest
    BY <2>1 DEF EquipmentRequest, RequestStatus
  <2> QED
    BY <1>1, <2>1, <2>2
<1>3. TablesTypeOK' /\ HistoryKeepsAsset'
  BY <1>1, <1>2 DEF InventoryFits, InventoryTypeOK, TablesTypeOK, HistoryKeepsAsset
<1>4. PICK k \in Job :
        /\ job' = [job EXCEPT ![j] = k]
        /\ k.pc = "done" /\ k.op = job[j].op /\ k.asset = job[j].asset
        /\ k.entity = job[j].entity /\ k.assignment = job[j].assignment
        /\ k.request = job[j].request /\ k.fulfils = job[j].fulfils
  BY Moved DEF FulfilRequest
<1>5. Fits(k)'
  BY <1>1, <1>4 DEF Fits, Returns
<1> QED
  BY <1>1, <1>3, <1>4, <1>5, JobStep

LEMMA CountHistoryInv ==
  ASSUME InventoryFits, NEW j \in Jobs, CountHistory(j)
  PROVE  InventoryFits'
<1>1. /\ job[j].pc = "counting" /\ job[j] \in Job /\ Fits(job[j]) /\ UNCHANGED tables
      /\ Move(j, "deletable") \/ Finish(j)
  BY RowsFit DEF CountHistory
<1>2. CASE Move(j, "deletable")
  <2>1. PICK k \in Job :
          /\ job' = [job EXCEPT ![j] = k]
          /\ k.pc = "deletable" /\ k.op = job[j].op /\ k.asset = job[j].asset
          /\ k.entity = job[j].entity /\ k.assignment = job[j].assignment
          /\ k.request = job[j].request /\ k.fulfils = job[j].fulfils
    BY <1>2, Moved
  <2>2. Fits(k)
    BY <1>1, <2>1 DEF Fits, Returns
  <2> QED
    BY <1>1, <2>1, <2>2, LocalStep
<1> QED
  BY <1>1, <1>2, GiveUpInv

\* What the removal counted may be out of date; the foreign key is not.
LEMMA DeleteInv ==
  ASSUME InventoryFits, NEW j \in Jobs, Delete(j)
  PROVE  InventoryFits'
<1> DEFINE a == job[j].asset
           row == [asset[a] EXCEPT !.status = "absent"]
<1>1. /\ UNCHANGED <<request, step, assignment, notice>> /\ Finish(j)
      /\ \/ HistoryOf(a) = {} /\ asset' = [asset EXCEPT ![a] = row]
         \/ UNCHANGED asset
  BY DEF Delete
<1>2. CASE UNCHANGED asset
  BY <1>1, <1>2, GiveUpInv DEF tables
<1>3. CASE HistoryOf(a) = {} /\ asset' = [asset EXCEPT ![a] = row]
  <2>1. \A b \in Assets : [asset[b] EXCEPT !.status = "absent"] \in EquipmentAsset
    BY RowsFit DEF EquipmentAsset
  <2>2. /\ asset' \in [Assets -> EquipmentAsset]
        /\ \A b \in Assets : b # a => asset'[b] = asset[b]
    BY <1>3, <2>1, RowsFit
  <2>3. TablesTypeOK' /\ HistoryKeepsAsset'
    BY <1>1, <1>3, <2>2
       DEF InventoryFits, InventoryTypeOK, TablesTypeOK, HistoryKeepsAsset, HistoryOf
  <2> QED
    BY <1>1, <2>3, Finished, JobStep
<1> QED
  BY <1>1, <1>2, <1>3

LEMMA CompareAssignmentInv ==
  ASSUME InventoryFits, NEW j \in Jobs, CompareAssignment(j)
  PROVE  InventoryFits'
<1> DEFINE g == job[j].assignment
           dirty == {k \in {"status", "request"} :
             (k = "status" /\ assignment[g].status # ReturnStatus(j))
               \/ (k = "request" /\ assignment[g].request # job[j].links)}
           l == [job[j] EXCEPT !.pc = "matched", !.dirty = dirty]
<1>1. /\ Returning(j) /\ job[j] \in Job /\ Fits(job[j]) /\ UNCHANGED tables
      /\ job' = [job EXCEPT ![j] = l]
  BY RowsFit DEF CompareAssignment
<1>2. dirty \in SUBSET {"status", "request"}
  OBVIOUS
<1> HIDE DEF dirty
<1>3. l \in Job /\ l.pc = "matched" /\ l.op = job[j].op /\ l.asset = job[j].asset
      /\ l.entity = job[j].entity /\ l.assignment = job[j].assignment
      /\ l.request = job[j].request /\ l.fulfils = job[j].fulfils
  BY <1>1, <1>2 DEF Job
<1> HIDE DEF l
<1>4. Fits(l)
  BY <1>1, <1>3 DEF Fits, Returns, Returning
<1> QED
  BY <1>1, <1>3, <1>4, LocalStep

LEMMA WriteAssignmentInv ==
  ASSUME InventoryFits, NEW j \in Jobs, WriteAssignment(j),
         assignment[job[j].assignment].status # "absent"
  PROVE  InventoryFits'
<1> DEFINE g == job[j].assignment
           dirty == job[j].dirty
           status == IF "status" \in dirty THEN ReturnStatus(j) ELSE assignment[g].status
           link == IF "request" \in dirty THEN job[j].links ELSE assignment[g].request
           row == [assignment[g] EXCEPT
                     !.status = IF "status" \in dirty THEN ReturnStatus(j) ELSE @,
                     !.request = IF "request" \in dirty THEN job[j].links ELSE @]
<1>1. /\ job[j].pc = "matched" /\ job[j] \in Job /\ Fits(job[j])
      /\ UNCHANGED <<request, step, asset, notice>>
      /\ assignment' = [assignment EXCEPT ![g] = row]
  BY RowsFit DEF WriteAssignment
<1>2. /\ g \in Assignments /\ assignment[g] \in EquipmentAssignment
      /\ assignment[g].status # "absent" /\ job[j].links \in Requests \cup {None}
  BY <1>1, RowsFit DEF Fits, Job, Returns
<1>3. /\ status \in EquipmentAssignmentStatus /\ link \in Requests \cup {None}
  BY <1>2 DEF EquipmentAssignment, EquipmentAssignmentStatus, ReturnStatus
<1>4. /\ row \in EquipmentAssignment /\ row.status # "absent"
      /\ row.asset = assignment[g].asset
  <2>1. row = [assignment[g] EXCEPT !.status = status, !.request = link]
    BY <1>2 DEF EquipmentAssignment
  <2> HIDE DEF status, link, row
  <2> QED
    BY <1>2, <1>3, <2>1 DEF EquipmentAssignment, EquipmentAssignmentStatus
<1> HIDE DEF row
<1>5. /\ assignment' \in [Assignments -> EquipmentAssignment]
      /\ assignment'[g] = row
      /\ \A h \in Assignments \ {g} : assignment'[h] = assignment[h]
  BY <1>1, <1>2, <1>4, RowsFit
<1>6. TablesTypeOK' /\ HistoryKeepsAsset'
  BY <1>1, <1>2, <1>4, <1>5
     DEF InventoryFits, InventoryTypeOK, TablesTypeOK, HistoryKeepsAsset
<1>7. PICK k \in Job :
        /\ job' = [job EXCEPT ![j] = k]
        /\ k.pc = "done" /\ k.op = job[j].op /\ k.asset = job[j].asset
        /\ k.entity = job[j].entity /\ k.assignment = job[j].assignment
        /\ k.request = job[j].request /\ k.fulfils = job[j].fulfils
  BY Moved DEF WriteAssignment
<1>8. Fits(k)'
  BY <1>1, <1>4, <1>5, <1>7 DEF Fits, Returns
<1>9. \A h \in Assignments :
        assignment[h].asset \in Assets => assignment'[h].asset \in Assets
  BY <1>4, <1>5
<1> QED
  BY <1>6, <1>7, <1>8, <1>9, JobStep

\* Whoever is told is an employee or nobody, about a row that is there.
LEMMA NotifyHolderInv ==
  ASSUME InventoryFits, NEW j \in Jobs, NotifyHolder(j)
  PROVE  InventoryFits'
<1>1. /\ job[j].pc = "done" /\ job[j] \in Job /\ Fits(job[j]) /\ Finish(j)
      /\ UNCHANGED <<request, step, asset, assignment>>
      /\ notice' = notice \cup {HolderNotice(j)}
  BY RowsFit DEF NotifyHolder
<1>2. HolderNotice(j) \in Notification
  <2>1. \A r \in Requests : request[r].requester \in Employees \cup {None}
    BY DEF InventoryFits, InventoryTypeOK, TablesTypeOK, EquipmentRequest
  <2>2. \A g \in Assignments : assignment[g].employee \in Employees \cup {None}
    BY RowsFit DEF EquipmentAssignment
  <2>3. CASE job[j].op = "assign"
    BY <1>1, <2>1, <2>3 DEF Fits, HolderNotice, Notice, Notification, NotificationType
  <2>4. CASE job[j].op = "request_return"
    BY <1>1, <2>2, <2>4
       DEF Fits, HolderNotice, Notice, Notification, NotificationType, Returns
  <2>5. CASE job[j].op = "complete_return"
    BY <1>1, <2>2, <2>5
       DEF Fits, HolderNotice, Notice, Notification, NotificationType, Returns
  <2> QED
    BY <1>1, <2>3, <2>4, <2>5 DEF Fits, Returns
<1>3. TablesTypeOK' /\ HistoryKeepsAsset'
  BY <1>1, <1>2 DEF InventoryFits, InventoryTypeOK, TablesTypeOK, HistoryKeepsAsset
<1> QED
  BY <1>1, <1>3, Finished, JobStep

-----------------------------------------------------------------------------
(* The invariant.                                                          *)

LEMMA FitsInv ==
  ASSUME InventoryInv
  PROVE  InventoryFits
  BY DEF InventoryInv, InventoryFits, LocalsOK

LEMMA InvFits ==
  ASSUME InventoryFits, NoneDeleted
  PROVE  InventoryInv
  BY DEF InventoryInv, InventoryFits, LocalsOK, Fits, NoneDeleted

LEMMA RowsTyped ==
  ASSUME InventoryInv
  PROVE  /\ asset \in [Assets -> EquipmentAsset]
         /\ assignment \in [Assignments -> EquipmentAssignment]
         /\ \A a \in Assets : asset[a] \in EquipmentAsset
         /\ \A g \in Assignments : assignment[g] \in EquipmentAssignment
         /\ \A j \in Jobs : job[j] \in Job /\ LocalsOK(job[j])
  BY RowsFit, FitsInv DEF InventoryInv

LEMMA InitInv == InventoryInit => InventoryInv
<1> SUFFICES ASSUME InventoryInit PROVE InventoryInv
  OBVIOUS
<1>1. NoneDeleted
  BY NoneAssumption DEF InventoryInit, TablesInit, StockInit, NoneDeleted, NoAssignment
<1> QED
  BY <1>1, InitFits, InvFits

LEMMA StepFits ==
  ASSUME InventoryFits, NEW j \in Jobs, StartJob(j) \/ ContinueJob(j) \/ CutOff(j),
         WriteAssignment(j) => assignment[job[j].assignment].status # "absent"
  PROVE  InventoryFits'
<1>1. CASE ContinueJob(j)
  BY <1>1, CompareAssetInv, WriteAssetInv, InsertMissingInv, FindRequestInv,
     InsertAssignmentInv, FulfilRequestInv, CountHistoryInv, DeleteInv,
     CompareAssignmentInv, WriteAssignmentInv, NotifyHolderInv DEF ContinueJob
<1>2. CASE CutOff(j)
  BY <1>2, GiveUpInv DEF CutOff
<1> QED
  BY <1>1, <1>2, StartJobInv

\* Two handlers write assignments, and neither deletes one.
LEMMA NoneDeletedStep ==
  ASSUME InventoryInv, NEW j \in Jobs, StartJob(j) \/ ContinueJob(j) \/ CutOff(j)
  PROVE  NoneDeleted'
<1>1. NoneDeleted
  BY DEF InventoryInv
<1>2. ASSUME NEW g \in Assignments, InsertAssignment(j, g)
      PROVE  NoneDeleted'
  <2>1. \/ UNCHANGED assignment
        \/ /\ \A h \in Assignments \ {g} : assignment'[h] = assignment[h]
           /\ assignment'[g].status = "active"
    BY <1>2, RowsFit, FitsInv DEF InsertAssignment
  <2> QED
    BY <1>1, <2>1 DEF NoneDeleted
<1>3. CASE WriteAssignment(j)
  <2> DEFINE g == job[j].assignment
             row == [assignment[g] EXCEPT
                     !.status = IF "status" \in job[j].dirty
                                THEN ReturnStatus(j) ELSE @,
                     !.request = IF "request" \in job[j].dirty
                                 THEN job[j].links ELSE @]
  <2>1. g \in Assignments /\ assignment[g].status # "absent"
    BY <1>3 DEF InventoryInv, LocalsOK, Fits, WriteAssignment
  <2>2. row.status # "absent"
    BY <2>1, RowsFit, FitsInv DEF EquipmentAssignment, ReturnStatus
  <2>3. assignment' = [assignment EXCEPT ![g] = row]
    BY <1>3 DEF WriteAssignment
  <2> HIDE DEF row
  <2>4. \A h \in Assignments : assignment'[h] = IF h = g THEN row ELSE assignment[h]
    BY <2>1, <2>3, RowsFit, FitsInv
  <2> QED
    BY <1>1, <2>2, <2>4 DEF NoneDeleted
<1>4. CASE UNCHANGED assignment
  BY <1>1, <1>4 DEF NoneDeleted
<1>5. \/ UNCHANGED assignment
      \/ \E g \in Assignments : InsertAssignment(j, g)
      \/ WriteAssignment(j)
  BY DEF StartJob, ContinueJob, CutOff, CreateAsset, Update, UpdateStatus, Retire,
     Assign, Load, LoadAssignment, FindRemovable, RequestReturn, CompleteReturn,
     CompareAsset, WriteAsset, InsertMissing, FindRequest, FulfilRequest,
     CountHistory, Delete, CompareAssignment, NotifyHolder, tables
<1> QED
  BY <1>2, <1>3, <1>4, <1>5

LEMMA StepInv ==
  ASSUME InventoryInv, [InventoryNext]_inventoryVars
  PROVE  InventoryInv'
<1>1. CASE UNCHANGED inventoryVars
  BY <1>1 DEF inventoryVars, tables, InventoryInv, InventoryTypeOK, TablesTypeOK,
       HistoryKeepsAsset, NoneDeleted, LocalsOK, Fits
<1>2. ASSUME NEW j \in Jobs, StartJob(j) \/ ContinueJob(j) \/ CutOff(j)
      PROVE  InventoryInv'
  <2>1. WriteAssignment(j) => assignment[job[j].assignment].status # "absent"
    BY DEF InventoryInv, LocalsOK, Fits, WriteAssignment
  <2>2. InventoryFits'
    BY <1>2, <2>1, FitsInv, StepFits
  <2>3. NoneDeleted'
    BY <1>2, NoneDeletedStep
  <2> QED
    BY <2>2, <2>3 DEF InventoryInv, InventoryFits, LocalsOK, Fits, NoneDeleted
<1> QED
  BY <1>1, <1>2 DEF InventoryNext

\* The invariant holds in every reachable state.
THEOREM InventoryInvariant == InventorySpec => []InventoryInv
<1>1. InventoryInv /\ [InventoryNext]_inventoryVars => InventoryInv'
  BY StepInv
<1> QED
  BY <1>1, InitInv, PTL DEF InventorySpec

\* Every row and every local of a handler is of its type.
THEOREM InventoryTypeCorrect == InventorySpec => []InventoryTypeOK
<1>1. InventoryInv => InventoryTypeOK
  BY DEF InventoryInv
<1> QED
  BY <1>1, InventoryInvariant, PTL

\* An asset that was ever assigned is never deleted: a removal that counted no
\* assignment before one was inserted is stopped by the foreign key, and no save
\* of a handler in flight takes the row away.
THEOREM HistoryIsKept == InventorySpec => []HistoryKeepsAsset
<1>1. InventoryInv => HistoryKeepsAsset
  BY DEF InventoryInv
<1> QED
  BY <1>1, InventoryInvariant, PTL
=============================================================================
