# TLA+ models of the equipment request API

The repository is a NestJS service over PostgreSQL (TypeORM): employees ask for
equipment, a direct manager and then a procurement manager decide, stock is
assigned, asked back, returned, retired and deleted, and everybody is notified.
These modules model the handlers of that service at the grain at which they can
interleave, check them with TLC and prove the main invariants with TLAPS.

Nearly every handler is `async` and talks to the database several times. Only
`RequestService.create` and `ApprovalService.processAction` open a transaction,
at PostgreSQL's default READ COMMITTED and without locking reads. So two
requests of two users, or one user's double click, interleave between awaits,
on one server process as much as on the several that `terraform/` allows.

## Inventory of the system

Paths are below `src/src/`; a service is in `modules/<m>/services/`.

| Part | State | Operations that change it | Interacts with | What makes it correct |
| --- | --- | --- | --- | --- |
| RequestService | `equipment_requests` | create, cancel | workflow service (first step), notifications | a request is routed to an approver; only pending requests are cancelled; a settled one stays settled |
| ApprovalService, ApprovalWorkflowService | `approval_steps`, `equipment_requests` | approve, reject | assets and assignments (a loan is fulfilled inside the approval), access control (who is procurement manager), notifications | the steps explain the status; manager before procurement; a fulfilled loan is backed by an assignment |
| EquipmentAssetService | `equipment_assets` | create, update, updateStatus, assign, retire, remove | assignments, requests (assign fulfils a bought request), notifications | stock and assignments agree; history keeps its asset |
| EquipmentAssignmentService | `equipment_assignments` | requestReturn, completeReturn | assets, notifications | an assignment only moves forward, its asset with it |
| NotificationService | `notifications` | createNotification, markAsRead, markAllAsRead | called by the four above, after their writes | whoever must act, or waits, is told |
| AuthService, RefreshTokenService | `refresh_tokens` | register, login, refresh, logout, revokeAllSessions | employees | a token is used once; no session for an inactive account |
| AdminService | `employees` | createUser, updateUser, updateRole, updateStatus, resetPassword, removeUser | AuthService (revocation); the foreign keys of every other table | a save undoes nothing it could have seen; sessions end with a deactivation; what a removal leaves behind is no more than its cascade explains |
| DepartmentService | `departments` | create, update, remove | employees, whom its entity carries along; requests are routed by it | members and manager are what the last save said |
| AccessControlService, role guards | none | - | read roles and departments at each call | the answer, two queries apart, holds for some moment of the call |
| Connection pool (TypeORM, `pg`) | borrowed connections, row locks | connect, release | every repository call; a transaction keeps one | nothing leaks; who waits is served |
| EquipmentModel, Catalog, Category, Employee and Procurement services | reference data | create and edit models | - | - |
| Controllers, DTOs, exception filter, configuration, migrations, seed, deployment | - | - | - | - |

What is hard to get right here, and hard to test:

- **Overlapping calls on one row.** A step is read, found pending, and decided
  some awaits later; an asset is read, found available, and assigned some awaits
  later; a refresh token is validated, then revoked.
- **`save(entity)`.** TypeORM reloads the row, compares the entity with it and
  writes the columns that differ. What somebody else wrote since the entity was
  loaded is put back; a column set to `undefined` is not written at all; a
  loaded one-to-many relation is saved too, which unlinks rows inserted since
  (or fails, where the column is NOT NULL); a deleted row is inserted again.
- **Several saves, no transaction.** A crash between them leaves half of them.
- **Row locks.** Two rejections of two steps of one request can deadlock.
- **Notices after the commit**, from a request that is read once more.
- **A cancellation that leaves steps behind** for approvers to act on.
- **Removing an account** cascades over four tables under handlers that hold
  what they loaded from them.
- **A query nested in a transaction** (`findProcurementManager`) needs a second
  connection of a pool that has a fixed size.

`PROJECT.json` lists every such hazard at its line with the properties that
would catch it.

## Modules

| Module | Models | Extends |
| --- | --- | --- |
| `Tables` | the five tables of the equipment domain, their enums, relations and initial contents | |
| `Requests` | RequestService, ApprovalService, ApprovalWorkflowService, their notices | `Tables` |
| `SerialRequests` | `Requests` where handlers overlap or take turns, and what holds only in the second case | `Requests` |
| `Inventory` | EquipmentAssetService, EquipmentAssignmentService, their notices | `Tables` |
| `EquipmentSystem` | the two together over the same tables | `Requests`, `Inventory` |
| `Departures` | AdminService.removeUser over those tables, with the foreign keys' cascades and refusals | `EquipmentSystem` |
| `RequestLifecycle` | abstract: the request status flow alone | |
| `Sessions` | AuthService, RefreshTokenService and what AdminService does to sessions | |
| `SerialSessions` | `Sessions` where handlers overlap or take turns, likewise | `Sessions` |
| `Organisation` | AdminService and DepartmentService over accounts and departments, AccessControlService's check | |
| `Pool` | the connection pool, transactions, row locks and the nested query | |
| `MCRequests`, `MCRequestsLive`, `MCInventory`, `MCEquipmentSystem`, `MCDepartures`, `MCSessions`, `MCOrganisation`, `MCPool` | instances for TLC: symmetry, numbering, bounds | the module named, the first and the sixth its serial module |
| `RequestsProofs`, `InventoryProofs`, `SystemProofs`, `SerialProofs`, `DeparturesProofs`, `SessionsProofs`, `OrganisationProofs`, `PoolProofs` | the proofs (`SystemProofs`: of `EquipmentSystem`, from the first two, and `DeparturesProofs` from it; `SerialProofs`: of handlers that take turns, in `SerialRequests` and `EquipmentSystem`) | the module named |

**Tables.** A table is a function from row ids to records that keep the columns
some guard reads or some property compares. `"absent"` is the status of a row
that is not there. An id is never given again. The level of an approval step is
its role. `retiredAt` is `None` or `"set"`: how long ago is decided where it
matters, so the grace period may or may not be over.

**Requests.** `call[c]` holds the locals of one handler in flight, `pc` the last
await it has passed:

| Action | Code |
| --- | --- |
| `Create` | `create`: one transaction; the reads before it may find any department manager |
| `Check` | `findOne` and `assertCanActOnStep`, before the transaction |
| `ReadFreshStep` | the re-read inside it: still pending, or an exception |
| `ReloadStep`, `LockStep` | `stepRepo.save(freshStep)`: reload and compare, then the UPDATE, which waits for the row's lock and keeps it until the commit |
| `FindPendingSteps`, `CommitRejection` | `handleRejection` |
| `CommitManagerApproval`, `NoProcurementManager` | `handleManagerApproval`, and its exception, which rolls back |
| `CommitProcurementApproval` | `handleProcurementApproval`, procurement |
| `FindAvailableAsset`, `CommitLoanApproval` | `fulfillLoanRequest`, and its exception |
| `CancelRead`, `CancelReload`, `CommitCancel` | `cancel`: load and check, the reload of `save`, its transaction of writes |
| `Notify` | `dispatchNotifications`, `notifyInitialApprover`, `notifyRequestCancelled` |
| `DeadlockVictim`, `Interrupt` | PostgreSQL aborts one of a cycle; a crash or a lost connection |

A transaction's writes become visible together, so they are one commit action;
its reads are separate, because under READ COMMITTED others commit in between.
`cancel` loads the request with its assignments, so its save also unlinks those
inserted since and links again those that a return has unlinked since (`Linked`).
The saves of a rejection's other steps and of a loan's asset, which are reload
and UPDATE too, are merged with the commit: they write the same columns whatever
the reload finds. An approval sends up to two notices, in one action. The
services take the oldest available asset and the oldest procurement manager; the
model takes any. That the endpoint requires a role is left out, since only the
step's approver passes `assertCanActOnStep`.

**SerialRequests**, **SerialSessions.** One more variable, `overlap`, is chosen in
the initial state and never changes: where it is FALSE a handler starts only when
no other is in flight, though each may still be cut off after any await. In
`SerialSessions` accounts come and go and tokens expire meanwhile (`AtOnce`), and
`cut` remembers that a handler was cut off.

**Inventory.** `job[j]` is the same for the handlers without a transaction. A
handler loads the asset and changes the entity (`Assign`, `Retire`, `Update`,
`UpdateStatus`, `RequestReturn`, `CompleteReturn`), then `save` runs as
`CompareAsset` and `WriteAsset`, or `InsertMissing` for a deleted row. `assign`
goes on with `FindRequest`, `InsertAssignment`, `FulfilRequest` and the notice,
the return handlers with `CompareAssignment`, `WriteAssignment` and the notice.
`remove` is `FindRemovable`, `CountHistory`, `Delete`; the foreign key (ON DELETE
RESTRICT) is in `Delete` and `InsertAssignment`. Who may ask for a return is left
out: a caller stands for one whom the access checks let through. `Manual` is the
set of statuses the staff set by hand with `updateStatus` or name in `create`.

**EquipmentSystem.** Both next-state relations over one set of tables. With
`Overlap = FALSE` a handler starts only when no other is in flight. `apart` is a
history variable, the assets left at odds with their assignments: by a handler cut
off between its two saves (`HalfSaved`), or by a status set by hand that the
assignments belie (`Belied`). `StockAgrees` is about every other asset.

**Departures.** `RemoveUser` is the one DELETE of `removeUser` with everything the
foreign keys do about it: requests, steps and assignments of the employee go,
the assignments of a deleted request keep NULL, an asset loses its holder. It
waits for the step rows that transactions hold. The handlers are those of
`EquipmentSystem`, under what the foreign keys refuse: `Thwarted` and
`ThwartedJob` say which statement of a handler in flight fails because of a row
that is gone, and such a handler ends there, as the exception does.
`NamesNobodyGone` is the other half: nobody removed calls, is found as manager or
procurement manager, or is given equipment. `gone` is who was removed.

**Sessions.** A token stands for the opaque string and for the row with its hash,
a password for its hash. `login` is `Login` (read and compare) and `Issue`;
`refresh` is `Refresh` (`validateToken`), `FindToken` and `RevokeToken`
(`revokeToken`), `Issue`, or without the last when the account is inactive;
`logout` is the middle two. An admin's change is a load, `CompareUser`,
`WriteUser` (or `InsertUser`) and, for a deactivation or a reset, `RevokeAll`.
Removing an account takes its tokens along. Two columns of a token are history:
the password its session began with and the token it was refreshed from. An
access token is not state: `JwtStrategy` reads the account at every request.

**Organisation.** `call[h]` holds the entity a handler loaded, what its request
asks for, and, after `save`'s reload, what differs. A change of an account is a
load (`UpdateUser`, or `EditUser` where only name and e-mail change and the
department is saved as loaded; `UpdateRole`, `UpdateStatus`, `ResetPassword`), for
a new department `FindDepartment`, then `CompareUser` and `WriteUser`; a reset whose row
is gone inserts it (`InsertUser`), since only it brings the password that the
column demands. The entity of a department carries its employees: `Found`,
`FindManager`, `CompareDepartment`, and `WriteDepartment` or `InsertDepartment`
with `Regroup`, which puts out and fetches back the members in which entity and
table differ. The guards of the writes are the foreign keys. A manager or a
department of `null` is `Undefined`: `admin.service.ts:91` and
`department.service.ts:56` turn it into `undefined`, which `save` skips, so the
column keeps its value (the specs look at the entity in memory only).
`Authenticate`, `GetManagedDepartmentIds` and `ReadMember` are
`isEmployeeInManagedDepartments`. `missed[h]` is a history variable: the cells
that others have changed since h loaded its row.

**Pool.** Each handler is a place (`pc`), the connection it has borrowed, a second
one for the nested query, the request or asset it writes (`target`), and who holds
the row locks of each (`lock`). A writer decides on a request, cancels one, or
saves an asset of the inventory. `Connect` queues it, `Serve` gives an idle
connection to the head of the queue, `Release` returns it. `Call`, `Answer` are
the queries before and without a transaction; `ReadStep`, `WriteRows`, `FindAsset`
(a loan's approval saves its asset in the same transaction), `AskManager`,
`ManagerFound`, `Commit`, `Notified` are `processAction`; `Save` is the row
written outside a transaction; `Fail` is an exception anywhere a handler can run.
What is in the rows is left to `Requests`: this module keeps only who holds what
and who waits for whom.

**RequestLifecycle.** Two variables, status and type. `Drawn` has the transitions of
the status flow in `docs/database-erd.md`; `Revived` the one thing the code does
besides: a decision on a cancelled request, whose steps `cancel` leaves pending.
`EquipmentSystem` instantiates it with the status and type columns of the request
table (`FollowsLifecycle`): every step of the system is one of these transitions
or leaves both columns alone. That the revival is needed is run
`cancelled_is_final`.

## Runs

Passing runs:

| Run | Instance | Distinct states | Shows |
| --- | --- | --- | --- |
| `requests` | 2 handlers, cut off anywhere. Overlapping: 1 request, 3 steps, 2 assets, 3 assignments; not overlapping: 2 requests, 4 steps, 2 assets, 2 assignments | 1.45 million | `RequestsTypeOK`, `StatusIsExplained`, `ProcurementFollowsManager`, `FulfilmentIsBacked`; not overlapping: `SerialStaysSettled`, `SerialHasNoPendingStep`, `SerialOneStepPerRole`, `SerialLedgerAgrees` |
| `requests_live` | 2 overlapping handlers, fair, manager and procurement manager two people, cancellations | 461,000 | `CallsEnd`, `RequesterIsTold`, `ApproverIsTold` |
| `inventory` | 2 overlapping handlers, cut off anywhere, 1 asset, 1 assignment, 1 request approved from the start (`BoughtInit`), status retired set by hand | 1.96 million | `InventoryTypeOK`, `HistoryKeepsAsset` |
| `departures` | 1 workflow handler overlapping 1 inventory handler, 1 request, 1 asset, 2 assignments, both employees may be removed, status in use set by hand, handlers not cut off (but by a failing statement) | 5.42 million | `DeparturesTypeOK`, `ExplainedUnlessOrphaned`, `ProcurementBackedOrLeft`, `StrandedForAReason`, `FulfilmentIsBacked`, `HistoryKeepsAsset`, `FlowUntilGone` |
| `system_serial` | workflow and inventory, one handler at a time, 1 request, 1 asset, a cancellation, inventory handlers cut off anywhere, statuses available, in use and maintenance set by hand | 9.24 million | `StockAgrees`, `ProcurementIsBacked`, `AssignmentMovesForward`, refinement of `RequestLifecycle` |
| `sessions` | 2 handlers, cut off anywhere, 3 tokens, 2 passwords. Overlapping: 1 account; not overlapping: 2 accounts | 1.75 million | `SessionsTypeOK`, `ParentIsSpent`, and, not overlapping, `InactiveHasNoSession`, `SerialPasswordHolds`, `SerialOneSuccessor`, `SerialInactiveGetsNone`, `SerialDeactivationHolds` |
| `organisation` | 2 overlapping handlers, 3 calls, 2 accounts, 2 departments, every initial arrangement of them | 2.54 million | `OrganisationTypeOK`, `TeamCheckAnswersForNow`, `SavesUndoOnlyWhatTheyMissed`, `RemovedReturnsOnlyBySave` |
| `pool` | 2 connections, 3 writers and a reader, 2 requests, 1 asset, fair | 155,000 | `PoolTypeOK`, `NothingLeaks`, `OnlyNestedQueryStarves`, `StarvingTakesAPoolOfWriters`, `EveryCallEnds` |

What holds however handlers overlap is told apart from what holds only as long as
they do not. `SerialRequests` and `SerialSessions`, and so `MCRequests` and
`MCSessions`, do both in one state space: a property named `Serial...` says
`~overlap => ...`. A serial property that fails for overlapping handlers is
a statement about a race in the code, and its hazard says so. `Bounds` differ in
the two halves: handlers that do not overlap are cheap, so they get the second
request or account.

**Violation runs** check what a document says and the code does not do:

| Run | Says | Does |
| --- | --- | --- |
| `cancelled_is_final` | `docs/database-erd.md`: cancelled is final | the cancelled request's steps stay pending, and deciding one takes the request up again; no overlap is needed |
| `one_step_per_role` | `docs/user-stories/direct-manager.md`: a step no longer pending is refused | two overlapping approvals both find it pending, and the request gets two procurement steps |
| `retired_has_no_holder` | `inventory.controller.ts`: retire clears the assignment fields | it sets them to `undefined`, which `save` skips |
| `password_ends_sessions` | `docs/database-erd.md`: a password reset revokes the sessions | a login or a refresh in flight issues its token after the revocation |

Each counterexample is a few steps of the handlers above. Other differences of
the same kinds met while modelling have no run of their own: `cancel` or
`reject` overlapping an approval undoes `fulfilled`; two loan approvals can pick
one asset; an asset retired while `assign` is in flight is assigned; a status set
to retired by hand leaves `retired_at` NULL, so `remove` counts no grace period;
a retired asset with history can never be deleted, the foreign key forbids it;
a login overlapping a deactivation leaves a session; two refreshes with one token
both succeed; an account's role, status or department and a department's manager
or members are put back by a save that loaded them earlier; a password reset in
flight inserts a removed account again; a request whose pending step went with
its approver waits for nobody; approvals enough to fill the pool wait for each
other, with no time limit, until one is cut off.

**Bounds.** Every set of ids is a constant, and no handler starts that could find
none left: `StepRoom` and `AssignmentRoom` count the approvals in flight that will
still need an id, `MaxCancelled` bounds the requests that are cancelled at one
time (1 in every run with a workflow), `MaxCalls` the calls to `Organisation`,
`Leavers` who may be removed. Two handlers are enough for every race named above:
each is a read of one handler, a write of another, a write of the first; in
`organisation` a third call can follow them. Three steps of a request let a
manager's step be decided twice; two assets let a loan choose; three tokens let a
session be refreshed twice, or once by each of two handlers. Two accounts and two
departments let a member move while another save has it loaded. Two connections
and three writers let the pool starve with somebody left in the queue. One request
suffices where the property is about one request; where requests compete for stock
there are two. `CHECK_DEADLOCK FALSE` because a system whose ids are used up and
whose handlers have ended rightly stops, and in `pool` because the starved pool,
which the properties describe, is such a state.

**Symmetry** is used for ids and slots that nothing tells apart, and in no run
with a liveness property. `MCRequests` numbers its requests, steps and assignments
instead and follows one of the equivalent ways to give the numbers out
(`OneNumbering`), which is the same reduction and cheaper.

**Fairness.** `FairRequestsSpec` has strong fairness of `Proceed(c)` for each
handler: the event loop and the database serve a handler in flight, and the only
thing it waits for is a row's lock, which PostgreSQL hands to the transactions
queued for it. Users need not call anything. Without interruptions, because a
handler that is cut off after its commit does lose its notices: nothing in the
code sends them again. `FairPoolSpec` has weak fairness of `Serve` and of every
`Progress(h)`, since a query that can run stays able to until it is run, and
strong fairness of `Lock(h)`, since a row is taken and released by others while
h waits in the database's queue for it. No call need arrive, and none need fail.
`EveryCallEnds` is conditional on `[]<>~Starved`: a pool that has starved stays so
in this code, and the invariants of the run say exactly when it can.

Each passing property has a mutant: a definition ("Variant for mutation" next to
the original) that changes the model as a plausible bug would, under which TLC
finds the property violated.

## Proofs

TLC's runs are small; the theorems hold for all values of the constants, that is
for any number of requests, steps, assets, accounts, departments, tokens,
connections and overlapping handlers, cut off or not, from the named assumptions
on constants alone (`EmployeeAssumption`, `NoneAssumption`, `CallAssumption`,
`JobAssumption`, `OverlapAssumption`, `LeaverAssumption`, `SessionAssumption`,
`OrganisationAssumption`, `PoolAssumption`), where no other is named. In each
module an inductive invariant is established by the initial states and kept by
every step, one lemma or step per action; the theorems follow from it.

`RequestsProofs`: `TypeCorrect`, `AlwaysExplained`, `ManagerActsFirst` and
`LoansAreBacked` follow from `Invariance`, that `RequestsInv` is an invariant.
None of the four properties is inductive:

- `Refs` adds to the types that a step belongs to a request that exists and that a
  handler in flight works on such rows (no row is ever deleted here:
  `TablesStep`).
- `CallsReady` says what a transaction has read and will use: the steps a
  rejection will skip are of its request, the asset of a loan is of the requested
  model, a save that will not write the status found the step decided already, a
  cancellation unlinks, or links again, assignments of its own request only.
- `FulfilmentSurvives` strengthens `FulfilmentIsBacked`: a fulfilled loan has a
  backing assignment that no cancellation about to write will unlink, unless it
  writes the status too. That is the argument why the lost update in `cancel`
  cannot leave a fulfilled request without its assignment: a save that found the
  request fulfilled writes the status; one that did not compared before the
  assignment existed, so it does not know of it.

The lemmas take these one at a time (`MoverRefers`, `OthersReady`, `MoverReady`,
`ExplainedStep`, `FollowsStep`, `SurvivesStep`), one step per action, with what no
step does to a row (`RowsKeep`) stated once.

`InventoryProofs`: `InventoryTypeCorrect` and `HistoryIsKept`
(`HistoryKeepsAsset`). The foreign key alone does not give the latter: a handler
that writes a stale entity could make a row disappear. `Fits` says that what
a handler will save is an entity that was there and at which place of which
handler the locals are set at all; `LocalsOK` adds that the assignment it returns
is there, which rests on `NoneDeleted`: no handler here deletes one. The lemmas
take `InventoryFits` alone, the part that stays true when assignments are deleted
(`Departures`).

`SessionsProofs`: `SessionsTypeCorrect` and `RotationRevokes` (`ParentIsSpent`).
A refresh revokes its token some steps before it issues the next, so
`SessionsInv` also says that a handler about to issue has a token that is spent
(`FlowsReady`), and that a token anything refers to was issued.

`OrganisationProofs`: `OrganisationTypeCorrect` (with the foreign keys),
`TeamChecksAnswerForNow`, and the action properties `SavesUndoNoMore`
(`SavesUndoOnlyWhatTheyMissed`) and `RemovedStaysRemovedButForSaves`
(`RemovedReturnsOnlyBySave`). `EntityOK` is the core: wherever what a handler has
loaded differs from the tables, the cell is one its request names or one it
missed. `FreshOK` says that an id in the making belongs to nobody, without which a
late INSERT could fill a row that a handler has loaded. The action properties
then follow write by write (`WriteUserChanges`, `WriteDepartmentChanges`, ...).

`PoolProofs`: `ConnectionsComeBack`, `StarvationNeedsNestedQuery`,
`StarvationNeedsAPoolOfWriters` and the corollary `LargePoolNeverStarves`: with
more connections than writers in flight the pool never starves. `PlaceInv` and
`LockInv` say what each place of a handler holds, `QueueOK` that the queue lists
only waiting handlers, each once. An inventory save may wait for a loan's approval
that has written its asset, and others for a loan's approval that waits for an
asset itself; but who holds an asset is about to commit, so a starved pool has an
approval whose nested query waits. The count of writers is an injection of the
connections into the blocked writers.

`SystemProofs`: in `EquipmentSystem`, with any number of handlers of both kinds
overlapping on the same tables, `ExplainedInSystem`, `ManagerActsFirstInSystem`,
`LoansAreBackedInSystem` and `HistoryIsKeptInSystem` show that what the two parts
keep alone they also keep together. `RequestsInv` and `InventoryInv` are not
enough for that, since each half writes what the other has read:

- `JobsReady`: the inventory fulfils only a request that was bought and that
  procurement has acted on, though it read so several awaits earlier
  (`FulfilReady`); and the entity it saves has the model of its row
  (`EntityReady`), so a loan in flight gets the model it chose.
- `OneName`: the request an assignment names, the link a return in flight has
  loaded and the link a cancellation is about to cut are one and the same. A
  return may bring back a link that a cancellation has cut, but not another one.
- `LoansSurvive`: a fulfilled loan has a backing assignment that neither a
  cancellation will unlink nor a return in flight will take elsewhere.

A step of the workflow keeps all of it by `WorkflowInv`, which cites the lemmas of
`RequestsProofs`. For the inventory, `Effect` says what its actions have in
common, one lemma per action shows it, and the invariant follows from `Effect`
alone (`InventoryStepInv`). The lemmas about `Effect` take `JobsFit` only, what
the inventory's handlers rest on whether rows are deleted under them or not.

`DeparturesProofs`: any number of employees removed while any number of handlers
of both kinds is in flight, `Leavers` being any set of employees. `NoReferenceDangles`
(`DeparturesTypeOK`), `OnlyRemovalOrphans` (`ExplainedUnlessOrphaned`),
`HistoryOutlivesDepartures` and `LoansOutliveDepartures`. `SystemInv` is no
invariant here, since what a handler has read may be deleted before it writes.
`DeparturesInv` is what is left of it:

- A deleted row keeps its columns in the model, so `CallHolds`, `Fits`,
  `EntityReady` and `FulfilHolds` say of the columns what `CallsReady` and
  `JobsReady` say of rows that are there, and of the status only what a removal
  leaves true. `Stays` is what every step keeps, a removal too: the columns of
  every row ever made, and that a deleted request or step does not come back.
- A handler that still writes is not `Thwarted`: the statement's foreign keys hold
  and its rows are there (`RowsFound`, `JobFinds`). From there the lemmas of
  `RequestsProofs` and `SystemProofs` apply to its step, and `KeysHold` is kept
  because a row it inserts or saves names a row it has found.
- A removal deletes the rows that would dangle (`RemovalKeys`). A step that it
  takes along is its employee's or of a request that goes too, so a request
  that stays and is no longer explained has lost a step with its approver
  (`RemovalExplains`). Of a loan it takes the backing assignment only with the
  requester, and so with the request (`RemovalLoans`).

Some properties of the same specification need fewer handlers of one kind, and no
restriction on the other kind or on removals. They are theorems with that as a
hypothesis on the constants. With one handler of the workflow (`OneAtATime`: `Calls`
has one element at most), any number of the inventory, all cut off or not:

- `ProcurementOutlivesDepartures` (`ProcurementBackedOrLeft`),
  `BoughtIsBackedDespiteOverlap`, `SettledStaysDecided` and
  `RoutedOnceDespiteDepartures`, from `BackingInv`. Its core is
  `NeedsBacking`: a request is owed an assignment from the INSERT on, not only
  once it is fulfilled, and that assignment is one no return in flight takes
  elsewhere (`Kept`). No cancellation unlinks it, because the status a handler is
  about to cancel still may be cancelled (`CancelHolds`) while one that `assign`
  has read as approved cannot go back (`FulfilsApproved`). `RoutedOnce` and
  `ManagerWasFirst` speak of deleted steps too: a removal must not make room for
  a second step of a role. With two workflow handlers `ProcurementBackedOrLeft` is
  false: a cancellation that read the request before its approval unlinks the
  assignment.
- `FlowHoldsUntilGone` (`FlowUntilGone`), from `BackingInv` and `StageInv`, that a
  pending step belongs to a request that waits for its role or is cancelled. No
  commit looks at the status a request has (it writes the one that follows), so
  the flow rests on the pending step alone.
- `OnlyRemovalsDepart` and `OverlapFollowsLifecycle`: the refinement of
  `RequestLifecycle` again, with the inventory overlapping the workflow, where
  `SerialProofs` has handlers of both kinds take turns. `FlowDrawn` turns a step of
  the flow of one request into the transition of the abstract specification. The
  first says that only a removal departs from it, the second, with nobody to be
  removed (`Leavers = {}`), that the system implements it.

`StrandingHasItsReasons` (`StrandedForAReason`) needs none of this: any number of
handlers of both kinds overlap, are cut off, employees are removed, and the staff
set any status by hand. Equipment that is out is accounted for while it has an open
assignment that no handler in flight closes without taking the equipment back
(`Spares`), or one that `assign` is about to insert (`HandsOut`). The theorem names
the four ways in which a step may end that, and that no other step does: the
assignment goes with its employee (`HolderLeaves`); `assign` is cut off between its
saves or its INSERT fails on an employee or requester who is gone (`AssignFails`); a
`save` of the asset writes a status that was set by hand or loaded earlier
(`SavedAsOut`); a return is asked for that has been completed meanwhile
(`AskedBackLate`). The lemmas `...Accounts` go through the actions; `ReturnsFit` is
the invariant they rest on besides `DeparturesInv`: a return saves the asset of
the assignment it brings back.

`SerialProofs`: handlers that take turns, each cut off or not. "One at a time" is
no invariant about the data yet: what it buys is that a handler finds the rows as
it read them. `SerialRequestsInv` says so place by place (`DecisionFresh`,
`CancelFresh`): the step being decided is still pending, a rejection has
found all the other pending steps of its request, the asset chosen for a loan is
still available, a cancellation still sees a status that can be cancelled. From it
follow `NoPendingStepWhenSettled`, `RoutedOncePerStage`, `LoansKeepLedger` and the
action property `SettledForGood`, all of `SerialSpec`. That a second
approval cannot be routed for a request taken up again after its cancellation is
what `OneStepPerRole` needs besides: a manager's step is decided only once.

Over `EquipmentSystem` the same is done with both kinds of handlers
(`SystemSerial`, with `JobsFresh` for the inventory's), assuming `~Overlap`:

- `BoughtIsBacked` (`ProcurementIsBacked`): `assign` inserts the assignment that
  names the request before it fulfils the request, and a return never unlinks it.
- `AssignmentsMoveForward` (`AssignmentMovesForward`).
- `StockAndHistoryAgree` (`StockAgrees`), from `StockInv`: what a handler between
  its two saves has done to the asset and has still to do to the assignment. The
  staff may set any status by hand and handlers may be cut off anywhere; an asset
  that one of the two has left at odds is in `apart`, and no other step puts one at
  odds.
- `SystemFollowsLifecycle`, the refinement: through the status and type columns
  every behaviour of `SystemSpec` is one of `RequestLifecycle`, cancellations
  included.

`SessionsProofs`, of `SerialSpec` in `SerialSessions`: `SuccessorIsUnique`,
`ResetEndsSessions`, `DeactivationEndsSessions`, and the action properties
`InactiveGetsNone` and `DeactivationHolds`, from `SerialSessionsInv`. `FlowFresh`
says what the one handler in flight may still rely on (an account it is to issue
a session to is active or gone, with the password it compared; an account it saves
has the status it loaded or is gone), and `SessionsCurrent` that a live session is
of an active account with its present password unless the handler is about to
revoke it. An account can be removed and a reset then inserts it again, so
`AccountsKnown` is needed too: no session outlives its account.

Only model-checked: `CallsEnd`, `RequesterIsTold`, `ApproverIsTold` and
`EveryCallEnds`. Liveness under fairness is beyond the prover. Every other property
of a passing run is a theorem.

## Not modelled

- The read state of notifications: only its recipient writes it, and nothing
  reads it but the recipient's list.
- Unique columns (asset tag, e-mail): checked before the INSERT, decided by the
  index; two overlapping calls differ from two serial ones in the error only.
- Equipment models, categories and the catalog as data: created and edited, but
  read by no guard. `ProcurementService`, the statistics, the listings, the
  similarity query and the timeline: reads that no write depends on.
- Which endpoint demands which role: the guards are stateless; who may act on a
  step, or cancel, is in the handlers' guards.
- Dates, comments, names, quantities, the text of notices; body validation; the
  exception filter; rate limiting; Swagger; migrations as programs; the seed;
  deployment.
- The order in which the database locks the rows of a cascade: `RemoveUser` waits
  for them as a whole.

## Plan

Done, in this order: `Tables`, `Requests` and its proofs, `Inventory`,
`EquipmentSystem` with `RequestLifecycle`, `Sessions` and its proofs, `Pool` and
its proofs, `Organisation` and its proofs, `Departures`, the proofs about
`Inventory` and about `EquipmentSystem`, `SerialRequests`, `SerialSessions` and
the proofs about handlers that take turns, the refinement of `RequestLifecycle`
among them, and the proofs about `Departures`.

Next:

1. `NoticeBoard`: the read state, a mark-all racing a mark-one and an insert.
2. The access-control predicates as operators, checked against the role table in
   the documentation.
