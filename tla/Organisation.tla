---------------------------- MODULE Organisation ----------------------------
(***************************************************************************)
(* Who works where, and who manages whom: AdminService and                 *)
(* DepartmentService over the tables employees and departments, and the    *)
(* check of AccessControlService that reads them.                          *)
(*                                                                         *)
(* No handler opens a transaction: each await that reaches the database is *)
(* a step.  `call' holds the locals of the handlers in flight.  An update  *)
(* loads a row, changes the entity and saves it: save() reads the row anew *)
(* and writes every column in which the entity it was given differs,       *)
(* except those that are undefined.  The entity of a department carries    *)
(* its employees, and they are compared too: members the entity lacks are  *)
(* put out of the department, members it has are put into it.  A row that  *)
(* is gone when save() reads it anew is inserted.  Removing a row sets the *)
(* references to it to NULL (ON DELETE SET NULL).                          *)
(*                                                                         *)
(* E-mail addresses and names are left out; the password is kept only in   *)
(* that an employee cannot be inserted without one: a load does not select *)
(* it, so only an entity that was given a password has it.                 *)
(***************************************************************************)
EXTENDS FiniteSets, Naturals

CONSTANTS
  Employees, Departments,  \* ids of the two tables
  Roles,                   \* the roles accounts are given
  Calls,                   \* slots for handlers in flight
  MaxCalls,                \* bound: calls that arrive
  None,                    \* SQL NULL
  Undefined                \* a column that save() leaves alone

\* The order of ROLE_HIERARCHY.
RoleLevel == [employee |-> 1, direct_manager |-> 2, procurement_manager |-> 3,
              admin |-> 4]

ASSUME OrganisationAssumption ==
  /\ Roles \subseteq DOMAIN RoleLevel
  /\ "employee" \in Roles
  /\ None \notin Employees \cup Departments \cup Roles
  /\ Undefined \notin Departments \cup Employees \cup {None}
  /\ Employees \cap Departments = {}
  /\ MaxCalls \in Nat

VARIABLES
  employee,    \* employees
  department,  \* departments
  call,        \* the handlers in flight
  arrived,     \* the calls that have arrived
  missed       \* history: what others changed since a handler loaded its row

vars == <<employee, department, call, arrived, missed>>

RowState == {"fresh", "present", "removed"}   \* an id is given only once
Status   == {"active", "inactive"}

Employee == [row        : RowState,
             role       : Roles \cup {None},
             status     : Status \cup {None},
             department : Departments \cup {None}]

Department == [row     : RowState,
               manager : Employees \cup {None}]

NoRow(state) ==
  [row |-> state, role |-> None, status |-> None, department |-> None]
NoDepartment(state) == [row |-> state, manager |-> None]

UserOps       == {"create", "register", "edit", "role", "status", "reset", "remove"}
DepartmentOps == {"open", "update", "close"}

\* The locals: the entity and its members, what the request asks for, and the
\* columns and members save() has found to differ.
Call == [op         : UserOps \cup DepartmentOps \cup {"none", "check"},
         pc         : {"idle", "loaded", "ready", "inserting", "writing"},
         employee   : Employees \cup {None},
         department : Departments \cup {None},
         role       : Roles \cup {None},
         status     : Status \cup {None},
         belongs    : Departments \cup {None, Undefined},
         manager    : Employees \cup {None, Undefined},
         members    : SUBSET Employees,
         managed    : SUBSET Departments,
         columns    : SUBSET {"role", "status", "department", "manager"},
         adopted    : SUBSET Employees,
         expelled   : SUBSET Employees]

NoCall == [op |-> "none", pc |-> "idle", employee |-> None, department |-> None,
           role |-> None, status |-> None, belongs |-> Undefined,
           manager |-> Undefined, members |-> {}, managed |-> {},
           columns |-> {}, adopted |-> {}, expelled |-> {}]

Cells == (Employees \X {"row", "role", "status", "department"})
           \cup (Departments \X {"row", "manager"})

Present(e)   == employee[e].row = "present"
Standing(d)  == department[d].row = "present"
\* What a foreign key admits.
Allowed(d)    == d # None => Standing(d)
Employable(m) == m # None => Present(m)
Members(d)   == {e \in Employees : employee[e].department = d}

\* References always lead to rows: the foreign keys.
OrganisationTypeOK ==
  /\ employee \in [Employees -> Employee]
  /\ department \in [Departments -> Department]
  /\ call \in [Calls -> Call]
  /\ arrived \in 0 .. MaxCalls
  /\ missed \in [Calls -> SUBSET Cells]
  /\ \A e \in Employees : employee[e].department # None =>
       Present(e) /\ Standing(employee[e].department)
  /\ \A d \in Departments : department[d].manager # None =>
       Standing(d) /\ Present(department[d].manager)

-----------------------------------------------------------------------------
\* The handler starts, goes on, or ends.
Start(h, locals) ==
  /\ call[h].pc = "idle"
  /\ arrived < MaxCalls
  /\ arrived' = arrived + 1
  /\ call' = [call EXCEPT ![h] = locals]
  /\ missed' = [missed EXCEPT ![h] = {}]
  /\ UNCHANGED <<employee, department>>

Goes(h, locals) ==
  /\ call' = [call EXCEPT ![h] = locals]
  /\ UNCHANGED <<employee, department, arrived, missed>>

End(h) == /\ call' = [call EXCEPT ![h] = NoCall]
          /\ UNCHANGED arrived

\* The handler ends without writing: the row is not found, or a foreign key or
\* a primary key refuses the statement.
Refuse(h) == End(h) /\ UNCHANGED <<employee, department, missed>>

\* What a step changes is remembered for the handlers that have loaded rows.
Changed ==
  {cell \in Employees \X {"row", "role", "status", "department"} :
     employee[cell[1]][cell[2]] # employee'[cell[1]][cell[2]]}
  \cup {cell \in Departments \X {"row", "manager"} :
          department[cell[1]][cell[2]] # department'[cell[1]][cell[2]]}

Remember(h) ==
  missed' = [g \in Calls |-> IF g = h \/ call[g].pc = "idle" THEN {}
                             ELSE missed[g] \cup Changed]

-----------------------------------------------------------------------------
(* AdminService and AuthService.register: accounts                         *)

\* createUser and register look for the department named; where there is none,
\* the one refuses and the other goes on without.
CreateUser(h, e, op, r, s, d) ==
  /\ employee[e].row = "fresh"
  /\ \A g \in Calls : call[g].employee # e
  /\ op = "register" => r = "employee" /\ s = "active"
  /\ Allowed(d) \/ op = "register"
  /\ Start(h, [NoCall EXCEPT !.op = op, !.pc = "inserting", !.employee = e,
                             !.role = r, !.status = s,
                             !.belongs = IF d # None /\ Standing(d) THEN d ELSE None])

\* findUser: the entity with its columns and its department.
Loaded(e, op) ==
  [NoCall EXCEPT !.op = op, !.pc = "ready", !.employee = e,
                 !.role = employee[e].role, !.status = employee[e].status,
                 !.belongs = employee[e].department]

UpdateRole(h, e, r) ==
  Present(e) /\ Start(h, [Loaded(e, "role") EXCEPT !.role = r])

UpdateStatus(h, e, s) ==
  Present(e) /\ Start(h, [Loaded(e, "status") EXCEPT !.status = s])

ResetPassword(h, e) == Present(e) /\ Start(h, Loaded(e, "reset"))

\* A new name or address leaves the department as loaded.
EditUser(h, e) == Present(e) /\ Start(h, Loaded(e, "edit"))

\* A department of null becomes undefined; one that is named is looked for.
UpdateUser(h, e, d) ==
  /\ Present(e)
  /\ Start(h, IF d = None
                THEN [Loaded(e, "edit") EXCEPT !.belongs = Undefined]
                ELSE [Loaded(e, "edit") EXCEPT !.pc = "loaded", !.department = d])

FindDepartment(h) ==
  /\ call[h].op = "edit" /\ call[h].pc = "loaded"
  /\ LET d == call[h].department IN
       IF Standing(d) THEN Goes(h, [call[h] EXCEPT !.pc = "ready", !.belongs = d])
                      ELSE Refuse(h)

\* Variant for mutation: every save inserts what it does not find.
CompareUserInserting(h) ==
  LET l == call[h]
      e == l.employee
  IN /\ l.op \in {"edit", "role", "status", "reset"} /\ l.pc = "ready"
     /\ IF Present(e)
          THEN Goes(h, [l EXCEPT !.pc = "writing", !.columns = {}])
          ELSE Goes(h, [l EXCEPT !.op = "register", !.pc = "inserting"])

\* save() reads the row anew.  A row that is gone is to be inserted, which
\* fails for want of a password unless the call has set one.
CompareUser(h) ==
  LET l == call[h]
      e == l.employee
  IN /\ l.op \in {"edit", "role", "status", "reset"} /\ l.pc = "ready"
     /\ IF Present(e)
          THEN Goes(h, [l EXCEPT !.pc = "writing", !.columns =
                 {c \in {"role", "status"} : l[c] # employee[e][c]}
                 \cup {c \in {"department"} : l.belongs \notin {Undefined, employee[e][c]}}])
          ELSE IF l.op = "reset" THEN Goes(h, [l EXCEPT !.pc = "inserting"])
                                 ELSE Refuse(h)

\* UPDATE employees ... WHERE id: no row is no error.
WriteUser(h) ==
  LET l == call[h]
      e == l.employee
      row == [employee[e] EXCEPT
                !.role       = IF "role" \in l.columns THEN l.role ELSE @,
                !.status     = IF "status" \in l.columns THEN l.status ELSE @,
                !.department = IF "department" \in l.columns THEN l.belongs ELSE @]
  IN /\ l.op \in {"edit", "role", "status", "reset"} /\ l.pc = "writing"
     /\ IF Present(e) /\ Allowed(row.department)
          THEN /\ employee' = [employee EXCEPT ![e] = row]
               /\ End(h)
               /\ UNCHANGED department
               /\ Remember(h)
          ELSE Refuse(h)

InsertUser(h) ==
  LET l == call[h]
      e == l.employee
  IN /\ l.op \in {"create", "register", "reset"} /\ l.pc = "inserting"
     /\ IF ~Present(e) /\ Allowed(l.belongs)
          THEN /\ employee' = [employee EXCEPT ![e] =
                    [row |-> "present", role |-> l.role, status |-> l.status,
                     department |-> l.belongs]]
               /\ End(h)
               /\ UNCHANGED department
               /\ Remember(h)
          ELSE Refuse(h)

\* removeUser finds the account, then deletes it; departments lose their manager.
LoadLeaver(h, e) == Present(e) /\ Start(h, Loaded(e, "remove"))

\* Variant for mutation: departments keep their manager.
RemoveUserOnly(h) ==
  LET e == call[h].employee IN
  /\ call[h].op = "remove"
  /\ employee' = [employee EXCEPT ![e] = NoRow("removed")]
  /\ End(h)
  /\ UNCHANGED department
  /\ Remember(h)

RemoveUser(h) ==
  LET e == call[h].employee IN
  /\ call[h].op = "remove"
  /\ employee' = [employee EXCEPT ![e] = NoRow("removed")]
  /\ department' = [d \in Departments |->
       [department[d] EXCEPT !.manager = IF @ = e THEN None ELSE @]]
  /\ End(h)
  /\ Remember(h)

-----------------------------------------------------------------------------
(* DepartmentService                                                       *)

CreateDepartment(h, d, m) ==
  /\ department[d].row = "fresh"
  /\ \A g \in Calls : call[g].department # d
  /\ Employable(m)
  /\ Start(h, [NoCall EXCEPT !.op = "open", !.pc = "inserting",
                             !.department = d, !.manager = m])

\* Variant for mutation: only the active members are loaded.
FoundActive(d, op) ==
  [NoCall EXCEPT !.op = op, !.pc = "ready", !.department = d,
                 !.manager = department[d].manager,
                 !.members = {e \in Members(d) : employee[e].status = "active"}]

\* findOne: the entity with its manager and its employees.
Found(d, op) ==
  [NoCall EXCEPT !.op = op, !.pc = "ready", !.department = d,
                 !.manager = department[d].manager, !.members = Members(d)]

\* A new name leaves the manager as loaded; a manager of null becomes
\* undefined; one that is named is looked for.
Rename(h, d) == Standing(d) /\ Start(h, Found(d, "update"))

UpdateManager(h, d, m) ==
  /\ Standing(d)
  /\ Start(h, IF m = None
                THEN [Found(d, "update") EXCEPT !.manager = Undefined]
                ELSE [Found(d, "update") EXCEPT !.pc = "loaded", !.employee = m])

FindManager(h) ==
  /\ call[h].op = "update" /\ call[h].pc = "loaded"
  /\ LET m == call[h].employee IN
       IF Present(m) THEN Goes(h, [call[h] EXCEPT !.pc = "ready", !.manager = m])
                     ELSE Refuse(h)

CompareDepartment(h) ==
  LET l == call[h]
      d == l.department
  IN /\ l.op = "update" /\ l.pc = "ready"
     /\ Goes(h, [l EXCEPT
          !.pc = IF Standing(d) THEN "writing" ELSE "inserting",
          !.columns = {c \in {"manager"} : l.manager \notin {Undefined, department[d].manager}},
          !.adopted = l.members \ Members(d),
          !.expelled = Members(d) \ l.members])

\* The members the entity has and the table lacks, and the reverse: one UPDATE
\* each by the id of the employee.
Regroup(l) ==
  employee' = [e \in Employees |->
    IF Present(e) /\ e \in l.adopted THEN [employee[e] EXCEPT !.department = l.department]
    ELSE IF e \in l.expelled THEN [employee[e] EXCEPT !.department = None]
    ELSE employee[e]]

\* The statements of one save are one transaction: a manager who is gone, or a
\* department that is gone and to have a member, makes a foreign key refuse it
\* as a whole. The UPDATE of a department that is gone changes no row.
WriteDepartment(h) ==
  LET l == call[h]
      d == l.department
      manager == IF "manager" \in l.columns THEN l.manager ELSE department[d].manager
  IN /\ l.op = "update" /\ l.pc = "writing"
     /\ IF IF Standing(d) THEN Employable(manager)
                          ELSE \A e \in l.adopted : ~Present(e)
          THEN /\ Regroup(l)
               /\ department' = [department EXCEPT ![d].manager =
                                   IF Standing(d) THEN manager ELSE None]
               /\ End(h)
               /\ Remember(h)
          ELSE Refuse(h)

\* A new department, or one that was removed while it was being updated.
InsertDepartment(h) ==
  LET l == call[h]
      d == l.department
      manager == IF l.manager = Undefined THEN None ELSE l.manager
  IN /\ l.op \in {"open", "update"} /\ l.pc = "inserting"
     /\ IF ~Standing(d) /\ Employable(manager)
          THEN /\ department' = [department EXCEPT ![d] =
                                   [row |-> "present", manager |-> manager]]
               /\ Regroup(l)
               /\ End(h)
               /\ Remember(h)
          ELSE Refuse(h)

LoadClosing(h, d) == Standing(d) /\ Start(h, Found(d, "close"))

RemoveDepartment(h) ==
  LET d == call[h].department IN
  /\ call[h].op = "close"
  /\ department' = [department EXCEPT ![d] = NoDepartment("removed")]
  /\ employee' = [e \in Employees |->
       [employee[e] EXCEPT !.department = IF @ = d THEN None ELSE @]]
  /\ End(h)
  /\ Remember(h)

-----------------------------------------------------------------------------
(* AccessControlService, as the services of requests and assignments call  *)
(* it: may user m see, or ask back, what employee e has?                   *)

HasMinimumRole(role, required) == RoleLevel[role] >= RoleLevel[required]

\* The token's account is read, then the departments its owner manages.  A
\* procurement manager needs neither; whoever is less than a manager is refused.
Authenticate(h, m, e) ==
  /\ Present(m) /\ Present(e) /\ m # e
  /\ employee[m].status = "active"
  /\ HasMinimumRole(employee[m].role, "direct_manager")
  /\ ~HasMinimumRole(employee[m].role, "procurement_manager")
  /\ Start(h, [NoCall EXCEPT !.op = "check", !.pc = "loaded",
                             !.manager = m, !.employee = e])

\* Variant for mutation: every department that has a manager.
GetDepartmentIds(h) ==
  LET managed == {d \in Departments : department[d].manager # None} IN
  /\ call[h].op = "check" /\ call[h].pc = "loaded"
  /\ call' = [call EXCEPT ![h] =
       IF managed = {} THEN NoCall ELSE [@ EXCEPT !.pc = "ready", !.managed = managed]]
  /\ missed' = [missed EXCEPT ![h] = {}]
  /\ UNCHANGED <<employee, department, arrived>>

GetManagedDepartmentIds(h) ==
  LET managed == {d \in Departments : department[d].manager = call[h].manager} IN
  /\ call[h].op = "check" /\ call[h].pc = "loaded"
  /\ call' = [call EXCEPT ![h] =
       IF managed = {} THEN NoCall ELSE [@ EXCEPT !.pc = "ready", !.managed = managed]]
  /\ missed' = [missed EXCEPT ![h] = {}]
  /\ UNCHANGED <<employee, department, arrived>>

\* isEmployeeInManagedDepartments answers with the employee's department as it
\* is now and the managed departments as they were.
Granted(h) == /\ call[h].op = "check" /\ call[h].pc = "ready"
              /\ employee[call[h].employee].department \in call[h].managed

ReadMember(h) ==
  /\ call[h].op = "check" /\ call[h].pc = "ready"
  /\ Refuse(h)

-----------------------------------------------------------------------------
OrganisationInit ==
  /\ employee \in [Employees -> {NoRow("fresh")} \cup
                     [row : {"present"}, role : Roles, status : {"active"},
                      department : Departments \cup {None}]]
  /\ department \in [Departments -> {NoDepartment("fresh")} \cup
                       [row : {"present"}, manager : Employees \cup {None}]]
  /\ \A e \in Employees : Allowed(employee[e].department)
  /\ \A d \in Departments : Employable(department[d].manager)
  /\ call = [h \in Calls |-> NoCall]
  /\ arrived = 0
  /\ missed = [h \in Calls |-> {}]

UserCalls(h) ==
  \E e \in Employees :
    \/ \E op \in {"create", "register"}, r \in Roles, s \in Status,
          d \in Departments \cup {None} : CreateUser(h, e, op, r, s, d)
    \/ \E r \in Roles : UpdateRole(h, e, r)
    \/ \E s \in Status : UpdateStatus(h, e, s)
    \/ ResetPassword(h, e)
    \/ EditUser(h, e)
    \/ \E d \in Departments \cup {None} : UpdateUser(h, e, d)
    \/ LoadLeaver(h, e)

DepartmentCalls(h) ==
  \E d \in Departments :
    \/ \E m \in Employees \cup {None} : CreateDepartment(h, d, m) \/ UpdateManager(h, d, m)
    \/ Rename(h, d)
    \/ LoadClosing(h, d)

OrganisationNext ==
  \E h \in Calls :
    \/ UserCalls(h)
    \/ FindDepartment(h) \/ CompareUser(h) \/ WriteUser(h) \/ InsertUser(h)
    \/ RemoveUser(h)
    \/ DepartmentCalls(h)
    \/ FindManager(h) \/ CompareDepartment(h) \/ WriteDepartment(h)
    \/ InsertDepartment(h) \/ RemoveDepartment(h)
    \/ \E m, e \in Employees : Authenticate(h, m, e)
    \/ GetManagedDepartmentIds(h)
    \/ ReadMember(h)

OrganisationSpec == OrganisationInit /\ [][OrganisationNext]_vars

-----------------------------------------------------------------------------
Updates == {"edit", "role", "status", "reset", "update"}

\* The cell an update is for: the column its request gives a value.
Meant(l) ==
  CASE l.op \in {"role", "status"} -> {<<l.employee, l.op>>}
    [] l.op = "edit" /\ l.department # None -> {<<l.employee, "department">>}
    [] l.op = "update" /\ l.employee # None -> {<<l.department, "manager">>}
    [] OTHER -> {}

\* An update changes the column its request names, and nothing else in either
\* table but what another call changed after it had loaded its row: with calls
\* one at a time the name of a department can be saved, or the role of an
\* employee, without moving anybody; overlapping saves put back a role, a
\* deactivation, a move or a manager they have not seen (admin.service.ts,
\* department.service.ts: load, change, save).
SavesUndoOnlyWhatTheyMissed ==
  [][\A h \in Calls :
       /\ call[h].op \in Updates
       /\ call[h].pc \in {"writing", "inserting"} /\ call'[h].pc = "idle"
       => Changed \subseteq Meant(call[h]) \cup missed[h]]_vars

\* An account that was removed comes back only through a password reset that
\* had loaded it before (save() inserts what it does not find), a department
\* only through an update of it.
RemovedReturnsOnlyBySave ==
  [][/\ \A e \in Employees : employee[e].row = "removed" /\ employee'[e].row = "present" =>
          \E h \in Calls : /\ call[h].op = "reset" /\ call[h].employee = e
                           /\ <<e, "row">> \in missed[h]
     /\ \A d \in Departments : department[d].row = "removed" /\ department'[d].row = "present" =>
          \E h \in Calls : /\ call[h].op = "update" /\ call[h].department = d
                           /\ <<d, "row">> \in missed[h]]_vars

\* The two reads of isEmployeeInManagedDepartments are no snapshot: its answer
\* is the one a single read would give now, unless the department the employee
\* is in changed hands between the two.
TeamCheckAnswersForNow ==
  \A h \in Calls : call[h].op = "check" /\ call[h].pc = "ready" =>
    LET d == employee[call[h].employee].department IN
      \/ Granted(h) <=> d # None /\ department[d].manager = call[h].manager
      \/ <<d, "manager">> \in missed[h]
=============================================================================
