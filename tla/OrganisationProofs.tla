------------------------- MODULE OrganisationProofs -------------------------
(***************************************************************************)
(* Proofs about Organisation for every number of accounts, departments,   *)
(* overlapping calls and arrivals.  The inductive invariant relates what  *)
(* a handler has loaded to the tables: wherever the two differ, the cell  *)
(* is one the request gives a value, or one that another call has changed *)
(* since.                                                                  *)
(***************************************************************************)
EXTENDS Organisation, TLAPS

UserUpdates == {"edit", "role", "status", "reset"}
Making      == {"create", "register"}

\* The locals that each operation has given a value.
LocalsOK(l) ==
  /\ l.op = "none" <=> l.pc = "idle"
  /\ l.op \in UserOps => l.employee \in Employees
  /\ l.op \in DepartmentOps => l.department \in Departments
  /\ l.op = "edit" /\ l.pc = "loaded" => l.department \in Departments
  /\ l.op = "update" /\ l.pc = "loaded" => l.employee \in Employees
  /\ l.op = "check" => l.employee \in Employees /\ l.manager \in Employees
  /\ l.op \in UserOps \ {"edit"} => l.belongs # Undefined
  /\ "department" \in l.columns => l.belongs # Undefined
  /\ "manager" \in l.columns => l.manager # Undefined

\* What a save of the handler may change: what its request is for, and what
\* others have changed since it loaded its row.
Unseen(h) == Meant(call[h]) \cup missed[h]

\* The entity of an account agrees with the table, but for unseen cells.
UserEntityOK(h) ==
  LET l == call[h]
      e == l.employee
  IN l.op \in UserUpdates =>
       /\ Present(e) \/ <<e, "row">> \in missed[h]
       /\ l.pc \in {"loaded", "ready", "inserting"} =>
            /\ l.role = employee[e].role \/ <<e, "role">> \in Unseen(h)
            /\ l.status = employee[e].status \/ <<e, "status">> \in Unseen(h)
            /\ l.belongs \in {Undefined, employee[e].department}
                 \/ <<e, "department">> \in Unseen(h)
       /\ l.pc = "writing" => \A c \in l.columns : <<e, c>> \in Unseen(h)

\* So does that of a department, and the employees it carries.
DepartmentEntityOK(h) ==
  LET l == call[h]
      d == l.department
  IN l.op = "update" =>
       /\ Standing(d) \/ <<d, "row">> \in missed[h]
       /\ l.pc \in {"loaded", "ready", "inserting"} =>
            l.manager \in {Undefined, department[d].manager} \/ <<d, "manager">> \in Unseen(h)
       /\ l.pc \in {"loaded", "ready"} => \A e \in Employees :
            (e \in l.members <=> employee[e].department = d) \/ <<e, "department">> \in missed[h]
       /\ l.pc \in {"writing", "inserting"} =>
            \A e \in l.adopted \cup l.expelled : <<e, "department">> \in missed[h]
       /\ l.pc = "writing" /\ "manager" \in l.columns => <<d, "manager">> \in Unseen(h)

\* And so do the managed departments a check has read.
CheckOK(h) ==
  LET l == call[h] IN
  l.op = "check" /\ l.pc = "ready" => \A d \in Departments :
    (d \in l.managed <=> department[d].manager = l.manager) \/ <<d, "manager">> \in missed[h]

EntityOK(h) == UserEntityOK(h) /\ DepartmentEntityOK(h) /\ CheckOK(h)

\* An id is given once: the row of one in the making is fresh, no two calls
\* make the same, and no call has loaded a fresh row.
FreshOK ==
  /\ \A h \in Calls : LET e == call[h].employee IN
       /\ call[h].op \in Making => employee[e].row = "fresh"
       /\ call[h].op \in UserOps \ Making => employee[e].row # "fresh"
  /\ \A h \in Calls : LET d == call[h].department IN
       /\ call[h].op = "open" => department[d].row = "fresh"
       /\ call[h].op \in {"update", "close"} => department[d].row # "fresh"
  /\ \A g, h \in Calls : g # h =>
       /\ call[g].op \in Making /\ call[h].op \in Making =>
            call[g].employee # call[h].employee
       /\ call[g].op = "open" /\ call[h].op = "open" =>
            call[g].department # call[h].department

OrganisationInv ==
  /\ OrganisationTypeOK
  /\ \A h \in Calls : LocalsOK(call[h]) /\ EntityOK(h)
  /\ FreshOK

-----------------------------------------------------------------------------
(* Steps in general.                                                       *)

\* A handler at rest satisfies everything.
LEMMA NoCallOK == NoCall \in Call /\ LocalsOK(NoCall)
  BY OrganisationAssumption DEF NoCall, Call, LocalsOK, UserOps, DepartmentOps, Status

\* A cell that a step changes is in Changed, and Changed holds cells only.
LEMMA ChangedCells ==
  /\ Changed \subseteq Cells
  /\ \A e \in Employees :
       /\ employee'[e].row = employee[e].row \/ <<e, "row">> \in Changed
       /\ employee'[e].role = employee[e].role \/ <<e, "role">> \in Changed
       /\ employee'[e].status = employee[e].status \/ <<e, "status">> \in Changed
       /\ employee'[e].department = employee[e].department \/ <<e, "department">> \in Changed
  /\ \A d \in Departments :
       /\ department'[d].row = department[d].row \/ <<d, "row">> \in Changed
       /\ department'[d].manager = department[d].manager \/ <<d, "manager">> \in Changed
  BY DEF Changed, Cells

\* A handler that another one's step leaves alone: what changed under it is
\* remembered.
LEMMA OthersRemember ==
  ASSUME NEW g \in Calls, OrganisationTypeOK, LocalsOK(call[g]), EntityOK(g),
         call'[g] = call[g],
         Changed \subseteq missed'[g], missed[g] \subseteq missed'[g]
  PROVE  EntityOK(g)'
<1>1. UserEntityOK(g)'
  BY ChangedCells DEF EntityOK, UserEntityOK, Unseen, LocalsOK, UserOps, UserUpdates, Present
<1>2. DepartmentEntityOK(g)'
  BY ChangedCells DEF EntityOK, DepartmentEntityOK, Unseen, LocalsOK, DepartmentOps, Standing,
       OrganisationTypeOK, Call
<1>3. CheckOK(g)'
  BY ChangedCells DEF EntityOK, CheckOK, LocalsOK
<1> QED
  BY <1>1, <1>2, <1>3 DEF EntityOK

\* A step that changes no row: it gives handler h new locals, which must
\* satisfy the invariant as they stand.
LEMMA LocalStep ==
  ASSUME OrganisationInv, NEW h \in Calls, NEW l \in Call,
         UNCHANGED <<employee, department>>,
         call' = [call EXCEPT ![h] = l],
         arrived' \in 0 .. MaxCalls,
         missed' \in [Calls -> SUBSET Cells],
         \A g \in Calls \ {h} : missed'[g] = missed[g],
         LocalsOK(l), EntityOK(h)',
         l.op \in Making => /\ employee[l.employee].row = "fresh"
                            /\ \A g \in Calls \ {h} : call[g].op \in Making =>
                                 call[g].employee # l.employee,
         l.op \in UserOps \ Making => employee[l.employee].row # "fresh",
         l.op = "open" => /\ department[l.department].row = "fresh"
                          /\ \A g \in Calls \ {h} : call[g].op = "open" =>
                               call[g].department # l.department,
         l.op \in {"update", "close"} => department[l.department].row # "fresh"
  PROVE  OrganisationInv'
<1>1. /\ call' \in [Calls -> Call] /\ call'[h] = l
      /\ \A g \in Calls \ {h} : call'[g] = call[g]
  BY DEF OrganisationInv, OrganisationTypeOK
<1>2. OrganisationTypeOK'
  BY <1>1 DEF OrganisationInv, OrganisationTypeOK, Present, Standing
<1>3. \A g \in Calls : LocalsOK(call[g])' /\ EntityOK(g)'
  <2> SUFFICES ASSUME NEW g \in Calls \ {h}
               PROVE  LocalsOK(call[g])' /\ EntityOK(g)'
    BY <1>1
  <2>1. call'[g] = call[g] /\ missed'[g] = missed[g]
    BY <1>1
  <2> QED
    BY <2>1 DEF OrganisationInv, EntityOK, UserEntityOK, DepartmentEntityOK, CheckOK,
         Unseen, Present, Standing
<1>4. FreshOK'
  BY <1>1 DEF OrganisationInv, FreshOK
<1> QED
  BY <1>2, <1>3, <1>4 DEF OrganisationInv

\* A step that changes rows ends its handler, and is remembered by the others.
\* It leaves references to rows only, and makes a row out of a fresh one only
\* where the handler was to do so.
LEMMA WriteStep ==
  ASSUME OrganisationInv, NEW h \in Calls, End(h), Remember(h),
         employee' \in [Employees -> Employee],
         department' \in [Departments -> Department],
         \A e \in Employees : employee'[e].department # None =>
           /\ employee'[e].row = "present"
           /\ department'[employee'[e].department].row = "present",
         \A d \in Departments : department'[d].manager # None =>
           /\ department'[d].row = "present"
           /\ employee'[department'[d].manager].row = "present",
         \A e \in Employees :
           \/ employee'[e].row = "fresh" <=> employee[e].row = "fresh"
           \/ call[h].op \in Making /\ call[h].employee = e /\ employee'[e].row # "fresh",
         \A d \in Departments :
           \/ department'[d].row = "fresh" <=> department[d].row = "fresh"
           \/ call[h].op = "open" /\ call[h].department = d /\ department'[d].row # "fresh"
  PROVE  OrganisationInv'
<1>1. /\ call' \in [Calls -> Call] /\ call'[h] = NoCall
      /\ \A g \in Calls \ {h} : call'[g] = call[g]
  BY NoCallOK DEF OrganisationInv, OrganisationTypeOK, End
<1>2. missed' \in [Calls -> SUBSET Cells]
  BY ChangedCells DEF Remember, OrganisationInv, OrganisationTypeOK
<1>3. OrganisationTypeOK'
  BY <1>1, <1>2 DEF OrganisationInv, OrganisationTypeOK, Present, Standing, End
<1>4. LocalsOK(call[h])' /\ EntityOK(h)'
  <2>1. NoCall.op = "none"
    BY DEF NoCall
  <2> QED
    BY <1>1, <2>1, NoCallOK DEF EntityOK, UserEntityOK, DepartmentEntityOK, CheckOK,
         UserUpdates, LocalsOK
<1>5. ASSUME NEW g \in Calls \ {h}
      PROVE  LocalsOK(call[g])' /\ EntityOK(g)'
  <2>1. call'[g] = call[g] /\ LocalsOK(call[g]) /\ EntityOK(g)
    BY <1>1 DEF OrganisationInv
  <2>2. CASE call[g].pc = "idle"
    <3>1. call[g].op = "none"
      BY <2>1, <2>2 DEF LocalsOK
    <3> QED
      BY <2>1, <3>1 DEF EntityOK, UserEntityOK, DepartmentEntityOK, CheckOK, UserUpdates,
           LocalsOK
  <2>3. CASE call[g].pc # "idle"
    <3>1. missed'[g] = missed[g] \cup Changed
      BY <2>3 DEF Remember
    <3>2. EntityOK(g)'
      BY <3>1, <2>1, OthersRemember DEF OrganisationInv
    <3> QED
      BY <3>2, <2>1 DEF LocalsOK
  <2> QED
    BY <2>2, <2>3
<1>6. FreshOK'
  <2>1. NoCall.op = "none"
    BY DEF NoCall
  <2>2. \A g \in Calls : LocalsOK(call[g])
    BY DEF OrganisationInv
  <2>3. ASSUME NEW g \in Calls \ {h}
        PROVE  /\ call[g].op \in Making => employee'[call[g].employee].row = "fresh"
               /\ call[g].op \in UserOps \ Making => employee'[call[g].employee].row # "fresh"
               /\ call[g].op = "open" => department'[call[g].department].row = "fresh"
               /\ call[g].op \in {"update", "close"} =>
                    department'[call[g].department].row # "fresh"
    BY <2>2 DEF OrganisationInv, FreshOK, LocalsOK, Making, UserOps, DepartmentOps
  <2> QED
    BY <1>1, <2>1, <2>3 DEF OrganisationInv, FreshOK, Making, UserOps
<1> QED
  BY <1>3, <1>4, <1>5, <1>6 DEF OrganisationInv

LEMMA InitInv == OrganisationInit => OrganisationInv
<1> SUFFICES ASSUME OrganisationInit PROVE OrganisationInv
  OBVIOUS
<1>1. \A h \in Calls : call[h] = NoCall /\ NoCall.op = "none"
  BY DEF OrganisationInit, NoCall
<1>2. employee \in [Employees -> Employee]
  BY OrganisationAssumption DEF OrganisationInit, Employee, NoRow, RowState, Status
<1>3. department \in [Departments -> Department]
  BY DEF OrganisationInit, Department, NoDepartment, RowState
<1>4. OrganisationTypeOK
  BY <1>2, <1>3, NoCallOK, OrganisationAssumption
     DEF OrganisationInit, OrganisationTypeOK, NoRow, NoDepartment, Allowed, Employable,
         Present, Standing
<1>5. \A h \in Calls : LocalsOK(call[h]) /\ EntityOK(h)
  BY <1>1, NoCallOK DEF EntityOK, UserEntityOK, DepartmentEntityOK, CheckOK, UserUpdates
<1>6. FreshOK
  BY <1>1 DEF FreshOK, Making, UserOps
<1> QED
  BY <1>4, <1>5, <1>6 DEF OrganisationInv

-----------------------------------------------------------------------------
(* Calls that arrive.                                                      *)

\* What a call that arrives does besides its locals.
LEMMA Started ==
  ASSUME OrganisationInv, NEW h \in Calls, NEW l \in Call, Start(h, l)
  PROVE  /\ UNCHANGED <<employee, department>>
         /\ call' = [call EXCEPT ![h] = l] /\ call'[h] = l
         /\ arrived' \in 0 .. MaxCalls
         /\ missed' \in [Calls -> SUBSET Cells]
         /\ \A g \in Calls \ {h} : missed'[g] = missed[g]
  BY OrganisationAssumption DEF Start, OrganisationInv, OrganisationTypeOK

LEMMA CreateUserInv ==
  ASSUME OrganisationInv, NEW h \in Calls, NEW e \in Employees, NEW op \in Making,
         NEW r \in Roles, NEW s \in Status, NEW d \in Departments \cup {None},
         CreateUser(h, e, op, r, s, d)
  PROVE  OrganisationInv'
<1> DEFINE l == [NoCall EXCEPT !.op = op, !.pc = "inserting", !.employee = e,
                               !.role = r, !.status = s,
                               !.belongs = IF d # None /\ Standing(d) THEN d ELSE None]
<1>1. l \in Call /\ LocalsOK(l)
  BY NoCallOK, OrganisationAssumption
     DEF NoCall, Call, LocalsOK, UserOps, DepartmentOps, Making
<1>2. Start(h, l)
  BY DEF CreateUser
<1>3. l.op = op /\ l.employee = e
  BY DEF NoCall
<1>4. EntityOK(h)'
  BY <1>1, <1>2, <1>3, Started DEF EntityOK, UserEntityOK, DepartmentEntityOK, CheckOK,
       UserUpdates, Making
<1> HIDE DEF l
<1> QED
  BY <1>1, <1>2, <1>3, <1>4, Started, LocalStep DEF CreateUser, Making, UserOps

\* A handler that has just loaded an account agrees with it.
LEMMA LoadedInv ==
  ASSUME OrganisationInv, NEW h \in Calls, NEW e \in Employees, NEW l \in Call,
         Present(e), Start(h, l),
         l.op \in UserUpdates \cup {"remove"},
         l.pc = "ready" \/ (l.op = "edit" /\ l.pc = "loaded"),
         l.employee = e, l.columns = {},
         l.op = "edit" /\ l.pc = "loaded" => l.department \in Departments,
         l.role = employee[e].role \/ l.op = "role",
         l.status = employee[e].status \/ l.op = "status",
         l.belongs = employee[e].department \/ (l.op = "edit" /\ l.belongs = Undefined)
  PROVE  OrganisationInv'
<1>1. LocalsOK(l)
  <2>1. employee[e].department # Undefined
    BY OrganisationAssumption DEF OrganisationInv, OrganisationTypeOK, Employee
  <2> QED
    BY <2>1 DEF LocalsOK, UserUpdates, UserOps, DepartmentOps
<1>2. EntityOK(h)'
  BY Started DEF EntityOK, UserEntityOK, DepartmentEntityOK, CheckOK, UserUpdates,
       Unseen, Meant, Present
<1> QED
  BY <1>1, <1>2, Started, LocalStep DEF UserUpdates, UserOps, Making, Present

\* The operations on an account that exists.
LEMMA UserLoads ==
  ASSUME OrganisationInv, NEW h \in Calls, NEW e \in Employees,
         \/ \E r \in Roles : UpdateRole(h, e, r)
         \/ \E s \in Status : UpdateStatus(h, e, s)
         \/ ResetPassword(h, e)
         \/ EditUser(h, e)
         \/ \E d \in Departments \cup {None} : UpdateUser(h, e, d)
         \/ LoadLeaver(h, e)
  PROVE  OrganisationInv'
<1>1. ASSUME NEW op \in UserUpdates \cup {"remove"}
      PROVE  /\ Loaded(e, op) \in Call
             /\ Loaded(e, op).op = op /\ Loaded(e, op).pc = "ready"
             /\ Loaded(e, op).employee = e /\ Loaded(e, op).columns = {}
             /\ Loaded(e, op).role = employee[e].role
             /\ Loaded(e, op).status = employee[e].status
             /\ Loaded(e, op).belongs = employee[e].department
  BY NoCallOK DEF Loaded, NoCall, Call, UserUpdates, UserOps, OrganisationInv,
       OrganisationTypeOK, Employee
<1>2. ASSUME NEW r \in Roles, UpdateRole(h, e, r)
      PROVE  OrganisationInv'
  <2> DEFINE l == [Loaded(e, "role") EXCEPT !.role = r]
  <2>1. /\ l \in Call /\ l.op = "role" /\ l.employee = e /\ l.columns = {}
        /\ l.pc = "ready"
        /\ l.status = employee[e].status
        /\ l.belongs = employee[e].department
    BY <1>1 DEF Call, UserUpdates
  <2>2. Present(e) /\ Start(h, l)
    BY <1>2 DEF UpdateRole
  <2> HIDE DEF l
  <2> QED
    BY <2>1, <2>2, LoadedInv DEF UserUpdates
<1>3. ASSUME NEW s \in Status, UpdateStatus(h, e, s)
      PROVE  OrganisationInv'
  <2> DEFINE l == [Loaded(e, "status") EXCEPT !.status = s]
  <2>1. /\ l \in Call /\ l.op = "status" /\ l.employee = e /\ l.columns = {}
        /\ l.pc = "ready"
        /\ l.role = employee[e].role
        /\ l.belongs = employee[e].department
    BY <1>1 DEF Call, UserUpdates
  <2>2. Present(e) /\ Start(h, l)
    BY <1>3 DEF UpdateStatus
  <2> HIDE DEF l
  <2> QED
    BY <2>1, <2>2, LoadedInv DEF UserUpdates
<1>4. ASSUME ResetPassword(h, e)
      PROVE  OrganisationInv'
  <2> DEFINE l == Loaded(e, "reset")
  <2>1. /\ l \in Call /\ l.op = "reset" /\ l.employee = e /\ l.columns = {}
        /\ l.pc = "ready"
        /\ l.role = employee[e].role
        /\ l.status = employee[e].status
        /\ l.belongs = employee[e].department
    BY <1>1 DEF Call, UserUpdates
  <2>2. Present(e) /\ Start(h, l)
    BY <1>4 DEF ResetPassword
  <2> HIDE DEF l
  <2> QED
    BY <2>1, <2>2, LoadedInv DEF UserUpdates
<1>5. ASSUME UpdateUser(h, e, None)
      PROVE  OrganisationInv'
  <2> DEFINE l == [Loaded(e, "edit") EXCEPT !.belongs = Undefined]
  <2>1. /\ l \in Call /\ l.op = "edit" /\ l.employee = e /\ l.columns = {}
        /\ l.pc = "ready"
        /\ l.role = employee[e].role
        /\ l.status = employee[e].status
        /\ l.belongs = Undefined
    BY <1>1 DEF Call, UserUpdates
  <2>2. Present(e) /\ Start(h, l)
    BY <1>5 DEF UpdateUser
  <2> HIDE DEF l
  <2> QED
    BY <2>1, <2>2, LoadedInv DEF UserUpdates
<1>6. ASSUME NEW d \in Departments, UpdateUser(h, e, d)
      PROVE  OrganisationInv'
  <2> DEFINE k == Loaded(e, "edit")
             l == [k EXCEPT !.pc = "loaded", !.department = d]
  <2>1. Present(e) /\ Start(h, l)
    BY <1>6, OrganisationAssumption DEF UpdateUser
  <2>2. /\ k \in Call /\ k.op = "edit" /\ k.employee = e /\ k.columns = {}
        /\ k.role = employee[e].role /\ k.status = employee[e].status
        /\ k.belongs = employee[e].department
    BY <1>1 DEF UserUpdates
  <2> HIDE DEF k
  <2>3. /\ l \in Call /\ l.op = "edit" /\ l.employee = e /\ l.columns = {}
        /\ l.pc = "loaded" /\ l.department = d
        /\ l.role = employee[e].role /\ l.status = employee[e].status
        /\ l.belongs = employee[e].department
    BY <2>2 DEF Call
  <2> HIDE DEF l
  <2> QED
    BY <2>1, <2>3, LoadedInv DEF UserUpdates
<1>7. ASSUME LoadLeaver(h, e)
      PROVE  OrganisationInv'
  <2> DEFINE l == Loaded(e, "remove")
  <2>1. /\ l \in Call /\ l.op = "remove" /\ l.employee = e /\ l.columns = {}
        /\ l.pc = "ready"
        /\ l.role = employee[e].role
        /\ l.status = employee[e].status
        /\ l.belongs = employee[e].department
    BY <1>1 DEF Call, UserUpdates
  <2>2. Present(e) /\ Start(h, l)
    BY <1>7 DEF LoadLeaver
  <2> HIDE DEF l
  <2> QED
    BY <2>1, <2>2, LoadedInv DEF UserUpdates
<1>8. ASSUME NEW d \in Departments \cup {None}, UpdateUser(h, e, d)
      PROVE  OrganisationInv'
  BY <1>5, <1>6, <1>8
<1>9. ASSUME EditUser(h, e)
      PROVE  OrganisationInv'
  <2> DEFINE l == Loaded(e, "edit")
  <2>1. /\ l \in Call /\ l.op = "edit" /\ l.employee = e /\ l.columns = {}
        /\ l.pc = "ready"
        /\ l.role = employee[e].role
        /\ l.status = employee[e].status
        /\ l.belongs = employee[e].department
    BY <1>1 DEF Call, UserUpdates
  <2>2. Present(e) /\ Start(h, l)
    BY <1>9 DEF EditUser
  <2> HIDE DEF l
  <2> QED
    BY <2>1, <2>2, LoadedInv DEF UserUpdates
<1> QED
  BY <1>2, <1>3, <1>4, <1>7, <1>8, <1>9

LEMMA CreateDepartmentInv ==
  ASSUME OrganisationInv, NEW h \in Calls, NEW d \in Departments,
         NEW m \in Employees \cup {None}, CreateDepartment(h, d, m)
  PROVE  OrganisationInv'
<1> DEFINE l == [NoCall EXCEPT !.op = "open", !.pc = "inserting",
                               !.department = d, !.manager = m]
<1>1. /\ l \in Call /\ l.op = "open" /\ l.department = d /\ LocalsOK(l)
  BY NoCallOK, OrganisationAssumption DEF NoCall, Call, LocalsOK, UserOps, DepartmentOps
<1>2. Start(h, l)
  BY DEF CreateDepartment
<1> HIDE DEF l
<1>3. EntityOK(h)'
  BY <1>1, <1>2, Started DEF EntityOK, UserEntityOK, DepartmentEntityOK, CheckOK, UserUpdates
<1> QED
  BY <1>1, <1>2, <1>3, Started, LocalStep DEF CreateDepartment, Making, UserOps

\* A handler that has just loaded a department agrees with it.
LEMMA FoundInv ==
  ASSUME OrganisationInv, NEW h \in Calls, NEW d \in Departments, NEW l \in Call,
         Standing(d), Start(h, l),
         l.op \in {"update", "close"},
         l.pc = "ready" \/ (l.op = "update" /\ l.pc = "loaded" /\ l.employee \in Employees),
         l.department = d, l.columns = {}, l.members = Members(d),
         l.manager \in {Undefined, department[d].manager}
  PROVE  OrganisationInv'
<1>1. LocalsOK(l)
  BY DEF LocalsOK, UserOps, DepartmentOps
<1>2. EntityOK(h)'
  BY Started DEF EntityOK, UserEntityOK, DepartmentEntityOK, CheckOK, UserUpdates,
       Standing, Members
<1> QED
  BY <1>1, <1>2, Started, LocalStep DEF UserOps, Making, Standing

\* The operations on a department that exists.
LEMMA DepartmentLoads ==
  ASSUME OrganisationInv, NEW h \in Calls, NEW d \in Departments,
         \/ Rename(h, d)
         \/ \E m \in Employees \cup {None} : UpdateManager(h, d, m)
         \/ LoadClosing(h, d)
  PROVE  OrganisationInv'
<1>1. ASSUME NEW op \in {"update", "close"}
      PROVE  /\ Found(d, op) \in Call
             /\ Found(d, op).op = op /\ Found(d, op).pc = "ready"
             /\ Found(d, op).department = d /\ Found(d, op).columns = {}
             /\ Found(d, op).manager = department[d].manager
             /\ Found(d, op).members = Members(d)
  BY NoCallOK DEF Found, NoCall, Call, DepartmentOps, Members, OrganisationInv,
       OrganisationTypeOK, Department
<1>2. ASSUME Rename(h, d)
      PROVE  OrganisationInv'
  <2> DEFINE l == Found(d, "update")
  <2>1. /\ l \in Call /\ l.op = "update" /\ l.pc = "ready" /\ l.department = d
        /\ l.columns = {} /\ l.manager = department[d].manager /\ l.members = Members(d)
    BY <1>1
  <2>2. Standing(d) /\ Start(h, l)
    BY <1>2 DEF Rename
  <2> HIDE DEF l
  <2> QED
    BY <2>1, <2>2, FoundInv
<1>3. ASSUME UpdateManager(h, d, None)
      PROVE  OrganisationInv'
  <2> DEFINE k == Found(d, "update")
             l == [k EXCEPT !.manager = Undefined]
  <2>1. Standing(d) /\ Start(h, l)
    BY <1>3 DEF UpdateManager
  <2>2. /\ k \in Call /\ k.op = "update" /\ k.pc = "ready" /\ k.department = d
        /\ k.columns = {} /\ k.members = Members(d)
    BY <1>1
  <2> HIDE DEF k
  <2>3. /\ l \in Call /\ l.op = "update" /\ l.pc = "ready" /\ l.department = d
        /\ l.columns = {} /\ l.manager = Undefined /\ l.members = Members(d)
    BY <2>2 DEF Call
  <2> HIDE DEF l
  <2> QED
    BY <2>1, <2>3, FoundInv
<1>4. ASSUME NEW m \in Employees, UpdateManager(h, d, m)
      PROVE  OrganisationInv'
  <2> DEFINE k == Found(d, "update")
             l == [k EXCEPT !.pc = "loaded", !.employee = m]
  <2>1. Standing(d) /\ Start(h, l)
    BY <1>4, OrganisationAssumption DEF UpdateManager
  <2>2. /\ k \in Call /\ k.op = "update" /\ k.department = d
        /\ k.columns = {} /\ k.manager = department[d].manager /\ k.members = Members(d)
    BY <1>1
  <2> HIDE DEF k
  <2>3. /\ l \in Call /\ l.op = "update" /\ l.pc = "loaded" /\ l.department = d
        /\ l.employee = m /\ l.columns = {} /\ l.manager = department[d].manager
        /\ l.members = Members(d)
    BY <2>2 DEF Call
  <2> HIDE DEF l
  <2> QED
    BY <2>1, <2>3, FoundInv
<1>5. ASSUME LoadClosing(h, d)
      PROVE  OrganisationInv'
  <2> DEFINE l == Found(d, "close")
  <2>1. /\ l \in Call /\ l.op = "close" /\ l.pc = "ready" /\ l.department = d
        /\ l.columns = {} /\ l.manager = department[d].manager /\ l.members = Members(d)
    BY <1>1
  <2>2. Standing(d) /\ Start(h, l)
    BY <1>5 DEF LoadClosing
  <2> HIDE DEF l
  <2> QED
    BY <2>1, <2>2, FoundInv
<1>6. ASSUME NEW m \in Employees \cup {None}, UpdateManager(h, d, m)
      PROVE  OrganisationInv'
  BY <1>3, <1>4, <1>6
<1> QED
  BY <1>2, <1>5, <1>6

LEMMA AuthenticateInv ==
  ASSUME OrganisationInv, NEW h \in Calls, NEW m \in Employees, NEW e \in Employees,
         Authenticate(h, m, e)
  PROVE  OrganisationInv'
<1> DEFINE l == [NoCall EXCEPT !.op = "check", !.pc = "loaded",
                               !.manager = m, !.employee = e]
<1>1. /\ l \in Call /\ l.op = "check" /\ l.pc = "loaded" /\ LocalsOK(l)
  BY NoCallOK, OrganisationAssumption DEF NoCall, Call, LocalsOK, UserOps, DepartmentOps
<1>2. Start(h, l)
  BY DEF Authenticate
<1> HIDE DEF l
<1>3. EntityOK(h)'
  BY <1>1, <1>2, Started DEF EntityOK, UserEntityOK, DepartmentEntityOK, CheckOK, UserUpdates
<1> QED
  BY <1>1, <1>2, <1>3, Started, LocalStep DEF Making, UserOps

-----------------------------------------------------------------------------
(* Calls that go on, or end without a change.                              *)

\* A handler that goes on keeps its operation and the ids it works on.
LEMMA GoesInv ==
  ASSUME OrganisationInv, NEW h \in Calls, NEW l \in Call, Goes(h, l),
         LocalsOK(l), EntityOK(h)',
         l.op = call[h].op,
         l.op \in UserOps => l.employee = call[h].employee,
         l.op \in DepartmentOps => l.department = call[h].department
  PROVE  OrganisationInv'
<1>1. /\ UNCHANGED <<employee, department>>
      /\ call' = [call EXCEPT ![h] = l]
      /\ arrived' \in 0 .. MaxCalls
      /\ missed' \in [Calls -> SUBSET Cells]
      /\ \A g \in Calls \ {h} : missed'[g] = missed[g]
  BY DEF Goes, OrganisationInv, OrganisationTypeOK
<1>2. /\ l.op \in Making => /\ employee[l.employee].row = "fresh"
                            /\ \A g \in Calls \ {h} : call[g].op \in Making =>
                                 call[g].employee # l.employee
      /\ l.op \in UserOps \ Making => employee[l.employee].row # "fresh"
  BY DEF OrganisationInv, FreshOK, Making, UserOps
<1>3. /\ l.op = "open" => /\ department[l.department].row = "fresh"
                          /\ \A g \in Calls \ {h} : call[g].op = "open" =>
                               call[g].department # l.department
      /\ l.op \in {"update", "close"} => department[l.department].row # "fresh"
  BY DEF OrganisationInv, FreshOK, DepartmentOps
<1> QED
  BY <1>1, <1>2, <1>3, LocalStep

LEMMA RefuseInv ==
  ASSUME OrganisationInv, NEW h \in Calls, Refuse(h)
  PROVE  OrganisationInv'
<1>1. NoCall.op = "none"
  BY DEF NoCall
<1>2. call' = [call EXCEPT ![h] = NoCall] /\ call'[h] = NoCall
  BY DEF Refuse, End, OrganisationInv, OrganisationTypeOK
<1>3. EntityOK(h)'
  BY <1>1, <1>2 DEF EntityOK, UserEntityOK, DepartmentEntityOK, CheckOK, UserUpdates
<1> QED
  BY <1>1, <1>2, <1>3, NoCallOK, LocalStep
     DEF Refuse, End, OrganisationInv, OrganisationTypeOK, Making, UserOps

\* What is known of a handler in flight.
LEMMA InFlight ==
  ASSUME OrganisationInv, NEW h \in Calls
  PROVE  call[h] \in Call /\ LocalsOK(call[h]) /\ EntityOK(h)
  BY DEF OrganisationInv, OrganisationTypeOK

LEMMA FindDepartmentInv ==
  ASSUME OrganisationInv, NEW h \in Calls, FindDepartment(h)
  PROVE  OrganisationInv'
<1> DEFINE d == call[h].department
           l == [call[h] EXCEPT !.pc = "ready", !.belongs = d]
<1>1. CASE ~Standing(d)
  BY <1>1, RefuseInv DEF FindDepartment
<1>2. CASE Standing(d)
  <2>1. Goes(h, l) /\ call[h].op = "edit" /\ call[h].pc = "loaded"
    BY <1>2 DEF FindDepartment
  <2>2. d \in Departments
    BY <2>1, InFlight DEF LocalsOK
  <2>3. /\ l \in Call /\ l.op = "edit" /\ l.pc = "ready" /\ l.belongs = d
        /\ l.employee = call[h].employee /\ l.employee \in Employees
        /\ l.role = call[h].role /\ l.status = call[h].status
        /\ l.columns = call[h].columns /\ l.manager = call[h].manager
        /\ l.department = d
    BY <2>1, <2>2, InFlight DEF Call, LocalsOK, UserOps
  <2>4. LocalsOK(l)
    BY <2>1, <2>2, <2>3, InFlight, OrganisationAssumption
       DEF LocalsOK, UserOps, DepartmentOps
  <2> HIDE DEF l
  <2>5. call'[h] = l /\ missed' = missed /\ UNCHANGED <<employee, department>>
    BY <2>1 DEF Goes, OrganisationInv, OrganisationTypeOK
  <2>6. EntityOK(h)'
    <3>1. d # None
      BY <2>2, OrganisationAssumption
    <3>2. <<l.employee, "department">> \in Unseen(h)'
      BY <2>3, <2>5, <3>1 DEF Unseen, Meant
    <3>3. Meant(call[h]) \subseteq {<<l.employee, "department">>}
      BY <2>1, <2>3 DEF Meant
    <3> QED
      BY <2>1, <2>3, <2>5, <3>2, <3>3, InFlight
         DEF EntityOK, UserEntityOK, DepartmentEntityOK, CheckOK, UserUpdates, Unseen, Present
  <2> QED
    BY <2>1, <2>3, <2>4, <2>6, GoesInv DEF UserOps, DepartmentOps
<1> QED
  BY <1>1, <1>2

LEMMA FindManagerInv ==
  ASSUME OrganisationInv, NEW h \in Calls, FindManager(h)
  PROVE  OrganisationInv'
<1> DEFINE m == call[h].employee
           l == [call[h] EXCEPT !.pc = "ready", !.manager = m]
<1>1. CASE ~Present(m)
  BY <1>1, RefuseInv DEF FindManager
<1>2. CASE Present(m)
  <2>1. Goes(h, l) /\ call[h].op = "update" /\ call[h].pc = "loaded"
    BY <1>2 DEF FindManager
  <2>2. m \in Employees
    BY <2>1, InFlight DEF LocalsOK
  <2>3. /\ l \in Call /\ l.op = "update" /\ l.pc = "ready" /\ l.manager = m
        /\ l.department = call[h].department /\ l.department \in Departments
        /\ l.employee = m /\ l.members = call[h].members
        /\ l.columns = call[h].columns /\ l.belongs = call[h].belongs
    BY <2>1, <2>2, InFlight DEF Call, LocalsOK, DepartmentOps
  <2>4. LocalsOK(l)
    BY <2>1, <2>2, <2>3, InFlight, OrganisationAssumption
       DEF LocalsOK, UserOps, DepartmentOps
  <2> HIDE DEF l
  <2>5. call'[h] = l /\ missed' = missed /\ UNCHANGED <<employee, department>>
    BY <2>1 DEF Goes, OrganisationInv, OrganisationTypeOK
  <2>6. EntityOK(h)'
    <3>1. m # None
      BY <2>2, OrganisationAssumption
    <3>2. <<l.department, "manager">> \in Unseen(h)'
      BY <2>3, <2>5, <3>1 DEF Unseen, Meant
    <3> QED
      BY <2>1, <2>3, <2>5, <3>2, InFlight
         DEF EntityOK, UserEntityOK, DepartmentEntityOK, CheckOK, UserUpdates, Standing
  <2> QED
    BY <2>1, <2>3, <2>4, <2>6, GoesInv DEF UserOps, DepartmentOps
<1> QED
  BY <1>1, <1>2

\* What save() finds to differ is for this call to change, or was changed by
\* another one since the row was loaded.
LEMMA CompareUserInv ==
  ASSUME OrganisationInv, NEW h \in Calls, CompareUser(h)
  PROVE  OrganisationInv'
<1> DEFINE k == call[h]
           e == k.employee
           columns == {c \in {"role", "status"} : k[c] # employee[e][c]}
                        \cup {c \in {"department"} : k.belongs \notin {Undefined, employee[e][c]}}
           l == [k EXCEPT !.pc = "writing", !.columns = columns]
           n == [k EXCEPT !.pc = "inserting"]
<1>1. /\ k \in Call /\ LocalsOK(k) /\ EntityOK(h)
      /\ k.op \in UserUpdates /\ k.pc = "ready" /\ e \in Employees
  BY InFlight DEF CompareUser, UserUpdates, LocalsOK, UserOps
<1>2. CASE Present(e)
  <2>1. Goes(h, l)
    BY <1>2 DEF CompareUser
  <2>2. columns \subseteq {"role", "status", "department"}
    OBVIOUS
  <2>3. "department" \in columns => k.belongs # Undefined
    OBVIOUS
  <2>4. ASSUME NEW c \in columns
        PROVE  <<e, c>> \in Unseen(h)
    <3>1. CASE c = "role"
      BY <1>1, <3>1 DEF EntityOK, UserEntityOK
    <3>2. CASE c = "status"
      BY <1>1, <3>2 DEF EntityOK, UserEntityOK
    <3>3. CASE c = "department"
      BY <1>1, <3>3 DEF EntityOK, UserEntityOK
    <3> QED
      BY <2>2, <3>1, <3>2, <3>3
  <2> HIDE DEF columns
  <2>5. /\ l \in Call /\ l.op = k.op /\ l.pc = "writing" /\ l.columns = columns
        /\ l.employee = e /\ l.department = k.department /\ l.belongs = k.belongs
        /\ l.manager = k.manager
    BY <1>1, <2>2 DEF Call
  <2>6. LocalsOK(l)
    BY <1>1, <2>2, <2>3, <2>5 DEF LocalsOK, UserOps, DepartmentOps, UserUpdates
  <2> HIDE DEF l
  <2>7. call'[h] = l /\ missed' = missed /\ UNCHANGED <<employee, department>>
    BY <2>1 DEF Goes, OrganisationInv, OrganisationTypeOK
  <2>8. EntityOK(h)'
    <3>1. Meant(l) = Meant(k)
      BY <1>1, <2>5 DEF Meant
    <3>2. Unseen(h)' = Unseen(h)
      BY <2>7, <3>1 DEF Unseen
    <3> QED
      BY <1>1, <1>2, <2>4, <2>5, <2>7, <3>2
         DEF EntityOK, UserEntityOK, DepartmentEntityOK, CheckOK, UserUpdates, Present
  <2> QED
    BY <1>1, <2>1, <2>5, <2>6, <2>8, GoesInv
<1>3. CASE ~Present(e) /\ k.op = "reset"
  <2>1. Goes(h, n)
    BY <1>3 DEF CompareUser
  <2>2. /\ n \in Call /\ n.op = k.op /\ n.pc = "inserting" /\ n.columns = k.columns
        /\ n.employee = e /\ n.department = k.department /\ n.belongs = k.belongs
        /\ n.manager = k.manager /\ n.role = k.role /\ n.status = k.status
    BY <1>1 DEF Call
  <2>3. LocalsOK(n)
    BY <1>1, <2>2 DEF LocalsOK
  <2> HIDE DEF n
  <2>4. call'[h] = n /\ missed' = missed /\ UNCHANGED <<employee, department>>
    BY <2>1 DEF Goes, OrganisationInv, OrganisationTypeOK
  <2>5. EntityOK(h)'
    <3>1. Meant(n) = Meant(k)
      BY <1>1, <2>2 DEF Meant
    <3>2. Unseen(h)' = Unseen(h)
      BY <2>4, <3>1 DEF Unseen
    <3> QED
      BY <1>1, <1>3, <2>2, <2>4, <3>2
         DEF EntityOK, UserEntityOK, DepartmentEntityOK, CheckOK, UserUpdates, Present
  <2> QED
    BY <1>1, <2>1, <2>2, <2>3, <2>5, GoesInv
<1>4. CASE ~Present(e) /\ k.op # "reset"
  BY <1>4, RefuseInv DEF CompareUser
<1> QED
  BY <1>2, <1>3, <1>4

LEMMA CompareDepartmentInv ==
  ASSUME OrganisationInv, NEW h \in Calls, CompareDepartment(h)
  PROVE  OrganisationInv'
<1> DEFINE k == call[h]
           d == k.department
           pc == IF Standing(d) THEN "writing" ELSE "inserting"
           columns == {c \in {"manager"} : k.manager \notin {Undefined, department[d].manager}}
           adopted == k.members \ Members(d)
           expelled == Members(d) \ k.members
           l == [k EXCEPT !.pc = pc, !.columns = columns,
                          !.adopted = adopted, !.expelled = expelled]
<1>1. /\ k \in Call /\ LocalsOK(k) /\ EntityOK(h)
      /\ k.op = "update" /\ k.pc = "ready" /\ d \in Departments
  BY InFlight DEF CompareDepartment, LocalsOK, DepartmentOps
<1>2. Goes(h, l)
  BY DEF CompareDepartment
<1>3. /\ columns \subseteq {"manager"} /\ pc \in {"writing", "inserting"}
      /\ "manager" \in columns => k.manager # Undefined /\ <<d, "manager">> \in Unseen(h)
  BY <1>1 DEF EntityOK, DepartmentEntityOK
<1>4. /\ adopted \subseteq Employees /\ expelled \subseteq Employees
      /\ \A e \in adopted \cup expelled : <<e, "department">> \in missed[h]
  BY <1>1 DEF EntityOK, DepartmentEntityOK, Members, Call
<1> HIDE DEF pc, columns, adopted, expelled
<1>5. /\ l \in Call /\ l.op = "update" /\ l.pc = pc /\ l.columns = columns
      /\ l.adopted = adopted /\ l.expelled = expelled /\ l.department = d
      /\ l.employee = k.employee /\ l.belongs = k.belongs /\ l.manager = k.manager
  BY <1>1, <1>3, <1>4 DEF Call
<1> HIDE DEF l
<1>6. LocalsOK(l)
  BY <1>1, <1>3, <1>5 DEF LocalsOK, UserOps, DepartmentOps
<1>7. call'[h] = l /\ missed' = missed /\ UNCHANGED <<employee, department>>
  BY <1>2 DEF Goes, OrganisationInv, OrganisationTypeOK
<1>8. EntityOK(h)'
  <2>1. Meant(l) = Meant(k)
    BY <1>1, <1>5 DEF Meant
  <2>2. Unseen(h)' = Unseen(h)
    BY <1>7, <2>1 DEF Unseen
  <2> QED
    BY <1>1, <1>3, <1>4, <1>5, <1>7, <2>2
       DEF EntityOK, UserEntityOK, DepartmentEntityOK, CheckOK, UserUpdates, Standing
<1> QED
  BY <1>1, <1>2, <1>5, <1>6, <1>8, GoesInv DEF UserOps

\* The departments a check reads are those of now, and nothing is missed yet.
LEMMA GetManagedInv ==
  ASSUME OrganisationInv, NEW h \in Calls, GetManagedDepartmentIds(h)
  PROVE  OrganisationInv'
<1> DEFINE k == call[h]
           managed == {d \in Departments : department[d].manager = k.manager}
           l == IF managed = {} THEN NoCall ELSE [k EXCEPT !.pc = "ready", !.managed = managed]
<1>1. k \in Call /\ LocalsOK(k) /\ k.op = "check"
  BY InFlight DEF GetManagedDepartmentIds
<1>2. /\ UNCHANGED <<employee, department>> /\ call' = [call EXCEPT ![h] = l]
      /\ arrived' \in 0 .. MaxCalls /\ missed' \in [Calls -> SUBSET Cells]
      /\ missed'[h] = {}
      /\ \A g \in Calls \ {h} : missed'[g] = missed[g]
  BY DEF GetManagedDepartmentIds, OrganisationInv, OrganisationTypeOK
<1>3. /\ l \in Call /\ LocalsOK(l) /\ l.op \in {"none", "check"}
      /\ l.op = "check" => l.managed = managed /\ l.manager = k.manager
  <2>1. CASE managed = {}
    BY <2>1, NoCallOK DEF NoCall
  <2>2. CASE managed # {}
    <3> DEFINE n == [k EXCEPT !.pc = "ready", !.managed = managed]
    <3>1. managed \subseteq Departments
      OBVIOUS
    <3> HIDE DEF managed
    <3>2. /\ n \in Call /\ n.op = "check" /\ n.pc = "ready" /\ n.managed = managed
          /\ n.manager = k.manager /\ n.employee = k.employee /\ n.columns = k.columns
          /\ n.belongs = k.belongs
      BY <1>1, <3>1 DEF Call
    <3>3. LocalsOK(n)
      BY <1>1, <3>2 DEF LocalsOK, UserOps, DepartmentOps
    <3> QED
      BY <2>2, <3>2, <3>3
  <2> QED
    BY <2>1, <2>2
<1> HIDE DEF l
<1>4. call'[h] = l
  BY <1>2 DEF OrganisationInv, OrganisationTypeOK
<1>5. EntityOK(h)'
  BY <1>2, <1>3, <1>4 DEF EntityOK, UserEntityOK, DepartmentEntityOK, CheckOK, UserUpdates
<1> QED
  BY <1>2, <1>3, <1>5, LocalStep DEF Making, UserOps

-----------------------------------------------------------------------------
(* Writes.                                                                 *)

\* References lead to rows before a step.
LEMMA ForeignKeys ==
  ASSUME OrganisationInv
  PROVE  /\ employee \in [Employees -> Employee]
         /\ department \in [Departments -> Department]
         /\ \A e \in Employees : employee[e].department # None =>
              /\ employee[e].row = "present"
              /\ department[employee[e].department].row = "present"
         /\ \A d \in Departments : department[d].manager # None =>
              /\ department[d].row = "present"
              /\ employee[department[d].manager].row = "present"
  BY DEF OrganisationInv, OrganisationTypeOK, Present, Standing

LEMMA WriteUserInv ==
  ASSUME OrganisationInv, NEW h \in Calls, WriteUser(h)
  PROVE  OrganisationInv'
<1> DEFINE k == call[h]
           e == k.employee
           role == IF "role" \in k.columns THEN k.role ELSE employee[e].role
           status == IF "status" \in k.columns THEN k.status ELSE employee[e].status
           dep == IF "department" \in k.columns THEN k.belongs ELSE employee[e].department
           row == [employee[e] EXCEPT !.role = role, !.status = status, !.department = dep]
<1>1. k \in Call /\ LocalsOK(k) /\ e \in Employees
  BY InFlight DEF WriteUser, LocalsOK, UserOps
<1>2. employee[e] \in Employee
  BY ForeignKeys, <1>1
<1>3. /\ role \in Roles \cup {None} /\ status \in Status \cup {None}
      /\ dep \in Departments \cup {None}
  BY <1>1, <1>2 DEF LocalsOK, Call, Employee
<1>4. IF Present(e) /\ Allowed(dep)
        THEN /\ employee' = [employee EXCEPT ![e] = row]
             /\ End(h) /\ UNCHANGED department /\ Remember(h)
        ELSE Refuse(h)
  <2>1. row.department = dep
    BY <1>2 DEF Employee
  <2> QED
    BY <2>1 DEF WriteUser
<1> HIDE DEF role, status, dep
<1>5. CASE ~(Present(e) /\ Allowed(dep))
  BY <1>4, <1>5, RefuseInv
<1>6. CASE Present(e) /\ Allowed(dep)
  <2>1. /\ row \in Employee /\ row.row = "present" /\ row.department = dep
    BY <1>2, <1>3, <1>6 DEF Employee, Present
  <2> HIDE DEF row
  <2>2. employee' \in [Employees -> Employee]
        /\ employee'[e] = row /\ (\A f \in Employees \ {e} : employee'[f] = employee[f])
    BY <1>1, <1>4, <1>6, <2>1, ForeignKeys
  <2>3. \A f \in Employees : employee'[f].row = employee[f].row
    BY <1>1, <1>6, <2>1, <2>2 DEF Present
  <2>4. UNCHANGED department
    BY <1>4, <1>6
  <2>5. \A f \in Employees : employee'[f].department # None =>
          /\ employee'[f].row = "present"
          /\ department'[employee'[f].department].row = "present"
    BY <1>1, <1>6, <2>1, <2>2, <2>4, ForeignKeys DEF Allowed, Standing
  <2>6. \A d \in Departments : department'[d].manager # None =>
          /\ department'[d].row = "present"
          /\ employee'[department'[d].manager].row = "present"
    <3>1. \A d \in Departments : department[d].manager \in Employees \cup {None}
      BY ForeignKeys DEF Department
    <3> QED
      BY <2>3, <2>4, <3>1, ForeignKeys
  <2>7. End(h) /\ Remember(h) /\ department' \in [Departments -> Department]
    BY <1>4, <1>6, <2>4, ForeignKeys
  <2> QED
    BY <2>2, <2>3, <2>4, <2>5, <2>6, <2>7, WriteStep
<1> QED
  BY <1>5, <1>6

LEMMA InsertUserInv ==
  ASSUME OrganisationInv, NEW h \in Calls, InsertUser(h)
  PROVE  OrganisationInv'
<1> DEFINE k == call[h]
           e == k.employee
           row == [row |-> "present", role |-> k.role, status |-> k.status,
                   department |-> k.belongs]
<1>1. /\ k \in Call /\ LocalsOK(k) /\ e \in Employees
      /\ k.op \in {"create", "register", "reset"} /\ k.belongs # Undefined
  BY InFlight DEF InsertUser, LocalsOK, UserOps
<1>2. CASE ~(~Present(e) /\ Allowed(k.belongs))
  BY <1>2, RefuseInv DEF InsertUser
<1>3. CASE ~Present(e) /\ Allowed(k.belongs)
  <2>1. /\ employee' = [employee EXCEPT ![e] = row]
        /\ End(h) /\ UNCHANGED department /\ Remember(h)
    BY <1>3 DEF InsertUser
  <2>2. row \in Employee /\ row.row = "present" /\ row.department = k.belongs
    BY <1>1 DEF Call, Employee, RowState
  <2> HIDE DEF row
  <2>3. employee' \in [Employees -> Employee]
        /\ employee'[e] = row /\ (\A f \in Employees \ {e} : employee'[f] = employee[f])
    BY <1>1, <2>1, <2>2, ForeignKeys
  <2>4. \A f \in Employees : employee'[f].department # None =>
          /\ employee'[f].row = "present"
          /\ department'[employee'[f].department].row = "present"
    BY <1>1, <1>3, <2>1, <2>2, <2>3, ForeignKeys DEF Allowed, Standing
  <2>5. \A d \in Departments : department'[d].manager # None =>
          /\ department'[d].row = "present"
          /\ employee'[department'[d].manager].row = "present"
    <3>1. \A d \in Departments : department[d].manager \in Employees \cup {None}
      BY ForeignKeys DEF Department
    <3> QED
      BY <2>1, <2>2, <2>3, <3>1, ForeignKeys
  <2>6. \A f \in Employees :
          \/ employee'[f].row = "fresh" <=> employee[f].row = "fresh"
          \/ k.op \in Making /\ k.employee = f /\ employee'[f].row # "fresh"
    <3>1. CASE k.op \in Making
      BY <2>2, <2>3, <3>1
    <3>2. CASE k.op \notin Making
      <4>1. employee[e].row # "fresh"
        BY <1>1, <3>2 DEF OrganisationInv, FreshOK, UserOps, Making
      <4> QED
        BY <2>2, <2>3, <4>1
    <3> QED
      BY <3>1, <3>2
  <2>7. department' \in [Departments -> Department]
    BY <2>1, ForeignKeys
  <2> QED
    BY <2>1, <2>3, <2>4, <2>5, <2>6, <2>7, WriteStep
<1> QED
  BY <1>2, <1>3

LEMMA RemoveUserInv ==
  ASSUME OrganisationInv, NEW h \in Calls, RemoveUser(h)
  PROVE  OrganisationInv'
<1> DEFINE e == call[h].employee
<1>1. e \in Employees /\ employee[e].row # "fresh"
  BY InFlight DEF RemoveUser, LocalsOK, UserOps, Making, OrganisationInv, FreshOK
<1>2. /\ NoRow("removed") \in Employee /\ NoRow("removed").row = "removed"
      /\ NoRow("removed").department = None
  BY DEF NoRow, Employee, RowState
<1>3. /\ employee' \in [Employees -> Employee] /\ employee'[e] = NoRow("removed")
      /\ \A f \in Employees \ {e} : employee'[f] = employee[f]
  BY <1>1, <1>2, ForeignKeys DEF RemoveUser
<1>4. /\ department' \in [Departments -> Department]
      /\ \A d \in Departments :
           /\ department'[d].row = department[d].row
           /\ department'[d].manager =
                IF department[d].manager = e THEN None ELSE department[d].manager
  <2>1. department' = [d \in Departments |->
          [department[d] EXCEPT !.manager = IF @ = e THEN None ELSE @]]
    BY DEF RemoveUser
  <2>2. \A d \in Departments : department[d] \in Department
    BY ForeignKeys
  <2> QED
    BY <2>1, <2>2 DEF Department
<1>5. \A f \in Employees : employee'[f].department # None =>
        /\ employee'[f].row = "present"
        /\ department'[employee'[f].department].row = "present"
  <2>1. \A f \in Employees : employee[f].department \in Departments \cup {None}
    BY ForeignKeys DEF Employee
  <2> QED
    BY <1>1, <1>2, <1>3, <1>4, <2>1, ForeignKeys
<1>6. \A d \in Departments : department'[d].manager # None =>
        /\ department'[d].row = "present"
        /\ employee'[department'[d].manager].row = "present"
  <2>1. \A d \in Departments : department[d].manager \in Employees \cup {None}
    BY ForeignKeys DEF Department
  <2> QED
    BY <1>1, <1>3, <1>4, <2>1, ForeignKeys
<1>7. \A f \in Employees : employee'[f].row = "fresh" <=> employee[f].row = "fresh"
  BY <1>1, <1>2, <1>3
<1>8. End(h) /\ Remember(h)
  BY DEF RemoveUser
<1> QED
  BY <1>3, <1>4, <1>5, <1>6, <1>7, <1>8, WriteStep

\* Moving the members of a department keeps every row.
LEMMA Regrouped ==
  ASSUME OrganisationInv, NEW l \in Call, l.department \in Departments, Regroup(l)
  PROVE  /\ employee' \in [Employees -> Employee]
         /\ \A e \in Employees :
              /\ employee'[e].row = employee[e].row
              /\ employee'[e].role = employee[e].role
              /\ employee'[e].status = employee[e].status
              /\ \/ employee'[e].department = employee[e].department
                 \/ employee'[e].department = None /\ e \in l.expelled
                 \/ employee'[e].department = l.department /\ Present(e) /\ e \in l.adopted
<1>1. \A e \in Employees : employee[e] \in Employee
  BY ForeignKeys
<1>2. ASSUME NEW e \in Employees
      PROVE  /\ employee'[e] \in Employee
             /\ employee'[e].row = employee[e].row
             /\ employee'[e].role = employee[e].role
             /\ employee'[e].status = employee[e].status
             /\ \/ employee'[e].department = employee[e].department
                \/ employee'[e].department = None /\ e \in l.expelled
                \/ employee'[e].department = l.department /\ Present(e) /\ e \in l.adopted
  <2>1. employee'[e] = IF Present(e) /\ e \in l.adopted
                         THEN [employee[e] EXCEPT !.department = l.department]
                       ELSE IF e \in l.expelled THEN [employee[e] EXCEPT !.department = None]
                       ELSE employee[e]
    BY DEF Regroup
  <2> QED
    BY <1>1, <2>1 DEF Employee
<1>3. employee' = [e \in Employees |-> employee'[e]]
  BY DEF Regroup
<1> QED
  BY <1>2, <1>3

LEMMA WriteDepartmentInv ==
  ASSUME OrganisationInv, NEW h \in Calls, WriteDepartment(h)
  PROVE  OrganisationInv'
<1> DEFINE l == call[h]
           d == l.department
           manager == IF "manager" \in l.columns THEN l.manager ELSE department[d].manager
           kept == IF Standing(d) THEN manager ELSE None
           may == IF Standing(d) THEN Employable(manager)
                                 ELSE \A e \in l.adopted : ~Present(e)
<1>1. l \in Call /\ LocalsOK(l) /\ d \in Departments
  BY InFlight DEF WriteDepartment, LocalsOK, DepartmentOps
<1>2. manager \in Employees \cup {None}
  BY <1>1, ForeignKeys DEF LocalsOK, Call, Department
<1>3. IF may
        THEN /\ Regroup(l)
             /\ department' = [department EXCEPT ![d].manager = kept]
             /\ End(h) /\ Remember(h)
        ELSE Refuse(h)
  BY DEF WriteDepartment
<1> HIDE DEF manager
<1>4. CASE ~may
  BY <1>3, <1>4, RefuseInv
<1>5. CASE may
  <2>1. /\ Regroup(l) /\ department' = [department EXCEPT ![d].manager = kept]
        /\ End(h) /\ Remember(h)
    BY <1>3, <1>5
  <2>2. kept \in Employees \cup {None}
    BY <1>2
  <2>3. kept # None => Standing(d) /\ kept \in Employees /\ Present(kept)
    BY <1>2, <1>5 DEF Employable
  <2> HIDE DEF kept
  <2>4. /\ department' \in [Departments -> Department]
        /\ \A f \in Departments : /\ department'[f].row = department[f].row
                                  /\ f # d => department'[f].manager = department[f].manager
        /\ department'[d].manager = kept
    BY <1>1, <2>1, <2>2, ForeignKeys DEF Department
  <2>5. \A e \in Employees : employee'[e].department # None =>
          /\ employee'[e].row = "present"
          /\ department'[employee'[e].department].row = "present"
    <3>1. \A e \in Employees : employee[e].department \in Departments \cup {None}
      BY ForeignKeys DEF Employee
    <3>2. \A e \in Employees : e \in l.adopted /\ Present(e) => Standing(d)
      BY <1>5
    <3> QED
      BY <1>1, <2>1, <2>4, <3>1, <3>2, Regrouped, ForeignKeys DEF Present, Standing
  <2>6. \A f \in Departments : department'[f].manager # None =>
          /\ department'[f].row = "present"
          /\ employee'[department'[f].manager].row = "present"
    <3>1. \A f \in Departments : department[f].manager \in Employees \cup {None}
      BY ForeignKeys DEF Department
    <3> QED
      BY <1>1, <2>1, <2>3, <2>4, <3>1, Regrouped, ForeignKeys DEF Present, Standing
  <2>7. employee' \in [Employees -> Employee]
        /\ \A e \in Employees : employee'[e].row = employee[e].row
    BY <1>1, <2>1, Regrouped
  <2> QED
    BY <2>1, <2>4, <2>5, <2>6, <2>7, WriteStep
<1> QED
  BY <1>4, <1>5

LEMMA InsertDepartmentInv ==
  ASSUME OrganisationInv, NEW h \in Calls, InsertDepartment(h)
  PROVE  OrganisationInv'
<1> DEFINE l == call[h]
           d == l.department
           manager == IF l.manager = Undefined THEN None ELSE l.manager
           row == [row |-> "present", manager |-> manager]
<1>1. /\ l \in Call /\ LocalsOK(l) /\ d \in Departments /\ l.op \in {"open", "update"}
  BY InFlight DEF InsertDepartment, LocalsOK, DepartmentOps
<1>2. manager \in Employees \cup {None}
  BY <1>1 DEF Call
<1>3. IF ~Standing(d) /\ Employable(manager)
        THEN /\ department' = [department EXCEPT ![d] = row]
             /\ Regroup(l) /\ End(h) /\ Remember(h)
        ELSE Refuse(h)
  BY DEF InsertDepartment
<1> HIDE DEF manager
<1>4. CASE ~(~Standing(d) /\ Employable(manager))
  BY <1>3, <1>4, RefuseInv
<1>5. CASE ~Standing(d) /\ Employable(manager)
  <2>1. /\ department' = [department EXCEPT ![d] = row]
        /\ Regroup(l) /\ End(h) /\ Remember(h)
    BY <1>3, <1>5
  <2>2. row \in Department /\ row.row = "present" /\ row.manager = manager
    BY <1>2 DEF Department, RowState
  <2> HIDE DEF row
  <2>3. /\ department' \in [Departments -> Department]
        /\ department'[d] = row
        /\ \A f \in Departments \ {d} : department'[f] = department[f]
    BY <1>1, <2>1, <2>2, ForeignKeys
  <2>4. \A e \in Employees : employee'[e].department # None =>
          /\ employee'[e].row = "present"
          /\ department'[employee'[e].department].row = "present"
    <3>1. \A e \in Employees : employee[e].department \in Departments \cup {None}
      BY ForeignKeys DEF Employee
    <3> QED
      BY <1>1, <2>1, <2>2, <2>3, <3>1, Regrouped, ForeignKeys DEF Present
  <2>5. \A f \in Departments : department'[f].manager # None =>
          /\ department'[f].row = "present"
          /\ employee'[department'[f].manager].row = "present"
    <3>1. \A f \in Departments : department[f].manager \in Employees \cup {None}
      BY ForeignKeys DEF Department
    <3>2. manager # None => manager \in Employees /\ employee[manager].row = "present"
      BY <1>2, <1>5 DEF Employable, Present
    <3> QED
      BY <1>1, <2>1, <2>2, <2>3, <3>1, <3>2, Regrouped, ForeignKeys
  <2>6. \A f \in Departments :
          \/ department'[f].row = "fresh" <=> department[f].row = "fresh"
          \/ l.op = "open" /\ l.department = f /\ department'[f].row # "fresh"
    <3>1. CASE l.op = "open"
      BY <2>2, <2>3, <3>1
    <3>2. CASE l.op = "update"
      <4>1. department[d].row # "fresh"
        BY <3>2 DEF OrganisationInv, FreshOK
      <4> QED
        BY <2>2, <2>3, <4>1
    <3> QED
      BY <1>1, <3>1, <3>2
  <2>7. employee' \in [Employees -> Employee]
        /\ \A e \in Employees : employee'[e].row = employee[e].row
    BY <1>1, <2>1, Regrouped
  <2> QED
    BY <2>1, <2>3, <2>4, <2>5, <2>6, <2>7, WriteStep
<1> QED
  BY <1>4, <1>5

LEMMA RemoveDepartmentInv ==
  ASSUME OrganisationInv, NEW h \in Calls, RemoveDepartment(h)
  PROVE  OrganisationInv'
<1> DEFINE d == call[h].department
<1>1. d \in Departments /\ department[d].row # "fresh"
  BY InFlight DEF RemoveDepartment, LocalsOK, DepartmentOps, OrganisationInv, FreshOK
<1>2. /\ NoDepartment("removed") \in Department /\ NoDepartment("removed").row = "removed"
      /\ NoDepartment("removed").manager = None
  BY DEF NoDepartment, Department, RowState
<1>3. /\ department' \in [Departments -> Department]
      /\ department'[d] = NoDepartment("removed")
      /\ \A f \in Departments \ {d} : department'[f] = department[f]
  BY <1>1, <1>2, ForeignKeys DEF RemoveDepartment
<1>4. /\ employee' \in [Employees -> Employee]
      /\ \A e \in Employees :
           /\ employee'[e].row = employee[e].row
           /\ employee'[e].department =
                IF employee[e].department = d THEN None ELSE employee[e].department
  <2>1. employee' = [e \in Employees |->
          [employee[e] EXCEPT !.department = IF @ = d THEN None ELSE @]]
    BY DEF RemoveDepartment
  <2>2. \A e \in Employees : employee[e] \in Employee
    BY ForeignKeys
  <2> QED
    BY <2>1, <2>2 DEF Employee
<1>5. \A e \in Employees : employee'[e].department # None =>
        /\ employee'[e].row = "present"
        /\ department'[employee'[e].department].row = "present"
  <2>1. \A e \in Employees : employee[e].department \in Departments \cup {None}
    BY ForeignKeys DEF Employee
  <2> QED
    BY <1>1, <1>3, <1>4, <2>1, ForeignKeys
<1>6. \A f \in Departments : department'[f].manager # None =>
        /\ department'[f].row = "present"
        /\ employee'[department'[f].manager].row = "present"
  <2>1. \A f \in Departments : department[f].manager \in Employees \cup {None}
    BY ForeignKeys DEF Department
  <2> QED
    BY <1>1, <1>2, <1>3, <1>4, <2>1, ForeignKeys
<1>7. \A f \in Departments : department'[f].row = "fresh" <=> department[f].row = "fresh"
  BY <1>1, <1>2, <1>3
<1>8. End(h) /\ Remember(h)
  BY DEF RemoveDepartment
<1> QED
  BY <1>3, <1>4, <1>5, <1>6, <1>7, <1>8, WriteStep

-----------------------------------------------------------------------------
(* The invariant.                                                          *)

LEMMA StepInv ==
  ASSUME OrganisationInv, [OrganisationNext]_vars
  PROVE  OrganisationInv'
<1>1. CASE UNCHANGED vars
  BY <1>1 DEF vars, OrganisationInv, OrganisationTypeOK, FreshOK, EntityOK, UserEntityOK,
       DepartmentEntityOK, CheckOK, Unseen, Present, Standing
<1>2. ASSUME NEW h \in Calls, UserCalls(h)
      PROVE  OrganisationInv'
  BY <1>2, CreateUserInv, UserLoads DEF UserCalls, Making
<1>3. ASSUME NEW h \in Calls, DepartmentCalls(h)
      PROVE  OrganisationInv'
  BY <1>3, CreateDepartmentInv, DepartmentLoads DEF DepartmentCalls
<1>4. ASSUME NEW h \in Calls,
             FindDepartment(h) \/ CompareUser(h) \/ WriteUser(h) \/ InsertUser(h)
               \/ RemoveUser(h)
      PROVE  OrganisationInv'
  BY <1>4, FindDepartmentInv, CompareUserInv, WriteUserInv, InsertUserInv, RemoveUserInv
<1>5. ASSUME NEW h \in Calls,
             FindManager(h) \/ CompareDepartment(h) \/ WriteDepartment(h)
               \/ InsertDepartment(h) \/ RemoveDepartment(h)
      PROVE  OrganisationInv'
  BY <1>5, FindManagerInv, CompareDepartmentInv, WriteDepartmentInv, InsertDepartmentInv,
     RemoveDepartmentInv
<1>6. ASSUME NEW h \in Calls, NEW m \in Employees, NEW e \in Employees, Authenticate(h, m, e)
      PROVE  OrganisationInv'
  BY <1>6, AuthenticateInv
<1>7. ASSUME NEW h \in Calls, GetManagedDepartmentIds(h)
      PROVE  OrganisationInv'
  BY <1>7, GetManagedInv
<1>8. ASSUME NEW h \in Calls, ReadMember(h)
      PROVE  OrganisationInv'
  BY <1>8, RefuseInv DEF ReadMember
<1> QED
  BY <1>1, <1>2, <1>3, <1>4, <1>5, <1>6, <1>7, <1>8 DEF OrganisationNext

\* The invariant holds in every reachable state.
THEOREM OrganisationInvariant == OrganisationSpec => []OrganisationInv
<1>1. OrganisationInv /\ [OrganisationNext]_vars => OrganisationInv'
  BY StepInv
<1> QED
  BY <1>1, InitInv, PTL DEF OrganisationSpec

\* Every row and local is of its type, and no foreign key dangles: whoever is
\* removed while an edit is in flight, no department keeps a manager and no
\* employee a department that is not there.
THEOREM OrganisationTypeCorrect == OrganisationSpec => []OrganisationTypeOK
<1>1. OrganisationInv => OrganisationTypeOK
  BY DEF OrganisationInv
<1> QED
  BY <1>1, OrganisationInvariant, PTL

\* The two reads of isEmployeeInManagedDepartments answer as one would now,
\* unless the employee's department changed hands between them.
THEOREM TeamChecksAnswerForNow == OrganisationSpec => []TeamCheckAnswersForNow
<1>1. OrganisationInv => TeamCheckAnswersForNow
  <2> SUFFICES ASSUME OrganisationInv, NEW h \in Calls,
                      call[h].op = "check", call[h].pc = "ready"
               PROVE  LET d == employee[call[h].employee].department IN
                        \/ Granted(h) <=> d # None /\ department[d].manager = call[h].manager
                        \/ <<d, "manager">> \in missed[h]
    BY DEF TeamCheckAnswersForNow
  <2> DEFINE d == employee[call[h].employee].department
  <2>1. /\ call[h] \in Call /\ call[h].employee \in Employees
        /\ \A f \in Departments :
             (f \in call[h].managed <=> department[f].manager = call[h].manager)
               \/ <<f, "manager">> \in missed[h]
    BY InFlight DEF LocalsOK, EntityOK, CheckOK
  <2>2. d \in Departments \cup {None} /\ None \notin Departments
    BY <2>1, ForeignKeys, OrganisationAssumption DEF Employee
  <2>3. call[h].managed \subseteq Departments
    BY <2>1 DEF Call
  <2> QED
    BY <2>1, <2>2, <2>3 DEF Granted
<1> QED
  BY <1>1, OrganisationInvariant, PTL

-----------------------------------------------------------------------------
(* What a save may change.                                                 *)

\* What a step changes lies within S where every cell outside S keeps its value.
LEMMA ChangedWithin ==
  ASSUME NEW S,
         \A e \in Employees :
           /\ employee'[e].row = employee[e].row \/ <<e, "row">> \in S
           /\ employee'[e].role = employee[e].role \/ <<e, "role">> \in S
           /\ employee'[e].status = employee[e].status \/ <<e, "status">> \in S
           /\ employee'[e].department = employee[e].department \/ <<e, "department">> \in S,
         \A d \in Departments :
           /\ department'[d].row = department[d].row \/ <<d, "row">> \in S
           /\ department'[d].manager = department[d].manager \/ <<d, "manager">> \in S
  PROVE  Changed \subseteq S
<1> SUFFICES ASSUME NEW cell \in Changed PROVE cell \in S
  OBVIOUS
<1>1. CASE cell \in Employees \X {"row", "role", "status", "department"}
  <2>1. PICK e \in Employees, c \in {"row", "role", "status", "department"} : cell = <<e, c>>
    BY <1>1
  <2>2. e \in Departments \/ employee[e][c] # employee'[e][c]
    BY <2>1 DEF Changed
  <2>3. e \notin Departments
    BY OrganisationAssumption
  <2> QED
    BY <2>1, <2>2, <2>3
<1>2. CASE cell \in Departments \X {"row", "manager"}
  <2>1. PICK d \in Departments, c \in {"row", "manager"} : cell = <<d, c>>
    BY <1>2
  <2>2. d \in Employees \/ department[d][c] # department'[d][c]
    BY <2>1 DEF Changed
  <2>3. d \notin Employees
    BY OrganisationAssumption
  <2> QED
    BY <2>1, <2>2, <2>3
<1> QED
  BY <1>1, <1>2 DEF Changed

\* A step moves the locals of one handler.
LEMMA OneHandler ==
  ASSUME NEW g \in Calls, NEW h \in Calls, g # h,
         \/ UserCalls(g)
         \/ FindDepartment(g) \/ CompareUser(g) \/ WriteUser(g) \/ InsertUser(g)
         \/ RemoveUser(g)
         \/ DepartmentCalls(g)
         \/ FindManager(g) \/ CompareDepartment(g) \/ WriteDepartment(g)
         \/ InsertDepartment(g) \/ RemoveDepartment(g)
         \/ \E m, e \in Employees : Authenticate(g, m, e)
         \/ GetManagedDepartmentIds(g)
         \/ ReadMember(g),
         OrganisationInv
  PROVE  call'[h] = call[h]
<1> USE DEF Start, Goes, End, Refuse, OrganisationInv, OrganisationTypeOK
<1>1. CASE UserCalls(g)
  BY <1>1 DEF UserCalls, CreateUser, UpdateRole, UpdateStatus, ResetPassword, EditUser, UpdateUser,
       LoadLeaver
<1>2. CASE DepartmentCalls(g)
  BY <1>2 DEF DepartmentCalls, CreateDepartment, UpdateManager, Rename, LoadClosing
<1>3. CASE FindDepartment(g) \/ CompareUser(g) \/ WriteUser(g) \/ InsertUser(g) \/ RemoveUser(g)
  BY <1>3 DEF FindDepartment, CompareUser, WriteUser, InsertUser, RemoveUser
<1>4. CASE FindManager(g) \/ CompareDepartment(g) \/ WriteDepartment(g)
             \/ InsertDepartment(g) \/ RemoveDepartment(g)
  BY <1>4 DEF FindManager, CompareDepartment, WriteDepartment, InsertDepartment,
       RemoveDepartment
<1>5. CASE (\E m, e \in Employees : Authenticate(g, m, e)) \/ GetManagedDepartmentIds(g)
             \/ ReadMember(g)
  BY <1>5 DEF Authenticate, GetManagedDepartmentIds, ReadMember
<1> QED
  BY <1>1, <1>2, <1>3, <1>4, <1>5

\* An update ends by one of the four writes of its own.
LEMMA EndsByWriting ==
  ASSUME OrganisationInv, OrganisationNext, NEW h \in Calls,
         call[h].op \in Updates, call[h].pc \in {"writing", "inserting"},
         call'[h].pc = "idle"
  PROVE  \/ call[h].op \in UserUpdates /\ (WriteUser(h) \/ InsertUser(h))
         \/ call[h].op = "update" /\ (WriteDepartment(h) \/ InsertDepartment(h))
<1>1. call'[h] # call[h]
  OBVIOUS
<1>2. \/ UserCalls(h)
      \/ FindDepartment(h) \/ CompareUser(h) \/ WriteUser(h) \/ InsertUser(h)
      \/ RemoveUser(h)
      \/ DepartmentCalls(h)
      \/ FindManager(h) \/ CompareDepartment(h) \/ WriteDepartment(h)
      \/ InsertDepartment(h) \/ RemoveDepartment(h)
      \/ \E m, e \in Employees : Authenticate(h, m, e)
      \/ GetManagedDepartmentIds(h)
      \/ ReadMember(h)
  BY <1>1, OneHandler DEF OrganisationNext
<1>3. ~UserCalls(h)
  BY DEF UserCalls, CreateUser, UpdateRole, UpdateStatus, ResetPassword, EditUser, UpdateUser,
     LoadLeaver, Start
<1>4. ~DepartmentCalls(h)
  BY DEF DepartmentCalls, CreateDepartment, UpdateManager, Rename, LoadClosing, Start
<1>5. /\ ~FindDepartment(h) /\ ~CompareUser(h) /\ ~RemoveUser(h)
      /\ ~FindManager(h) /\ ~CompareDepartment(h) /\ ~RemoveDepartment(h)
      /\ ~GetManagedDepartmentIds(h) /\ ~ReadMember(h)
  BY DEF FindDepartment, CompareUser, RemoveUser, FindManager, CompareDepartment,
     RemoveDepartment, GetManagedDepartmentIds, ReadMember, Updates
<1>6. ~\E m, e \in Employees : Authenticate(h, m, e)
  BY DEF Authenticate, Start
<1> QED
  BY <1>2, <1>3, <1>4, <1>5, <1>6
     DEF WriteUser, InsertUser, WriteDepartment, InsertDepartment, Updates, UserUpdates

\* A handler that ends without writing has changed nothing.
LEMMA RefusalChangesNothing ==
  ASSUME NEW h \in Calls, Refuse(h)
  PROVE  Changed = {}
  BY DEF Refuse, Changed

LEMMA WriteUserChanges ==
  ASSUME OrganisationInv, NEW h \in Calls, WriteUser(h)
  PROVE  Changed \subseteq Unseen(h)
<1> DEFINE k == call[h]
           e == k.employee
           role == IF "role" \in k.columns THEN k.role ELSE employee[e].role
           status == IF "status" \in k.columns THEN k.status ELSE employee[e].status
           dep == IF "department" \in k.columns THEN k.belongs ELSE employee[e].department
           row == [employee[e] EXCEPT !.role = role, !.status = status, !.department = dep]
<1>1. /\ k \in Call /\ LocalsOK(k) /\ e \in Employees /\ employee[e] \in Employee
      /\ \A c \in k.columns : <<e, c>> \in Unseen(h)
  BY InFlight, ForeignKeys DEF WriteUser, LocalsOK, EntityOK, UserEntityOK, UserOps, UserUpdates
<1>2. Refuse(h) \/ (employee' = [employee EXCEPT ![e] = row] /\ UNCHANGED department)
  BY DEF WriteUser
<1> HIDE DEF role, status, dep
<1>3. CASE Refuse(h)
  BY <1>3, RefusalChangesNothing
<1>4. CASE employee' = [employee EXCEPT ![e] = row] /\ UNCHANGED department
  <2>1. /\ row.row = employee[e].row /\ row.role = role /\ row.status = status
        /\ row.department = dep
    BY <1>1 DEF Employee
  <2> HIDE DEF row
  <2>2. employee'[e] = row /\ (\A f \in Employees \ {e} : employee'[f] = employee[f])
    BY <1>1, <1>4, ForeignKeys
  <2>3. /\ role = employee[e].role \/ <<e, "role">> \in Unseen(h)
        /\ status = employee[e].status \/ <<e, "status">> \in Unseen(h)
        /\ dep = employee[e].department \/ <<e, "department">> \in Unseen(h)
    BY <1>1 DEF role, status, dep
  <2> QED
    BY <1>1, <1>4, <2>1, <2>2, <2>3, ChangedWithin
<1> QED
  BY <1>2, <1>3, <1>4

LEMMA InsertUserChanges ==
  ASSUME OrganisationInv, NEW h \in Calls, call[h].op \in UserUpdates, InsertUser(h)
  PROVE  Changed \subseteq Unseen(h)
<1> DEFINE k == call[h]
           e == k.employee
           row == [row |-> "present", role |-> k.role, status |-> k.status,
                   department |-> k.belongs]
<1>1. /\ k.op = "reset" /\ k.pc = "inserting" /\ e \in Employees /\ k.belongs # Undefined
      /\ Present(e) \/ <<e, "row">> \in missed[h]
      /\ k.role = employee[e].role \/ <<e, "role">> \in Unseen(h)
      /\ k.status = employee[e].status \/ <<e, "status">> \in Unseen(h)
      /\ k.belongs = employee[e].department \/ <<e, "department">> \in Unseen(h)
  BY InFlight DEF InsertUser, LocalsOK, EntityOK, UserEntityOK, UserOps, UserUpdates
<1>2. \/ Refuse(h)
      \/ ~Present(e) /\ employee' = [employee EXCEPT ![e] = row] /\ UNCHANGED department
  BY DEF InsertUser
<1>3. CASE Refuse(h)
  BY <1>3, RefusalChangesNothing
<1>4. CASE ~Present(e) /\ employee' = [employee EXCEPT ![e] = row] /\ UNCHANGED department
  <2>1. employee'[e] = row /\ (\A f \in Employees \ {e} : employee'[f] = employee[f])
    BY <1>1, <1>4, ForeignKeys
  <2>2. <<e, "row">> \in Unseen(h)
    BY <1>1, <1>4 DEF Unseen
  <2>3. row.role = k.role /\ row.status = k.status /\ row.department = k.belongs
    OBVIOUS
  <2> HIDE DEF row
  <2> QED
    BY <1>1, <1>4, <2>1, <2>2, <2>3, ChangedWithin
<1> QED
  BY <1>2, <1>3, <1>4

\* Only the members that the save moves change department, and the handler has
\* missed how they got where they are.
LEMMA RegroupChanges ==
  ASSUME OrganisationInv, NEW h \in Calls, call[h].op = "update",
         call[h].pc \in {"writing", "inserting"}, Regroup(call[h])
  PROVE  \A e \in Employees :
           /\ employee'[e].row = employee[e].row
           /\ employee'[e].role = employee[e].role
           /\ employee'[e].status = employee[e].status
           /\ employee'[e].department = employee[e].department
                \/ <<e, "department">> \in Unseen(h)
<1>1. /\ call[h] \in Call /\ call[h].department \in Departments
      /\ \A e \in call[h].adopted \cup call[h].expelled : <<e, "department">> \in Unseen(h)
  BY InFlight DEF LocalsOK, EntityOK, DepartmentEntityOK, DepartmentOps, Unseen
<1> QED
  BY <1>1, Regrouped

LEMMA WriteDepartmentChanges ==
  ASSUME OrganisationInv, NEW h \in Calls, WriteDepartment(h)
  PROVE  Changed \subseteq Unseen(h)
<1> DEFINE l == call[h]
           d == l.department
           manager == IF "manager" \in l.columns THEN l.manager ELSE department[d].manager
           kept == IF Standing(d) THEN manager ELSE None
<1>1. /\ l.op = "update" /\ l.pc = "writing" /\ l \in Call /\ d \in Departments
      /\ department[d] \in Department
      /\ "manager" \in l.columns => <<d, "manager">> \in Unseen(h)
  BY InFlight, ForeignKeys
     DEF WriteDepartment, LocalsOK, EntityOK, DepartmentEntityOK, DepartmentOps
<1>2. \/ Refuse(h)
      \/ Regroup(l) /\ department' = [department EXCEPT ![d].manager = kept]
  BY DEF WriteDepartment
<1>3. CASE Refuse(h)
  BY <1>3, RefusalChangesNothing
<1>4. CASE Regroup(l) /\ department' = [department EXCEPT ![d].manager = kept]
  <2>1. kept = department[d].manager \/ <<d, "manager">> \in Unseen(h)
    <3>1. ~Standing(d) => department[d].manager = None
      BY <1>1, ForeignKeys DEF Standing, Department
    <3> QED
      BY <1>1, <3>1
  <2> HIDE DEF kept
  <2>2. \A f \in Departments :
          /\ department'[f].row = department[f].row
          /\ department'[f].manager = department[f].manager \/ <<f, "manager">> \in Unseen(h)
    BY <1>1, <1>4, <2>1, ForeignKeys DEF Department
  <2> QED
    BY <1>1, <1>4, <2>2, RegroupChanges, ChangedWithin
<1> QED
  BY <1>2, <1>3, <1>4

LEMMA InsertDepartmentChanges ==
  ASSUME OrganisationInv, NEW h \in Calls, call[h].op = "update", InsertDepartment(h)
  PROVE  Changed \subseteq Unseen(h)
<1> DEFINE l == call[h]
           d == l.department
           manager == IF l.manager = Undefined THEN None ELSE l.manager
           row == [row |-> "present", manager |-> manager]
<1>1. /\ l.pc = "inserting" /\ l \in Call /\ d \in Departments
      /\ Standing(d) \/ <<d, "row">> \in missed[h]
      /\ l.manager \in {Undefined, department[d].manager} \/ <<d, "manager">> \in Unseen(h)
  BY InFlight DEF InsertDepartment, LocalsOK, EntityOK, DepartmentEntityOK, DepartmentOps
<1>2. \/ Refuse(h)
      \/ ~Standing(d) /\ Regroup(l) /\ department' = [department EXCEPT ![d] = row]
  BY DEF InsertDepartment
<1>3. CASE Refuse(h)
  BY <1>3, RefusalChangesNothing
<1>4. CASE ~Standing(d) /\ Regroup(l) /\ department' = [department EXCEPT ![d] = row]
  <2>1. manager = department[d].manager \/ <<d, "manager">> \in Unseen(h)
    <3>1. department[d].manager = None
      BY <1>1, <1>4, ForeignKeys DEF Standing, Department
    <3> QED
      BY <1>1, <3>1
  <2>2. <<d, "row">> \in Unseen(h)
    BY <1>1, <1>4 DEF Unseen
  <2>3. row.manager = manager
    OBVIOUS
  <2> HIDE DEF row, manager
  <2>4. department'[d] = row /\ (\A f \in Departments \ {d} : department'[f] = department[f])
    BY <1>1, <1>4, ForeignKeys
  <2> QED
    BY <1>1, <1>4, <2>1, <2>2, <2>3, <2>4, RegroupChanges, ChangedWithin
<1> QED
  BY <1>2, <1>3, <1>4

\* An update changes the cell its request names, and beyond it only cells that
\* another call changed after it had loaded its row, whatever overlaps.
THEOREM SavesUndoNoMore == OrganisationSpec => SavesUndoOnlyWhatTheyMissed
<1> DEFINE Undo == \A h \in Calls :
             /\ call[h].op \in Updates
             /\ call[h].pc \in {"writing", "inserting"} /\ call'[h].pc = "idle"
             => Changed \subseteq Meant(call[h]) \cup missed[h]
<1>1. OrganisationInv /\ [OrganisationNext]_vars => [Undo]_vars
  <2> SUFFICES ASSUME OrganisationInv, OrganisationNext, NEW h \in Calls,
                      call[h].op \in Updates, call[h].pc \in {"writing", "inserting"},
                      call'[h].pc = "idle"
               PROVE  Changed \subseteq Unseen(h)
    BY DEF Unseen
  <2> QED
    BY EndsByWriting, WriteUserChanges, InsertUserChanges, WriteDepartmentChanges,
       InsertDepartmentChanges
<1> QED
  BY <1>1, OrganisationInvariant, PTL DEF OrganisationSpec, SavesUndoOnlyWhatTheyMissed

-----------------------------------------------------------------------------
(* What a removed row comes back by.                                       *)

\* Only the two inserts make a row present that is not, and each its own.
LEMMA RowsAppear ==
  ASSUME OrganisationInv, NEW h \in Calls,
         \/ UserCalls(h)
         \/ FindDepartment(h) \/ CompareUser(h) \/ WriteUser(h) \/ InsertUser(h)
         \/ RemoveUser(h)
         \/ DepartmentCalls(h)
         \/ FindManager(h) \/ CompareDepartment(h) \/ WriteDepartment(h)
         \/ InsertDepartment(h) \/ RemoveDepartment(h)
         \/ \E m, e \in Employees : Authenticate(h, m, e)
         \/ GetManagedDepartmentIds(h)
         \/ ReadMember(h)
  PROVE  /\ \A e \in Employees : ~Present(e) /\ employee'[e].row = "present" =>
              InsertUser(h) /\ call[h].employee = e
         /\ \A d \in Departments : ~Standing(d) /\ department'[d].row = "present" =>
              InsertDepartment(h) /\ call[h].department = d
<1> USE DEF Present, Standing
<1>1. CASE UserCalls(h)
  BY <1>1 DEF UserCalls, CreateUser, UpdateRole, UpdateStatus, ResetPassword, EditUser, UpdateUser,
       LoadLeaver, Start
<1>2. CASE DepartmentCalls(h)
  BY <1>2 DEF DepartmentCalls, CreateDepartment, UpdateManager, Rename, LoadClosing, Start
<1>3. CASE FindDepartment(h) \/ CompareUser(h) \/ FindManager(h) \/ CompareDepartment(h)
             \/ GetManagedDepartmentIds(h) \/ ReadMember(h)
             \/ (\E m, e \in Employees : Authenticate(h, m, e))
  BY <1>3 DEF FindDepartment, CompareUser, FindManager, CompareDepartment,
       GetManagedDepartmentIds, ReadMember, Authenticate, Start, Goes, Refuse
<1>4. CASE WriteUser(h)
  <2>1. \/ UNCHANGED <<employee, department>>
        \/ /\ UNCHANGED department /\ Present(call[h].employee)
           /\ \E row : employee' = [employee EXCEPT ![call[h].employee] = row]
    BY <1>4 DEF WriteUser, Refuse
  <2> QED
    BY <2>1, ForeignKeys
<1>5. CASE InsertUser(h)
  <2>1. \/ UNCHANGED <<employee, department>>
        \/ /\ UNCHANGED department
           /\ \E row : employee' = [employee EXCEPT ![call[h].employee] = row]
    BY <1>5 DEF InsertUser, Refuse
  <2> QED
    BY <1>5, <2>1, ForeignKeys
<1>6. CASE RemoveUser(h)
  <2>1. /\ employee' = [employee EXCEPT ![call[h].employee] = NoRow("removed")]
        /\ \A d \in Departments : \E m : department'[d] = [department[d] EXCEPT !.manager = m]
    BY <1>6 DEF RemoveUser
  <2>2. \A d \in Departments : department'[d].row = department[d].row
    BY <2>1, ForeignKeys DEF Department
  <2>3. NoRow("removed").row = "removed"
    BY DEF NoRow
  <2> QED
    BY <2>1, <2>2, <2>3, ForeignKeys
<1>7. ASSUME WriteDepartment(h) \/ InsertDepartment(h)
      PROVE  \A e \in Employees : employee'[e].row = employee[e].row
  <2>1. call[h] \in Call /\ call[h].department \in Departments
    BY <1>7, InFlight DEF WriteDepartment, InsertDepartment, LocalsOK, DepartmentOps
  <2>2. employee' = employee \/ Regroup(call[h])
    BY <1>7 DEF WriteDepartment, InsertDepartment, Refuse
  <2> QED
    BY <2>1, <2>2, Regrouped
<1>8. CASE WriteDepartment(h)
  <2>1. PICK m : \/ department' = department
                 \/ department' = [department EXCEPT ![call[h].department].manager = m]
    BY <1>8 DEF WriteDepartment, Refuse
  <2>2. /\ \A d \in Departments : department[d] \in Department
        /\ department \in [Departments -> Department]
        /\ call[h].department \in Departments
    BY <1>8, ForeignKeys, InFlight DEF WriteDepartment, LocalsOK, DepartmentOps
  <2>3. \A d \in Departments : department'[d].row = department[d].row
    BY <2>1, <2>2 DEF Department
  <2> QED
    BY <1>7, <1>8, <2>3
<1>9. CASE InsertDepartment(h)
  <2>1. \/ department' = department
        \/ \E row : department' = [department EXCEPT ![call[h].department] = row]
    BY <1>9 DEF InsertDepartment, Refuse
  <2> QED
    BY <1>7, <1>9, <2>1, ForeignKeys
<1>10. CASE RemoveDepartment(h)
  <2>1. /\ department' = [department EXCEPT ![call[h].department] = NoDepartment("removed")]
        /\ \A e \in Employees : \E d : employee'[e] = [employee[e] EXCEPT !.department = d]
    BY <1>10 DEF RemoveDepartment
  <2>2. \A e \in Employees : employee'[e].row = employee[e].row
    BY <2>1, ForeignKeys DEF Employee
  <2>3. NoDepartment("removed").row = "removed"
    BY DEF NoDepartment
  <2> QED
    BY <2>1, <2>2, <2>3, ForeignKeys
<1> QED
  BY <1>1, <1>2, <1>3, <1>4, <1>5, <1>6, <1>8, <1>9, <1>10

\* A removed account comes back only by a password reset that had loaded it
\* before, a removed department only by such an update.
THEOREM RemovedStaysRemovedButForSaves == OrganisationSpec => RemovedReturnsOnlyBySave
<1> DEFINE Returns ==
      /\ \A e \in Employees : employee[e].row = "removed" /\ employee'[e].row = "present" =>
           \E h \in Calls : /\ call[h].op = "reset" /\ call[h].employee = e
                            /\ <<e, "row">> \in missed[h]
      /\ \A d \in Departments : department[d].row = "removed" /\ department'[d].row = "present" =>
           \E h \in Calls : /\ call[h].op = "update" /\ call[h].department = d
                            /\ <<d, "row">> \in missed[h]
<1>1. OrganisationInv /\ [OrganisationNext]_vars => [Returns]_vars
  <2> SUFFICES ASSUME OrganisationInv, OrganisationNext
               PROVE  Returns
    OBVIOUS
  <2>1. PICK h \in Calls :
          /\ \A e \in Employees : ~Present(e) /\ employee'[e].row = "present" =>
               InsertUser(h) /\ call[h].employee = e
          /\ \A d \in Departments : ~Standing(d) /\ department'[d].row = "present" =>
               InsertDepartment(h) /\ call[h].department = d
    BY RowsAppear DEF OrganisationNext
  <2>2. ASSUME NEW e \in Employees, employee[e].row = "removed", employee'[e].row = "present"
        PROVE  /\ call[h].op = "reset" /\ call[h].employee = e
               /\ <<e, "row">> \in missed[h]
    <3>1. InsertUser(h) /\ call[h].employee = e
      BY <2>1, <2>2 DEF Present
    <3>2. call[h].op = "reset"
      BY <2>2, <3>1 DEF InsertUser, OrganisationInv, FreshOK, Making
    <3> QED
      BY <2>2, <3>1, <3>2, InFlight DEF EntityOK, UserEntityOK, UserUpdates, Present
  <2>3. ASSUME NEW d \in Departments, department[d].row = "removed",
               department'[d].row = "present"
        PROVE  /\ call[h].op = "update" /\ call[h].department = d
               /\ <<d, "row">> \in missed[h]
    <3>1. InsertDepartment(h) /\ call[h].department = d
      BY <2>1, <2>3 DEF Standing
    <3>2. call[h].op = "update"
      BY <2>3, <3>1 DEF InsertDepartment, OrganisationInv, FreshOK
    <3> QED
      BY <2>3, <3>1, <3>2, InFlight DEF EntityOK, DepartmentEntityOK, Standing
  <2> QED
    BY <2>2, <2>3
<1> QED
  BY <1>1, OrganisationInvariant, PTL DEF OrganisationSpec, RemovedReturnsOnlyBySave
=============================================================================
