------------------------------ MODULE Sessions ------------------------------
(***************************************************************************)
(* Who is logged in: AuthService and RefreshTokenService (login, refresh,  *)
(* logout) against the account operations of AdminService that end         *)
(* sessions, over the tables employees and refresh_tokens.                 *)
(*                                                                         *)
(* No handler opens a transaction; each await that reaches the database is *)
(* a step of its own.  `flow' holds the locals of the handlers in flight,  *)
(* one slot each, with `pc' the last await it has passed.  AdminService    *)
(* loads an account, changes it and saves it: save() reloads the row, then *)
(* UPDATEs the columns in which the loaded entity differs, so a column     *)
(* somebody else changed meanwhile is put back.  The password is not among *)
(* the columns a load selects, and is written only when it is set.         *)
(*                                                                         *)
(* Hashing is abstracted: a password stands for its hash, a token for the  *)
(* string and for the row with the hash of it.  Access tokens are not      *)
(* state: each request reads the account again.                            *)
(***************************************************************************)
EXTENDS FiniteSets, Naturals

CONSTANTS
  Users,      \* ids of employees
  Tokens,     \* ids of refresh_tokens
  Passwords,
  Flows,      \* slots for handlers in flight
  Crashes,    \* TRUE when a handler may be cut off
  None        \* SQL NULL

ASSUME SessionAssumption ==
  /\ Crashes \in BOOLEAN
  /\ None \notin Users \cup Tokens \cup Passwords

VARIABLES
  employee,  \* employees
  token,     \* refresh_tokens
  flow

sessionVars == <<employee, token, flow>>

AccountStatus == {"active", "inactive"}

Employee == [status   : AccountStatus \cup {"absent"},
             password : Passwords \cup {None}]

\* Two columns are not in the table: the password the session began with, and
\* the token it was refreshed from.
RefreshToken == [status   : {"absent", "live", "expired", "revoked"},
                 owner    : Users \cup {None},
                 password : Passwords \cup {None},
                 parent   : Tokens \cup {None}]

Flow == [op       : {"none", "login", "refresh", "refuse", "logout", "edit",
                     "status", "reset"},
         pc       : {"idle", "issuing", "revoking", "found", "loaded",
                     "compared", "missing", "saved"},
         user     : Users \cup {None},
         token    : Tokens \cup {None},
         status   : AccountStatus \cup {"absent"},  \* of the loaded account
         password : Passwords \cup {None},          \* read, or to be set
         dirty    : BOOLEAN]                        \* save() writes the status

NoEmployee == [status |-> "absent", password |-> None]

NoToken == [status |-> "absent", owner |-> None, password |-> None,
            parent |-> None]

NoFlow == [op |-> "none", pc |-> "idle", user |-> None, token |-> None,
           status |-> "absent", password |-> None, dirty |-> FALSE]

SessionsInit ==
  /\ employee \in [Users -> {NoEmployee}
       \cup [status : {"active"}, password : Passwords]]
  /\ token = [t \in Tokens |-> NoToken]
  /\ flow = [f \in Flows |-> NoFlow]

-----------------------------------------------------------------------------

Idle(f) == flow[f].pc = "idle"

Begin(f, locals) == Idle(f) /\ flow' = [flow EXCEPT ![f] = locals]

\* The handler ends: with its answer, or with an exception.
End(f) == flow' = [flow EXCEPT ![f] = NoFlow]

\* A deleted row keeps its other columns, for its id is not given again.
FreeUsers == {u \in Users : employee[u] = NoEmployee}
FreeTokens == {t \in Tokens : token[t] = NoToken}

TokensOf(u) == {t \in Tokens : token[t].owner = u}

-----------------------------------------------------------------------------
(* AuthService and RefreshTokenService.                                    *)

\* authenticateCredentials: the account and its password are read together;
\* comparing them takes a while.
Login(f, u, password) ==
  /\ employee[u].status = "active"
  /\ employee[u].password = password
  /\ Begin(f, [NoFlow EXCEPT !.op = "login", !.pc = "issuing", !.user = u,
                             !.password = password])
  /\ UNCHANGED <<employee, token>>

\* Variant for mutation: the account's status is not looked at.
RefreshAnyway(f, t) ==
  /\ token[t].status = "live"
  /\ Begin(f, [NoFlow EXCEPT !.op = "refresh", !.pc = "revoking",
                 !.user = token[t].owner, !.token = t,
                 !.password = token[t].password])
  /\ UNCHANGED <<employee, token>>

\* validateToken, which joins the account.
Refresh(f, t) ==
  LET u == token[t].owner
  IN /\ token[t].status = "live"
     /\ Begin(f, [NoFlow EXCEPT
          !.op = IF employee[u].status = "active" THEN "refresh" ELSE "refuse",
          !.pc = "revoking", !.user = u, !.token = t,
          !.password = token[t].password])
     /\ UNCHANGED <<employee, token>>

Logout(f, t) ==
  /\ token[t].status # "absent"
  /\ Begin(f, [NoFlow EXCEPT !.op = "logout", !.pc = "revoking", !.token = t])
  /\ UNCHANGED <<employee, token>>

\* What follows revokeToken.
TokenRevoked(f) ==
  IF flow[f].op = "refresh"
  THEN flow' = [flow EXCEPT ![f].pc = "issuing"]
  ELSE End(f)

\* Variant for mutation: only expired tokens are revoked.
FindExpiredToken(f) ==
  /\ flow[f].pc = "revoking"
  /\ IF token[flow[f].token].status = "expired"
     THEN flow' = [flow EXCEPT ![f].pc = "found"]
     ELSE TokenRevoked(f)
  /\ UNCHANGED <<employee, token>>

\* revokeToken's query; a token already revoked is not an error.
FindToken(f) ==
  /\ flow[f].pc = "revoking"
  /\ IF token[flow[f].token].status \in {"live", "expired"}
     THEN flow' = [flow EXCEPT ![f].pc = "found"]
     ELSE TokenRevoked(f)
  /\ UNCHANGED <<employee, token>>

\* revokeToken's save, which fails once the row is gone.
RevokeToken(f) ==
  LET t == flow[f].token
  IN /\ flow[f].pc = "found"
     /\ IF token[t].status = "absent"
        THEN End(f) /\ UNCHANGED token
        ELSE /\ token' = [token EXCEPT ![t].status = "revoked"]
             /\ TokenRevoked(f)
     /\ UNCHANGED employee

\* issueForEmployee; a foreign key guards the INSERT.
Issue(f, t) ==
  LET u == flow[f].user
  IN /\ flow[f].pc = "issuing"
     /\ t \in FreeTokens
     /\ token' = IF employee[u].status = "absent" THEN token ELSE
          [token EXCEPT ![t] =
            [status |-> "live", owner |-> u, password |-> flow[f].password,
             parent |-> flow[f].token]]
     /\ End(f)
     /\ UNCHANGED employee

-----------------------------------------------------------------------------
(* AdminService, and register.                                             *)

\* register makes an active account, createUser one of either status.
CreateUser(u, status, password) ==
  /\ u \in FreeUsers
  /\ employee' = [employee EXCEPT ![u] =
       [status |-> status, password |-> password]]
  /\ UNCHANGED <<token, flow>>

LoadUser(f, op, u, status, password) ==
  /\ employee[u].status # "absent"
  /\ Begin(f, [NoFlow EXCEPT !.op = op, !.pc = "loaded", !.user = u,
                             !.status = status, !.password = password])
  /\ UNCHANGED <<employee, token>>

\* Variant for mutation: an update without a status falls back to active.
UpdateToActive(f, u) == LoadUser(f, "edit", u, "active", None)

\* updateUser and updateRole change columns that are not modelled.
UpdateUser(f, u) == LoadUser(f, "edit", u, employee[u].status, None)

UpdateStatus(f, u, status) == LoadUser(f, "status", u, status, None)

ResetPassword(f, u, password) ==
  LoadUser(f, "reset", u, employee[u].status, password)

\* save(user), first half.  A deleted account would be INSERTed again, which
\* fails unless the entity has a password.
CompareUser(f) ==
  LET u == flow[f].user
  IN /\ flow[f].pc = "loaded"
     /\ \/ /\ employee[u].status # "absent"
           /\ flow' = [flow EXCEPT ![f].pc = "compared",
                ![f].dirty = flow[f].status # employee[u].status]
        \/ /\ employee[u].status = "absent" /\ flow[f].op = "reset"
           /\ flow' = [flow EXCEPT ![f].pc = "missing"]
        \/ employee[u].status = "absent" /\ flow[f].op # "reset" /\ End(f)
     /\ UNCHANGED <<employee, token>>

\* Variants for mutation: only a reset, or only a deactivation, revokes.
ResetRevokes(f) ==
  IF flow[f].op = "reset" THEN flow' = [flow EXCEPT ![f].pc = "saved"]
                          ELSE End(f)

DeactivationRevokes(f) ==
  IF flow[f].op = "status" /\ flow[f].status = "inactive"
  THEN flow' = [flow EXCEPT ![f].pc = "saved"]
  ELSE End(f)

\* A deactivation or a password reset goes on to revoke sessions.
UserSaved(f) ==
  IF flow[f].op = "reset" \/ (flow[f].op = "status"
                                /\ flow[f].status = "inactive")
  THEN flow' = [flow EXCEPT ![f].pc = "saved"]
  ELSE End(f)

\* save(user), second half; the UPDATE of a deleted row changes nothing.
WriteUser(f) ==
  LET u == flow[f].user
  IN /\ flow[f].pc = "compared"
     /\ employee' = IF employee[u].status = "absent" THEN employee ELSE
          [employee EXCEPT
             ![u].status = IF flow[f].dirty THEN flow[f].status ELSE @,
             ![u].password = IF flow[f].op = "reset" THEN flow[f].password
                                                      ELSE @]
     /\ UserSaved(f)
     /\ UNCHANGED token

InsertUser(f) ==
  LET u == flow[f].user
  IN /\ flow[f].pc = "missing"
     /\ IF employee[u].status = "absent"
        THEN /\ employee' = [employee EXCEPT ![u] =
                  [status |-> flow[f].status, password |-> flow[f].password]]
             /\ UserSaved(f)
        ELSE End(f) /\ UNCHANGED employee
     /\ UNCHANGED token

\* revokeAllForEmployee: one UPDATE.
RevokeAll(f) ==
  /\ flow[f].pc = "saved"
  /\ token' = [t \in Tokens |->
       IF t \in TokensOf(flow[f].user)
            /\ token[t].status \in {"live", "expired"}
       THEN [token[t] EXCEPT !.status = "revoked"]
       ELSE token[t]]
  /\ End(f)
  /\ UNCHANGED employee

\* removeUser: the refresh tokens go with the account.
RemoveUser(u) ==
  /\ employee[u].status # "absent"
  /\ employee' = [employee EXCEPT ![u].status = "absent"]
  /\ token' = [t \in Tokens |->
       IF t \in TokensOf(u) THEN [token[t] EXCEPT !.status = "absent"]
                            ELSE token[t]]
  /\ UNCHANGED flow

-----------------------------------------------------------------------------

\* Variant for mutation: a status of the wrong table.
ExpireToInactive(t) ==
  /\ token[t].status = "live"
  /\ token' = [token EXCEPT ![t].status = "inactive"]
  /\ UNCHANGED <<employee, flow>>

\* The time in expires_at passes.
Expire(t) ==
  /\ token[t].status = "live"
  /\ token' = [token EXCEPT ![t].status = "expired"]
  /\ UNCHANGED <<employee, flow>>

\* The process crashes or its connection drops between two awaits.
CutOff(f) ==
  /\ Crashes
  /\ ~Idle(f)
  /\ End(f)
  /\ UNCHANGED <<employee, token>>

StartFlow(f) ==
  \/ \E u \in Users, p \in Passwords : Login(f, u, p)
  \/ \E t \in Tokens : Refresh(f, t)
  \/ \E t \in Tokens : Logout(f, t)
  \/ \E u \in Users : UpdateUser(f, u)
  \/ \E u \in Users, s \in AccountStatus : UpdateStatus(f, u, s)
  \/ \E u \in Users, p \in Passwords : ResetPassword(f, u, p)

ContinueFlow(f) ==
  \/ FindToken(f)
  \/ RevokeToken(f)
  \/ \E t \in Tokens : Issue(f, t)
  \/ CompareUser(f)
  \/ WriteUser(f)
  \/ InsertUser(f)
  \/ RevokeAll(f)

\* One statement each, which needs no slot.
AtOnce ==
  \/ \E u \in Users, s \in AccountStatus, p \in Passwords : CreateUser(u, s, p)
  \/ \E u \in Users : RemoveUser(u)
  \/ \E t \in Tokens : Expire(t)

SessionsStep == AtOnce \/ \E f \in Flows : StartFlow(f) \/ ContinueFlow(f)

SessionsNext == SessionsStep \/ \E f \in Flows : CutOff(f)

SessionsSpec == SessionsInit /\ [][SessionsNext]_sessionVars

-----------------------------------------------------------------------------
(* Properties.                                                             *)

\* Every row and every local is of its type.
SessionsTypeOK ==
  /\ employee \in [Users -> Employee]
  /\ token \in [Tokens -> RefreshToken]
  /\ flow \in [Flows -> Flow]

\* Rotation, however refreshes, logouts and admin actions overlap or are cut
\* off: a token that came from another one is only ever there when that one
\* can no longer be used.
ParentIsSpent ==
  \A t \in Tokens :
    token[t].parent # None =>
      token[token[t].parent].status \in {"revoked", "absent"}

\* An inactive account gets no new session.
OnlyActiveGets(t) ==
  token[t].status = "absent" /\ token'[t].status = "live" =>
    employee[token'[t].owner].status = "active"

\* Nothing but a status update activates an inactive account.
OnlyStatusUpdateActivates(u) ==
  employee[u].status = "inactive" /\ employee'[u].status = "active" =>
    \E f \in Flows : flow[f].op = "status" /\ flow[f].user = u

\* The sessions that can still be refreshed.
Live == {t \in Tokens : token[t].status = "live"}

AllIdle == \A f \in Flows : Idle(f)

\* docs/database-erd.md, auth tokens: a refresh revokes the old row and
\* issues one new token, so a session has one successor at most.
OneSuccessor ==
  \A s, t \in Tokens :
    token[s].parent # None /\ token[s].parent = token[t].parent => s = t

=============================================================================
