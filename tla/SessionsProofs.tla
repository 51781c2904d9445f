--------------------------- MODULE SessionsProofs ---------------------------
(***************************************************************************)
(* Proofs about Sessions, for any number of accounts, tokens and handlers. *)
(* ParentIsSpent alone is not inductive: a refresh revokes its token some  *)
(* steps before it issues the next one, so the invariant also says that a  *)
(* handler about to issue has a spent token, and that a token a handler or *)
(* another token refers to was issued, so that its id is not given again.  *)
(***************************************************************************)
EXTENDS SerialSessions, TLAPS

Issued(t) == token[t] # NoToken

Spent(t) == Issued(t) /\ token[t].status \in {"revoked", "absent"}

ParentsSpent == \A t, p \in Tokens : token[t].parent = p => Spent(p)

FlowsReady ==
  \A f \in Flows, t \in Tokens :
    flow[f].token = t => Issued(t) /\ (flow[f].pc = "issuing" => Spent(t))

\* A token that is not absent belongs to an account.
TokensOwned ==
  \A t \in Tokens : token[t].status # "absent" => token[t].owner \in Users

\* A handler past its first read knows the account, or the token to revoke.
Sound(locals) ==
  /\ locals.op \notin {"none", "logout"} => locals.user \in Users
  /\ locals.pc \in {"issuing", "loaded", "compared", "missing", "saved"} =>
       locals.op \notin {"none", "logout"}
  /\ locals.pc \in {"revoking", "found"} => locals.token \in Tokens

FlowsSound == \A f \in Flows : Sound(flow[f])

SessionsInv ==
  SessionsTypeOK /\ ParentsSpent /\ FlowsReady /\ TokensOwned /\ FlowsSound

-----------------------------------------------------------------------------

\* Initially every token is free and every slot empty.
LEMMA InvInit == SessionsInit => SessionsInv
<1> SUFFICES ASSUME SessionsInit PROVE SessionsInv
  OBVIOUS
<1>1. employee \in [Users -> Employee]
  BY DEF SessionsInit, Employee, NoEmployee, AccountStatus
<1>2. token \in [Tokens -> RefreshToken]
  BY DEF SessionsInit, RefreshToken, NoToken
<1>3. flow \in [Flows -> Flow]
  BY DEF SessionsInit, Flow, NoFlow, AccountStatus
<1>4. ParentsSpent
  BY SessionAssumption DEF SessionsInit, ParentsSpent, NoToken
<1>5. FlowsReady
  BY SessionAssumption DEF SessionsInit, FlowsReady, NoFlow
<1>6. TokensOwned
  BY DEF SessionsInit, TokensOwned, NoToken
<1>7. FlowsSound
  BY DEF SessionsInit, FlowsSound, Sound, NoFlow
<1> QED
  BY <1>1, <1>2, <1>3, <1>4, <1>5, <1>6, <1>7 DEF SessionsInv, SessionsTypeOK

-----------------------------------------------------------------------------

\* What every action but Issue does to the tokens: parents stay, a token that
\* was issued stays issued, one that is spent stays spent.
TokensKept ==
  \A t \in Tokens :
    /\ token'[t].parent = token[t].parent
    /\ Issued(t) => Issued(t)'
    /\ Spent(t) => Spent(t)'

\* A token may be handed to a handler that goes to `pc'.
Fit(t, pc) == Issued(t) /\ (pc = "issuing" => Spent(t))

\* Where a handler writes its slot, the new locals naming a fit token or
\* none, the slots stay ready.
LEMMA SlotStep ==
  ASSUME NEW f \in Flows, NEW locals \in Flow, FlowsReady, TokensKept,
         flow \in [Flows -> Flow], FlowsSound, Sound(locals),
         flow' = [flow EXCEPT ![f] = locals],
         \A t \in Tokens : locals.token = t => Fit(t, locals.pc)'
  PROVE  flow' \in [Flows -> Flow] /\ FlowsReady' /\ FlowsSound'
<1>1. flow' \in [Flows -> Flow] /\ FlowsSound'
  BY DEF FlowsSound
<1>2. ASSUME NEW g \in Flows, NEW t \in Tokens, flow'[g].token = t
      PROVE  Issued(t)' /\ (flow'[g].pc = "issuing" => Spent(t)')
  <2>1. CASE g = f
    <3>1. flow'[g] = locals
      BY <2>1
    <3> QED
      BY <1>2, <3>1 DEF Fit
  <2>2. CASE g # f
    <3>1. flow'[g] = flow[g]
      BY <2>2
    <3>2. Issued(t) /\ (flow[g].pc = "issuing" => Spent(t))
      BY <1>2, <3>1 DEF FlowsReady
    <3>3. (Issued(t) => Issued(t)') /\ (Spent(t) => Spent(t)')
      BY DEF TokensKept
    <3> QED
      BY <3>1, <3>2, <3>3
  <2> QED
    BY <2>1, <2>2
<1> QED
  BY <1>1, <1>2 DEF FlowsReady

\* Parents stay spent where the tokens are kept.
LEMMA ParentsKept == ParentsSpent /\ TokensKept => ParentsSpent'
<1> SUFFICES ASSUME ParentsSpent, TokensKept,
                    NEW t \in Tokens, NEW p \in Tokens, token'[t].parent = p
             PROVE  Spent(p)'
  BY DEF ParentsSpent
<1>1. token[t].parent = p
  BY DEF TokensKept
<1>2. Spent(p)
  BY <1>1 DEF ParentsSpent
<1> QED
  BY <1>2 DEF TokensKept

\* Leaving the table alone keeps the tokens.
LEMMA SameTokens == token' = token => TokensKept
BY DEF TokensKept, Issued, Spent

\* Changing the status of some issued tokens, to revoked or absent, or of a
\* live one to anything, keeps the tokens.
LEMMA StatusMoves ==
  ASSUME SessionsTypeOK, NEW moved \in SUBSET Tokens,
         NEW status \in {"expired", "revoked", "absent"},
         token' = [t \in Tokens |->
           IF t \in moved THEN [token[t] EXCEPT !.status = status]
                          ELSE token[t]],
         \A t \in moved : token[t].owner \in Users, TokensOwned,
         \A t \in moved : Spent(t) => status \in {"revoked", "absent"}
  PROVE  TokensKept /\ token' \in [Tokens -> RefreshToken] /\ TokensOwned'
<1>1. ASSUME NEW t \in Tokens
      PROVE  /\ token'[t].parent = token[t].parent
             /\ Issued(t) => Issued(t)'
             /\ Spent(t) => Spent(t)'
             /\ token'[t] \in RefreshToken
             /\ token'[t].status # "absent" => token'[t].owner \in Users
  <2>1. CASE t \in moved
    <3>1. token'[t] = [token[t] EXCEPT !.status = status]
      BY <2>1
    <3>2. token[t] \in RefreshToken
      BY DEF SessionsTypeOK
    <3>3. /\ token'[t].parent = token[t].parent
          /\ token'[t].owner = token[t].owner
          /\ token'[t].status = status
          /\ token'[t] \in RefreshToken
      BY <3>1, <3>2 DEF RefreshToken
    <3>4. Issued(t)'
      BY <2>1, <3>3, SessionAssumption DEF Issued, NoToken
    <3> QED
      BY <2>1, <3>3, <3>4 DEF Spent
  <2>2. CASE t \notin moved
    <3>1. token'[t] = token[t]
      BY <2>2
    <3> QED
      BY <3>1 DEF Issued, Spent, SessionsTypeOK, TokensOwned
  <2> QED
    BY <2>1, <2>2
<1> QED
  BY <1>1 DEF TokensKept, TokensOwned

\* An unchanged slot table stays ready.
LEMMA SameFlows ==
  ASSUME SessionsInv, TokensKept, flow' = flow
  PROVE  flow' \in [Flows -> Flow] /\ FlowsReady' /\ FlowsSound'
<1>1. flow' \in [Flows -> Flow] /\ FlowsSound'
  BY DEF SessionsInv, SessionsTypeOK, FlowsSound
<1>2. ASSUME NEW f \in Flows, NEW t \in Tokens, flow'[f].token = t
      PROVE  Issued(t)' /\ (flow'[f].pc = "issuing" => Spent(t)')
  <2>1. Issued(t) /\ (flow[f].pc = "issuing" => Spent(t))
    BY <1>2 DEF SessionsInv, FlowsReady
  <2> QED
    BY <2>1 DEF TokensKept
<1> QED
  BY <1>1, <1>2 DEF FlowsReady

\* A handler that ends leaves the slots ready.
LEMMA EndStep ==
  ASSUME SessionsInv, TokensKept, NEW f \in Flows, End(f)
  PROVE  flow' \in [Flows -> Flow] /\ FlowsReady' /\ FlowsSound'
<1>1. NoFlow \in Flow /\ Sound(NoFlow)
  BY DEF NoFlow, Flow, Sound
<1>2. \A t \in Tokens : NoFlow.token = t => Fit(t, NoFlow.pc)'
  BY SessionAssumption DEF NoFlow
<1> QED
  BY <1>1, <1>2, SlotStep DEF End, SessionsInv, SessionsTypeOK

\* So does one that moves on, to a `pc' its account and its token suit.
LEMMA GoStep ==
  ASSUME SessionsInv, TokensKept, NEW f \in Flows,
         NEW pc \in {"issuing", "found", "missing", "saved"},
         flow' = [flow EXCEPT ![f].pc = pc],
         pc = "found" => flow[f].token \in Tokens,
         pc # "found" => flow[f].op \notin {"none", "logout"},
         pc = "issuing" =>
           \A t \in Tokens : flow[f].token = t => Spent(t)'
  PROVE  flow' \in [Flows -> Flow] /\ FlowsReady' /\ FlowsSound'
<1>1. flow[f] \in Flow /\ Sound(flow[f]) /\ flow \in [Flows -> Flow]
  BY DEF SessionsInv, SessionsTypeOK, FlowsSound
<1>2. PICK locals \in Flow : locals = [flow[f] EXCEPT !.pc = pc]
  <2>1. [flow[f] EXCEPT !.pc = pc] \in Flow
    BY <1>1 DEF Flow
  <2> QED
    BY <2>1
<1>3. /\ locals.pc = pc /\ locals.op = flow[f].op
      /\ locals.user = flow[f].user /\ locals.token = flow[f].token
  BY <1>1, <1>2 DEF Flow
<1>4. Sound(locals)
  BY <1>1, <1>3 DEF Sound
<1>5. ASSUME NEW t \in Tokens, locals.token = t
      PROVE  Fit(t, locals.pc)'
  <2>1. Issued(t)
    BY <1>3, <1>5 DEF SessionsInv, FlowsReady
  <2>2. Issued(t)'
    BY <2>1 DEF TokensKept
  <2> QED
    BY <1>3, <1>5, <2>2 DEF Fit
<1>6. flow' = [flow EXCEPT ![f] = locals]
  BY <1>1, <1>2
<1> QED
  BY <1>1, <1>4, <1>5, <1>6, SlotStep DEF SessionsInv

\* So does one that begins, on an account or on a token that was issued.
LEMMA BeginStep ==
  ASSUME SessionsInv, TokensKept, NEW f \in Flows, NEW locals \in Flow,
         Begin(f, locals), Sound(locals),
         \A t \in Tokens : locals.token = t => Fit(t, locals.pc)'
  PROVE  flow' \in [Flows -> Flow] /\ FlowsReady' /\ FlowsSound'
BY SlotStep DEF Begin, SessionsInv, SessionsTypeOK

\* The invariant, put together again after a step that keeps the tokens.
LEMMA InvKept ==
  ASSUME SessionsInv, TokensKept, employee' \in [Users -> Employee],
         token' \in [Tokens -> RefreshToken], TokensOwned',
         flow' \in [Flows -> Flow], FlowsReady', FlowsSound'
  PROVE  SessionsInv'
<1>1. ParentsSpent'
  BY ParentsKept DEF SessionsInv
<1> QED
  BY <1>1 DEF SessionsInv, SessionsTypeOK

\* Steps that leave both tables alone.
LEMMA OnlyFlows ==
  ASSUME SessionsInv, UNCHANGED <<employee, token>>,
         flow' \in [Flows -> Flow], FlowsReady', FlowsSound'
  PROVE  SessionsInv'
<1>1. TokensKept
  BY SameTokens
<1>2. /\ employee' \in [Users -> Employee]
      /\ token' \in [Tokens -> RefreshToken]
      /\ TokensOwned'
  BY DEF SessionsInv, SessionsTypeOK, TokensOwned
<1> QED
  BY <1>1, <1>2, InvKept

-----------------------------------------------------------------------------
(* One lemma per group of actions.                                         *)

\* A handler starts.
LEMMA StartStep ==
  ASSUME SessionsInv, NEW f \in Flows, StartFlow(f)
  PROVE  SessionsInv'
<1>1. employee \in [Users -> Employee] /\ token \in [Tokens -> RefreshToken]
  BY DEF SessionsInv, SessionsTypeOK
<1>2. ASSUME NEW u \in Users, NEW p \in Passwords, Login(f, u, p)
      PROVE  SessionsInv'
  <2> DEFINE locals == [NoFlow EXCEPT !.op = "login", !.pc = "issuing",
                          !.user = u, !.password = p]
  <2>1. TokensKept
    BY <1>2, SameTokens DEF Login
  <2>2. locals \in Flow /\ Sound(locals) /\ locals.token = None
    BY DEF NoFlow, Flow, Sound
  <2>3. Begin(f, locals)
    BY <1>2 DEF Login
  <2> HIDE DEF locals
  <2>4. flow' \in [Flows -> Flow] /\ FlowsReady' /\ FlowsSound'
    BY <2>1, <2>2, <2>3, BeginStep, SessionAssumption
  <2> QED
    BY <1>2, <2>4, OnlyFlows DEF Login
<1>3. ASSUME NEW t \in Tokens, Refresh(f, t)
      PROVE  SessionsInv'
  <2> DEFINE u == token[t].owner
             locals == [NoFlow EXCEPT
               !.op = IF employee[u].status = "active" THEN "refresh"
                                                        ELSE "refuse",
               !.pc = "revoking", !.user = u, !.token = t,
               !.password = token[t].password]
  <2>1. TokensKept
    BY <1>3, SameTokens DEF Refresh
  <2>2. u \in Users /\ token[t].password \in Passwords \cup {None}
    BY <1>1, <1>3 DEF Refresh, SessionsInv, TokensOwned, RefreshToken
  <2>3. locals \in Flow /\ Sound(locals)
        /\ locals.token = t /\ locals.pc = "revoking"
    BY <2>2 DEF NoFlow, Flow, Sound
  <2>4. Issued(t)'
    BY <1>3 DEF Refresh, Issued, NoToken
  <2>5. Begin(f, locals)
    BY <1>3 DEF Refresh
  <2> HIDE DEF locals
  <2>6. flow' \in [Flows -> Flow] /\ FlowsReady' /\ FlowsSound'
    BY <2>1, <2>3, <2>4, <2>5, BeginStep DEF Fit
  <2> QED
    BY <1>3, <2>6, OnlyFlows DEF Refresh
<1>4. ASSUME NEW t \in Tokens, Logout(f, t)
      PROVE  SessionsInv'
  <2> DEFINE locals == [NoFlow EXCEPT !.op = "logout", !.pc = "revoking",
                                      !.token = t]
  <2>1. TokensKept
    BY <1>4, SameTokens DEF Logout
  <2>2. locals \in Flow /\ Sound(locals)
        /\ locals.token = t /\ locals.pc = "revoking"
    BY DEF NoFlow, Flow, Sound
  <2>3. Issued(t)'
    BY <1>4 DEF Logout, Issued, NoToken
  <2>4. Begin(f, locals)
    BY <1>4 DEF Logout
  <2> HIDE DEF locals
  <2>5. flow' \in [Flows -> Flow] /\ FlowsReady' /\ FlowsSound'
    BY <2>1, <2>2, <2>3, <2>4, BeginStep DEF Fit
  <2> QED
    BY <1>4, <2>5, OnlyFlows DEF Logout
<1>5. ASSUME NEW u \in Users, NEW op \in {"edit", "status", "reset"},
             NEW s \in AccountStatus \cup {"absent"},
             NEW p \in Passwords \cup {None}, LoadUser(f, op, u, s, p)
      PROVE  SessionsInv'
  <2> DEFINE locals == [NoFlow EXCEPT !.op = op, !.pc = "loaded", !.user = u,
                                      !.status = s, !.password = p]
  <2>1. TokensKept
    BY <1>5, SameTokens DEF LoadUser
  <2>2. locals \in Flow /\ Sound(locals) /\ locals.token = None
    BY DEF NoFlow, Flow, Sound
  <2>3. Begin(f, locals)
    BY <1>5 DEF LoadUser
  <2> HIDE DEF locals
  <2>4. flow' \in [Flows -> Flow] /\ FlowsReady' /\ FlowsSound'
    BY <2>1, <2>2, <2>3, BeginStep, SessionAssumption
  <2> QED
    BY <1>5, <2>4, OnlyFlows DEF LoadUser
<1>6. \A u \in Users : employee[u].status \in AccountStatus \cup {"absent"}
  BY <1>1 DEF Employee
<1>7. CASE \E u \in Users : UpdateUser(f, u)
  BY <1>5, <1>6, <1>7 DEF UpdateUser
<1>8. CASE \E u \in Users, s \in AccountStatus : UpdateStatus(f, u, s)
  BY <1>5, <1>8 DEF UpdateStatus
<1>9. CASE \E u \in Users, p \in Passwords : ResetPassword(f, u, p)
  BY <1>5, <1>6, <1>9 DEF ResetPassword
<1> QED
  BY <1>2, <1>3, <1>4, <1>7, <1>8, <1>9 DEF StartFlow

\* A token that revokeToken found is revoked, or its row is gone.
LEMMA RevokeStep ==
  ASSUME SessionsInv, NEW f \in Flows, FindToken(f) \/ RevokeToken(f)
  PROVE  SessionsInv'
<1>1. /\ employee \in [Users -> Employee] /\ token \in [Tokens -> RefreshToken]
      /\ flow \in [Flows -> Flow] /\ TokensOwned /\ Sound(flow[f])
  BY DEF SessionsInv, SessionsTypeOK, FlowsSound
<1>2. CASE FindToken(f)
  <2>1. TokensKept
    BY <1>2, SameTokens DEF FindToken
  <2>2. flow[f].token \in Tokens
    BY <1>1, <1>2 DEF FindToken, Sound
  <2>3. flow' \in [Flows -> Flow] /\ FlowsReady' /\ FlowsSound'
    <3>1. CASE token[flow[f].token].status \in {"live", "expired"}
      <4>1. flow' = [flow EXCEPT ![f].pc = "found"]
        BY <1>2, <3>1 DEF FindToken
      <4> QED
        BY <2>1, <2>2, <4>1, GoStep
    <3>2. CASE /\ token[flow[f].token].status \notin {"live", "expired"}
               /\ flow[f].op = "refresh"
      <4>1. flow' = [flow EXCEPT ![f].pc = "issuing"]
        BY <1>2, <3>2 DEF FindToken, TokenRevoked
      <4>2. ASSUME NEW t \in Tokens, flow[f].token = t PROVE Spent(t)'
        <5>1. /\ token[t] \in RefreshToken
              /\ token[t].status \notin {"live", "expired"}
          BY <1>1, <3>2, <4>2
        <5>2. Issued(t)
          BY <4>2 DEF SessionsInv, FlowsReady
        <5>3. Spent(t)
          BY <5>1, <5>2 DEF Spent, RefreshToken
        <5> QED
          BY <2>1, <5>3 DEF TokensKept
      <4> QED
        BY <2>1, <3>2, <4>1, <4>2, GoStep
    <3>3. CASE /\ token[flow[f].token].status \notin {"live", "expired"}
               /\ flow[f].op # "refresh"
      BY <1>2, <2>1, <3>3, EndStep DEF FindToken, TokenRevoked
    <3> QED
      BY <3>1, <3>2, <3>3
  <2> QED
    BY <1>2, <2>3, OnlyFlows DEF FindToken
<1>3. CASE RevokeToken(f)
  <2>1. PICK t \in Tokens : t = flow[f].token
    BY <1>1, <1>3 DEF RevokeToken, Sound
  <2>2. CASE token[t].status = "absent"
    <3>1. End(f) /\ UNCHANGED <<employee, token>>
      BY <1>3, <2>1, <2>2 DEF RevokeToken
    <3>2. TokensKept
      BY <3>1, SameTokens
    <3> QED
      BY <3>1, <3>2, EndStep, OnlyFlows
  <2>3. CASE token[t].status # "absent"
    <3>1. /\ token' = [token EXCEPT ![t].status = "revoked"]
          /\ TokenRevoked(f) /\ UNCHANGED employee
      BY <1>3, <2>1, <2>3 DEF RevokeToken
    <3>2. token[t].owner \in Users
      BY <1>1, <2>3 DEF TokensOwned
    <3>3. token' = [s \in Tokens |->
             IF s \in {t} THEN [token[s] EXCEPT !.status = "revoked"]
                          ELSE token[s]]
      BY <1>1, <3>1
    <3>4. TokensKept /\ token' \in [Tokens -> RefreshToken] /\ TokensOwned'
      <4>1. {t} \in SUBSET Tokens /\ \A s \in {t} : token[s].owner \in Users
        BY <3>2
      <4> QED
        BY <1>1, <3>3, <4>1, StatusMoves DEF SessionsInv
    <3>5. flow' \in [Flows -> Flow] /\ FlowsReady' /\ FlowsSound'
      <4>1. CASE flow[f].op = "refresh"
        <5>1. flow' = [flow EXCEPT ![f].pc = "issuing"]
          BY <3>1, <4>1 DEF TokenRevoked
        <5>2. token'[t].status = "revoked"
          BY <1>1, <3>1 DEF RefreshToken
        <5>3. Spent(t)'
          BY <5>2 DEF Spent, Issued, NoToken
        <5> QED
          BY <2>1, <3>4, <4>1, <5>1, <5>3, GoStep
      <4>2. CASE flow[f].op # "refresh"
        BY <3>1, <3>4, <4>2, EndStep DEF TokenRevoked
      <4> QED
        BY <4>1, <4>2
    <3> QED
      BY <1>1, <3>1, <3>4, <3>5, InvKept
  <2> QED
    BY <2>2, <2>3
<1> QED
  BY <1>2, <1>3

\* A new token: nothing refers to it yet, and its parent is spent.
LEMMA IssueStep ==
  ASSUME SessionsInv, NEW f \in Flows, NEW t \in Tokens, Issue(f, t)
  PROVE  SessionsInv'
<1>1. /\ employee \in [Users -> Employee] /\ token \in [Tokens -> RefreshToken]
      /\ flow \in [Flows -> Flow] /\ flow[f] \in Flow
      /\ TokensOwned /\ Sound(flow[f])
  BY DEF SessionsInv, SessionsTypeOK, FlowsSound
<1>2. flow[f].pc = "issuing" /\ flow[f].user \in Users /\ ~Issued(t)
  BY <1>1 DEF Issue, Sound, FreeTokens, Issued
<1>3. CASE employee[flow[f].user].status = "absent"
  <2>1. End(f) /\ UNCHANGED <<employee, token>>
    BY <1>3 DEF Issue
  <2>2. TokensKept
    BY <2>1, SameTokens
  <2> QED
    BY <2>1, <2>2, EndStep, OnlyFlows
<1>4. CASE employee[flow[f].user].status # "absent"
  <2> DEFINE row == [status |-> "live", owner |-> flow[f].user,
                     password |-> flow[f].password, parent |-> flow[f].token]
  <2>1. token' = [token EXCEPT ![t] = row] /\ End(f) /\ UNCHANGED employee
    BY <1>4 DEF Issue
  <2>2. row \in RefreshToken
    BY <1>1, <1>2 DEF Flow, RefreshToken
  <2>3. \A s \in Tokens : s # t => token'[s] = token[s]
    BY <1>1, <2>1
  <2>4. token'[t] = row
    BY <1>1, <2>1
  <2>5. token' \in [Tokens -> RefreshToken]
    BY <1>1, <2>1, <2>2
  <2>6. TokensOwned'
    BY <1>1, <1>2, <2>3, <2>4 DEF TokensOwned
  <2>7. \A s \in Tokens : Spent(s) => Spent(s)'
    BY <1>2, <2>3 DEF Spent, Issued
  <2>8. ParentsSpent'
    <3> SUFFICES ASSUME NEW s \in Tokens, NEW p \in Tokens, token'[s].parent = p
                 PROVE  Spent(p)'
      BY DEF ParentsSpent
    <3>1. CASE s = t
      BY <1>2, <2>4, <2>7, <3>1 DEF SessionsInv, FlowsReady
    <3>2. CASE s # t
      BY <2>3, <2>7, <3>2 DEF SessionsInv, ParentsSpent
    <3> QED
      BY <3>1, <3>2
  <2>9. flow' \in [Flows -> Flow] /\ FlowsReady' /\ FlowsSound'
    <3>1. NoFlow \in Flow /\ Sound(NoFlow)
      BY DEF NoFlow, Flow, Sound
    <3>2. flow' \in [Flows -> Flow] /\ FlowsSound'
      BY <1>1, <2>1, <3>1 DEF End, SessionsInv, FlowsSound
    <3>3. ASSUME NEW g \in Flows, NEW s \in Tokens, flow'[g].token = s
          PROVE  Issued(s)' /\ (flow'[g].pc = "issuing" => Spent(s)')
      <4>1. g # f
        BY <1>1, <2>1, <3>3, SessionAssumption DEF End, NoFlow
      <4>2. flow'[g] = flow[g]
        BY <1>1, <2>1, <4>1 DEF End
      <4>3. Issued(s) /\ (flow[g].pc = "issuing" => Spent(s))
        BY <3>3, <4>2 DEF SessionsInv, FlowsReady
      <4>4. Issued(s)'
        BY <1>2, <2>3, <4>3 DEF Issued
      <4> QED
        BY <2>7, <4>2, <4>3, <4>4
    <3> QED
      BY <3>2, <3>3 DEF FlowsReady
  <2> QED
    BY <1>1, <2>1, <2>5, <2>6, <2>8, <2>9 DEF SessionsInv, SessionsTypeOK
<1> QED
  BY <1>3, <1>4

\* save(user).
LEMMA SaveStep ==
  ASSUME SessionsInv, NEW f \in Flows,
         CompareUser(f) \/ WriteUser(f) \/ InsertUser(f)
  PROVE  SessionsInv'
<1>1. /\ employee \in [Users -> Employee] /\ flow \in [Flows -> Flow]
      /\ flow[f] \in Flow /\ Sound(flow[f])
  BY DEF SessionsInv, SessionsTypeOK, FlowsSound
<1>2. TokensKept /\ UNCHANGED token
  BY SameTokens DEF CompareUser, WriteUser, InsertUser
<1>3. token' \in [Tokens -> RefreshToken] /\ TokensOwned'
  BY <1>2 DEF SessionsInv, SessionsTypeOK, TokensOwned
<1>4. flow[f].user \in Users /\ flow[f].op \notin {"none", "logout"}
  BY <1>1 DEF CompareUser, WriteUser, InsertUser, Sound
<1>5. UserSaved(f) => flow' \in [Flows -> Flow] /\ FlowsReady' /\ FlowsSound'
  <2>1. CASE flow' = [flow EXCEPT ![f].pc = "saved"]
    BY <1>2, <1>4, <2>1, GoStep
  <2>2. CASE End(f)
    BY <1>2, <2>2, EndStep
  <2> QED
    BY <2>1, <2>2 DEF UserSaved
<1>6. CASE CompareUser(f)
  <2>1. CASE End(f)
    BY <1>2, <1>6, <2>1, EndStep, OnlyFlows DEF CompareUser
  <2>2. CASE flow' = [flow EXCEPT ![f].pc = "missing"]
    <3>1. flow' \in [Flows -> Flow] /\ FlowsReady' /\ FlowsSound'
      BY <1>2, <1>4, <2>2, GoStep
    <3> QED
      BY <1>2, <1>6, <3>1, OnlyFlows DEF CompareUser
  <2>3. CASE flow' = [flow EXCEPT ![f].pc = "compared",
               ![f].dirty = flow[f].status # employee[flow[f].user].status]
    <3>1. PICK locals \in Flow : locals =
            [flow[f] EXCEPT !.pc = "compared",
               !.dirty = flow[f].status # employee[flow[f].user].status]
      <4>1. (flow[f].status # employee[flow[f].user].status) \in BOOLEAN
        OBVIOUS
      <4>2. [flow[f] EXCEPT !.pc = "compared",
               !.dirty = flow[f].status # employee[flow[f].user].status] \in Flow
        BY <1>1, <4>1 DEF Flow
      <4> QED
        BY <4>2
    <3>2. /\ locals.pc = "compared" /\ locals.op = flow[f].op
          /\ locals.user = flow[f].user /\ locals.token = flow[f].token
      BY <1>1, <3>1 DEF Flow
    <3>3. Sound(locals)
      BY <1>1, <1>4, <3>2 DEF Sound
    <3>4. ASSUME NEW t \in Tokens, locals.token = t PROVE Fit(t, locals.pc)'
      <4>1. Issued(t)
        BY <3>2, <3>4 DEF SessionsInv, FlowsReady
      <4> QED
        BY <1>2, <3>2, <4>1 DEF TokensKept, Fit
    <3>5. flow' = [flow EXCEPT ![f] = locals]
      BY <1>1, <2>3, <3>1
    <3>6. flow' \in [Flows -> Flow] /\ FlowsReady' /\ FlowsSound'
      BY <1>1, <1>2, <3>3, <3>4, <3>5, SlotStep DEF SessionsInv
    <3> QED
      BY <1>2, <1>6, <3>6, OnlyFlows DEF CompareUser
  <2> QED
    BY <1>6, <2>1, <2>2, <2>3 DEF CompareUser
<1>7. CASE WriteUser(f)
  <2>1. employee' \in [Users -> Employee]
    BY <1>1, <1>4, <1>7 DEF WriteUser, Employee, Flow
  <2> QED
    BY <1>2, <1>3, <1>5, <1>7, <2>1, InvKept DEF WriteUser
<1>8. CASE InsertUser(f)
  <2>1. employee' \in [Users -> Employee]
    BY <1>1, <1>4, <1>8 DEF InsertUser, Employee, Flow
  <2>2. flow' \in [Flows -> Flow] /\ FlowsReady' /\ FlowsSound'
    BY <1>2, <1>5, <1>8, EndStep DEF InsertUser
  <2> QED
    BY <1>2, <1>3, <1>8, <2>1, <2>2, InvKept
<1> QED
  BY <1>6, <1>7, <1>8

\* Accounts come, go with their tokens, and lose all their sessions; tokens
\* expire.
LEMMA AccountStep ==
  ASSUME SessionsInv,
         \/ \E u \in Users, s \in AccountStatus, p \in Passwords :
              CreateUser(u, s, p)
         \/ \E u \in Users : RemoveUser(u)
         \/ \E t \in Tokens : Expire(t)
         \/ \E f \in Flows : RevokeAll(f)
  PROVE  SessionsInv'
<1>1. /\ employee \in [Users -> Employee] /\ token \in [Tokens -> RefreshToken]
      /\ TokensOwned
  BY DEF SessionsInv, SessionsTypeOK
<1>2. ASSUME NEW u \in Users, NEW s \in AccountStatus, NEW p \in Passwords,
             CreateUser(u, s, p)
      PROVE  SessionsInv'
  <2>1. TokensKept
    BY <1>2, SameTokens DEF CreateUser
  <2>2. employee' \in [Users -> Employee]
    BY <1>1, <1>2 DEF CreateUser, Employee
  <2>3. flow' \in [Flows -> Flow] /\ FlowsReady' /\ FlowsSound'
    BY <1>2, <2>1, SameFlows DEF CreateUser
  <2>4. token' \in [Tokens -> RefreshToken] /\ TokensOwned'
    BY <1>1, <1>2 DEF CreateUser, TokensOwned
  <2> QED
    BY <2>1, <2>2, <2>3, <2>4, InvKept
<1>3. ASSUME NEW u \in Users, RemoveUser(u)
      PROVE  SessionsInv'
  <2>1. \A t \in TokensOf(u) : token[t].owner \in Users
    BY DEF TokensOf
  <2>2. token' = [t \in Tokens |->
           IF t \in TokensOf(u) THEN [token[t] EXCEPT !.status = "absent"]
                                ELSE token[t]]
    BY <1>3 DEF RemoveUser
  <2>3. TokensOf(u) \in SUBSET Tokens
    BY DEF TokensOf
  <2>4. TokensKept /\ token' \in [Tokens -> RefreshToken] /\ TokensOwned'
    BY <1>1, <2>1, <2>2, <2>3, StatusMoves DEF SessionsInv
  <2>5. employee' \in [Users -> Employee]
    BY <1>1, <1>3 DEF RemoveUser, Employee
  <2>6. flow' \in [Flows -> Flow] /\ FlowsReady' /\ FlowsSound'
    BY <1>3, <2>4, SameFlows DEF RemoveUser
  <2> QED
    BY <2>4, <2>5, <2>6, InvKept
<1>4. ASSUME NEW t \in Tokens, Expire(t)
      PROVE  SessionsInv'
  <2>1. token' = [s \in Tokens |->
           IF s \in {t} THEN [token[s] EXCEPT !.status = "expired"]
                        ELSE token[s]]
    BY <1>1, <1>4 DEF Expire
  <2>2. token[t].owner \in Users /\ ~Spent(t)
    BY <1>1, <1>4 DEF Expire, TokensOwned, Spent
  <2>3. TokensKept /\ token' \in [Tokens -> RefreshToken] /\ TokensOwned'
    <3>1. /\ {t} \in SUBSET Tokens
          /\ \A s \in {t} : token[s].owner \in Users /\ ~Spent(s)
      BY <2>2
    <3> QED
      BY <1>1, <2>1, <3>1, StatusMoves DEF SessionsInv
  <2>4. flow' \in [Flows -> Flow] /\ FlowsReady' /\ FlowsSound'
    BY <1>4, <2>3, SameFlows DEF Expire
  <2> QED
    BY <1>1, <1>4, <2>3, <2>4, InvKept DEF Expire
<1>5. ASSUME NEW f \in Flows, RevokeAll(f)
      PROVE  SessionsInv'
  <2> DEFINE open == {t \in TokensOf(flow[f].user) :
                       token[t].status \in {"live", "expired"}}
  <2>1. open \in SUBSET Tokens
    BY DEF TokensOf
  <2>2. token' = [t \in Tokens |->
           IF t \in open THEN [token[t] EXCEPT !.status = "revoked"]
                         ELSE token[t]]
    BY <1>5 DEF RevokeAll
  <2>3. \A t \in open : token[t].owner \in Users
    BY <1>1, <2>1 DEF TokensOwned
  <2> HIDE DEF open
  <2>4. TokensKept /\ token' \in [Tokens -> RefreshToken] /\ TokensOwned'
    BY <1>1, <2>1, <2>2, <2>3, StatusMoves DEF SessionsInv
  <2>5. flow' \in [Flows -> Flow] /\ FlowsReady' /\ FlowsSound'
    BY <1>5, <2>4, EndStep DEF RevokeAll
  <2> QED
    BY <1>1, <1>5, <2>4, <2>5, InvKept DEF RevokeAll
<1> QED
  BY <1>2, <1>3, <1>4, <1>5

\* Every step keeps the invariant.
LEMMA InvStep == SessionsInv /\ [SessionsNext]_sessionVars => SessionsInv'
<1> SUFFICES ASSUME SessionsInv, [SessionsNext]_sessionVars
             PROVE  SessionsInv'
  OBVIOUS
<1>1. ASSUME NEW f \in Flows, ContinueFlow(f) PROVE SessionsInv'
  BY <1>1, RevokeStep, IssueStep, SaveStep, AccountStep DEF ContinueFlow
<1>2. ASSUME NEW f \in Flows, CutOff(f) PROVE SessionsInv'
  <2>1. TokensKept
    BY <1>2, SameTokens DEF CutOff
  <2> QED
    BY <1>2, <2>1, EndStep, OnlyFlows DEF CutOff
<1>3. CASE UNCHANGED sessionVars
  <2>1. UNCHANGED <<employee, token>> /\ flow' = flow
    BY <1>3 DEF sessionVars
  <2>2. TokensKept
    BY <2>1, SameTokens
  <2> QED
    BY <2>1, <2>2, SameFlows, OnlyFlows
<1> QED
  BY <1>1, <1>2, <1>3, StartStep, AccountStep DEF SessionsNext, SessionsStep, AtOnce

\* The inductive invariant holds in every behaviour.
THEOREM SessionsInvariance == SessionsSpec => []SessionsInv
BY InvInit, InvStep, PTL DEF SessionsSpec

\* Accounts, refresh tokens and the locals of the handlers keep their types.
THEOREM SessionsTypeCorrect == SessionsSpec => []SessionsTypeOK
BY SessionsInvariance, PTL DEF SessionsInv

\* Rotation: a token issued by a refresh is only ever there when the token it
\* was refreshed from is revoked or gone, whatever refreshes, logouts, admin
\* actions and crashes come in between.
THEOREM RotationRevokes == SessionsSpec => []ParentIsSpent
<1>1. SessionsInv => ParentIsSpent
  BY DEF SessionsInv, SessionsTypeOK, ParentsSpent, ParentIsSpent, Spent,
         RefreshToken
<1> QED
  BY <1>1, SessionsInvariance, PTL

-----------------------------------------------------------------------------
(* Handlers that do not overlap, each cut off or not.  Accounts still come *)
(* and go, and tokens expire, while a handler is in flight.                *)

OneFlow == \A f, g \in Flows : ~Idle(f) /\ ~Idle(g) => f = g

\* An account that is there has a password, and a session that can be
\* refreshed has an account.
AccountsKnown ==
  /\ \A u \in Users : employee[u].status # "absent" => employee[u].password # None
  /\ \A t \in Live : employee[token[t].owner].status # "absent"

Saves == {"edit", "status", "reset"}

\* A handler with locals l is about to issue a session to the account as it
\* still is, unless it was removed meanwhile.
IssueFresh(l) ==
  /\ l.op \in {"login", "refresh"} =>
       /\ employee[l.user].status \in {"active", "absent"}
       /\ ~cut => l.password = employee[l.user].password
  /\ l.op = "login" => l.token = None /\ l.pc = "issuing"
  /\ l.op = "refresh" => /\ l.token \in Tokens
                         /\ \A t \in Tokens : token[t].parent # l.token
  /\ l.pc = "issuing" => l.op \in {"login", "refresh"}

\* So it is with one that saves the account.
SaveFresh(l) ==
  /\ l.op \in Saves => l.status # "absent"
  /\ l.op \in Saves <=> l.pc \in {"loaded", "compared", "missing", "saved"}
  /\ l.op \in {"edit", "reset"} =>
       /\ l.pc \in {"loaded", "compared"} =>
            employee[l.user].status \in {l.status, "absent"}
       /\ l.pc = "compared" => ~l.dirty
  /\ l.op = "reset" => l.password # None
  /\ l.pc = "missing" => l.op = "reset"

FlowFresh(l) ==
  /\ l.pc = "idle" => l.op = "none"
  /\ l.op \notin {"none", "logout"} => employee[l.user].password # None
  /\ IssueFresh(l)
  /\ SaveFresh(l)

FlowsFresh == \A f \in Flows : FlowFresh(flow[f])

\* The session began with the password of today, and its account is active.
Current(t) ==
  /\ employee[token[t].owner].status = "active"
  /\ token[t].password = employee[token[t].owner].password

Ending(u) == \E f \in Flows : flow[f].pc = "saved" /\ flow[f].user = u

SessionsCurrent == \A t \in Live : Current(t) \/ Ending(token[t].owner)

SessionsSerial ==
  /\ OneFlow
  /\ AccountsKnown
  /\ FlowsFresh
  /\ OneSuccessor
  /\ ~cut => SessionsCurrent

SerialSessionsInv == SessionsInv /\ (~overlap => SessionsSerial)

\* Every handler but f is idle.
Others(f) == \A g \in Flows \ {f} : Idle(g)

LEMMA NoFlowFresh == FlowFresh(NoFlow)
  BY DEF FlowFresh, IssueFresh, SaveFresh, NoFlow, Saves

LEMMA NothingEnding ==
  ASSUME NEW f \in Flows, Others(f), flow[f].pc # "saved"
  PROVE  \A u \in Users : ~Ending(u)
  BY DEF Ending, Others, Idle

\* The invariant, put together again after a step of the only handler.
LEMMA SerialAgain ==
  ASSUME SessionsInv, SessionsSerial, NEW f \in Flows, Others(f),
         NEW l, flow' = [flow EXCEPT ![f] = l], FlowFresh(l)',
         AccountsKnown', OneSuccessor', ~cut' => SessionsCurrent'
  PROVE  SessionsSerial'
<1>1. flow'[f] = l /\ \A g \in Flows \ {f} : flow'[g] = flow[g]
  BY DEF SessionsInv, SessionsTypeOK
<1>2. OneFlow'
  BY <1>1 DEF OneFlow, Others, Idle
<1>3. ASSUME NEW g \in Flows PROVE FlowFresh(flow[g])'
  <2>1. CASE g = f
    BY <1>1, <2>1 DEF FlowFresh, IssueFresh, SaveFresh
  <2>2. CASE g # f
    <3>1. flow'[g].pc = "idle" /\ flow'[g].op = "none"
      BY <1>1, <2>2 DEF Others, Idle, SessionsSerial, FlowsFresh, FlowFresh
    <3> QED
      BY <3>1 DEF FlowFresh, IssueFresh, SaveFresh, Saves
  <2> QED
    BY <2>1, <2>2
<1> QED
  BY <1>2, <1>3 DEF SessionsSerial, FlowsFresh

\* It outlives a step that leaves the accounts alone and, of the tokens,
\* changes the status, making none live.
NoNewSession ==
  /\ \A t \in Tokens : /\ token'[t].parent = token[t].parent
                       /\ token'[t].owner = token[t].owner
                       /\ token'[t].password = token[t].password
  /\ Live' \subseteq Live

LEMMA FreshStays ==
  ASSUME NEW l, FlowFresh(l), UNCHANGED <<employee, cut>>, NoNewSession
  PROVE  FlowFresh(l)'
  BY DEF FlowFresh, IssueFresh, SaveFresh, NoNewSession

LEMMA NoneNew ==
  ASSUME SessionsInv, SessionsSerial, UNCHANGED employee, NoNewSession
  PROVE  /\ AccountsKnown' /\ OneSuccessor'
         /\ (\A t \in Live : Current(t)) => SessionsCurrent'
<1>1. \A t \in Live' : t \in Live /\ token'[t].owner = token[t].owner
                         /\ token'[t].password = token[t].password
  BY DEF NoNewSession, Live
<1>2. AccountsKnown'
  BY <1>1 DEF SessionsSerial, AccountsKnown
<1>3. OneSuccessor'
  BY DEF SessionsSerial, OneSuccessor, NoNewSession
<1>4. (\A t \in Live : Current(t)) => SessionsCurrent'
  BY <1>1 DEF SessionsCurrent, Current
<1> QED
  BY <1>2, <1>3, <1>4

LEMMA AllCurrent ==
  ASSUME SessionsInv, SessionsSerial, NEW f \in Flows, Others(f),
         flow[f].pc # "saved", ~cut
  PROVE  \A t \in Live : Current(t)
<1>1. \A t \in Live : token[t].owner \in Users
  BY DEF SessionsInv, TokensOwned, Live
<1> QED
  BY <1>1, NothingEnding DEF SessionsSerial, SessionsCurrent

LEMMA QuietStep ==
  ASSUME SessionsInv, SessionsSerial, NEW f \in Flows, Others(f),
         flow[f].pc # "saved", NEW l, flow' = [flow EXCEPT ![f] = l], FlowFresh(l),
         UNCHANGED <<employee, cut>>, NoNewSession
  PROVE  SessionsSerial'
  BY AllCurrent, NoneNew, FreshStays, SerialAgain

LEMMA SameSessions == UNCHANGED token => NoNewSession
  BY DEF NoNewSession, Live

\* f goes on to pc, its other locals as they are.
GoesOn(l, f, pc) ==
  /\ l.pc = pc /\ l.op = flow[f].op /\ l.user = flow[f].user
  /\ l.token = flow[f].token /\ l.status = flow[f].status
  /\ l.password = flow[f].password /\ l.dirty = flow[f].dirty

LEMMA FlowGoesOn ==
  ASSUME SessionsInv, NEW f \in Flows, NEW pc, flow' = [flow EXCEPT ![f].pc = pc]
  PROVE  \E l : flow' = [flow EXCEPT ![f] = l] /\ GoesOn(l, f, pc)
<1>1. flow[f] \in Flow
  BY DEF SessionsInv, SessionsTypeOK
<1>2. PICK l : l = [flow[f] EXCEPT !.pc = pc]
  OBVIOUS
<1>3. flow' = [flow EXCEPT ![f] = l]
  BY <1>2
<1>4. GoesOn(l, f, pc)
  BY <1>1, <1>2 DEF GoesOn, Flow
<1> QED
  BY <1>3, <1>4

LEMMA StartReads ==
  ASSUME NEW f \in Flows, StartFlow(f)
  PROVE  UNCHANGED <<employee, token>>
  BY DEF StartFlow, Login, Refresh, Logout, UpdateUser, UpdateStatus, ResetPassword,
     LoadUser

\* A handler starts, and no other is in flight.
LEMMA StartSerial ==
  ASSUME SessionsInv, SessionsSerial, NEW f \in Flows, AllIdle, StartFlow(f),
         UNCHANGED cut
  PROVE  SessionsSerial'
<1>1. Others(f) /\ flow[f].pc # "saved"
  BY DEF AllIdle, Others, Idle
<1>2. UNCHANGED <<employee, token>>
  BY StartReads
<1>3. NoNewSession
  BY <1>2, SameSessions
<1>4. ASSUME NEW l, Begin(f, l), FlowFresh(l) PROVE SessionsSerial'
  BY <1>1, <1>2, <1>3, <1>4, QuietStep DEF Begin
<1>5. \A u \in Users : /\ employee[u] \in Employee
                       /\ employee[u].status # "absent" => employee[u].password # None
  BY DEF SessionsInv, SessionsTypeOK, SessionsSerial, AccountsKnown
<1>6. ASSUME NEW u \in Users, NEW p \in Passwords, Login(f, u, p)
      PROVE  SessionsSerial'
  <2>1. PICK l : l = [NoFlow EXCEPT !.op = "login", !.pc = "issuing", !.user = u,
                                    !.password = p]
    OBVIOUS
  <2>2. /\ l.op = "login" /\ l.pc = "issuing" /\ l.user = u /\ l.password = p
        /\ l.token = None
    BY <2>1 DEF NoFlow
  <2>3. employee[u].status = "active" /\ employee[u].password = p /\ Begin(f, l)
    BY <1>6, <2>1 DEF Login
  <2>4. FlowFresh(l)
    BY <1>5, <2>2, <2>3 DEF FlowFresh, IssueFresh, SaveFresh, Saves
  <2> QED
    BY <1>4, <2>3, <2>4
<1>7. ASSUME NEW t \in Tokens, Refresh(f, t)
      PROVE  SessionsSerial'
  <2>1. PICK u : u = token[t].owner
    OBVIOUS
  <2>2. PICK op : op = IF employee[u].status = "active" THEN "refresh" ELSE "refuse"
    OBVIOUS
  <2>3. PICK l : l = [NoFlow EXCEPT !.op = op, !.pc = "revoking", !.user = u,
                        !.token = t, !.password = token[t].password]
    OBVIOUS
  <2>4. /\ l.op = op /\ l.pc = "revoking" /\ l.user = u /\ l.token = t
        /\ l.password = token[t].password
    BY <2>3 DEF NoFlow
  <2>5. token[t].status = "live" /\ Begin(f, l)
    BY <1>7, <2>1, <2>2, <2>3 DEF Refresh
  <2>6. \A s \in Tokens : token[s].parent # t
    BY <2>5 DEF SessionsInv, ParentsSpent, Spent
  <2>7. u \in Users /\ t \in Live /\ employee[u].status # "absent"
    BY <2>1, <2>5 DEF Live, SessionsInv, TokensOwned, SessionsSerial, AccountsKnown
  <2>8. ~cut => employee[u].password = token[t].password
    BY <1>1, <2>1, <2>7, AllCurrent DEF Current
  <2>9. FlowFresh(l)
    BY <1>5, <2>2, <2>4, <2>6, <2>7, <2>8 DEF FlowFresh, IssueFresh, SaveFresh, Saves
  <2> QED
    BY <1>4, <2>5, <2>9
<1>8. ASSUME NEW t \in Tokens, Logout(f, t)
      PROVE  SessionsSerial'
  <2>1. PICK l : l = [NoFlow EXCEPT !.op = "logout", !.pc = "revoking", !.token = t]
    OBVIOUS
  <2>2. l.op = "logout" /\ l.pc = "revoking"
    BY <2>1 DEF NoFlow
  <2>3. Begin(f, l)
    BY <1>8, <2>1 DEF Logout
  <2>4. FlowFresh(l)
    BY <2>2 DEF FlowFresh, IssueFresh, SaveFresh, Saves
  <2> QED
    BY <1>4, <2>3, <2>4
<1>9. ASSUME NEW op \in Saves, NEW u \in Users, NEW s, NEW p, LoadUser(f, op, u, s, p),
             s # "absent", op \in {"edit", "reset"} => s = employee[u].status,
             op = "reset" => p # None
      PROVE  SessionsSerial'
  <2>1. PICK l : l = [NoFlow EXCEPT !.op = op, !.pc = "loaded", !.user = u,
                                    !.status = s, !.password = p]
    OBVIOUS
  <2>2. /\ l.op = op /\ l.pc = "loaded" /\ l.user = u /\ l.status = s
        /\ l.password = p
    BY <2>1 DEF NoFlow
  <2>3. employee[u].status # "absent" /\ Begin(f, l)
    BY <1>9, <2>1 DEF LoadUser
  <2>4. FlowFresh(l)
    BY <1>5, <1>9, <2>2, <2>3 DEF FlowFresh, IssueFresh, SaveFresh, Saves
  <2> QED
    BY <1>4, <2>3, <2>4
<1>10. ASSUME NEW u \in Users, UpdateUser(f, u) PROVE SessionsSerial'
  BY <1>9, <1>10 DEF UpdateUser, LoadUser, Saves
<1>11. ASSUME NEW u \in Users, NEW s \in AccountStatus, UpdateStatus(f, u, s)
       PROVE  SessionsSerial'
  BY <1>9, <1>11 DEF UpdateStatus, Saves, AccountStatus
<1>12. ASSUME NEW u \in Users, NEW p \in Passwords, ResetPassword(f, u, p)
       PROVE  SessionsSerial'
  BY <1>9, <1>12, SessionAssumption DEF ResetPassword, LoadUser, Saves
<1> QED
  BY <1>6, <1>7, <1>8, <1>10, <1>11, <1>12 DEF StartFlow

LEMMA EndSerial ==
  ASSUME SessionsInv, SessionsSerial, NEW f \in Flows, Others(f),
         flow[f].pc # "saved", End(f), UNCHANGED <<employee, cut>>, NoNewSession
  PROVE  SessionsSerial'
  BY QuietStep, NoFlowFresh DEF End

\* revokeToken, and what follows it.
LEMMA RevokeSerial ==
  ASSUME SessionsInv, SessionsSerial, NEW f \in Flows, Others(f),
         FindToken(f) \/ RevokeToken(f), UNCHANGED cut
  PROVE  SessionsSerial'
<1>1. flow[f].pc \in {"revoking", "found"} /\ UNCHANGED employee /\ FlowFresh(flow[f])
  BY DEF FindToken, RevokeToken, SessionsSerial, FlowsFresh
<1>2. NoNewSession
  <2>1. CASE UNCHANGED token
    BY <2>1, SameSessions
  <2>2. CASE token' = [token EXCEPT ![flow[f].token].status = "revoked"]
    <3>1. ASSUME NEW t \in Tokens
          PROVE  /\ token'[t].parent = token[t].parent
                 /\ token'[t].owner = token[t].owner
                 /\ token'[t].password = token[t].password
                 /\ token'[t].status \in {token[t].status, "revoked"}
      BY <2>2 DEF SessionsInv, SessionsTypeOK, RefreshToken
    <3> QED
      BY <3>1 DEF NoNewSession, Live
  <2> QED
    BY <2>1, <2>2 DEF FindToken, RevokeToken
<1>3. CASE End(f)
  BY <1>1, <1>2, <1>3, EndSerial
<1>4. CASE flow' = [flow EXCEPT ![f].pc = "found"]
  <2>1. PICK l : flow' = [flow EXCEPT ![f] = l] /\ GoesOn(l, f, "found")
    BY <1>4, FlowGoesOn
  <2>2. FlowFresh(l)
    BY <1>1, <2>1 DEF FlowFresh, IssueFresh, SaveFresh, GoesOn, Saves
  <2> QED
    BY <1>1, <1>2, <2>1, <2>2, QuietStep
<1>5. CASE flow[f].op = "refresh" /\ flow' = [flow EXCEPT ![f].pc = "issuing"]
  <2>1. PICK l : flow' = [flow EXCEPT ![f] = l] /\ GoesOn(l, f, "issuing")
    BY <1>5, FlowGoesOn
  <2>2. FlowFresh(l)
    BY <1>1, <1>5, <2>1 DEF FlowFresh, IssueFresh, SaveFresh, GoesOn, Saves
  <2> QED
    BY <1>1, <1>2, <2>1, <2>2, QuietStep
<1> QED
  BY <1>3, <1>4, <1>5 DEF FindToken, RevokeToken, TokenRevoked

\* A new session has the account's password, and it is the first to come
\* from its token.
LEMMA IssueSerial ==
  ASSUME SessionsInv, SessionsSerial, NEW f \in Flows, Others(f),
         NEW t \in Tokens, Issue(f, t), UNCHANGED cut
  PROVE  SessionsSerial'
<1>1. PICK u, l : u = flow[f].user /\ l = flow[f]
  OBVIOUS
<1>2. /\ l.pc = "issuing" /\ l.user = u /\ FlowFresh(l) /\ l.op \in {"login", "refresh"}
      /\ End(f) /\ UNCHANGED employee /\ u \in Users
  BY <1>1 DEF Issue, SessionsSerial, FlowsFresh, FlowFresh, IssueFresh, SessionsInv,
     FlowsSound, Sound
<1>3. CASE employee[u].status = "absent"
  <2>1. UNCHANGED token
    BY <1>1, <1>3 DEF Issue
  <2> QED
    BY <1>1, <1>2, <2>1, SameSessions, EndSerial
<1>4. CASE employee[u].status # "absent"
  <2>1. token' = [token EXCEPT ![t] =
          [status |-> "live", owner |-> u, password |-> l.password, parent |-> l.token]]
    BY <1>1, <1>4 DEF Issue
  <2>2. token'[t] =
          [status |-> "live", owner |-> u, password |-> l.password, parent |-> l.token]
    BY <2>1 DEF SessionsInv, SessionsTypeOK
  <2>3. token'[t].owner = u /\ token'[t].password = l.password /\ token'[t].parent = l.token
    BY <2>2
  <2>4. \A s \in Tokens : s # t => token'[s] = token[s]
    BY <2>1 DEF SessionsInv, SessionsTypeOK
  <2>5. \A s \in Live' : s = t \/ s \in Live
    BY <2>4 DEF Live
  <2>6. employee[u].status = "active" /\ (~cut => l.password = employee[u].password)
    BY <1>2, <1>4 DEF FlowFresh, IssueFresh
  <2>7. AccountsKnown'
    BY <1>2, <1>4, <2>3, <2>4, <2>5 DEF SessionsSerial, AccountsKnown, Live
  <2>8. OneSuccessor'
    <3>1. l.token = None \/ \A s \in Tokens : token[s].parent # l.token
      BY <1>2 DEF FlowFresh, IssueFresh
    <3> QED
      BY <2>3, <2>4, <3>1 DEF SessionsSerial, OneSuccessor
  <2>9. ~cut => SessionsCurrent'
    <3>1. ASSUME ~cut, NEW s \in Live' PROVE Current(s)'
      <4>1. CASE s = t
        BY <1>2, <2>3, <2>6, <3>1, <4>1 DEF Current
      <4>2. CASE s # t
        <5>1. Current(s)
          BY <1>1, <1>2, <2>5, <3>1, <4>2, AllCurrent
        <5>2. s \in Tokens
          BY DEF Live
        <5> QED
          BY <1>2, <2>4, <4>2, <5>1, <5>2 DEF Current
      <4> QED
        BY <4>1, <4>2
    <3> QED
      BY <3>1 DEF SessionsCurrent
  <2>10. FlowFresh(NoFlow)'
    BY DEF FlowFresh, IssueFresh, SaveFresh, NoFlow, Saves
  <2> QED
    BY <1>2, <2>7, <2>8, <2>9, <2>10, SerialAgain DEF End
<1> QED
  BY <1>3, <1>4

\* save() compares: it writes a status only if the account was saved to have
\* another, and inserts a removed account only for a reset.
LEMMA CompareSerial ==
  ASSUME SessionsInv, SessionsSerial, NEW f \in Flows, Others(f),
         CompareUser(f), UNCHANGED cut
  PROVE  SessionsSerial'
<1>1. PICK u : u = flow[f].user
  OBVIOUS
<1>2. /\ flow[f].pc = "loaded" /\ UNCHANGED <<employee, token>>
      /\ FlowFresh(flow[f]) /\ NoNewSession
  BY SameSessions DEF CompareUser, SessionsSerial, FlowsFresh
<1>3. CASE employee[u].status # "absent"
           /\ flow' = [flow EXCEPT ![f].pc = "compared",
                         ![f].dirty = flow[f].status # employee[u].status]
  <2>1. flow[f] \in Flow
    BY DEF SessionsInv, SessionsTypeOK
  <2>2. PICK l : l = [flow[f] EXCEPT !.pc = "compared",
                        !.dirty = flow[f].status # employee[u].status]
    OBVIOUS
  <2>3. flow' = [flow EXCEPT ![f] = l]
    BY <1>3, <2>2
  <2>4. /\ l.pc = "compared" /\ l.op = flow[f].op /\ l.user = u
        /\ l.status = flow[f].status /\ l.password = flow[f].password
        /\ l.token = flow[f].token
    BY <1>1, <2>1, <2>2 DEF Flow
  <2>5. l.dirty = (flow[f].status # employee[u].status)
    BY <2>1, <2>2 DEF Flow
  <2>6. l.op \in {"edit", "reset"} => ~l.dirty
    BY <1>1, <1>2, <1>3, <2>4, <2>5 DEF FlowFresh, SaveFresh
  <2>7. FlowFresh(l)
    BY <1>1, <1>2, <2>4, <2>6 DEF FlowFresh, IssueFresh, SaveFresh, Saves
  <2> QED
    BY <1>2, <2>3, <2>7, QuietStep
<1>4. CASE flow[f].op = "reset" /\ flow' = [flow EXCEPT ![f].pc = "missing"]
  <2>1. PICK l : flow' = [flow EXCEPT ![f] = l] /\ GoesOn(l, f, "missing")
    BY <1>4, FlowGoesOn
  <2>2. FlowFresh(l)
    BY <1>2, <1>4, <2>1 DEF FlowFresh, IssueFresh, SaveFresh, GoesOn, Saves
  <2> QED
    BY <1>2, <2>1, <2>2, QuietStep
<1>5. CASE End(f)
  BY <1>2, <1>5, EndSerial
<1> QED
  BY <1>1, <1>3, <1>4, <1>5 DEF CompareUser

\* f writes the row of u, and the sessions of u are current or about to end.
LEMMA RowSerial ==
  ASSUME SessionsInv, SessionsSerial, NEW f \in Flows, Others(f),
         flow[f].pc # "saved", UNCHANGED <<token, cut>>,
         NEW l, flow' = [flow EXCEPT ![f] = l], FlowFresh(l)',
         NEW u \in Users, \A v \in Users \ {u} : employee'[v] = employee[v],
         employee'[u].status # "absent", employee'[u].password # None,
         \/ l.pc = "saved" /\ l.user = u
         \/ employee[u].status = "absent"
         \/ /\ employee[u].status = "active" => employee'[u].status = "active"
            /\ employee'[u].password = employee[u].password
  PROVE  SessionsSerial'
<1>1. \A t \in Live : t \in Tokens /\ token[t].owner \in Users
                      /\ employee[token[t].owner].status # "absent"
  BY DEF SessionsInv, TokensOwned, Live, SessionsSerial, AccountsKnown
<1>2. Live' = Live
  BY DEF Live
<1>3. AccountsKnown'
  BY <1>1, <1>2 DEF SessionsSerial, AccountsKnown
<1>4. OneSuccessor'
  BY DEF SessionsSerial, OneSuccessor
<1>5. ASSUME ~cut, NEW t \in Live PROVE (Current(t) \/ Ending(token[t].owner))'
  <2>1. Current(t)
    BY <1>5, AllCurrent
  <2>2. CASE token[t].owner # u
    BY <1>1, <2>1, <2>2 DEF Current
  <2>3. CASE token[t].owner = u /\ l.pc = "saved" /\ l.user = u
    <3>1. flow'[f] = l
      BY DEF SessionsInv, SessionsTypeOK
    <3> QED
      BY <2>3, <3>1 DEF Ending
  <2>4. CASE token[t].owner = u /\ ~(l.pc = "saved" /\ l.user = u)
    BY <1>1, <2>1, <2>4 DEF Current
  <2> QED
    BY <2>2, <2>3, <2>4
<1>6. ~cut' => SessionsCurrent'
  BY <1>2, <1>5 DEF SessionsCurrent
<1> QED
  BY <1>3, <1>4, <1>6, SerialAgain

LEMMA NoFlowStaysFresh == FlowFresh(NoFlow)'
  BY DEF FlowFresh, IssueFresh, SaveFresh, NoFlow, Saves

\* A reset inserts the account again; there were no sessions of it.
LEMMA InsertSerial ==
  ASSUME SessionsInv, SessionsSerial, NEW f \in Flows, Others(f),
         InsertUser(f), UNCHANGED cut
  PROVE  SessionsSerial'
<1>1. PICK u : u = flow[f].user
  OBVIOUS
<1>2. /\ flow[f].pc = "missing" /\ UNCHANGED token /\ flow[f].op = "reset"
      /\ FlowFresh(flow[f]) /\ NoNewSession /\ u \in Users
  BY <1>1, SameSessions DEF InsertUser, SessionsSerial, FlowsFresh, FlowFresh, SaveFresh,
     SessionsInv, FlowsSound, Sound
<1>3. CASE employee[u].status = "absent"
  <2>1. /\ employee' = [employee EXCEPT ![u] =
             [status |-> flow[f].status, password |-> flow[f].password]]
        /\ flow' = [flow EXCEPT ![f].pc = "saved"]
    BY <1>1, <1>2, <1>3 DEF InsertUser, UserSaved
  <2>2. PICK l : flow' = [flow EXCEPT ![f] = l] /\ GoesOn(l, f, "saved")
    BY <2>1, FlowGoesOn
  <2>3. employee'[u] = [status |-> flow[f].status, password |-> flow[f].password]
    BY <1>2, <2>1 DEF SessionsInv, SessionsTypeOK
  <2>4. employee'[u].status # "absent" /\ employee'[u].password # None
    BY <1>2, <2>3 DEF FlowFresh, SaveFresh, Saves
  <2>5. \A v \in Users \ {u} : employee'[v] = employee[v]
    BY <2>1 DEF SessionsInv, SessionsTypeOK
  <2>6. FlowFresh(l)'
    BY <1>1, <1>2, <2>2, <2>4 DEF FlowFresh, IssueFresh, SaveFresh, GoesOn, Saves
  <2> QED
    BY <1>1, <1>2, <1>3, <2>2, <2>4, <2>5, <2>6, RowSerial
<1>4. CASE employee[u].status # "absent"
  <2>1. End(f) /\ UNCHANGED employee
    BY <1>1, <1>4 DEF InsertUser
  <2> QED
    BY <1>2, <2>1, EndSerial
<1> QED
  BY <1>3, <1>4

\* Saving the account ends no sessions.
SavesOnly(f) == ~(flow[f].op = "reset" \/ (flow[f].op = "status"
                                             /\ flow[f].status = "inactive"))

\* Where the account is written, it stays active with its password, or the
\* handler goes on to end its sessions.
LEMMA WriteSerial ==
  ASSUME SessionsInv, SessionsSerial, NEW f \in Flows, Others(f),
         WriteUser(f), UNCHANGED cut
  PROVE  SessionsSerial'
<1>1. PICK u : u = flow[f].user
  OBVIOUS
<1>2. /\ flow[f].pc = "compared" /\ UNCHANGED token /\ flow[f].op \in Saves
      /\ FlowFresh(flow[f]) /\ NoNewSession /\ u \in Users
  BY <1>1, SameSessions DEF WriteUser, SessionsSerial, FlowsFresh, FlowFresh, SaveFresh,
     SessionsInv, FlowsSound, Sound, Saves
<1>3. PICK l : /\ flow' = [flow EXCEPT ![f] = l]
               /\ IF SavesOnly(f) THEN l = NoFlow ELSE GoesOn(l, f, "saved")
  <2>1. CASE SavesOnly(f)
    BY <2>1 DEF WriteUser, UserSaved, End, SavesOnly
  <2>2. CASE ~SavesOnly(f)
    BY <2>2, FlowGoesOn DEF WriteUser, UserSaved, SavesOnly
  <2> QED
    BY <2>1, <2>2
<1>4. CASE employee[u].status = "absent"
  <2>1. UNCHANGED employee
    BY <1>1, <1>4 DEF WriteUser
  <2>2. FlowFresh(l)
    BY <1>1, <1>2, <1>3, NoFlowFresh
       DEF FlowFresh, IssueFresh, SaveFresh, GoesOn, Saves
  <2> QED
    BY <1>2, <1>3, <2>1, <2>2, QuietStep
<1>5. CASE employee[u].status # "absent"
  <2>1. employee' = [employee EXCEPT
             ![u].status = IF flow[f].dirty THEN flow[f].status ELSE @,
             ![u].password = IF flow[f].op = "reset" THEN flow[f].password ELSE @]
    BY <1>1, <1>5 DEF WriteUser
  <2>2. employee[u] \in Employee /\ flow[f] \in Flow
    BY <1>2 DEF SessionsInv, SessionsTypeOK
  <2>3. /\ employee'[u].status = IF flow[f].dirty THEN flow[f].status
                                                  ELSE employee[u].status
        /\ employee'[u].password = IF flow[f].op = "reset" THEN flow[f].password
                                                           ELSE employee[u].password
    BY <1>2, <2>1, <2>2 DEF SessionsInv, SessionsTypeOK, Employee
  <2>4. \A v \in Users \ {u} : employee'[v] = employee[v]
    BY <2>1 DEF SessionsInv, SessionsTypeOK
  <2>5. employee'[u].status # "absent" /\ employee'[u].password # None
    BY <1>2, <1>5, <2>3
       DEF FlowFresh, SaveFresh, Saves, SessionsSerial, AccountsKnown
  <2>6. SavesOnly(f) => /\ employee[u].status = "active" => employee'[u].status = "active"
                /\ employee'[u].password = employee[u].password
    BY <1>2, <1>5, <2>2, <2>3
       DEF FlowFresh, SaveFresh, Saves, Flow, AccountStatus, SavesOnly
  <2>7. CASE SavesOnly(f)
    BY <1>2, <1>3, <2>4, <2>5, <2>6, <2>7, RowSerial, NoFlowStaysFresh
  <2>8. CASE ~SavesOnly(f)
    <3>1. FlowFresh(l)'
      BY <1>1, <1>2, <1>3, <2>5, <2>8
         DEF FlowFresh, IssueFresh, SaveFresh, GoesOn, Saves
    <3> QED
      BY <1>1, <1>2, <1>3, <2>4, <2>5, <2>8, <3>1, RowSerial DEF GoesOn
  <2> QED
    BY <2>7, <2>8
<1> QED
  BY <1>4, <1>5

\* The sessions about to end do.
LEMMA RevokeAllSerial ==
  ASSUME SessionsInv, SessionsSerial, NEW f \in Flows, Others(f),
         RevokeAll(f), UNCHANGED cut
  PROVE  SessionsSerial'
<1>1. PICK u : u = flow[f].user
  OBVIOUS
<1>2. End(f) /\ UNCHANGED employee
  BY DEF RevokeAll
<1>3. ASSUME NEW t \in Tokens
      PROVE  /\ token'[t].parent = token[t].parent
             /\ token'[t].owner = token[t].owner
             /\ token'[t].password = token[t].password
             /\ token'[t].status = "live" =>
                  token[t].status = "live" /\ token[t].owner # u
  BY <1>1 DEF RevokeAll, TokensOf, SessionsInv, SessionsTypeOK, RefreshToken
<1>4. NoNewSession
  BY <1>3 DEF NoNewSession, Live
<1>5. ASSUME ~cut, NEW t \in Live' PROVE Current(t)'
  <2>1. t \in Live /\ t \in Tokens /\ token[t].owner # u
    BY <1>3 DEF Live
  <2>2. ~Ending(token[t].owner)
    BY <1>1, <2>1 DEF Ending, Others, Idle
  <2>3. Current(t)
    BY <1>5, <2>1, <2>2 DEF SessionsSerial, SessionsCurrent
  <2> QED
    BY <1>2, <1>3, <2>1, <2>3 DEF Current
<1>6. ~cut' => SessionsCurrent'
  BY <1>5 DEF SessionsCurrent
<1> QED
  BY <1>2, <1>4, <1>6, NoneNew, NoFlowStaysFresh, SerialAgain DEF End

\* A handler that is cut off leaves the others' sessions as they are.
LEMMA CutSerial ==
  ASSUME SessionsInv, SessionsSerial, NEW f \in Flows, Others(f),
         CutOff(f), cut' = TRUE
  PROVE  SessionsSerial'
<1>1. End(f) /\ UNCHANGED <<employee, token>>
  BY DEF CutOff
<1> QED
  BY <1>1, SameSessions, NoneNew, NoFlowStaysFresh, SerialAgain DEF End

-----------------------------------------------------------------------------
(* The statements that need no slot.                                       *)

LEMMA FlowsFreshAgain ==
  ASSUME UNCHANGED flow, \A l : FlowFresh(l) => FlowFresh(l)', FlowsFresh
  PROVE  FlowsFresh'
<1>1. ASSUME NEW f \in Flows PROVE FlowFresh(flow[f])'
  <2>1. PICK l : l = flow[f]
    OBVIOUS
  <2>2. FlowFresh(l)'
    BY <2>1 DEF FlowsFresh
  <2> QED
    BY <2>1, <2>2 DEF FlowFresh, IssueFresh, SaveFresh
<1> QED
  BY <1>1 DEF FlowsFresh

LEMMA ExpireSerial ==
  ASSUME SessionsInv, SessionsSerial, NEW t \in Tokens, Expire(t), UNCHANGED cut
  PROVE  SessionsSerial'
<1>1. UNCHANGED <<employee, flow>>
  BY DEF Expire
<1>2. ASSUME NEW s \in Tokens
      PROVE  /\ token'[s].parent = token[s].parent
             /\ token'[s].owner = token[s].owner
             /\ token'[s].password = token[s].password
             /\ token'[s].status = "live" => token[s].status = "live"
  BY DEF Expire, SessionsInv, SessionsTypeOK, RefreshToken
<1>3. NoNewSession
  BY <1>2 DEF NoNewSession, Live
<1>4. \A l : FlowFresh(l) => FlowFresh(l)'
  BY <1>1, <1>3, FreshStays
<1>5. ASSUME ~cut, NEW s \in Live' PROVE (Current(s) \/ Ending(token[s].owner))'
  <2>1. s \in Live /\ s \in Tokens
    BY <1>2 DEF Live
  <2>2. Current(s) \/ Ending(token[s].owner)
    BY <1>5, <2>1 DEF SessionsSerial, SessionsCurrent
  <2> QED
    BY <1>1, <1>2, <2>1, <2>2 DEF Current, Ending
<1>6. ~cut' => SessionsCurrent'
  BY <1>5 DEF SessionsCurrent
<1>7. OneFlow' /\ FlowsFresh'
  BY <1>1, <1>4, FlowsFreshAgain DEF SessionsSerial, OneFlow, Idle
<1> QED
  BY <1>1, <1>3, <1>6, <1>7, NoneNew DEF SessionsSerial

LEMMA RemoveSerial ==
  ASSUME SessionsInv, SessionsSerial, NEW u \in Users, RemoveUser(u), UNCHANGED cut
  PROVE  SessionsSerial'
<1>1. UNCHANGED flow
  BY DEF RemoveUser
<1>2. ASSUME NEW s \in Tokens
      PROVE  /\ token'[s].parent = token[s].parent
             /\ token'[s].owner = token[s].owner
             /\ token'[s].password = token[s].password
             /\ token'[s].status = "live" =>
                  token[s].status = "live" /\ token[s].owner # u
  BY DEF RemoveUser, TokensOf, SessionsInv, SessionsTypeOK, RefreshToken
<1>3. /\ \A v \in Users \ {u} : employee'[v] = employee[v]
      /\ employee'[u].status = "absent"
      /\ employee'[u].password = employee[u].password
  BY DEF RemoveUser, SessionsInv, SessionsTypeOK, Employee
<1>4. ASSUME NEW v
      PROVE  /\ employee'[v].password = employee[v].password
             /\ employee'[v].status \in {employee[v].status, "absent"}
  <2>1. CASE v \in Users
    BY <1>3, <2>1
  <2>2. CASE v \notin Users
    BY <2>2 DEF RemoveUser, SessionsInv, SessionsTypeOK
  <2> QED
    BY <2>1, <2>2
<1>5. \A l : FlowFresh(l) => FlowFresh(l)'
  <2>1. ASSUME NEW l, FlowFresh(l) PROVE IssueFresh(l)'
    BY <1>2, <1>4, <2>1 DEF FlowFresh, IssueFresh
  <2>2. ASSUME NEW l, FlowFresh(l) PROVE SaveFresh(l)'
    BY <1>4, <2>2 DEF FlowFresh, SaveFresh
  <2> QED
    BY <1>4, <2>1, <2>2 DEF FlowFresh
<1>6. \A s \in Live' : s \in Live /\ s \in Tokens /\ token[s].owner # u
                       /\ token[s].owner \in Users
  BY <1>2 DEF Live, SessionsInv, TokensOwned
<1>7. AccountsKnown'
  BY <1>2, <1>3, <1>6 DEF SessionsSerial, AccountsKnown
<1>8. OneSuccessor'
  BY <1>2 DEF SessionsSerial, OneSuccessor
<1>9. ASSUME ~cut, NEW s \in Live' PROVE (Current(s) \/ Ending(token[s].owner))'
  <2>1. Current(s) \/ Ending(token[s].owner)
    BY <1>6, <1>9 DEF SessionsSerial, SessionsCurrent
  <2> QED
    BY <1>1, <1>2, <1>3, <1>6, <2>1 DEF Current, Ending
<1>10. ~cut' => SessionsCurrent'
  BY <1>9 DEF SessionsCurrent
<1>11. OneFlow' /\ FlowsFresh'
  BY <1>1, <1>5, FlowsFreshAgain DEF SessionsSerial, OneFlow, Idle
<1> QED
  BY <1>7, <1>8, <1>10, <1>11 DEF SessionsSerial

\* A new account has no session, and no handler has read it.
LEMMA CreateSerial ==
  ASSUME SessionsInv, SessionsSerial, NEW u \in Users, NEW s \in AccountStatus,
         NEW p \in Passwords, CreateUser(u, s, p), UNCHANGED cut
  PROVE  SessionsSerial'
<1>1. UNCHANGED <<token, flow>> /\ employee[u].status = "absent"
      /\ employee[u].password = None
  BY DEF CreateUser, FreeUsers, NoEmployee
<1>2. employee' = [employee EXCEPT ![u] = [status |-> s, password |-> p]]
  BY DEF CreateUser
<1>3. employee'[u] = [status |-> s, password |-> p]
  BY <1>2 DEF SessionsInv, SessionsTypeOK
<1>4. employee'[u].status # "absent" /\ employee'[u].password # None
  BY <1>3, SessionAssumption DEF AccountStatus
<1>5. \A v : v # u => employee'[v] = employee[v]
  BY <1>2 DEF SessionsInv, SessionsTypeOK
<1>6. \A l : FlowFresh(l) => FlowFresh(l)'
  <2>1. ASSUME NEW l, FlowFresh(l), l.op \notin {"none", "logout"} PROVE FlowFresh(l)'
    <3>1. l.user # u /\ employee'[l.user] = employee[l.user]
      BY <1>1, <1>5, <2>1 DEF FlowFresh
    <3> QED
      BY <1>1, <2>1, <3>1 DEF FlowFresh, IssueFresh, SaveFresh
  <2>2. ASSUME NEW l, FlowFresh(l), l.op \in {"none", "logout"} PROVE FlowFresh(l)'
    BY <1>1, <2>2 DEF FlowFresh, IssueFresh, SaveFresh, Saves
  <2> QED
    BY <2>1, <2>2
<1>7. Live' = Live /\ \A t \in Live : token[t].owner # u
  BY <1>1 DEF Live, SessionsSerial, AccountsKnown
<1>8. AccountsKnown'
  BY <1>1, <1>4, <1>5, <1>7 DEF SessionsSerial, AccountsKnown
<1>9. OneSuccessor'
  BY <1>1 DEF SessionsSerial, OneSuccessor
<1>10. ~cut' => SessionsCurrent'
  BY <1>1, <1>5, <1>7 DEF SessionsSerial, SessionsCurrent, Current, Ending
<1>11. OneFlow' /\ FlowsFresh'
  BY <1>1, <1>6, FlowsFreshAgain DEF SessionsSerial, OneFlow, Idle
<1> QED
  BY <1>8, <1>9, <1>10, <1>11 DEF SessionsSerial

-----------------------------------------------------------------------------
(* What holds of handlers that do not overlap.                             *)

LEMMA SerialSessionsInit == SerialInit => SerialSessionsInv
<1> SUFFICES ASSUME SerialInit PROVE SerialSessionsInv
  OBVIOUS
<1>1. SessionsInv
  BY InvInit DEF SerialInit
<1>2. /\ \A f \in Flows : flow[f] = NoFlow /\ Idle(f)
      /\ \A t \in Tokens : token[t].status = "absent" /\ token[t].parent = None
      /\ \A u \in Users : employee[u].status # "absent" => employee[u].password # None
  BY SessionAssumption
     DEF SerialInit, SessionsInit, NoFlow, NoToken, NoEmployee, Idle
<1>3. OneFlow /\ OneSuccessor
  BY <1>2 DEF OneFlow, OneSuccessor
<1>4. Live = {}
  BY <1>2 DEF Live
<1>5. AccountsKnown /\ SessionsCurrent
  BY <1>2, <1>4 DEF AccountsKnown, SessionsCurrent
<1>6. FlowsFresh
  BY <1>2, NoFlowFresh DEF FlowsFresh
<1> QED
  BY <1>1, <1>3, <1>5, <1>6 DEF SerialSessionsInv, SessionsSerial

LEMMA SerialIsNext == SerialNext => SessionsNext /\ UNCHANGED overlap
  BY DEF SerialNext, SerialStep, StartAlone, SessionsNext, SessionsStep

LEMMA AloneIfBusy ==
  ASSUME OneFlow, NEW f \in Flows, ~Idle(f)
  PROVE  Others(f)
  BY DEF OneFlow, Others

\* A handler that goes on, or is cut off, is the only one in flight.
LEMMA ContinueSerial ==
  ASSUME SessionsInv, SessionsSerial, NEW f \in Flows, ContinueFlow(f), UNCHANGED cut
  PROVE  SessionsSerial'
<1>1. ~Idle(f)
  BY DEF ContinueFlow, FindToken, RevokeToken, Issue, CompareUser, WriteUser, InsertUser,
     RevokeAll, Idle
<1>2. Others(f)
  BY <1>1, AloneIfBusy DEF SessionsSerial
<1> QED
  BY <1>2, RevokeSerial, IssueSerial, CompareSerial, WriteSerial, InsertSerial,
     RevokeAllSerial DEF ContinueFlow

LEMMA SerialSessionsStep ==
  SerialSessionsInv /\ [SerialNext]_serialVars => SerialSessionsInv'
<1> SUFFICES ASSUME SerialSessionsInv, [SerialNext]_serialVars
             PROVE  SerialSessionsInv'
  OBVIOUS
<1>1. SessionsInv' /\ UNCHANGED overlap
  BY InvStep, SerialIsNext DEF SerialSessionsInv, serialVars, sessionVars
<1>2. ASSUME ~overlap PROVE SessionsSerial'
  <2>1. SessionsInv /\ SessionsSerial
    BY <1>2 DEF SerialSessionsInv
  <2>2. CASE AtOnce /\ UNCHANGED cut
    BY <2>1, <2>2, CreateSerial, RemoveSerial, ExpireSerial DEF AtOnce
  <2>3. ASSUME NEW f \in Flows, StartAlone(f), UNCHANGED cut PROVE SessionsSerial'
    BY <1>2, <2>1, <2>3, StartSerial DEF StartAlone
  <2>4. ASSUME NEW f \in Flows, ContinueFlow(f), UNCHANGED cut PROVE SessionsSerial'
    BY <2>1, <2>4, ContinueSerial
  <2>5. ASSUME NEW f \in Flows, CutOff(f), cut' = TRUE PROVE SessionsSerial'
    <3>1. Others(f)
      BY <2>1, <2>5, AloneIfBusy DEF CutOff, SessionsSerial
    <3> QED
      BY <2>1, <2>5, <3>1, CutSerial
  <2>6. CASE UNCHANGED serialVars
    BY <2>1, <2>6 DEF serialVars, sessionVars, SessionsSerial, OneFlow, Idle, AccountsKnown,
       Live, FlowsFresh, FlowFresh, IssueFresh, SaveFresh, OneSuccessor, SessionsCurrent,
       Current, Ending
  <2> QED
    BY <2>2, <2>3, <2>4, <2>5, <2>6 DEF SerialNext, SerialStep
<1> QED
  BY <1>1, <1>2 DEF SerialSessionsInv

\* The inductive invariant of handlers that do not overlap.
THEOREM SerialSessionsInvariance == SerialSpec => []SerialSessionsInv
BY SerialSessionsInit, SerialSessionsStep, PTL DEF SerialSpec

LEMMA IdleIsCurrent ==
  ASSUME SerialSessionsInv, ~overlap, AllIdle, ~cut
  PROVE  \A t \in Live : Current(t)
<1>1. \A u : ~Ending(u)
  BY DEF Ending, AllIdle, Idle
<1> QED
  BY <1>1 DEF SerialSessionsInv, SessionsSerial, SessionsCurrent

\* Once every handler has answered, and if none was cut off, each session that
\* can be refreshed began with the account's present password: a reset has
\* ended the others.
THEOREM ResetEndsSessions == SerialSpec => []SerialPasswordHolds
<1>1. SerialSessionsInv => SerialPasswordHolds
  BY IdleIsCurrent DEF SerialPasswordHolds, SessionsHaveCurrentPassword, Current
<1> QED
  BY <1>1, SerialSessionsInvariance, PTL

\* Likewise, each belongs to an active account: a deactivation has ended its
\* sessions, whatever accounts were created or removed meanwhile.
THEOREM DeactivationEndsSessions == SerialSpec => []InactiveHasNoSession
<1>1. SerialSessionsInv => InactiveHasNoSession
  BY IdleIsCurrent DEF InactiveHasNoSession, Current
<1> QED
  BY <1>1, SerialSessionsInvariance, PTL

\* A token has one successor at most, even if a refresh is repeated after one
\* that was cut off half way.
THEOREM SuccessorIsUnique == SerialSpec => []SerialOneSuccessor
<1>1. SerialSessionsInv => SerialOneSuccessor
  BY DEF SerialSessionsInv, SessionsSerial, SerialOneSuccessor
<1> QED
  BY <1>1, SerialSessionsInvariance, PTL

LEMMA OnlyIssueAdds ==
  ASSUME SessionsInv, SerialNext, NEW t \in Tokens, token[t].status = "absent",
         token'[t].status = "live"
  PROVE  \E f \in Flows : Issue(f, t) /\ employee[flow[f].user].status # "absent"
                          /\ token'[t].owner = flow[f].user
<1>1. ASSUME NEW f \in Flows, RevokeToken(f) PROVE FALSE
  BY <1>1 DEF RevokeToken, SessionsInv, SessionsTypeOK, RefreshToken
<1>2. ASSUME NEW f \in Flows, RevokeAll(f) PROVE FALSE
  BY <1>2 DEF RevokeAll, SessionsInv, SessionsTypeOK, RefreshToken
<1>3. ASSUME NEW u \in Users, RemoveUser(u) PROVE FALSE
  BY <1>3 DEF RemoveUser, SessionsInv, SessionsTypeOK, RefreshToken
<1>4. ASSUME NEW s \in Tokens, Expire(s) PROVE FALSE
  BY <1>4 DEF Expire, SessionsInv, SessionsTypeOK, RefreshToken
<1>5. ASSUME UNCHANGED token PROVE FALSE
  BY <1>5
<1>6. ASSUME NEW f \in Flows, NEW s \in Tokens, Issue(f, s)
      PROVE  s = t /\ employee[flow[f].user].status # "absent"
             /\ token'[t].owner = flow[f].user
  <2>1. employee[flow[f].user].status # "absent"
    BY <1>5, <1>6 DEF Issue
  <2>2. token' = [token EXCEPT ![s] =
          [status |-> "live", owner |-> flow[f].user, password |-> flow[f].password,
           parent |-> flow[f].token]]
    BY <1>6, <2>1 DEF Issue
  <2> QED
    BY <2>1, <2>2 DEF SessionsInv, SessionsTypeOK
<1>7. ASSUME NEW f \in Flows, StartFlow(f) PROVE FALSE
  BY <1>5, <1>7, StartReads
<1>8. ASSUME NEW f \in Flows, FindToken(f) \/ CompareUser(f) \/ WriteUser(f)
                              \/ InsertUser(f) \/ CutOff(f)
      PROVE FALSE
  BY <1>5, <1>8 DEF FindToken, CompareUser, WriteUser, InsertUser, CutOff
<1>9. ASSUME NEW u \in Users, NEW s \in AccountStatus, NEW p \in Passwords,
             CreateUser(u, s, p)
      PROVE  FALSE
  BY <1>5, <1>9 DEF CreateUser
<1> QED
  BY <1>1, <1>2, <1>3, <1>4, <1>6, <1>7, <1>8, <1>9
     DEF SerialNext, SerialStep, StartAlone, ContinueFlow, AtOnce

\* An inactive account gets no new session, even if the handler that
\* deactivated it was cut off before it revoked the others.
THEOREM InactiveGetsNone == SerialSpec => SerialInactiveGetsNone
<1>1. SerialSessionsInv /\ [SerialNext]_serialVars =>
        [~overlap => \A t \in Tokens : OnlyActiveGets(t)]_sessionVars
  <2> SUFFICES ASSUME SerialSessionsInv, SerialNext, ~overlap, NEW t \in Tokens,
                      token[t].status = "absent", token'[t].status = "live"
               PROVE  employee[token'[t].owner].status = "active"
    BY DEF OnlyActiveGets, serialVars
  <2>1. PICK f \in Flows : /\ Issue(f, t) /\ employee[flow[f].user].status # "absent"
                           /\ token'[t].owner = flow[f].user
    BY OnlyIssueAdds DEF SerialSessionsInv
  <2>2. IssueFresh(flow[f]) /\ flow[f].pc = "issuing"
    BY <2>1 DEF SerialSessionsInv, SessionsSerial, FlowsFresh, FlowFresh, Issue
  <2> QED
    BY <2>1, <2>2 DEF IssueFresh
<1> QED
  BY <1>1, SerialSessionsInvariance, PTL DEF SerialSpec, SerialInactiveGetsNone

\* A deactivation holds: only a status update makes the account active again,
\* for another change does not write the status back.
THEOREM DeactivationHolds == SerialSpec => SerialDeactivationHolds
<1>1. SerialSessionsInv /\ [SerialNext]_serialVars =>
        [~overlap => \A u \in Users : OnlyStatusUpdateActivates(u)]_sessionVars
  <2> SUFFICES ASSUME SerialSessionsInv, SerialNext, ~overlap, NEW u \in Users,
                      employee[u].status = "inactive", employee'[u].status = "active"
               PROVE  \E f \in Flows : flow[f].op = "status" /\ flow[f].user = u
    BY DEF OnlyStatusUpdateActivates, serialVars
  <2>1. employee \in [Users -> Employee]
    BY DEF SerialSessionsInv, SessionsInv, SessionsTypeOK
  <2>2. ASSUME UNCHANGED employee PROVE FALSE
    BY <2>2
  <2>3. ASSUME NEW f \in Flows, StartFlow(f) PROVE FALSE
    BY <2>2, <2>3, StartReads
  <2>4. ASSUME NEW f \in Flows, FindToken(f) \/ RevokeToken(f) \/ CompareUser(f)
                                \/ RevokeAll(f) \/ CutOff(f)
                                \/ \E t \in Tokens : Issue(f, t)
        PROVE  FALSE
    BY <2>2, <2>4 DEF FindToken, RevokeToken, CompareUser, RevokeAll, CutOff, Issue
  <2>5. ASSUME NEW v \in Users, NEW s \in AccountStatus, NEW p \in Passwords,
               CreateUser(v, s, p)
        PROVE  FALSE
    <3>1. employee[v].status = "absent"
      BY <2>5 DEF CreateUser, FreeUsers, NoEmployee
    <3> QED
      BY <2>1, <2>5, <3>1 DEF CreateUser
  <2>6. ASSUME NEW v \in Users, RemoveUser(v) PROVE FALSE
    BY <2>1, <2>6 DEF RemoveUser, Employee
  <2>7. ASSUME NEW t \in Tokens, Expire(t) PROVE FALSE
    BY <2>2, <2>7 DEF Expire
  <2>8. ASSUME NEW f \in Flows, InsertUser(f) PROVE FALSE
    BY <2>1, <2>2, <2>8 DEF InsertUser
  <2>9. ASSUME NEW f \in Flows, WriteUser(f)
        PROVE  flow[f].op = "status" /\ flow[f].user = u
    <3>1. PICK v : v = flow[f].user
      OBVIOUS
    <3>2. FlowFresh(flow[f]) /\ flow[f].pc = "compared"
      BY <2>9 DEF SerialSessionsInv, SessionsSerial, FlowsFresh, WriteUser
    <3>3. employee[v].status # "absent"
      BY <2>2, <2>9, <3>1 DEF WriteUser
    <3>4. employee' = [employee EXCEPT
               ![v].status = IF flow[f].dirty THEN flow[f].status ELSE @,
               ![v].password = IF flow[f].op = "reset" THEN flow[f].password ELSE @]
      BY <2>9, <3>1, <3>3 DEF WriteUser
    <3>5. u = v /\ flow[f].dirty
      BY <2>1, <3>4 DEF Employee
    <3> QED
      BY <3>1, <3>2, <3>5 DEF FlowFresh, SaveFresh, Saves
  <2> QED
    BY <2>3, <2>4, <2>5, <2>6, <2>7, <2>8, <2>9
       DEF SerialNext, SerialStep, StartAlone, ContinueFlow, AtOnce
<1> QED
  BY <1>1, SerialSessionsInvariance, PTL DEF SerialSpec, SerialDeactivationHolds

=============================================================================
