--------------------------- MODULE SerialSessions ---------------------------
(***************************************************************************)
(* Sessions on a server that either lets handlers overlap or, for as long  *)
(* as users wait for each other's answers, runs one at a time, cut off at  *)
(* any point.  What holds only in the second case is stated here.          *)
(***************************************************************************)
EXTENDS Sessions

\* No part of the program.
VARIABLES
  overlap,  \* chosen once
  cut       \* TRUE once a handler has been cut off

serialVars == <<sessionVars, overlap, cut>>

SerialInit == SessionsInit /\ overlap \in BOOLEAN /\ cut = FALSE

\* A user calls an endpoint, alone where handlers do not overlap; but an
\* account may be created or removed, and a token expire, at any time.
StartAlone(f) == (overlap \/ AllIdle) /\ StartFlow(f)

SerialStep == AtOnce \/ \E f \in Flows : StartAlone(f) \/ ContinueFlow(f)

SerialNext ==
  /\ \/ SerialStep /\ UNCHANGED cut
     \/ (\E f \in Flows : CutOff(f)) /\ cut' = TRUE
  /\ UNCHANGED overlap

SerialSpec == SerialInit /\ [][SerialNext]_serialVars

-----------------------------------------------------------------------------

\* docs/database-erd.md, auth tokens: a password reset revokes the sessions,
\* so that every session left began with the password of today.
SessionsHaveCurrentPassword ==
  AllIdle /\ ~cut => \A t \in Live :
    token[t].password = employee[token[t].owner].password

\* It does when handlers do not overlap and none has been cut off.
SerialPasswordHolds == ~overlap => SessionsHaveCurrentPassword

\* docs/database-erd.md, auth tokens: deactivation revokes the sessions.  It
\* does when handlers do not overlap and none has been cut off.
InactiveHasNoSession ==
  AllIdle /\ ~cut /\ ~overlap =>
    \A t \in Live : employee[token[t].owner].status = "active"

\* OneSuccessor, when handlers do not overlap: neither a repeated refresh nor
\* one that follows a crash half way makes a second token of one.
SerialOneSuccessor == ~overlap => OneSuccessor

\* When handlers do not overlap, an inactive account gets no new session, even
\* if the one that deactivated it was cut off before it revoked the others.
SerialInactiveGetsNone ==
  [][~overlap => \A t \in Tokens : OnlyActiveGets(t)]_sessionVars

\* When handlers do not overlap, a deactivation holds: saving another change
\* to the account does not write the status back.
SerialDeactivationHolds ==
  [][~overlap => \A u \in Users : OnlyStatusUpdateActivates(u)]_sessionVars

=============================================================================
