--------------------------- MODULE SerialRequests ---------------------------
(***************************************************************************)
(* Requests on a server that either lets handlers overlap or, for as long  *)
(* as users wait for each other's answers, runs one at a time, cut off at  *)
(* any point.  What holds only in the second case is stated here.          *)
(***************************************************************************)
EXTENDS Requests

\* Chosen once; no part of the program.
VARIABLE overlap

serialVars == <<requestVars, overlap>>

NoCallInFlight == \A c \in Calls : call[c].pc = "idle"

\* A user calls an endpoint, alone where handlers do not overlap.
ArriveAlone(c) == (overlap \/ NoCallInFlight) /\ Arrive(c)

SerialInit == RequestsInit /\ overlap \in BOOLEAN

SerialNext ==
  /\ \E c \in Calls : ArriveAlone(c) \/ Proceed(c) \/ Interrupt(c)
  /\ UNCHANGED overlap

SerialSpec == SerialInit /\ [][SerialNext]_serialVars

-----------------------------------------------------------------------------

\* When handlers do not overlap, a fulfilled, rejected or procurement-approved
\* request is settled: neither a decision nor a cancellation changes its status.
SerialStaysSettled ==
  [][~overlap => \A r \in Requests : SettledStep(r)]_requestVars

\* SettledHasNoPendingStep, when handlers do not overlap: nobody is asked to
\* decide on a settled request, not even after a crash.
SerialHasNoPendingStep == ~overlap => SettledHasNoPendingStep

\* OneStepPerRole, when handlers do not overlap: a request is routed once to
\* each stage, even one that was cancelled and taken up again.
SerialOneStepPerRole == ~overlap => OneStepPerRole

\* LedgerAgrees, when handlers do not overlap: approvals of two requests
\* that compete for the same assets leave each asset one active assignment.
SerialLedgerAgrees == ~overlap => LedgerAgrees

=============================================================================
