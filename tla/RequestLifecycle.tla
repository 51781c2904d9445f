-------------------------- MODULE RequestLifecycle --------------------------
(***************************************************************************)
(* What the request workflow does to the status of a request.  `Drawn' is  *)
(* the status flow drawn in docs/database-erd.md, with the type of a       *)
(* request deciding where an approval by procurement leads.  `Revived' is  *)
(* not drawn there, and the code does it: cancelling leaves the step that  *)
(* waits for a decision pending, and a decision does not ask whether the   *)
(* request has been cancelled.                                             *)
(***************************************************************************)
CONSTANTS Requests, None

VARIABLES status, type

lifecycleVars == <<status, type>>

Init == status = [r \in Requests |-> "absent"]
          /\ type = [r \in Requests |-> None]

Move(r, from, to) ==
  /\ status[r] = from
  /\ status' = [status EXCEPT ![r] = to]
  /\ UNCHANGED type

Submit(r, t) ==
  /\ status[r] = "absent"
  /\ status' = [status EXCEPT ![r] = "pending_manager_approval"]
  /\ type' = [type EXCEPT ![r] = t]

ManagerApproves(r) ==
  Move(r, "pending_manager_approval", "pending_procurement_approval")

\* Where an approval by procurement takes a request of type t.
Approval(t) == IF t = "loan" THEN "fulfilled" ELSE "procurement_approved"

ProcurementApproves(r) ==
  Move(r, "pending_procurement_approval", Approval(type[r]))

Fulfil(r) == Move(r, "procurement_approved", "fulfilled")

Close(r) ==
  \E from \in {"pending_manager_approval", "pending_procurement_approval"},
     to \in {"rejected", "cancelled"} : Move(r, from, to)

Drawn ==
  \E r \in Requests :
    \/ \E t \in {"loan", "procurement"} : Submit(r, t)
    \/ ManagerApproves(r)
    \/ ProcurementApproves(r)
    \/ Fulfil(r)
    \/ Close(r)

\* A cancelled request is decided on all the same.
Revive(r) ==
  \E to \in {"rejected", "pending_procurement_approval", Approval(type[r])} :
    Move(r, "cancelled", to)

Revived == \E r \in Requests : Revive(r)

Next == Drawn \/ Revived

Spec == Init /\ [][Next]_lifecycleVars

=============================================================================
