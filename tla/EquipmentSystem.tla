-------------------------- MODULE EquipmentSystem ---------------------------
(***************************************************************************)
(* The request workflow and the inventory over the same tables: loans take *)
(* stock that the inventory staff edit, retire and assign meanwhile, and   *)
(* an assignment that names a request fulfils it.                          *)
(***************************************************************************)
EXTENDS Requests, Inventory

\* FALSE: a handler starts only when no other is in flight.
CONSTANT Overlap

ASSUME OverlapAssumption == Overlap \in BOOLEAN

\* The assets that a handler has left at odds with their assignments; no part
\* of the program, a record of what happened.
VARIABLE apart

systemVars == <<tables, call, job, apart>>

SystemInit == RequestsInit /\ InventoryInit /\ apart = {}

Quiet == AtRest /\ \A c \in Calls : call[c].pc = "idle"

WorkflowStep ==
  /\ \E c \in Calls :
       \/ (Overlap \/ Quiet) /\ Arrive(c)
       \/ Proceed(c)
       \/ Interrupt(c)
  /\ UNCHANGED <<job, apart>>

\* The asset to which a step of j gives a status the staff have set by hand,
\* and that its assignments belie.
Belied(j) ==
  {a \in Assets : /\ job[j].op \in {"none", "save"}
                  /\ asset'[a].status # asset[a].status
                  /\ ~Agrees(a)'}

\* The asset that j has saved before the assignment that goes with it.
HalfSaved(j) ==
  {a \in Assets : job[j].asset = a /\ job[j].pc \in {"saved", "found", "matched"}}

InventoryStep ==
  /\ \E j \in Jobs :
       \/ (Overlap \/ Quiet) /\ StartJob(j) /\ apart' = apart \cup Belied(j)
       \/ ContinueJob(j) /\ apart' = apart \cup Belied(j)
       \/ CutOff(j) /\ apart' = apart \cup HalfSaved(j)
  /\ UNCHANGED call

SystemNext == WorkflowStep \/ InventoryStep

SystemSpec == SystemInit /\ [][SystemNext]_systemVars

-----------------------------------------------------------------------------
(* Properties, beyond those of the two parts.                              *)

\* A request that procurement bought for is fulfilled by an assignment that
\* names it, even when the handler that assigns is cut off half way.
ProcurementIsBacked ==
  \A r \in Requests :
    request[r].status = "fulfilled" /\ request[r].type = "procurement" =>
      AssignmentsOf(r) # {}

\* Stock that the workflow hands out and stock that the inventory staff hand
\* out never collide: with handlers that do not overlap, and whenever none of
\* the inventory is in flight, an asset and its assignments tell the same
\* story, unless the handler of an assign or of a return was once cut off
\* between saving the asset and the assignment, or the staff once gave the
\* asset a status by hand that its assignments belied.
StockAgrees == AtRest => \A a \in Assets \ apart : Agrees(a)

\* The request table, seen through its status and type columns.
Lifecycle == INSTANCE RequestLifecycle WITH
  status <- [r \in Requests |-> request[r].status],
  type <- [r \in Requests |->
             IF request[r].status = "absent" THEN None ELSE request[r].type]

\* With the assignments that fulfil procurement requests, handlers that do not
\* overlap take requests through the status flow of the documentation, or
\* decide on one that was cancelled, and do nothing else to a status.
FollowsLifecycle == Lifecycle!Spec

=============================================================================
