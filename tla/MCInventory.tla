---------------------------- MODULE MCInventory -----------------------------
(* Small instances of Inventory for TLC.                                   *)
EXTENDS Inventory, TLC

\* Identifiers, people and handler slots are interchangeable.
Symmetry ==
  Permutations(Assets) \cup Permutations(Assignments) \cup Permutations(Jobs)
    \cup Permutations(Employees)

\* Requests that procurement has approved and bought for are there from the
\* start, so that assign can fulfil them; their steps, which no handler of
\* Inventory reads, are left out.
BoughtInit ==
  /\ StockInit
  /\ \E u \in Employees :
       request = [r \in Requests |->
         [status |-> "procurement_approved", type |-> "procurement",
          requester |-> u, model |-> None]]
  /\ step = [s \in Steps |-> NoStep]
  /\ job = [j \in Jobs |-> NoJob]

BoughtSpec == BoughtInit /\ [][InventoryNext]_inventoryVars

=============================================================================
