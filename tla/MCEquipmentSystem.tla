-------------------------- MODULE MCEquipmentSystem -------------------------
(* Small instances of EquipmentSystem for TLC.                             *)
EXTENDS EquipmentSystem, TLC

\* Identifiers and handler slots are interchangeable.
Symmetry ==
  Permutations(Steps) \cup Permutations(Assets) \cup Permutations(Assignments)
    \cup Permutations(Calls)

=============================================================================
