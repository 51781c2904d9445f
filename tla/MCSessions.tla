----------------------------- MODULE MCSessions ------------------------------
(* A small instance of Sessions for TLC.  In half of its behaviours two    *)
(* handlers overlap on one account; in the other half handlers that do not *)
(* overlap serve two.                                                      *)
EXTENDS SerialSessions, TLC

\* Tokens, passwords and handler slots are interchangeable.
Symmetry ==
  Permutations(Tokens) \cup Permutations(Passwords) \cup Permutations(Flows)

\* Bounds: one account where handlers overlap.
Bounds == overlap => employee[2] = NoEmployee

MCInit == SerialInit /\ Bounds

MCNext == SerialNext /\ Bounds'

MCSpec == MCInit /\ [][MCNext]_serialVars

=============================================================================
