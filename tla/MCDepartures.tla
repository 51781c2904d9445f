---------------------------- MODULE MCDepartures ----------------------------
(* A small instance of Departures for TLC.                                 *)
EXTENDS Departures, TLC

\* Identifiers are interchangeable.
Symmetry ==
  Permutations(Steps) \cup Permutations(Assets) \cup Permutations(Assignments)

=============================================================================
