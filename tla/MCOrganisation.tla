--------------------------- MODULE MCOrganisation ---------------------------
(* Two accounts, two departments and two calls in flight.  The accounts    *)
(* there are at first can manage; other roles are given by calls.          *)
EXTENDS Organisation, TLC

CONSTANTS e1, e2, d1, d2, h1, h2

Symmetry == Permutations(Employees) \cup Permutations(Departments)
              \cup Permutations(Calls)

MCInit == /\ OrganisationInit
          /\ \A e \in Employees : employee[e].role # "employee"

MCSpec == MCInit /\ [][OrganisationNext]_vars
=============================================================================
