SPECIFICATION SystemSpec
CONSTANTS
  Requests = {r1}
  Steps = {s1, s2}
  Assets = {a1}
  Assignments = {g1, g2}
  Employees = {emp, boss}
  Models = {m1}
  Managers = {boss}
  ProcurementManagers = {boss}
  None = None
  Calls = {c1}
  Interrupts = FALSE
  MaxCancelled = 1
  Jobs = {j1}
  Crashes = TRUE
  Manual = {"available", "in_use", "maintenance"}
  Overlap = FALSE
SYMMETRY Symmetry
CHECK_DEADLOCK FALSE
INVARIANTS
  StockAgrees
  ProcurementIsBacked
PROPERTIES
  FollowsLifecycle
  AssignmentMovesForward
