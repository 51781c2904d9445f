SPECIFICATION MCSpec
CONSTANTS
  Requests = {1, 2}
  Steps = {1, 2, 3, 4}
  Assets = {a1, a2}
  Assignments = {1, 2, 3}
  Employees = {emp, boss}
  Models = {m1}
  Managers = {boss}
  ProcurementManagers = {boss}
  None = None
  Calls = {c1, c2}
  Interrupts = TRUE
  MaxCancelled = 1
SYMMETRY Symmetry
CHECK_DEADLOCK FALSE
INVARIANTS
  OneStepPerRole
