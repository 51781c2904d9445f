SPECIFICATION InventorySpec
CONSTANTS
  Requests = {}
  Steps = {}
  Assets = {a1, a2}
  Assignments = {g1, g2, g3}
  Employees = {e1, e2}
  Models = {m1}
  Managers = {}
  ProcurementManagers = {}
  None = None
  Jobs = {j1}
  Crashes = FALSE
  Manual = {}
SYMMETRY Symmetry
CHECK_DEADLOCK FALSE
INVARIANTS
  RetiredHasNoHolder
