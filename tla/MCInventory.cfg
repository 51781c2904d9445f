SPECIFICATION BoughtSpec
CONSTANTS
  Requests = {r1}
  Steps = {}
  Assets = {a1}
  Assignments = {g1}
  Employees = {e1}
  Models = {m1}
  Managers = {}
  ProcurementManagers = {}
  None = None
  Jobs = {j1, j2}
  Crashes = TRUE
  Manual = {"retired"}
SYMMETRY Symmetry
CHECK_DEADLOCK FALSE
INVARIANTS
  InventoryTypeOK
  HistoryKeepsAsset
