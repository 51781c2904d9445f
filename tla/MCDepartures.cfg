SPECIFICATION DeparturesSpec
CONSTANTS
  Requests = {r1}
  Steps = {s1, s2}
  Assets = {a1}
  Assignments = {g1, g2}
  Employees = {mgr, pm}
  Models = {m1}
  Managers = {mgr}
  ProcurementManagers = {pm}
  None = None
  Calls = {c1}
  Interrupts = FALSE
  MaxCancelled = 1
  Jobs = {j1}
  Crashes = FALSE
  Manual = {"in_use"}
  Overlap = TRUE
  Leavers = {mgr, pm}
SYMMETRY Symmetry
CHECK_DEADLOCK FALSE
INVARIANTS
  DeparturesTypeOK
  ExplainedUnlessOrphaned
  ProcurementBackedOrLeft
  FulfilmentIsBacked
  HistoryKeepsAsset
PROPERTIES
  FlowUntilGone
  StrandedForAReason
