SPECIFICATION FairRequestsSpec
CONSTANTS
  Requests = {r1}
  Steps = {s1, s2, s3}
  Assets = {a1}
  Assignments = {g1}
  Employees = {mgr, pm}
  Models = {m1}
  Managers = {mgr}
  ProcurementManagers = {pm}
  None = None
  Calls = {c1, c2}
  Interrupts = FALSE
  MaxCancelled = 1
CHECK_DEADLOCK FALSE
PROPERTIES
  CallsEnd
  RequesterIsTold
  ApproverIsTold
