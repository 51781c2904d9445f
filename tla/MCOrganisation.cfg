CONSTANTS
  e1 = e1  e2 = e2  d1 = d1  d2 = d2  h1 = h1  h2 = h2
  None = None  Undefined = Undefined
  Employees = {e1, e2}
  Departments = {d1, d2}
  Roles = {"employee", "direct_manager"}
  Calls = {h1, h2}
  MaxCalls = 3
SPECIFICATION MCSpec
SYMMETRY Symmetry
CHECK_DEADLOCK FALSE
INVARIANTS
  OrganisationTypeOK
  TeamCheckAnswersForNow
PROPERTIES
  SavesUndoOnlyWhatTheyMissed
  RemovedReturnsOnlyBySave
