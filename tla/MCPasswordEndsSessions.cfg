SPECIFICATION MCSpec
CONSTANTS
  Users = {1, 2}
  Tokens = {t1, t2, t3}
  Passwords = {p1, p2}
  Flows = {f1, f2}
  Crashes = FALSE
  None = None
SYMMETRY Symmetry
CHECK_DEADLOCK FALSE
INVARIANTS
  SessionsHaveCurrentPassword
