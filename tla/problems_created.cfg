SPECIFICATION ProblemsSpec
CONSTANTS
  Users = {u1, u2}
  Browsers = {b1}
  Logins = {l1}
  Ids = {i1, i2}
  Grants = {"user", "problemsetter"}
  MaxRestarts = 1
  SessionFaults = {}
  Creations = {r1}
  PageCap = 1
  MaxLimit = 2
  ProblemFaults = {"statement"}
  None = None
INVARIANTS
  CreatedExists
CHECK_DEADLOCK FALSE
