SPECIFICATION ProblemsSpec
CONSTANTS
  Users = {u1, u2}
  Browsers = {b1}
  Logins = {l1, l2}
  Ids = {i1, i2}
  Grants = {"user", "problemsetter"}
  MaxRestarts = 1
  SessionFaults = {"db", "redis", "reply", "ttl"}
  Creations = {r1, r2}
  PageCap = 1
  MaxLimit = 2
  ProblemFaults = {"begin", "statement", "connection", "disconnect"}
  None = None
INVARIANTS
  ProblemsTypeOK
  ProblemsInv
  SetterOnly
  ListedIsJudgeable
  PagingComplete
SYMMETRY ProblemSymmetry
CHECK_DEADLOCK FALSE
