SPECIFICATION Spec
CONSTANTS
  s1 = s1
  s2 = s2
  g1 = g1
  Workers = {w1}
  Submissions = {s1, s2}
  Garbage = {g1}
  Runs <- MCRuns
  PoolSize = 2
  MaxStarts <- Twice
  Faults = {"crash", "channel", "pool", "panic", "db", "exec"}
  None = None
INVARIANTS
  NoTaskLost
  OnePlace
  IInv
PROPERTIES
  LedgerSpec
CHECK_DEADLOCK FALSE
