SPECIFICATION FairSpec
CONSTANTS
  s1 = s1
  s2 = s2
  g1 = g1
  Workers = {w1}
  Submissions = {s1, s2}
  Garbage = {g1}
  Runs <- MCRuns
  PoolSize = 1
  MaxStarts <- Twice
  Faults = {"crash", "db", "exec"}
  None = None
INVARIANTS
  TypeOK
  NoAbandonedDelivery
  VerdictIsGenuine
  SettleInv
PROPERTIES
  EventuallySettled
CHECK_DEADLOCK FALSE
