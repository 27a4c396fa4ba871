SPECIFICATION Spec
CONSTANTS
  s1 = s1
  s2 = s2
  g1 = g1
  Workers = {w1}
  Submissions = {s1, s2}
  Garbage = {}
  Runs <- MCRuns
  PoolSize = 1
  MaxStarts <- Twice
  Faults = {}
  None = None
PROPERTIES
  ExitDrained
CHECK_DEADLOCK FALSE
