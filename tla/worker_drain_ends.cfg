SPECIFICATION FairSpec
CONSTANTS
  s1 = s1
  s2 = s2
  g1 = g1
  Workers = {w1}
  Submissions = {s1}
  Garbage = {}
  Runs <- MCRuns
  PoolSize = 1
  MaxStarts <- Twice
  Faults = {"channel"}
  None = None
PROPERTIES
  DrainEnds
CHECK_DEADLOCK FALSE
