SPECIFICATION JudgeSpec
CONSTANTS
  s1 = s1
  s2 = s2
  w1 = w1
  Workers = {w1}
  Submissions = {s1, s2}
  Admissible = {s1}
  Garbage = {}
  Runs <- MCRuns
  PoolSize = 1
  MaxStarts <- Once
  Faults = {}
  ApiFaults = {}
  None = None
INVARIANTS
  AnsweredIsKept
CHECK_DEADLOCK FALSE
