SPECIFICATION JudgeSpec
CONSTANTS
  s1 = s1
  s2 = s2
  w1 = w1
  Workers = {w1, w2}
  Submissions = {s1, s2}
  Admissible = {s1, s2}
  Garbage = {}
  Runs <- WrongRuns
  PoolSize = 2
  MaxStarts <- W1Twice
  Faults = {"channel", "crash"}
  ApiFaults = {"conn", "db", "crash"}
  None = None
SYMMETRY Symmetry
INVARIANTS
  MessageHasRow
  SingleJudge
  JudgeInv
PROPERTIES
  VerdictFinal
  WorkerSpec
CHECK_DEADLOCK FALSE
