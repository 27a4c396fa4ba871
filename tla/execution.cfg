SPECIFICATION ExecFairSpec
CONSTANTS
  Scripts <- MCScripts
  Expected <- MCExpected
  InputLen = 4
  Cap = 3
  ExecFaults = {"docker", "stream", "stray", "late", "kill"}
  None = None
INVARIANTS
  ExecTypeOK
  OutputComplete
  PassedIsEarned
  OwnProgram
  TimeLimitIsEarned
  ExecInv
PROPERTIES
  ExecReturns
CHECK_DEADLOCK FALSE
