SPECIFICATION Spec
CONSTANTS
  w = w
  v = v
  t = t
  None = None
  Procs = {v, w, t}
  Program <- DemoProgram
  Jobs <- TwoJobs
  Timeout = 0
  Files <- MCFiles
  LockFiles <- MCLockFiles
  Commands <- AllCommands
  MaxRuns = 1
  MaxKills = 1
  MaxFaults = 1
INVARIANTS
  Exclusive
  StagingSafe
  JobsKept
  ToolCreatesNothing
  CompactFresh
CHECK_DEADLOCK FALSE
