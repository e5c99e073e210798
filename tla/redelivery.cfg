SPECIFICATION FairSpec
CONSTANTS
  w = w
  v = v
  t = t
  None = None
  Procs = {w, t}
  Program <- WorkerProgram
  Jobs <- OneJob
  Timeout = 1
  Files <- MCFiles
  LockFiles <- MCLockFiles
  Commands = {"info", "force"}
  MaxRuns = 2
  MaxKills = 2
  MaxFaults = 1
PROPERTIES
  Redelivered
