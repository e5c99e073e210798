SPECIFICATION CompactSpec
CONSTANTS
  q1 = q1
  q2 = q2
  Queues <- OneQueue
  Times <- MCTimes
  Timeout <- MCTimeout
  MaxMsg = 2
  MaxLease = 2
  MaxLog = 4
  RetryAfterError = FALSE
  Windows = TRUE
  PowerLoss = FALSE
INVARIANTS
  MemoryIsReplay
  PushDurable
  IdsFresh
PROPERTIES
  CompactEquivalent
  
