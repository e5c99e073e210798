SPECIFICATION CompactSpec
CONSTANTS
  q1 = q1
  q2 = q2
  Queues <- OneQueue
  Times <- MCTimes
  Timeout <- MCTimeout
  MaxMsg = 1
  MaxLease = 1
  MaxLog = 2
  RetryAfterError = FALSE
  Windows = FALSE
  PowerLoss = TRUE
INVARIANT PushDurable
