SPECIFICATION Spec
CONSTANTS
  q1 = q1
  q2 = q2
  Queues <- OneQueue
  Times <- MCTimes
  Timeout <- MCTimeout
  MaxMsg = 1
  MaxLease = 2
  MaxLog = 3
  RetryAfterError = TRUE
INVARIANT Recoverable
