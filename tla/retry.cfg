SPECIFICATION Spec
CONSTANTS
  q1 = q1
  q2 = q2
  Queues <- OneQueue
  Times <- MCTimes
  Timeout <- MCTimeout
  MaxMsg = 3
  MaxLease = 2
  MaxLog = 5
  RetryAfterError = TRUE
INVARIANTS
  HeaderBehindLog
  PayloadReachable
PROPERTY AppendOnly
