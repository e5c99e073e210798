SPECIFICATION CompactSpec
CONSTANTS
  q1 = q1
  q2 = q2
  Queues <- MCQueues
  Times <- MCTimes
  Timeout <- MCTimeout
  MaxMsg = 2
  MaxLease = 1
  MaxLog = 3
  RetryAfterError = FALSE
  Windows = FALSE
  PowerLoss = TRUE
SYMMETRY Symmetry
INVARIANTS
  Recoverable
PROPERTY CompactEquivalent
