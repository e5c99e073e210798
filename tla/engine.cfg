SPECIFICATION Spec
CONSTANTS
  q1 = q1
  q2 = q2
  Queues <- MCQueues
  Times <- MCTimes
  Timeout <- MCTimeout
  MaxMsg = 2
  MaxLease = 2
  MaxLog = 6
  RetryAfterError = FALSE
SYMMETRY Symmetry
INVARIANTS
  TypeOK
  MemoryIsReplay
  Recoverable
  PushDurable
  AckFinal
  IdsFresh
  RetryCounted
  FirstDeliveryFifo
PROPERTIES
  PopAnyOldest
  
