SPECIFICATION Spec
CONSTANTS
  qa = qa
  qb = qb
  QueueNames <- MCQueueNames
  MaxMsg = 3
  MaxLease = 4
  Times <- MCTimes
  Buckets = 2
  QueueBuckets = 1
  Bucket <- MCBucket
  QueueBucket <- MCQueueBucket
INVARIANTS
  ListsAgree
  ChainsAgree
  WalkSafe
  StatsTrue
PROPERTIES
  ExpiryComplete
CHECK_DEADLOCK FALSE
