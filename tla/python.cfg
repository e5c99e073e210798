SPECIFICATION Spec
CONSTANTS
  t1 = t1
  t2 = t2
  o1 = o1
  o2 = o2
  h1 = h1
  h2 = h2
  h3 = h3
  p1 = p1
  p2 = p2
  NULL = NULL
  Threads <- MCThreads
  Objects <- MCObjects
  Handles <- MCHandles
  Paths <- MCPaths
  Guarded <- MCGuarded
  MaxCalls = 3
SYMMETRY Symmetry
INVARIANTS
  ClosedOnce
  HeldByOne
  DisciplinedUse
  MessageFreed
