SPECIFICATION MCSpec
CONSTANTS
  w1 = w1
  w2 = w2
  inside = inside
  outside = outside
  Workers <- TwoWorkers
  Targets <- TwoTargets
  InScope <- OneInScope
  Override = FALSE
  Modules = 2
  Batch = 2
  MaxRedirects = 2
  MaxRequests = 3
  MaxFaults = 1
INVARIANTS
  TypeOK
  ScopeGate
  CompletedKeepsAll
  LossBounded
  AuditComplete
CHECK_DEADLOCK FALSE
SYMMETRY WorkerSymmetry
