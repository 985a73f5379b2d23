SPECIFICATION Spec
CONSTANTS
  t1 = t1
  t2 = t2
  r1 = r1
  r2 = r2
  NModules = 2
  ActiveModules <- LastOf2
  Executors <- TwoExecutors
  Requests <- OneRequest
INVARIANT FailureContained
