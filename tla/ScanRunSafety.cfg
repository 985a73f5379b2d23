SPECIFICATION Spec
CONSTANTS
  t1 = t1
  t2 = t2
  r1 = r1
  r2 = r2
  NModules = 3
  ActiveModules <- LastOf3
  Executors <- TwoExecutors
  Requests <- OneRequest
SYMMETRY SlotSymmetry
INVARIANTS
  TypeOK
  PassiveFirst
  NoOrphanedRun
  SingleDriver
  CheckpointAfterPassive
  CompletedCoversAll
  ResumeListTrue
  RunningRowOwned
PROPERTIES
  RecordedNotRerun
  SignOffInformed
  KeepsLifecycle
