SPECIFICATION FairSpec
CONSTANTS
  t1 = t1
  t2 = t2
  Tasks <- TwoTasks
  MaxConnections = 1
  Second = 1
  Token = 4
  BaseRate = 6
  FloorRate = 2
  Cooldown = 3
  Window = 4
PROPERTY
  AcquireReturns
