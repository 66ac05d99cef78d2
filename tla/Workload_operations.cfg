SPECIFICATION Spec
CONSTANTS
  Ops = {o1, o2}
  o1 = o1
  o2 = o2
  KindOf <- RestartAndPause
  Jobs = {}
  Retries = 1
  MaxWorkers = 2
  MaxFaults = 0
INVARIANTS
  WorkersSupervised
  RestartsRenew
  SuccessHasEffect
  ExclusiveUnlessLost
PROPERTIES
  TargetFreed
  
CHECK_DEADLOCK FALSE
