SPECIFICATION Spec
CONSTANTS
  Ops = {o1, o2}
  o1 = o1
  o2 = o2
  KindOf <- RestartAndPause
  Jobs = {j1, j2}
  Retries = 0
  MaxWorkers = 2
  MaxFaults = 1

  
  
PROPERTIES
  QueuedJobsTaken
CHECK_DEADLOCK FALSE
