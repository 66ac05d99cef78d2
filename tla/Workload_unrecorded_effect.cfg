SPECIFICATION Spec
CONSTANTS
  Ops = {o1, o2}
  o1 = o1
  o2 = o2
  KindOf <- RestartAndPause
  Jobs = {}
  Retries = 0
  MaxWorkers = 2
  MaxFaults = 0
INVARIANTS
  EffectsRecorded
CHECK_DEADLOCK FALSE
