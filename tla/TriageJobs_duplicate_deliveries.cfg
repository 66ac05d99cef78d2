SPECIFICATION Spec
CONSTANTS
  w1 = w1
  w2 = w2
  r1 = r1
  r2 = r2
  NoWorker = NoWorker
  Workers <- TwoWorkers
  Requests <- TwoRequests
  MaxIncidents = 2
  MaxAttempts = 2
  MaxCrashes = 0
  StoreFaults = FALSE
INVARIANTS
  OneUndecidedEpisode
CHECK_DEADLOCK FALSE
