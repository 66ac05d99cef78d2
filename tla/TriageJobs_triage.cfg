SPECIFICATION FairSpec
CONSTANTS
  w1 = w1
  w2 = w2
  r1 = r1
  r2 = r2
  NoWorker = NoWorker
  Workers <- TwoWorkers
  Requests <- OneRequest
  MaxIncidents = 1
  MaxAttempts = 3
  MaxCrashes = 2
  StoreFaults = TRUE
INVARIANTS
  TriagingHasJob
PROPERTIES
  TriageConcludes
  TriageLetsGo
  ImplementsQueue
CHECK_DEADLOCK FALSE
