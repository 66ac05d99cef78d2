SPECIFICATION Spec
CONSTANTS
  Required = 3
  Interval = 2
  Timeout = 8
  MaxFetch = 1
  Fetchers = {"demo", "workload", "grafana"}
INVARIANTS
  StableSuccess
  VerdictInTime
  NeverFailed
CHECK_DEADLOCK FALSE
