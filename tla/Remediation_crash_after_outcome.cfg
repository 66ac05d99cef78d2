\* A crash between the stored outcome and the writes that follow it.
SPECIFICATION FairSpec
CONSTANTS
  a1 = a1  a2 = a2  i1 = i1  i2 = i2  t1 = t1  t2 = t2
  Actions = {a1}
  Incidents = {i1}
  Targets = {t1}
  incidentOf <- FirstOnly
  targetOf <- FirstTarget
  Reversible = {}
  Executors = {e1}
  Operators = {}
  NoAction = NoAction
  PolicyOutcomes = {"allow"}
  Verdicts = {"success", "failed"}
  SwitchSettings = {}
  MaxCrashes = 1
  StoreFaults = FALSE
PROPERTIES
  RemediationSurvivesCrash
CHECK_DEADLOCK FALSE
