\* Two actions of one incident on two targets run at once; the second crash may
\* come during recovery from the first.
SPECIFICATION FairSpec
CONSTANTS
  a1 = a1  a2 = a2  i1 = i1  i2 = i2  t1 = t1  t2 = t2
  Actions = {a1, a2}
  Incidents = {i1}
  Targets = {t1, t2}
  incidentOf <- OneIncident
  targetOf <- TwoTargets
  Reversible = {}
  Executors = {e1, e2}
  Operators = {}
  NoAction = NoAction
  PolicyOutcomes = {"allow"}
  Verdicts = {"inconclusive"}
  SwitchSettings = {}
  MaxCrashes = 2
  StoreFaults = FALSE
INVARIANTS
  StartedHasHandler
PROPERTIES
  RecoveryCompletes
  RemediationConcludes
CHECK_DEADLOCK FALSE
