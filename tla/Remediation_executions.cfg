\* Two requests on two actions of one incident and one target, with store
\* errors, closed connections and a crash anywhere.
SPECIFICATION Spec
CONSTANTS
  a1 = a1  a2 = a2  i1 = i1  i2 = i2  t1 = t1  t2 = t2
  Actions = {a1, a2}
  Incidents = {i1}
  Targets = {t1}
  incidentOf <- OneIncident
  targetOf <- OneTarget
  Reversible = {a1, a2}
  Executors = {e1, e2}
  Operators = {}
  NoAction = NoAction
  PolicyOutcomes = {"allow", "deny"}
  Verdicts = {"success", "failed", "inconclusive"}
  SwitchSettings = {}
  MaxCrashes = 1
  StoreFaults = TRUE
SYMMETRY RequestsAndActions
INVARIANTS
  OneExecutionPerAction
  ExclusiveTarget
  RolledBackWasCompensated
  ResolvedHasCause
PROPERTIES
  ImplementsGate
  
CHECK_DEADLOCK FALSE
