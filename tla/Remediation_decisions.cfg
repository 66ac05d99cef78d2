\* Two operators and one request on two actions of one incident, with store
\* errors, closed connections and a crash anywhere.
SPECIFICATION Spec
CONSTANTS
  a1 = a1  a2 = a2  i1 = i1  i2 = i2  t1 = t1  t2 = t2
  Actions = {a1, a2}
  Incidents = {i1}
  Targets = {t1}
  incidentOf <- OneIncident
  targetOf <- OneTarget
  Reversible = {}
  Executors = {e1}
  Operators = {o1, o2}
  NoAction = NoAction
  PolicyOutcomes = {"allow", "approval_required", "deny"}
  Verdicts = {"success", "failed"}
  SwitchSettings = {TRUE, FALSE}
  MaxCrashes = 1
  StoreFaults = TRUE
SYMMETRY Requests
INVARIANTS
  TypeOK
  DispatchAuthorised
  ApprovedIncidentHasAction
  StartedMeansExecuting
PROPERTIES
  WritePathMoves
CHECK_DEADLOCK FALSE
