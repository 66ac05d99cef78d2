----------------------------- MODULE Proposals -----------------------------
(***************************************************************************)
(* How an incident gets its candidate actions: evidence, triage, a second  *)
(* look at the evidence, generation by the provider or by the rules, the   *)
(* catalog's validation and the policy's (internal/incident, triage,       *)
(* remediation, policy, topology, observability, the action catalog).      *)
(* One run of the pipeline for one incident; retries of the job around it  *)
(* are TriageJobs', what operators do with an offer is Remediation's.      *)
(*                                                                         *)
(* Grain: one step per call to a collector, a provider or the store, and   *)
(* one per draft of the provider's answer.                                 *)
(***************************************************************************)
EXTENDS Naturals, Sequences, FiniteSets

CONSTANTS
  Services, Environments,  \* of the incidents an alert may name
  Drafts,         \* what the provider may put in its answer
  MaxDrafts,      \* bound: drafts of one answer
  Backlogs, Latencies,     \* values of the two metrics the rules read
  LocalCollectors,         \* the local collector main picks at boot
  MaxChanges,     \* bound: how often administrators turn a switch or a mode
  StoreFaults     \* whether store calls fail or the job's context runs out
----------------------------------------------------------------------------
(* The action catalog and the topology registry, as shipped.               *)

NonProduction == {"local", "staging"}

ActionDefinition(risk, executable, environments, target, rollback, required, optional) ==
  [RiskLevel |-> risk, Executable |-> executable, AllowedEnvironments |-> environments,
   AllowedTargets |-> {target}, RollbackActionKey |-> rollback,
   required |-> required, parameters |-> required \cup optional]

\* What operators may run: low and medium risk, outside production.
Runnable(risk, target, rollback, required, optional) ==
  ActionDefinition(risk, TRUE, NonProduction, target, rollback, required, optional)

WorkloadActions ==
  [restart_worker  |-> Runnable("low", "queue-worker", "", {"worker_id"}, {}),
   pause_consumer  |-> Runnable("medium", "queue-worker", "resume_consumer", {}, {}),
   resume_consumer |-> Runnable("low", "queue-worker", "", {}, {})]

DemoActions ==
  [restart_demo_worker |-> Runnable("low", "demo-worker", "", {"worker_id"}, {}),
   retry_demo_background_job |-> Runnable("low", "demo-job-runner", "", {"job_id"}, {}),
   refresh_demo_cache |-> Runnable("low", "demo-cache", "", {}, {"cache_key"}),
   restart_demo_service |->
     ActionDefinition("medium", FALSE, {"staging"}, "demo-api", "", {}, {}),
   scale_demo_replicas |->
     ActionDefinition("medium", FALSE, {"staging"}, "demo-api", "", {"replicas"}, {}),
   pause_demo_queue_consumer |->
     Runnable("medium", "demo-queue-consumer", "resume_demo_queue_consumer", {}, {}),
   resume_demo_queue_consumer |-> Runnable("low", "demo-queue-consumer", "", {}, {})]

BlockedActions ==
  [rollback_production_deployment |->
     ActionDefinition("high", FALSE, {"production"}, "demo-api", "", {}, {}),
   reroute_traffic |->
     ActionDefinition("high", FALSE, {"production"}, "edge-router", "", {}, {}),
   disable_primary_feature_flag |->
     ActionDefinition("high", FALSE, {"production"}, "primary-checkout-flag", "", {}, {})]

CatalogKeys == DOMAIN WorkloadActions \cup DOMAIN DemoActions \cup DOMAIN BlockedActions

Catalog ==
  [key \in CatalogKeys |->
     IF key \in DOMAIN WorkloadActions THEN WorkloadActions[key]
     ELSE IF key \in DOMAIN DemoActions THEN DemoActions[key] ELSE BlockedActions[key]]

\* The targets whose dependencies are known; queue-worker is not among them.
DependencyMap == {"demo-worker", "demo-job-runner", "demo-cache", "demo-api", "demo-queue-consumer"}

ASSUME ConstantsAssumption ==
  /\ \A d \in Drafts : DOMAIN d = {"type", "target", "parameters"}
  /\ MaxDrafts \in Nat
  /\ Backlogs \subseteq Nat /\ Latencies \subseteq Nat
  /\ LocalCollectors \subseteq {"demo", "workload"}
  /\ MaxChanges \in Nat
  /\ StoreFaults \in BOOLEAN

VARIABLES
  service, environment,
  reasoning, observability,  \* mode.Manager
  killSwitch, changes,
  incidentState,
  stage,      \* where runReadOnlyTriage is
  evidence,   \* the evidence in its hands
  latest,     \* history: what a collector answered last
  label,      \* the catalog_mode the audit trail names for the generation
  author,     \* history: who generated the actions
  drafted,    \* drafts of the answer read so far
  actions,    \* candidate actions, in order, with their stored status
  next        \* the action policy evaluation comes to

incidentVars == <<service, environment>>
switchVars   == <<reasoning, observability, killSwitch, changes>>
evidenceVars == <<evidence, latest>>
actionVars   == <<label, author, drafted, actions, next>>

vars == <<incidentVars, switchVars, incidentState, stage, evidenceVars, actionVars>>
----------------------------------------------------------------------------
(* Evidence: what detectMode and extractIntMetric get out of it.           *)

Signals == {"worker_stall", "timeout_after_deploy", "error_rate_spike", "unknown"}

Evidence == [signal : Signals, backlog : Nat, latency : Nat]

NoEvidence == [signal |-> "unknown", backlog |-> 0, latency |-> 0]

\* The supervisor's state: an unhealthy or paused worker and a backlog above
\* 20 all read "worker stalled"; it measures no latency.
WorkloadEvidence ==
  {[signal |-> IF ~healthy \/ paused \/ b > 20 THEN "worker_stall" ELSE "unknown",
    backlog |-> b, latency |-> 0] : healthy, paused \in BOOLEAN, b \in Backlogs}

\* The demo service replaces its whole state on every request; these are the
\* states it can be in, at first and after each simulation and each action.
Snapshot(mode, latencyMs, queueBacklog) ==
  [Mode |-> mode, LatencyMs |-> latencyMs, QueueBacklog |-> queueBacklog]

Reset == Snapshot("healthy", 120, 0)

Simulated ==
  {Snapshot("error_rate_spike", 850, 12), Snapshot("worker_stall", 430, 128),
   Snapshot("timeout_after_deploy", 1250, 46), Reset}

AfterDemoAction ==
  [restart_demo_worker        |-> Snapshot("healthy", 190, 24),
   retry_demo_background_job  |-> Snapshot("healthy", 170, 8),
   refresh_demo_cache         |-> Snapshot("healthy", 150, 4),
   pause_demo_queue_consumer  |-> Snapshot("worker_stall", 690, 160),
   resume_demo_queue_consumer |-> Snapshot("healthy", 180, 10)]

\* Its collector's log line names the mode, and a healthy one reads as nothing.
DemoEvidence ==
  {[signal |-> IF s.Mode = "healthy" THEN "unknown" ELSE s.Mode,
    backlog |-> s.QueueBacklog, latency |-> s.LatencyMs] :
     s \in Simulated \cup {AfterDemoAction[a] : a \in DOMAIN AfterDemoAction}}

\* Log lines and metrics come from two data sources and agree on nothing.
\* Without a configured Grafana there is only service metadata; a query that
\* fails or is not configured leaves its item out.
GrafanaEvidence ==
  {NoEvidence} \cup
  [signal : Signals, backlog : Backlogs \cup {0}, latency : Latencies \cup {0}]

Collect(source) ==
  IF source = "grafana" THEN GrafanaEvidence
  ELSE UNION {IF c = "workload" THEN WorkloadEvidence ELSE DemoEvidence : c \in LocalCollectors}
----------------------------------------------------------------------------
(* Validation (HeuristicGenerator.validateAction).                         *)

validParameters(d) ==
  /\ d.parameters \subseteq Catalog[d.type].parameters
  /\ Catalog[d.type].required \subseteq d.parameters

ValidAction(d) ==
  /\ d.type \in CatalogKeys
  /\ environment \in Catalog[d.type].AllowedEnvironments
  /\ d.target \in Catalog[d.type].AllowedTargets
  /\ validParameters(d)

validateAction(d) ==
  [type |-> d.type, target |-> d.target, parameters |-> d.parameters,
   status |-> IF ValidAction(d) THEN "proposed" ELSE "invalid"]
----------------------------------------------------------------------------
(* The rules (HeuristicGenerator.Generate).                                *)

Draft(type, target, parameters) == [type |-> type, target |-> target, parameters |-> parameters]

If(condition, d) == IF condition THEN <<d>> ELSE <<>>

StallDrafts(e) ==
  LET real == service = "queue-worker" IN
  <<IF real THEN Draft("restart_worker", "queue-worker", {"worker_id"})
            ELSE Draft("restart_demo_worker", "demo-worker", {"worker_id"})>>
    \o If(e.backlog >= 80 /\ ~real,
          Draft("retry_demo_background_job", "demo-job-runner", {"job_id"}))
    \o If(e.backlog >= 120,
          IF real THEN Draft("pause_consumer", "queue-worker", {})
                  ELSE Draft("pause_demo_queue_consumer", "demo-queue-consumer", {}))

RefreshCache == Draft("refresh_demo_cache", "demo-cache", {"cache_key"})

RuleDrafts(e) ==
  CASE e.signal = "worker_stall"         -> StallDrafts(e)
    [] e.signal = "timeout_after_deploy" -> <<RefreshCache>>
    [] e.signal = "error_rate_spike"     -> If(e.latency >= 500, RefreshCache)
    [] OTHER                             -> <<>>

RuleActions(e) == [k \in DOMAIN RuleDrafts(e) |-> validateAction(RuleDrafts(e)[k])]
----------------------------------------------------------------------------
(* Policy (Evaluator.Evaluate).                                            *)

InScope(a) ==
  /\ environment \in Catalog[a.type].AllowedEnvironments
  /\ a.target \in Catalog[a.type].AllowedTargets

\* Medium risk asks for known dependencies and a way back.
Containable(a) ==
  /\ a.target \in DependencyMap
  /\ Catalog[a.type].RollbackActionKey \in CatalogKeys
  /\ Catalog[a.type].Executable

Offerable(a) ==
  /\ a.type \in CatalogKeys
  /\ ~killSwitch
  /\ InScope(a)
  /\ \/ Catalog[a.type].RiskLevel = "low"
     \/ Catalog[a.type].RiskLevel = "medium" /\ Containable(a)

Evaluate(a) == IF Offerable(a) THEN "awaiting_approval" ELSE "denied"
----------------------------------------------------------------------------
(* The pipeline (runReadOnlyTriage).                                       *)

Init ==
  /\ service \in Services /\ environment \in Environments
  /\ reasoning \in {"heuristic", "llm"} /\ observability \in {"demo", "grafana"}
  /\ killSwitch = FALSE /\ changes = 0
  /\ incidentState = "triaging"
  /\ stage = "collect"
  /\ evidence = NoEvidence /\ latest = NoEvidence
  /\ label = "" /\ author = "nobody" /\ drafted = 0 /\ actions = <<>> /\ next = 1

\* Evidence for triage; a collector that fails leaves it empty.
CollectEvidence ==
  /\ stage = "collect"
  /\ stage' = "triage"
  /\ \/ \E e \in Collect(observability) : evidence' = e /\ latest' = e
     \/ evidence' = NoEvidence /\ UNCHANGED latest
  /\ UNCHANGED <<incidentVars, switchVars, incidentState, actionVars>>

\* The provider's triage, or the rules' when it fails: text for the operator.
GenerateTriage ==
  /\ stage = "triage"
  /\ stage' = "refresh"
  /\ UNCHANGED <<incidentVars, switchVars, incidentState, evidenceVars, actionVars>>

ShowOnly(e) == UNCHANGED evidence  \* mutant: the refreshed evidence is only stored
ActOn(e)    == evidence' = e

RefreshOrRestart ==  \* mutant: triage starts over when the refresh fails
  /\ stage = "refresh"
  /\ \/ \E e \in Collect(observability) : ActOn(e) /\ latest' = e /\ stage' = "label"
     \/ UNCHANGED evidenceVars /\ stage' = "collect"
  /\ UNCHANGED <<incidentVars, switchVars, incidentState, actionVars>>

\* A second collection after the provider's minutes; when it fails the first
\* one stands.
RefreshEvidence ==
  /\ stage = "refresh"
  /\ stage' = "label"
  /\ \/ \E e \in Collect(observability) : ActOn(e) /\ latest' = e
     \/ UNCHANGED evidenceVars
  /\ UNCHANGED <<incidentVars, switchVars, incidentState, actionVars>>

\* The audit event of the generation is written before it, from a reading of
\* the mode of its own.
LabelGeneration ==
  /\ stage = "label"
  /\ stage' = "generate"
  /\ label' = IF reasoning = "llm" THEN "llm-constrained" ELSE "heuristic-constrained"
  /\ UNCHANGED <<incidentVars, switchVars, incidentState, evidenceVars, author, drafted,
                 actions, next>>

\* The provider answers with drafts; the evidence was in its prompt.  Nothing
\* reads it after that, so the model forgets it: no behaviour is lost.
ProviderAnswers ==
  /\ stage = "generate"
  /\ reasoning = "llm"
  /\ stage' = "draft" /\ author' = "provider"
  /\ evidence' = NoEvidence /\ latest' = NoEvidence
  /\ UNCHANGED <<incidentVars, switchVars, incidentState, label, drafted, actions, next>>

NeverFull == FALSE  \* mutant: no break after four actions
Full      == Len(actions) >= 4 /\ actions[Len(actions)].type \in CatalogKeys

\* A draft of the answer.  A blank type is skipped, an unknown one is kept as
\* invalid; only a known one is followed by the length check.
ReadDraft ==
  /\ stage = "draft"
  /\ drafted < MaxDrafts
  /\ ~Full
  /\ \E d \in Drafts :
       actions' = IF d.type = "" THEN actions ELSE Append(actions, validateAction(d))
  /\ drafted' = drafted + 1
  /\ UNCHANGED <<incidentVars, switchVars, incidentState, stage, evidenceVars, label, author, next>>

EndOfAnswer ==
  /\ stage = "draft"
  /\ stage' = "save"
  /\ UNCHANGED <<incidentVars, switchVars, incidentState, evidenceVars, actionVars>>

\* The rules, by choice or because the provider failed or answered nonsense.
RulesAnswer ==
  /\ stage = "generate"
  /\ stage' = "save"
  /\ author' = IF reasoning = "llm" THEN "fallback" ELSE "rules"
  /\ actions' = RuleActions(evidence)
  /\ UNCHANGED <<incidentVars, switchVars, incidentState, evidenceVars, label, drafted, next>>

AllDrafts == DOMAIN actions  \* mutant: invalid drafts count as candidates
Proposed  == {k \in DOMAIN actions : actions[k].status = "proposed"}

\* The candidates are saved; without a valid one the incident is escalated.
ProposeOrEscalate ==
  /\ stage = "save"
  /\ IF Proposed = {}
     THEN stage' = "done" /\ incidentState' = "escalated"
     ELSE stage' = "evaluate" /\ incidentState' = "action_proposed"
  /\ UNCHANGED <<incidentVars, switchVars, evidenceVars, actionVars>>

\* EvaluateActions reads the kill switch again for each action it comes to.
EvaluateNext ==
  /\ stage = "evaluate"
  /\ next <= Len(actions)
  /\ next' = next + 1
  /\ actions' = IF next \in Proposed
                THEN [actions EXCEPT ![next].status = Evaluate(actions[next])]
                ELSE actions
  /\ UNCHANGED <<incidentVars, switchVars, incidentState, stage, evidenceVars, label, author,
                 drafted>>

Offered == {k \in DOMAIN actions : actions[k].status = "awaiting_approval"}

FinishAsAwaiting ==  \* mutant: every evaluated incident asks for approval
  /\ stage = "evaluate"
  /\ next > Len(actions)
  /\ stage' = "done"
  /\ incidentState' = "awaiting_approval"
  /\ UNCHANGED <<incidentVars, switchVars, evidenceVars, actionVars>>

\* refreshIncidentState; with everything denied the incident stays proposed.
FinishEvaluation ==
  /\ stage = "evaluate"
  /\ next > Len(actions)
  /\ stage' = "done"
  /\ incidentState' = IF Offered = {} THEN incidentState ELSE "awaiting_approval"
  /\ UNCHANGED <<incidentVars, switchVars, evidenceVars, actionVars>>

\* A failing store call, a lost swap of the incident's state, or the job's
\* deadline: the job fails and TriageJobs decides about another attempt.
Abort ==
  /\ StoreFaults
  /\ stage \notin {"done", "aborted"}
  /\ stage' = "aborted"
  /\ UNCHANGED <<incidentVars, switchVars, incidentState, evidenceVars, actionVars>>

\* mode.Manager: each setter takes the lock for itself.
SetReasoning ==
  /\ \E r \in {"heuristic", "llm"} \ {reasoning} : reasoning' = r
  /\ UNCHANGED observability

SetObservability ==
  /\ \E o \in {"demo", "grafana"} \ {observability} : observability' = o
  /\ UNCHANGED reasoning

\* Administrators, while the pipeline runs.  A request that names both modes
\* sets one after the other: two changes.
ChangeModes ==
  /\ changes < MaxChanges
  /\ changes' = changes + 1
  /\ SetReasoning \/ SetObservability
  /\ UNCHANGED <<incidentVars, killSwitch, incidentState, stage, evidenceVars, actionVars>>

TurnKillSwitch ==
  /\ changes < MaxChanges
  /\ changes' = changes + 1
  /\ killSwitch' = ~killSwitch
  /\ UNCHANGED <<incidentVars, reasoning, observability, incidentState, stage, evidenceVars,
                 actionVars>>

Pipeline ==
  \/ CollectEvidence \/ GenerateTriage \/ RefreshEvidence \/ LabelGeneration
  \/ ProviderAnswers \/ ReadDraft \/ EndOfAnswer \/ RulesAnswer
  \/ ProposeOrEscalate \/ EvaluateNext \/ FinishEvaluation

Next == Pipeline \/ Abort \/ ChangeModes \/ TurnKillSwitch

Spec == Init /\ [][Next]_vars

\* The handler's goroutine runs and every call it makes ends by its timeout.
FairSpec == Spec /\ WF_vars(Pipeline)
----------------------------------------------------------------------------
\* Whatever a provider answers, and however modes and the switch are turned
\* meanwhile, an action offered to operators is one ExecuteAction can start:
\* catalogued, executable, not high-risk, in scope and with its parameters;
\* a medium-risk one has a compensation that runs in the same place.
OfferedCanStart ==
  \A k \in Offered :
    LET a == actions[k]  entry == Catalog[a.type] IN
    /\ a.type \in CatalogKeys
    /\ entry.Executable /\ entry.RiskLevel # "high"
    /\ environment \in entry.AllowedEnvironments /\ environment # "production"
    /\ entry.required \subseteq a.parameters
    /\ entry.RiskLevel = "medium" =>
         LET way == Catalog[entry.RollbackActionKey] IN
         /\ way.Executable /\ way.RiskLevel = "low"
         /\ environment \in way.AllowedEnvironments
         /\ a.target \in way.AllowedTargets

\* An answer of any length puts at most four actions before the operators,
\* although unknown types, which are kept, do not reach the length check.
OffersBounded == Cardinality(Offered) <= 4

\* What the rules offer answers to the evidence a collector gave last, not to
\* the evidence of before the provider's minutes of triage.
OffersFollowEvidence ==
  author \in {"rules", "fallback"} =>
    \A k \in Offered :
      CASE actions[k].type \in {"restart_worker", "restart_demo_worker"} ->
             latest.signal = "worker_stall"
        [] actions[k].type = "refresh_demo_cache" ->
             latest.signal \in {"timeout_after_deploy", "error_rate_spike"}
        [] OTHER -> latest.signal = "worker_stall" /\ latest.backlog >= 80

\* The state the incident ends in tells operators the truth: awaiting approval
\* when there is something to approve, escalated when nothing valid was found.
StateMatchesOffers ==
  /\ incidentState = "awaiting_approval" => Offered # {}
  /\ incidentState = "escalated" => \A k \in DOMAIN actions : actions[k].status = "invalid"
  /\ stage = "done" /\ Offered # {} => incidentState = "awaiting_approval"

\* Unless the store fails, collectors and providers may fail as they like: the
\* incident leaves triage, with candidates or escalated.
Concludes == <>(stage = "aborted" \/ (stage = "done" /\ incidentState # "triaging"))
=============================================================================
