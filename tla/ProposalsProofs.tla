--------------------------- MODULE ProposalsProofs ---------------------------
(***************************************************************************)
(* Proofs about Proposals, for any answer of a provider, any evidence and  *)
(* any number of changes of modes and switch.                              *)
(***************************************************************************)
EXTENDS Proposals, FiniteSetTheorems, TLAPS

Stages == {"collect", "triage", "refresh", "label", "generate", "draft", "save", "evaluate",
           "done", "aborted"}

Statuses == {"proposed", "invalid", "awaiting_approval", "denied"}

(* Everything that may be drafted: by the provider, by the rules.          *)
ADraft ==
  Drafts \cup
  {Draft("restart_worker", "queue-worker", {"worker_id"}),
   Draft("restart_demo_worker", "demo-worker", {"worker_id"}),
   Draft("retry_demo_background_job", "demo-job-runner", {"job_id"}),
   Draft("pause_consumer", "queue-worker", {}),
   Draft("pause_demo_queue_consumer", "demo-queue-consumer", {}),
   RefreshCache}

Candidate(d, s) == [type |-> d.type, target |-> d.target, parameters |-> d.parameters, status |-> s]

Candidates == {Candidate(d, s) : d \in ADraft, s \in Statuses}

(* Every variable keeps its type.                                          *)
TypeOK ==
  /\ environment \in Environments
  /\ incidentState \in {"triaging", "action_proposed", "awaiting_approval", "escalated"}
  /\ stage \in Stages
  /\ evidence \in Evidence /\ latest \in Evidence
  /\ author \in {"nobody", "provider", "rules", "fallback"}
  /\ actions \in Seq(Candidates)
  /\ next \in Nat \ {0}

Early == {"collect", "triage", "refresh", "label", "generate"}

(* Until it is saved a list holds what validation made of it; what passed   *)
(* validation keeps its draft, and what is offered passed policy too.      *)
Sound(a) ==
  /\ a.status \in {"proposed", "awaiting_approval"} => ValidAction(a)
  /\ a.status = "awaiting_approval" =>
       InScope(a) /\ (\/ Catalog[a.type].RiskLevel = "low"
                      \/ Catalog[a.type].RiskLevel = "medium" /\ Containable(a))

Fine == {a \in Candidates : Sound(a)}

Validated ==
  /\ \A k \in 1..Len(actions) : actions[k] \in Fine
  /\ stage \in Early \cup {"draft", "save"} =>
       \A k \in 1..Len(actions) : actions[k].status \in {"proposed", "invalid"}

(* From the fourth place on a known type is the last of its list.          *)
Short == \A k \in 1..Len(actions) : k >= 4 /\ k < Len(actions) => actions[k].type \notin CatalogKeys

(* What a rule's draft says of the evidence.                               *)
Answers(type, e) ==
  CASE type \in {"restart_worker", "restart_demo_worker"} -> e.signal = "worker_stall"
    [] type = "refresh_demo_cache" -> e.signal \in {"timeout_after_deploy", "error_rate_spike"}
    [] OTHER -> e.signal = "worker_stall" /\ e.backlog >= 80

Current ==
  /\ evidence = latest
  /\ stage = "collect" => evidence = NoEvidence
  /\ stage \in Early => author = "nobody" /\ actions = <<>>
  /\ stage = "draft" => author = "provider"
  /\ author \in {"rules", "fallback"} =>
       \A k \in 1..Len(actions) : Answers(actions[k].type, latest)

(* The incident's state and the stage it was written in.                   *)
Told ==
  /\ incidentState = "awaiting_approval" => stage = "done" /\ Offered # {}
  /\ incidentState = "escalated" =>
       stage = "done" /\ \A k \in 1..Len(actions) : actions[k].status = "invalid"
  /\ stage = "done" /\ Offered # {} => incidentState = "awaiting_approval"

Inv == TypeOK /\ Validated /\ Short /\ Current /\ Told
----------------------------------------------------------------------------
(* The catalog. *)

LEMMA Keys ==
  /\ DOMAIN WorkloadActions = {"restart_worker", "pause_consumer", "resume_consumer"}
  /\ DOMAIN DemoActions =
       {"restart_demo_worker", "retry_demo_background_job", "refresh_demo_cache",
        "restart_demo_service", "scale_demo_replicas", "pause_demo_queue_consumer",
        "resume_demo_queue_consumer"}
  /\ DOMAIN BlockedActions =
       {"rollback_production_deployment", "reroute_traffic", "disable_primary_feature_flag"}
  BY DEF WorkloadActions, DemoActions, BlockedActions

\* Low risk is executable and out of production.
LowRisk(t) ==
  Catalog[t].RiskLevel = "low" =>
    Catalog[t].Executable /\ Catalog[t].AllowedEnvironments = NonProduction

\* Medium risk is so too where it may be executed, and then its rollback is
\* low risk on the same target.
MediumRisk(t) ==
  Catalog[t].RiskLevel = "medium" /\ Catalog[t].Executable =>
    LET way == Catalog[Catalog[t].RollbackActionKey] IN
    Catalog[t].RollbackActionKey \in CatalogKeys =>
      /\ Catalog[t].AllowedEnvironments = NonProduction
      /\ way.Executable /\ way.RiskLevel = "low"
      /\ way.AllowedEnvironments = NonProduction
      /\ way.AllowedTargets = Catalog[t].AllowedTargets

LEMMA WorkloadEntries ==
  \A t \in DOMAIN WorkloadActions : t \in CatalogKeys /\ Catalog[t] = WorkloadActions[t]
  BY DEF Catalog, CatalogKeys

LEMMA DemoEntries ==
  \A t \in DOMAIN DemoActions : t \in CatalogKeys /\ Catalog[t] = DemoActions[t]
<1>1. \A t \in DOMAIN DemoActions : t \notin DOMAIN WorkloadActions
  BY Keys
<1> QED
  BY <1>1 DEF Catalog, CatalogKeys

LEMMA BlockedEntries ==
  \A t \in DOMAIN BlockedActions : t \in CatalogKeys /\ Catalog[t] = BlockedActions[t]
<1>1. \A t \in DOMAIN BlockedActions : t \notin DOMAIN WorkloadActions /\ t \notin DOMAIN DemoActions
  BY Keys
<1> QED
  BY <1>1 DEF Catalog, CatalogKeys

Low(entry) ==
  entry.RiskLevel = "low" /\ entry.Executable = TRUE /\ entry.AllowedEnvironments = NonProduction

LEMMA WorkloadFields ==
  /\ Low(WorkloadActions["restart_worker"]) /\ Low(WorkloadActions["resume_consumer"])
  /\ WorkloadActions["pause_consumer"].RollbackActionKey = "resume_consumer"
  /\ WorkloadActions["pause_consumer"].AllowedTargets = {"queue-worker"}
  /\ WorkloadActions["pause_consumer"].AllowedEnvironments = NonProduction
  /\ WorkloadActions["pause_consumer"].RiskLevel = "medium"
  /\ WorkloadActions["resume_consumer"].AllowedTargets = {"queue-worker"}
  BY DEF WorkloadActions, Runnable, ActionDefinition, Low

LEMMA DemoFields ==
  /\ Low(DemoActions["restart_demo_worker"]) /\ Low(DemoActions["retry_demo_background_job"])
  /\ Low(DemoActions["refresh_demo_cache"]) /\ Low(DemoActions["resume_demo_queue_consumer"])
  /\ DemoActions["restart_demo_service"].RiskLevel = "medium"
  /\ DemoActions["restart_demo_service"].Executable = FALSE
  /\ DemoActions["scale_demo_replicas"].RiskLevel = "medium"
  /\ DemoActions["scale_demo_replicas"].Executable = FALSE
  /\ DemoActions["pause_demo_queue_consumer"].RollbackActionKey = "resume_demo_queue_consumer"
  /\ DemoActions["pause_demo_queue_consumer"].AllowedTargets = {"demo-queue-consumer"}
  /\ DemoActions["pause_demo_queue_consumer"].AllowedEnvironments = NonProduction
  /\ DemoActions["pause_demo_queue_consumer"].RiskLevel = "medium"
  /\ DemoActions["resume_demo_queue_consumer"].AllowedTargets = {"demo-queue-consumer"}
  BY DEF DemoActions, Runnable, ActionDefinition, Low

LEMMA BlockedFields ==
  /\ BlockedActions["rollback_production_deployment"].RiskLevel = "high"
  /\ BlockedActions["reroute_traffic"].RiskLevel = "high"
  /\ BlockedActions["disable_primary_feature_flag"].RiskLevel = "high"
  BY DEF BlockedActions, ActionDefinition

LEMMA CatalogRisks == \A t \in CatalogKeys : LowRisk(t) /\ MediumRisk(t)
<1>1. ASSUME NEW t \in DOMAIN WorkloadActions PROVE LowRisk(t) /\ MediumRisk(t)
  <2>1. CASE t = "pause_consumer"
    <3>1. /\ Catalog[t] = WorkloadActions["pause_consumer"]
          /\ Catalog["resume_consumer"] = WorkloadActions["resume_consumer"]
      BY <1>1, <2>1, Keys, WorkloadEntries
    <3> QED
      BY <3>1, WorkloadFields DEF Low, LowRisk, MediumRisk
  <2>2. CASE t # "pause_consumer"
    <3>1. Low(Catalog[t])
      BY <1>1, <2>2, Keys, WorkloadEntries, WorkloadFields
    <3> QED
      BY <3>1 DEF Low, LowRisk, MediumRisk
  <2> QED
    BY <2>1, <2>2
<1>2. ASSUME NEW t \in DOMAIN DemoActions PROVE LowRisk(t) /\ MediumRisk(t)
  <2>1. CASE t = "pause_demo_queue_consumer"
    <3>1. /\ Catalog[t] = DemoActions["pause_demo_queue_consumer"]
          /\ Catalog["resume_demo_queue_consumer"] = DemoActions["resume_demo_queue_consumer"]
      BY <1>2, <2>1, Keys, DemoEntries
    <3> QED
      BY <3>1, DemoFields DEF Low, LowRisk, MediumRisk
  <2>2. CASE t \in {"restart_demo_service", "scale_demo_replicas"}
    <3>1. Catalog[t].RiskLevel = "medium" /\ Catalog[t].Executable = FALSE
      BY <1>2, <2>2, DemoEntries, DemoFields
    <3> QED
      BY <3>1 DEF LowRisk, MediumRisk
  <2>3. CASE t \in {"restart_demo_worker", "retry_demo_background_job", "refresh_demo_cache",
                    "resume_demo_queue_consumer"}
    <3>1. Low(Catalog[t])
      BY <1>2, <2>3, DemoEntries, DemoFields
    <3> QED
      BY <3>1 DEF Low, LowRisk, MediumRisk
  <2> QED
    BY <1>2, <2>1, <2>2, <2>3, Keys
<1>3. ASSUME NEW t \in DOMAIN BlockedActions PROVE LowRisk(t) /\ MediumRisk(t)
  <2>1. BlockedActions[t].RiskLevel = "high"
    BY <1>3, Keys, BlockedFields
  <2> QED
    BY <1>3, <2>1, BlockedEntries DEF LowRisk, MediumRisk
<1> QED
  BY <1>1, <1>2, <1>3 DEF CatalogKeys
----------------------------------------------------------------------------
(* The rules. *)

\* A list of one draft, which a condition may have left empty.
LEMMA AtMostOne ==
  ASSUME NEW d \in ADraft, NEW q, q = <<d>> \/ q = <<>>
  PROVE  /\ q \in Seq(ADraft) /\ Len(q) \in 0..1 /\ (q = <<>> => Len(q) = 0)
         /\ \A k \in 1..Len(q) : q = <<d>> /\ q[k] = d
<1>1. CASE q = <<d>>
  <2>1. <<d>> \in Seq(ADraft) /\ Len(<<d>>) = 1 /\ <<d>>[1] = d
    OBVIOUS
  <2>2. \A k \in 1..1 : <<d>>[k] = d
    BY <2>1
  <2> QED
    BY <1>1, <2>1, <2>2
<1>2. CASE q = <<>>
  BY <1>2
<1> QED
  BY <1>1, <1>2

LEMMA RuleDraftsTyped ==
  ASSUME NEW e \in Evidence
  PROVE  /\ RuleDrafts(e) \in Seq(ADraft)
         /\ Len(RuleDrafts(e)) <= 3
         /\ \A k \in 1..Len(RuleDrafts(e)) : Answers(RuleDrafts(e)[k].type, e)
<1> e.backlog \in Nat /\ e.latency \in Nat /\ e.signal \in Signals
  BY DEF Evidence
<1>1. RefreshCache \in ADraft /\ RefreshCache.type = "refresh_demo_cache"
  BY DEF RefreshCache, Draft, ADraft
<1>2. CASE e.signal = "worker_stall"
  <2> DEFINE real == service = "queue-worker"
             first == IF real THEN Draft("restart_worker", "queue-worker", {"worker_id"})
                      ELSE Draft("restart_demo_worker", "demo-worker", {"worker_id"})
             retry == Draft("retry_demo_background_job", "demo-job-runner", {"job_id"})
             pause == IF real THEN Draft("pause_consumer", "queue-worker", {})
                      ELSE Draft("pause_demo_queue_consumer", "demo-queue-consumer", {})
             q == If(e.backlog >= 80 /\ ~real, retry)
             r == If(e.backlog >= 120, pause)
  <2>1. first \in ADraft /\ first.type \in {"restart_worker", "restart_demo_worker"}
    BY DEF Draft, ADraft
  <2>2. retry \in ADraft /\ retry.type = "retry_demo_background_job"
    BY DEF Draft, ADraft
  <2>3. pause \in ADraft /\ pause.type \in {"pause_consumer", "pause_demo_queue_consumer"}
    BY DEF Draft, ADraft
  <2> HIDE DEF first, retry, pause
  <2>4. /\ q \in Seq(ADraft) /\ Len(q) \in 0..1
        /\ \A k \in 1..Len(q) : e.backlog >= 80 /\ q[k] = retry
    <3>1. CASE e.backlog >= 80 /\ ~real
      <4>1. q = <<retry>>
        BY <3>1 DEF If
      <4> QED
        BY <2>2, <3>1, <4>1, AtMostOne
    <3>2. CASE ~(e.backlog >= 80 /\ ~real)
      <4>1. q = <<>>
        BY <3>2 DEF If
      <4> QED
        BY <2>2, <4>1, AtMostOne
    <3> QED
      BY <3>1, <3>2
  <2>5. /\ r \in Seq(ADraft) /\ Len(r) \in 0..1
        /\ \A k \in 1..Len(r) : e.backlog >= 120 /\ r[k] = pause
    <3>1. CASE e.backlog >= 120
      <4>1. r = <<pause>>
        BY <3>1 DEF If
      <4> QED
        BY <2>3, <3>1, <4>1, AtMostOne
    <3>2. CASE ~(e.backlog >= 120)
      <4>1. r = <<>>
        BY <3>2 DEF If
      <4> QED
        BY <2>3, <4>1, AtMostOne
    <3> QED
      BY <3>1, <3>2
  <2>6. RuleDrafts(e) = (<<first>> \o q) \o r
    <3>1. RuleDrafts(e) = StallDrafts(e)
      BY <1>2 DEF RuleDrafts
    <3>2. StallDrafts(e) = (<<first>> \o q) \o r
      BY Zenon DEF StallDrafts, first, retry, pause
    <3> QED
      BY <3>1, <3>2
  <2> HIDE DEF q, r
  <2>7. /\ <<first>> \o q \in Seq(ADraft) /\ Len(<<first>> \o q) = 1 + Len(q)
        /\ \A k \in 1..Len(<<first>> \o q) :
             (<<first>> \o q)[k] = IF k = 1 THEN first ELSE q[k - 1]
    BY <2>1, <2>4
  <2> DEFINE p == <<first>> \o q
  <2> HIDE DEF p
  <2>8. /\ p \o r \in Seq(ADraft) /\ Len(p \o r) = Len(p) + Len(r)
        /\ \A k \in 1..Len(p \o r) : (p \o r)[k] = IF k <= Len(p) THEN p[k] ELSE r[k - Len(p)]
    BY <2>5, <2>7 DEF p
  <2>9. RuleDrafts(e) = p \o r
    BY <2>6 DEF p
  <2>10. ASSUME NEW k \in 1..Len(p \o r) PROVE Answers((p \o r)[k].type, e)
    <3>1. CASE k = 1
      BY <1>2, <2>1, <2>4, <2>7, <2>8, <3>1 DEF p, Answers
    <3>2. CASE k # 1 /\ k <= Len(p)
      <4>1. (p \o r)[k] = q[k - 1] /\ k - 1 \in 1..Len(q)
        BY <2>4, <2>7, <2>8, <3>2 DEF p
      <4> QED
        BY <1>2, <2>2, <2>4, <4>1 DEF Answers
    <3>3. CASE k > Len(p)
      <4>1. (p \o r)[k] = r[k - Len(p)] /\ k - Len(p) \in 1..Len(r)
        BY <2>5, <2>7, <2>8, <3>3, <2>4 DEF p
      <4> QED
        BY <1>2, <2>3, <2>5, <4>1 DEF Answers
    <3> QED
      BY <2>4, <2>7, <2>8, <3>1, <3>2, <3>3 DEF p
  <2>11. Len(p) = 1 + Len(q)
    BY <2>7 DEF p
  <2>12. \A k \in 1..Len(RuleDrafts(e)) : Answers(RuleDrafts(e)[k].type, e)
    BY <2>9, <2>10
  <2>13. RuleDrafts(e) \in Seq(ADraft) /\ Len(RuleDrafts(e)) = Len(p) + Len(r)
    BY <2>8, <2>9
  <2>14. Len(RuleDrafts(e)) <= 3
    <3> DEFINE i == Len(q)
               j == Len(r)
               n == Len(RuleDrafts(e))
    <3>1. i \in 0..1 /\ j \in 0..1 /\ n = (1 + i) + j
      BY <2>4, <2>5, <2>11, <2>13
    <3> HIDE DEF i, j, n
    <3>2. n <= 3
      BY <3>1
    <3> QED
      BY <3>2 DEF n
  <2> QED
    BY <2>12, <2>13, <2>14
<1>3. CASE e.signal = "timeout_after_deploy"
  <2>1. RuleDrafts(e) = <<RefreshCache>>
    BY <1>3 DEF RuleDrafts
  <2> QED
    BY <1>1, <1>3, <2>1 DEF Answers
<1>4. CASE e.signal = "error_rate_spike"
  <2>1. RuleDrafts(e) = If(e.latency >= 500, RefreshCache)
    BY <1>4 DEF RuleDrafts
  <2> QED
    <3>1. RuleDrafts(e) = <<RefreshCache>> \/ RuleDrafts(e) = <<>>
      BY <2>1 DEF If
    <3>2. /\ RuleDrafts(e) \in Seq(ADraft) /\ Len(RuleDrafts(e)) \in 0..1
          /\ \A k \in 1..Len(RuleDrafts(e)) : RuleDrafts(e)[k] = RefreshCache
      BY <1>1, <3>1, AtMostOne
    <3> QED
      BY <1>1, <1>4, <3>2 DEF Answers
<1>5. CASE e.signal = "unknown"
  BY <1>5 DEF RuleDrafts
<1> QED
  BY <1>2, <1>3, <1>4, <1>5 DEF Signals

LEMMA Validation ==
  ASSUME NEW d \in ADraft
  PROVE  /\ validateAction(d) \in Fine
         /\ validateAction(d).type = d.type
         /\ validateAction(d).status \in {"proposed", "invalid"}
<1> DEFINE a == validateAction(d)
<1>1. /\ a.type = d.type /\ a.target = d.target /\ a.parameters = d.parameters
      /\ a.status = IF ValidAction(d) THEN "proposed" ELSE "invalid"
  BY DEF validateAction
<1>2. a \in Candidates
  <2>1. a = Candidate(d, IF ValidAction(d) THEN "proposed" ELSE "invalid")
    BY DEF validateAction, Candidate
  <2>2. (IF ValidAction(d) THEN "proposed" ELSE "invalid") \in Statuses
    BY DEF Statuses
  <2> QED
    BY <2>1, <2>2 DEF Candidates
<1>3. ValidAction(d) => ValidAction(a)
  BY <1>1 DEF ValidAction, validParameters
<1>4. Sound(a)
  BY <1>1, <1>3 DEF Sound
<1> QED
  BY <1>1, <1>2, <1>4 DEF Fine

LEMMA RuleActionsTyped ==
  ASSUME NEW e \in Evidence
  PROVE  /\ RuleActions(e) \in Seq(Candidates)
         /\ Len(RuleActions(e)) <= 3
         /\ \A k \in 1..Len(RuleActions(e)) :
              /\ RuleActions(e)[k] \in Fine
              /\ RuleActions(e)[k].status \in {"proposed", "invalid"}
              /\ Answers(RuleActions(e)[k].type, e)
<1> DEFINE q == RuleDrafts(e)
           n == Len(q)
           f == [k \in 1..n |-> validateAction(q[k])]
<1>1. q \in Seq(ADraft) /\ n \in Nat /\ n <= 3 /\ \A k \in 1..n : Answers(q[k].type, e)
  BY RuleDraftsTyped
<1>2. DOMAIN q = 1..n /\ \A k \in 1..n : q[k] \in ADraft
  BY <1>1
<1>3. RuleActions(e) = f
  BY <1>2 DEF RuleActions
<1> HIDE DEF q, n
<1>4. \A k \in 1..n : f[k] = validateAction(q[k])
  OBVIOUS
<1>5. \A k \in 1..n : /\ f[k] \in Fine /\ f[k].type = q[k].type
                      /\ f[k].status \in {"proposed", "invalid"}
  BY <1>2, <1>4, Validation
<1>6. \A k \in 1..n : f[k] \in Candidates
  BY <1>5 DEF Fine
<1>7. f \in Seq(Candidates) /\ Len(f) = n
  BY <1>1, <1>6
<1> QED
  BY <1>1, <1>3, <1>5, <1>7

LEMMA CollectTyped == Collect(observability) \subseteq Evidence
<1> USE ConstantsAssumption
<1>1. WorkloadEvidence \subseteq Evidence
  BY DEF WorkloadEvidence, Evidence, Signals
<1>2. DemoEvidence \subseteq Evidence
  <2> DEFINE shown == Simulated \cup {AfterDemoAction[a] : a \in DOMAIN AfterDemoAction}
  <2>1. \A s \in shown :
          /\ s.Mode \in {"healthy", "worker_stall", "timeout_after_deploy", "error_rate_spike"}
          /\ s.LatencyMs \in Nat /\ s.QueueBacklog \in Nat
    BY DEF Simulated, AfterDemoAction, Snapshot, Reset
  <2> HIDE DEF shown
  <2>2. \A s \in shown :
          [signal |-> IF s.Mode = "healthy" THEN "unknown" ELSE s.Mode,
           backlog |-> s.QueueBacklog, latency |-> s.LatencyMs] \in Evidence
    BY <2>1 DEF Evidence, Signals
  <2> QED
    BY <2>2 DEF DemoEvidence, shown
<1>3. GrafanaEvidence \subseteq Evidence
  <2>1. NoEvidence \in Evidence
    BY DEF NoEvidence, Evidence, Signals
  <2>2. [signal : Signals, backlog : Backlogs \cup {0}, latency : Latencies \cup {0}]
          \subseteq Evidence
    <3>1. Backlogs \cup {0} \subseteq Nat /\ Latencies \cup {0} \subseteq Nat
      OBVIOUS
    <3> QED
      BY <3>1, Zenon DEF Evidence
  <2> QED
    BY <2>1, <2>2 DEF GrafanaEvidence
<1> QED
  BY <1>1, <1>2, <1>3 DEF Collect
----------------------------------------------------------------------------
(* The pipeline. *)

LEMMA FineStays == environment' = environment => Fine' = Fine
  BY DEF Fine, Sound, ValidAction, validParameters, InScope, Containable

LEMMA InitInv == Init => Inv
<1> SUFFICES ASSUME Init PROVE Inv
  OBVIOUS
<1>1. /\ environment \in Environments /\ incidentState = "triaging" /\ stage = "collect"
      /\ evidence = NoEvidence /\ latest = NoEvidence
      /\ author = "nobody" /\ actions = <<>> /\ next = 1
  BY Zenon DEF Init
<1>2. Len(actions) = 0 /\ actions \in Seq(Candidates) /\ 1..Len(actions) = {} /\ Offered = {}
  BY <1>1 DEF Offered
<1>3. NoEvidence \in Evidence
  BY DEF NoEvidence, Evidence, Signals
<1>4. TypeOK
  BY <1>1, <1>2, <1>3 DEF TypeOK, Stages
<1>5. Validated /\ Short /\ Current
  BY <1>1, <1>2 DEF Validated, Short, Current
<1>6. Told
  BY <1>1 DEF Told
<1> QED
  BY <1>4, <1>5, <1>6 DEF Inv

(* A step that keeps the list, its author and the incident, and stays     *)
(* before or after the saving of the list.                                *)
LEMMA QuietStep ==
  ASSUME Inv, UNCHANGED <<environment, incidentState, author, actions>>,
         stage' \in Stages, next' \in Nat \ {0},
         evidence' \in Evidence, latest' = evidence',
         stage \in Early \/ UNCHANGED evidenceVars,
         stage' \in Early \cup {"draft", "save"} => stage \in Early \cup {"draft", "save"},
         stage' \in Early => stage \in Early,
         stage' = "draft" => stage = "draft",
         stage' = "collect" => stage = "collect" /\ UNCHANGED evidenceVars,
         stage = "done" <=> stage' = "done"
  PROVE  Inv'
<1>1. TypeOK'
  BY DEF Inv, TypeOK
<1>2. Validated'
  <2>1. Fine' = Fine
    BY FineStays
  <2> QED
    BY <2>1 DEF Inv, Validated
<1>3. Short'
  BY DEF Inv, Short
<1>4. Current'
  BY DEF Inv, Current, evidenceVars
<1>5. Told'
  BY DEF Inv, Told, Offered
<1> QED
  BY <1>1, <1>2, <1>3, <1>4, <1>5 DEF Inv

LEMMA EvaluateStep ==
  ASSUME Inv, EvaluateNext
  PROVE  Inv'
<1> USE DEF incidentVars, switchVars, evidenceVars, actionVars
<1>1. /\ stage = "evaluate" /\ stage' = "evaluate" /\ next' = next + 1
      /\ UNCHANGED <<environment, incidentState, author, evidence, latest>>
  BY DEF EvaluateNext
<1>2. TypeOK /\ actions \in Seq(Candidates) /\ DOMAIN actions = 1..Len(actions) /\ next \in Nat
  BY DEF Inv, TypeOK
<1>3. CASE actions' = actions
  <2>1. evidence' \in Evidence /\ latest' = evidence' /\ next' \in Nat \ {0}
    BY <1>1, <1>2 DEF TypeOK, Inv, Current
  <2> QED
    BY <1>1, <1>3, <2>1, QuietStep DEF Stages, Early
<1>4. CASE next \in Proposed
  <2> DEFINE a == actions[next]
             b == [a EXCEPT !.status = Evaluate(a)]
  <2>1. next \in 1..Len(actions) /\ a.status = "proposed" /\ a \in Fine
    BY <1>2, <1>4 DEF Proposed, Inv, Validated
  <2>2. actions' = [actions EXCEPT ![next] = b]
    BY <1>4 DEF EvaluateNext
  <2>3. b \in Fine /\ b.type = a.type
    <3>1. PICK d \in ADraft, s \in Statuses : a = Candidate(d, s)
      BY <2>1 DEF Fine, Candidates
    <3>2. Evaluate(a) \in Statuses
      BY DEF Evaluate, Statuses
    <3>3. b = Candidate(d, Evaluate(a))
      BY <3>1 DEF Candidate
    <3>4. b \in Candidates
      BY <3>2, <3>3 DEF Candidates
    <3>5. /\ b.type = a.type /\ b.target = a.target /\ b.parameters = a.parameters
          /\ b.status = Evaluate(a)
      BY <3>1, <3>3 DEF Candidate
    <3>6. ValidAction(a)
      BY <2>1 DEF Fine, Sound
    <3>7. ValidAction(b)
      BY <3>5, <3>6 DEF ValidAction, validParameters
    <3>8. b.status = "awaiting_approval" => Offerable(a)
      BY <3>5 DEF Evaluate
    <3>9. Sound(b)
      BY <3>5, <3>7, <3>8 DEF Sound, Offerable, InScope, Containable
    <3> QED
      BY <3>4, <3>5, <3>9 DEF Fine
  <2> HIDE DEF b
  <2>4. /\ actions' \in Seq(Candidates) /\ Len(actions') = Len(actions)
        /\ \A k \in 1..Len(actions) :
             actions'[k] = IF k = next THEN b ELSE actions[k]
    BY <1>2, <2>1, <2>2, <2>3 DEF Fine
  <2>5. \A k \in 1..Len(actions) : actions'[k].type = actions[k].type
    BY <2>3, <2>4
  <2>6. TypeOK'
    BY <1>1, <1>2, <2>4 DEF TypeOK
  <2>7. Validated'
    <3>1. Fine' = Fine
      BY <1>1, FineStays
    <3>2. \A k \in 1..Len(actions) : actions[k] \in Fine
      BY DEF Inv, Validated
    <3> QED
      BY <1>1, <2>3, <2>4, <3>1, <3>2 DEF Validated, Early
  <2>8. Short'
    BY <2>4, <2>5 DEF Inv, Short
  <2>9. Current'
    <3>1. author \in {"rules", "fallback"} =>
            \A k \in 1..Len(actions) : Answers(actions'[k].type, latest)
      BY <2>5 DEF Inv, Current
    <3> QED
      BY <1>1, <2>4, <3>1 DEF Inv, Current, Early
  <2>10. Told'
    BY <1>1 DEF Inv, Told
  <2> QED
    BY <2>6, <2>7, <2>8, <2>9, <2>10 DEF Inv
<1> QED
  BY <1>3, <1>4 DEF EvaluateNext

LEMMA NextInv == Inv /\ [Next]_vars => Inv'
<1> SUFFICES ASSUME Inv, [Next]_vars PROVE Inv'
  OBVIOUS
<1> USE DEF incidentVars, switchVars, evidenceVars, actionVars
<1>0. /\ TypeOK /\ evidence = latest
      /\ stage \in Early => Len(actions) = 0 /\ 1..Len(actions) = {}
  BY DEF Inv, Current
<1>1. CASE CollectEvidence
  <2>1. NoEvidence \in Evidence
    BY DEF NoEvidence, Evidence, Signals
  <2>2. Collect(observability) \subseteq Evidence
    BY CollectTyped
  <2>3. /\ stage = "collect" /\ stage' = "triage"
        /\ UNCHANGED <<environment, incidentState, author, actions, next>>
        /\ evidence' \in Evidence /\ latest' = evidence'
    BY <1>0, <1>1, <2>1, <2>2 DEF CollectEvidence, Inv, Current
  <2> QED
    BY <1>0, <2>3, QuietStep DEF TypeOK, Stages, Early
<1>2. CASE GenerateTriage
  BY <1>0, <1>2, QuietStep DEF GenerateTriage, TypeOK, Stages, Early
<1>3. CASE RefreshEvidence
  <2>1. /\ stage = "refresh" /\ stage' = "label"
        /\ UNCHANGED <<environment, incidentState, author, actions, next>>
        /\ evidence' \in Evidence /\ latest' = evidence'
    BY <1>0, <1>3, CollectTyped DEF RefreshEvidence, ActOn, TypeOK
  <2> QED
    BY <1>0, <2>1, QuietStep DEF TypeOK, Stages, Early
<1>4. CASE LabelGeneration
  BY <1>0, <1>4, QuietStep DEF LabelGeneration, TypeOK, Stages, Early
<1>5. CASE ProviderAnswers
  <2>1. /\ stage = "generate" /\ stage' = "draft" /\ author' = "provider"
        /\ evidence' = NoEvidence /\ latest' = NoEvidence
        /\ UNCHANGED <<environment, incidentState, actions, next>>
    BY <1>5 DEF ProviderAnswers
  <2>2. Len(actions) = 0 /\ 1..Len(actions) = {}
    BY <1>0, <2>1 DEF Early
  <2>3. NoEvidence \in Evidence
    BY DEF NoEvidence, Evidence, Signals
  <2>4. TypeOK'
    BY <1>0, <2>1, <2>3 DEF TypeOK, Stages
  <2>5. Validated' /\ Short' /\ Current'
    BY <2>1, <2>2 DEF Validated, Short, Current, Early
  <2>6. Told'
    BY <2>1 DEF Inv, Told, Offered
  <2> QED
    BY <2>4, <2>5, <2>6 DEF Inv
<1>6. CASE ReadDraft
  <2>1. /\ stage = "draft" /\ stage' = "draft" /\ ~Full
        /\ UNCHANGED <<environment, incidentState, author, next, evidence, latest>>
    BY <1>6, Zenon DEF ReadDraft
  <2>2. actions' = actions \/ \E d \in Drafts : actions' = Append(actions, validateAction(d))
    BY <1>6, Zenon DEF ReadDraft
  <2>3. CASE actions' = actions
    BY <1>0, <2>1, <2>3, QuietStep DEF TypeOK, Stages, Early
  <2>4. ASSUME NEW d \in Drafts, actions' = Append(actions, validateAction(d)) PROVE Inv'
    <3> DEFINE a == validateAction(d)
               n == Len(actions)
    <3>1. a \in Fine /\ a \in Candidates /\ a.status \in {"proposed", "invalid"}
      BY Validation DEF ADraft, Fine
    <3> HIDE DEF a
    <3>2. /\ actions \in Seq(Candidates) /\ n \in Nat
          /\ actions' \in Seq(Candidates) /\ Len(actions') = n + 1
          /\ actions'[n + 1] = a /\ \A k \in 1..n : actions'[k] = actions[k]
      BY <1>0, <2>4, <3>1 DEF TypeOK, a
    <3>3. \A k \in 1..Len(actions') : k \in 1..n \/ k = n + 1
      BY <3>2
    <3>4. TypeOK'
      BY <1>0, <2>1, <3>2 DEF TypeOK
    <3>5. Validated'
      <4>1. Fine' = Fine
        BY <2>1, FineStays
      <4>2. \A k \in 1..n : actions[k] \in Fine /\ actions[k].status \in {"proposed", "invalid"}
        BY <2>1 DEF Inv, Validated
      <4> QED
        BY <3>1, <3>2, <3>3, <4>1, <4>2 DEF Validated
    <3>6. Short'
      <4>1. n >= 4 => actions[n].type \notin CatalogKeys
        BY <2>1 DEF Full
      <4>2. \A k \in 1..n : k >= 4 /\ k < n => actions[k].type \notin CatalogKeys
        BY DEF Inv, Short
      <4>3. ASSUME NEW k \in 1..Len(actions'), k >= 4, k < Len(actions')
            PROVE  actions'[k].type \notin CatalogKeys
        <5>1. k \in 1..n /\ (k = n \/ k < n)
          BY <3>2, <4>3
        <5> QED
          BY <3>2, <4>1, <4>2, <4>3, <5>1
      <4> QED
        BY <4>3 DEF Short
    <3>7. Current'
      BY <2>1 DEF Inv, Current, Early
    <3>8. Told'
      BY <2>1 DEF Inv, Told
    <3> QED
      BY <3>4, <3>5, <3>6, <3>7, <3>8 DEF Inv
  <2> QED
    BY <2>2, <2>3, <2>4
<1>7. CASE EndOfAnswer
  BY <1>0, <1>7, QuietStep DEF EndOfAnswer, TypeOK, Stages, Early
<1>8. CASE RulesAnswer
  <2> DEFINE q == RuleActions(evidence)
  <2>1. /\ stage = "generate" /\ stage' = "save" /\ author' \in {"rules", "fallback"}
        /\ actions' = q
        /\ UNCHANGED <<environment, incidentState, next, evidence, latest>>
    BY <1>8 DEF RulesAnswer
  <2>2. /\ q \in Seq(Candidates) /\ Len(q) <= 3 /\ Len(q) \in Nat
        /\ \A k \in 1..Len(q) : /\ q[k] \in Fine
                                /\ q[k].status \in {"proposed", "invalid"}
                                /\ Answers(q[k].type, evidence)
    BY <1>0, RuleActionsTyped DEF TypeOK
  <2> HIDE DEF q
  <2>3. TypeOK'
    BY <1>0, <2>1, <2>2 DEF TypeOK, Stages
  <2>4. Validated'
    <3>1. Fine' = Fine
      BY <2>1, FineStays
    <3> QED
      BY <2>1, <2>2, <3>1 DEF Validated
  <2>5. Short'
    BY <2>1, <2>2 DEF Short
  <2>6. Current'
    BY <1>0, <2>1, <2>2 DEF Current, Early
  <2>7. Told'
    BY <2>1 DEF Inv, Told
  <2> QED
    BY <2>3, <2>4, <2>5, <2>6, <2>7 DEF Inv
<1>9. CASE ProposeOrEscalate
  <2>1. /\ stage = "save"
        /\ UNCHANGED <<environment, actions, author, next, evidence, latest>>
        /\ \/ Proposed = {} /\ stage' = "done" /\ incidentState' = "escalated"
           \/ stage' = "evaluate" /\ incidentState' = "action_proposed"
    BY <1>9 DEF ProposeOrEscalate
  <2>2. actions \in Seq(Candidates) /\ DOMAIN actions = 1..Len(actions)
    BY <1>0 DEF TypeOK
  <2>3. \A k \in 1..Len(actions) : actions[k].status \in {"proposed", "invalid"}
    BY <2>1 DEF Inv, Validated
  <2>4. Offered' = {}
    BY <2>1, <2>2, <2>3 DEF Offered
  <2>5. TypeOK'
    BY <1>0, <2>1 DEF TypeOK, Stages
  <2>6. Validated'
    <3>1. Fine' = Fine
      BY <2>1, FineStays
    <3> QED
      BY <2>1, <3>1 DEF Inv, Validated, Early
  <2>7. Short' /\ Current'
    BY <2>1 DEF Inv, Short, Current, Early
  <2>8. Told'
    BY <2>1, <2>2, <2>3, <2>4 DEF Told, Proposed
  <2> QED
    BY <2>5, <2>6, <2>7, <2>8 DEF Inv
<1>10. CASE EvaluateNext
  BY <1>0, <1>10, EvaluateStep
<1>11. CASE FinishEvaluation
  <2>1. /\ stage = "evaluate" /\ stage' = "done"
        /\ incidentState' = IF Offered = {} THEN incidentState ELSE "awaiting_approval"
        /\ UNCHANGED <<environment, actions, author, next, evidence, latest>>
    BY <1>11 DEF FinishEvaluation
  <2>2. TypeOK'
    BY <1>0, <2>1 DEF TypeOK, Stages
  <2>3. Validated'
    <3>1. Fine' = Fine
      BY <2>1, FineStays
    <3> QED
      BY <2>1, <3>1 DEF Inv, Validated, Early
  <2>4. Short' /\ Current'
    BY <2>1 DEF Inv, Short, Current, Early
  <2>5. Told'
    <3>1. Offered' = Offered
      BY <2>1 DEF Offered
    <3> QED
      BY <2>1, <3>1 DEF Inv, Told
  <2> QED
    BY <2>2, <2>3, <2>4, <2>5 DEF Inv
<1>12. CASE Abort
  BY <1>0, <1>12, QuietStep DEF Abort, TypeOK, Stages, Early
<1>13. CASE ChangeModes
  BY <1>0, <1>13, QuietStep DEF ChangeModes, TypeOK, Stages, Early
<1>14. CASE TurnKillSwitch
  BY <1>0, <1>14, QuietStep DEF TurnKillSwitch, TypeOK, Stages, Early
<1>15. CASE UNCHANGED vars
  BY <1>0, <1>15, QuietStep DEF vars, TypeOK, Stages, Early
<1> QED
  BY <1>1, <1>2, <1>3, <1>4, <1>5, <1>6, <1>7, <1>8, <1>9, <1>10, <1>11, <1>12, <1>13, <1>14,
     <1>15 DEF Next, Pipeline
----------------------------------------------------------------------------
THEOREM Invariant == Spec => []Inv
<1>1. Init => Inv
  BY InitInv
<1>2. Inv /\ [Next]_vars => Inv'
  BY NextInv
<1> QED
  BY <1>1, <1>2, PTL DEF Spec

\* Whatever a provider answers, and however administrators change modes and
\* the switch meanwhile, ExecuteAction can start what EvaluateActions offers.
THEOREM OffersStart == Spec => []OfferedCanStart
<1>1. Inv => OfferedCanStart
  <2> SUFFICES ASSUME Inv, NEW k \in Offered
               PROVE  LET a == actions[k]  entry == Catalog[a.type] IN
                      /\ a.type \in CatalogKeys
                      /\ entry.Executable /\ entry.RiskLevel # "high"
                      /\ environment \in entry.AllowedEnvironments /\ environment # "production"
                      /\ entry.required \subseteq a.parameters
                      /\ entry.RiskLevel = "medium" =>
                           LET way == Catalog[entry.RollbackActionKey] IN
                           /\ way.Executable /\ way.RiskLevel = "low"
                           /\ environment \in way.AllowedEnvironments
                           /\ a.target \in way.AllowedTargets
    BY DEF OfferedCanStart
  <2> DEFINE a == actions[k]
             entry == Catalog[a.type]
  <2>1. actions \in Seq(Candidates) /\ k \in 1..Len(actions) /\ a.status = "awaiting_approval"
    BY DEF Offered, Inv, TypeOK
  <2>2. Sound(a)
    BY <2>1 DEF Inv, Validated, Fine
  <2> HIDE DEF a
  <2>3. /\ a.type \in CatalogKeys /\ environment \in entry.AllowedEnvironments
        /\ a.target \in entry.AllowedTargets /\ entry.required \subseteq a.parameters
    BY <2>1, <2>2 DEF Sound, ValidAction, validParameters
  <2>4. LowRisk(a.type) /\ MediumRisk(a.type)
    BY <2>3, CatalogRisks
  <2>5. "production" \notin NonProduction
    BY DEF NonProduction
  <2>6. CASE entry.RiskLevel = "low"
    BY <2>3, <2>4, <2>5, <2>6 DEF LowRisk, a
  <2>7. CASE entry.RiskLevel = "medium" /\ Containable(a)
    <3>1. entry.Executable /\ entry.RollbackActionKey \in CatalogKeys
      BY <2>7 DEF Containable
    <3> DEFINE way == Catalog[entry.RollbackActionKey]
    <3>2. /\ entry.AllowedEnvironments = NonProduction
          /\ way.Executable /\ way.RiskLevel = "low"
          /\ way.AllowedEnvironments = NonProduction
          /\ way.AllowedTargets = entry.AllowedTargets
      BY <2>4, <2>7, <3>1 DEF MediumRisk
    <3> QED
      BY <2>3, <2>5, <2>7, <3>1, <3>2 DEF a
  <2> QED
    BY <2>1, <2>2, <2>6, <2>7 DEF Sound
<1> QED
  BY <1>1, Invariant, PTL

\* No answer, however long, puts more than four actions before the operators.
THEOREM FewOffers == Spec => []OffersBounded
<1>1. Inv => OffersBounded
  <2> SUFFICES ASSUME Inv PROVE Cardinality(Offered) <= 4
    BY DEF OffersBounded
  <2> DEFINE n == Len(actions)
             few == 1..3 \cup {n}
  <2>1. n \in Nat /\ DOMAIN actions = 1..n
    BY DEF Inv, TypeOK
  <2>2. ASSUME NEW k \in Offered PROVE k \in few
    <3>1. k \in 1..n /\ actions[k].status = "awaiting_approval"
      BY <2>1, <2>2 DEF Offered
    <3>2. actions[k].type \in CatalogKeys
      BY <3>1 DEF Inv, Validated, Fine, Sound, ValidAction
    <3>3. ~(k >= 4 /\ k < n)
      BY <3>1, <3>2 DEF Inv, Short
    <3> HIDE DEF n
    <3>4. k \in 1..3 \/ k = n
      BY <2>1, <3>1, <3>3
    <3> QED
      BY <3>4
  <2> HIDE DEF n
  <2>3. IsFiniteSet(1..3) /\ Cardinality(1..3) = 3
    <3>1. 1 \in Int /\ 3 \in Int
      OBVIOUS
    <3>2. /\ IsFiniteSet(1..3)
          /\ Cardinality(1..3) = IF 1 > 3 THEN 0 ELSE 3 - 1 + 1
      BY <3>1, FS_Interval, Zenon
    <3> QED
      BY <3>2
  <2>4. IsFiniteSet(few) /\ Cardinality(few) <= 4
    <3>1. /\ IsFiniteSet(few)
          /\ Cardinality(few) = IF n \in 1..3 THEN Cardinality(1..3) ELSE Cardinality(1..3) + 1
      BY <2>3, FS_AddElement
    <3> QED
      BY <2>3, <3>1
  <2>5. Cardinality(Offered) <= Cardinality(few) /\ Cardinality(Offered) \in Nat
    BY <2>2, <2>4, FS_Subset, FS_CardinalityType
  <2>6. Cardinality(few) \in Nat
    BY <2>4, FS_CardinalityType
  <2> QED
    BY <2>4, <2>5, <2>6
<1> QED
  BY <1>1, Invariant, PTL

\* The rules' offers answer to the evidence collected after the provider's
\* minutes, whichever source it came from.
THEOREM OffersAreCurrent == Spec => []OffersFollowEvidence
<1>1. Inv => OffersFollowEvidence
  <2>1. ASSUME Inv PROVE DOMAIN actions = 1..Len(actions)
    BY <2>1 DEF Inv, TypeOK
  <2>2. ASSUME Inv, author \in {"rules", "fallback"}, NEW k \in Offered
        PROVE  Answers(actions[k].type, latest)
    BY <2>1, <2>2 DEF Inv, Current, Offered
  <2> QED
    BY <2>2 DEF OffersFollowEvidence, Answers
<1> QED
  BY <1>1, Invariant, PTL

\* Awaiting approval, escalated: each says what became of the candidates.
THEOREM StateIsTrue == Spec => []StateMatchesOffers
<1>1. Inv => StateMatchesOffers
  <2>1. ASSUME Inv PROVE DOMAIN actions = 1..Len(actions)
    BY <2>1 DEF Inv, TypeOK
  <2> QED
    BY <2>1 DEF Inv, Told, StateMatchesOffers
<1> QED
  BY <1>1, Invariant, PTL
=============================================================================
