# Triovexa in TLA+

Triovexa turns Grafana alerts into incidents, triages them, proposes actions, has an operator
approve them, executes them on a workload and verifies the recovery. This directory models the
part of it where order matters: who may write what, when, and what a crash, a retry or a
concurrent request leaves behind. TLC checks the modules on small instances (`*.cfg`); TLAPS
checks the theorems in `*Proofs.tla` for every value of the constants. `PROJECT.json` names, for
every definition, the lines of code it stands for. Paths below are relative to `src/internal/`
unless they start with `cmd/`, `docs/` or `README.md`.

## 1. The system

| Component (code) | State | Operations | Talks to |
|---|---|---|---|
| Incident state machine (`incident/statemachine.go`) | none: a table | `CanTransition`, terminal states, what a resolved alert does | all writers of `incidents.state` |
| Alert intake (`incident/service.go`, `alerting/grafana.go`) | incidents, audit events | a firing or resolved alert against the latest episode; intake of incident and job in one transaction | store, triage jobs |
| Triage jobs (`workflow/runner.go`, job table in `storage/postgres.go`) | status, attempts, owner, lease | claim, complete, fail, recovery of dead letters | store, triage pipeline |
| Triage pipeline (`incident/service.go`, `triage/`, `remediation/`, `ai/`) | evidence, candidate actions | collect, triage, refresh, generate, validate, save, evaluate | collectors, provider, policy, store |
| Policy rules (`policy/evaluator.go`, `execution/catalog.go`, `topology/registry.go`) | none: tables | what may be offered for an incident | triage pipeline, execution |
| Observability (`observability/`, `mode/manager.go`, `demo/server.go`) | the two modes; the demo service's snapshot | collectors and snapshots of three sources | triage pipeline, verification |
| Decisions (`approval/service.go`) | action status, decision, approval | evaluate, approve, reject, refresh of the incident's state; kill switch | store, execution |
| Execution and recovery (`execution/service.go`, `control_adapter.go`) | execution records | gates, claim, dispatch with retry, outcome; recovery of `started` records | store, supervisor, verification |
| Verification and rollback (`verification/service.go`, `execution/rollback_service.go`) | verification and rollback records | observation window, verdict, compensation, end of the incident | telemetry, store, supervisor |
| Workload supervisor and worker (`workload/workload.go`, `cmd/workload`) | results per operation id, pause flag, worker process, Redis stream | operations, worker restart, consumption | control adapter |
| Store (`storage/postgres.go`, `memory.go`) | all records | claim, decision, compare-and-swap, intake and job transactions, settings, sessions | everyone |
| Sessions and middleware (`auth/`, `http/security.go`) | sessions, limiters | login, logout, roles, rate limit | HTTP API |
| Settings (`http/api_v1_connections.go`, `ai/openai_compatible.go`, `security/cipher.go`, `cmd/server/main.go`) | switch and connection, each in memory and stored | check, save, activate, restart | provider, store |
| Retrieval, redaction, configuration, readiness, telemetry, console pages | documents, metrics | | |

Behaviours that are hard here:

* **Concurrency.** Every HTTP request, two triage workers and startup recovery share the tables.
  A handler reads, decides and writes in separate store calls. Only compare-and-swap on the
  incident's state and the transactions of `postgres.go` protect it, and the network call to the
  supervisor happens outside all of them. The supervisor serves retries of an operation, restarts
  of its worker and the waiters of killed workers at the same time, over a lock it releases
  in between.
* **Crashes.** `main` runs recovery before it serves. It knows `started` execution records and
  dead-lettered triage jobs, nothing else; settings are in memory and in the store, written one
  after the other; a worker dies with a message in its hands.
* **Retries and lost connections.** A call to the supervisor is retried under one operation id, and
  a client that gives up cancels the context under which the supervisor still works. A job gets a
  new lease with an old handler possibly still working.
* **Reads that grow old.** Evidence before minutes of provider calls, modes and kill switch turned
  between two of them, a role checked before a handler runs, a pause flag read before a blocking
  read of the stream.
* **Time.** Leases, the 60 s of evidence, the 15 min of an approval, the verification window, the
  login limiter's window, a session's expiry.

What must hold, in a sentence each: an incident in triage is never forgotten and is evaluated once;
what operators are offered can be started and answers to the last evidence; an operation reaches
the workload only with authority and once per action; one action at a time per target; an
approval, a rejection and a claim never contradict each other; a success recorded is a success;
at most one worker consumes, and no message is lost; recovery settles what a crash left;
`resolved` and `rolled_back` have a cause; a verified success is a stable one; a restart finds
what the console answered for. The full list of hazards with their lines is in `PROJECT.json`
under `hazards`.

## 2. The modules

| Module | Models | Reads like |
|---|---|---|
| `IncidentLifecycle` | `statemachine.go`, terminal states | constant operators |
| `ExecutionGate` | nothing in the code: the abstract promise of the write path | 6 actions per action life cycle |
| `ControlContract` | nothing in the code: what write path and supervisor owe each other about one operation id | 6 actions per call |
| `TriageQueue` | nothing in the code: the abstract promise of intake and jobs about an episode | 6 actions per episode, and a restart |
| `Remediation` | `approval`, `execution`, the effects of `verification` and rollback, the claim and decision transactions, startup recovery | one action per store or network call |
| `TriageJobs` | intake and jobs | one action per store call |
| `Proposals` | the pipeline a job runs: collectors, generation, catalog, validation, policy | one action per call, one per draft of an answer |
| `Verification` | `Service.evaluate` and what its fetchers can answer | one action per observation |
| `Workload` | the supervisor's handlers, the worker on the stream, `ControlAdapter` under `executeWithRetry` | one action per Redis command, critical section or reply |
| `Access` | login limiter, sessions, middleware | one action per request |
| `Settings` | kill switch and provider connection, in memory and stored, and the start of the server | one action per critical section or store call |
| `Console` | `Settings` behind `Access` | composition |
| `MC*` | instances for TLC | |
| `RemediationProofs`, `RemediationLifeProofs`, `RemediationGateProofs`, `TriageJobsProofs`, `ProposalsProofs`, `VerificationProofs`, `WorkloadProofs`, `ConsoleProofs` | | theorems |

How they compose. `Remediation` and `TriageJobs` extend `IncidentLifecycle`; `Remediation`
instantiates `ExecutionGate` as `Gate`, `TriageJobs` instantiates `TriageQueue` as `Queue`; `Console` extends `Access` and `Settings` and makes every
settings request one that the middleware let in. Elsewhere a module models the other side by what it
may do, and never less. Two of these seams are held together by theorems:

* **Triage and write path** share the operator `MovesOn` of `IncidentLifecycle`. `TriageJobs!Remediate`
  moves an evaluated incident by any of `writePathMoves`, at any time, and `Remediation` is shown to
  make no other (`WritePathMoves`); `Remediation!Init` is a triaged incident whose evaluation is still
  to run, and `TriageJobs` is shown to leave it to the write path and the alert from then on
  (`TriageLetsGo`).
* **Write path and supervisor** both implement `ControlContract` (`KeepsContract`). `Remediation` has
  the outcomes of a dispatch, `OperationEnds` the results the supervisor may store; `Workload` has how
  both come about, request by request. In the contract an operation leaves in one call, a result is
  stored only for what was sent, a success is reported only over a stored result, a lost call ends as
  what is stored or as unknown, and nothing is sent after the end.

The others are by construction: `TriageJobs` abstracts the pipeline to its outcomes, which `Proposals`
refines for one attempt; `Remediation!SaveVerificationResult` chooses any verdict that `Verification`
could reach (and more).

### Remediation

A *request* (`Executors`) is one call of `ExecuteAction`: `pc` is where it is, `subject` its action,
`saw` the incident state it read last, and `record` the execution record it owns. An *operator*
session (`opStep`, `opAction`, `opSaw`) is one approve or reject request. `evaluation` is where
`EvaluateActions` is for each incident: it runs in the worker, at the same time as operators who can
already see the candidates. `operation` and `compensation` are the results the supervisor keeps by
operation id; they are not Triovexa's state and survive its crash.

The gates of `ExecuteAction` are actions in their order (`validateApproval`, `CheckKillSwitch`,
`validateEvidenceFreshness`, `ClaimExecution`): anything may happen in between. The claim rechecks
what `ClaimExecution` rechecks under its locks, no more, and writes record, action status and
incident state in one step without reading the latter. `Dispatch` sends the operation, retry
included, and the outcome is decided separately from what the operation really does
(`OperationEnds`), so a timed-out call whose operation lands later is in the model, and so is a retry
that runs beside the attempt before it and stores a second result over the first. After the
outcome every write is a step that a store error or closed connection (`StoreFaults`) or `Crash`
can cut off. `Recover` is one iteration of `RecoverStartedExecutions`; `RecoveryDone` opens the port.

Folded together: a read with the compare-and-swap right after it whose failure writes nothing; the
attempts of one dispatch, which `Workload` takes apart; audit events, and records nobody reads.

### TriageJobs

Incidents are the episodes of one external alert, numbered by creation time. A webhook handler
(`request`, `target`, `requestSaw`) looks for the latest episode and then writes; the intake
transaction is one step. A worker (`pc`, `job`, `attempt`) claims, loads, reasons, proposes or
escalates, hands the candidates to evaluation, and reports; `attempt` is the number read at its own
claim and may be stale. `leased` is whether `lease_until` is in the future; the delay of a retry is
left out, because it only postpones. The step that reasons succeeds, asks for escalation, or fails:
`Proposals` says when.

### Proposals

One run of `runReadOnlyTriage` for one incident. `stage` is where it is. `Collect` is what each
collector can make of its source, reduced to what the rules read: the detected signal, the backlog
and the latency. The demo service contributes every state its simulations and actions leave behind,
the workload every combination of its state's fields, Grafana any combination, because log lines and
metrics come from different data sources. `Catalog` is the action catalog as shipped, with `ValidAction`
for `validateAction`, `RuleDrafts` for the rules and `Offerable` for the policy over catalog and
topology registry. The provider is an arbitrary sequence of drafts, read one by one
(`ReadDraft`, with the `continue` that skips the length check). `ChangeModes` and `TurnKillSwitch` may
come between any two steps: the mode is read separately by the collector, the audit label and the
generator, the switch once for each action evaluated. `latest` and `author` are history variables.

### Verification

`clock` counts from the first observation. `baseline` is what `deriveBaselineSnapshot` finds in the
evidence. A snapshot is what `buildChecks` makes of it: two flags and, for each of three signals,
whether it improved, stayed or worsened; `Fetched` limits it to what the demo, workload and Grafana
fetchers can answer, in any mixture, because the mode is looked up at every snapshot. `recent` is a
history variable with time and outcome of the last observations.

### Workload

Three parties: worker processes (`step`, `mode`, `held`), the supervisor (`child`, `generation`, and
`handler[o][n]` for the n-th request of operation `o`) and the executor's client (`client`,
`attempt`), over Redis (`job`, `marked`, `counted`, `paused`, `fault`, `result`). The request in the
supervisor and the client that waits for it are separate: after `Broken`, `TimedOut` or `Crash` the
handler goes on with a cancelled context, under which looking up and storing a result and setting the
flag may fail, while the restart does not notice. `Kill` and `StartWorker` are the two critical
sections of `restart`; `Reap` is the goroutine that waits for a process. A message is taken with
flags that were read before the blocking read; marker, count, acknowledgement and deletion are a step
each and a kill may come between them. `effect`, `lost`, `found` and `taken` are history variables.
The demo-named actions arrive as the same three operations (`control_adapter.go:98`).

### Access, Settings, Console

`Access` has the limiter's list of one host, sessions with their expiry, and `MayMutate`, the
middleware's decision on a mutation. In `Settings` a handler (`handler[r]`) is a request with the
locals it has read: `SetSwitch` then `PersistSwitch`; `ReadConnection`, `SaveConnection`, `ReadKey`,
`Activate`. Nothing serialises two of them. `BootSwitch` and `BootConfig` are what the start of the
server makes of the store; `SettingsRestart` may lose the key file of the cipher, and the server
comes up only when `main` accepts the endpoint it loads. `EnvSwitch` is `KILL_SWITCH_ENABLED`, the
switch while none is stored. In `Console` a request is let in by `MayMutate` and its handler does not
look again (`by` remembers as whom).

## 3. What the runs check

| Run | Instance | Shows |
|---|---|---|
| `decisions` | 2 operators, 1 request, 2 actions of an incident, every policy outcome, kill switch, store faults, a crash | A dispatched operation was authorised and stays so (`DispatchAuthorised`); no late decision overwrites a claim (`StartedMeansExecuting`); an approved incident has an executable action (`ApprovedIncidentHasAction`); every write of an incident's state is one `TriageJobs` counts on: along the table from what is stored, no way back from an execution to an approval, and only the claim bypasses it (`WritePathMoves`) |
| `executions` | 2 requests, 2 actions, 1 target, store faults, a crash, rollback | `OneExecutionPerAction`, `ExclusiveTarget`, `ResolvedHasCause`, `RolledBackWasCompensated`, and the refinements `ImplementsGate` and `KeepsContract`, the latter for operations and compensations |
| `recovery` | 2 actions on 2 targets at once, 2 crashes | `StartedHasHandler`; under fairness `RecoveryCompletes` and `RemediationConcludes` |
| `triage` | 2 workers, 1 episode, 3 attempts, 2 crashes, store faults | `TriagingHasJob`, `TriageLetsGo`, and the refinement `ImplementsQueue`: an accepted episode is queued with it, tried a bounded number of times, evaluated once at most, done only when out of triage, given up exactly after its last attempt and taken up again by a restart; under fairness `TriageConcludes` |
| `proposals` | real and demo service, staging and production, 6 kinds of draft, answers of 5, both local collectors, a mode or switch change, store faults | `OfferedCanStart`, `OffersBounded`, `OffersFollowEvidence`, `StateMatchesOffers`; under fairness `Concludes` |
| `verification_window` | 3 observations, window of 4 intervals, all fetchers | `StableSuccess`, `VerdictInTime`, `NeverFailed` |
| `operations` | a restart and a pause, a retry each, no jobs | `WorkersSupervised`, `RestartsRenew`, `SuccessHasEffect`, `ExclusiveUnlessLost`, the refinement `KeepsContract`; under fairness `TargetFreed` |
| `worker` | the same, without retries, with 2 jobs and a fault | `PauseBounded`, `LeftMeansProcessed`; under fairness `QueuedJobsTaken` |
| `console` | an administrator and an operator, a session, 2 requests at once out of 3, a restart, store faults | `LimiterExact`, `SwitchOffIsRecorded`, `SavedConnectionReloads`, `CanRestart`, `AdminsChangeSettings` |
| `crash_after_outcome`, `duplicate_deliveries`, `unrecorded_effect` | the smallest that shows it | the findings of section 5 |

**Bounds.** Races here are between two: two actions, two requests, two operators, two workers
(the number the server starts), two settings handlers, two operations. A third party meets the same
lock, index or compare-and-swap. One target makes the claim's exclusion happen, two let actions
overlap; a run has one or the other. Two crashes let the second hit a recovery (`recovery`) or
what it left (`triage`). Every verdict of a verification is in `executions`; `recovery` takes the
longest path, the inconclusive one, to leave room for the second crash. `MaxAttempts` is the code's
3. Answers of five drafts pass the limit of four, and pass it with an unknown type in every place.
The backlogs and latencies of `proposals` lie on both sides of the rules' thresholds (80, 120, 500).
One change of mode or switch is enough for any two readings of one pipeline to differ. The window of
four intervals is longer than the three observations it needs, so a streak can break, start again and
finish late; snapshots take 0 or 1 units against an interval of 2, so they drift past the deadline.
One retry in `operations` lets two requests of one operation id overlap; a process started by one of
them is found by the other. `MaxWorkers` counts the processes the supervisor ever starts. One fault in
`worker` is a killed worker or a fault mode. The limiter of `console` takes 2 logins in 2 units, a
session lasts 2, the clock runs to 2: a login can leave the window and a session end. `SYMMETRY` is
used for requests, sessions and, where they share everything, actions, and never in a run with
liveness. In `executions` and `recovery` the policy allows actions without approval, to leave operators out;
the evaluator that is deployed never says `allow`, but `ApproveAction` leads to the same claim.

**Deadlock** is not checked: the counters are bounded, episodes are finite and incidents end, so
every instance may come to rest. What must not come to rest is stated as liveness.

**Fairness** is weak everywhere. In `Remediation` and `TriageJobs`: the steps of a started request,
of workers and of startup, because goroutines of a live process are scheduled, every network call has
a deadline (`ActionExecutionTimeout`, the job's context, HTTP client timeouts), and the compose
file restarts the containers (`restart: unless-stopped`). Leases expire because clocks advance. In
`Proposals`: the pipeline as a whole, for the same reasons. In `Workload`: each worker process, the
goroutine that waits for one that died, each request inside the supervisor, the client's reading of an
answer that came, and the reconciliation after a crash. No fairness is assumed for operators,
administrators, alerts, crashes, store errors, lost connections or the producer: nobody has to do
anything. `Settings` and `Access` claim no liveness.

## 4. What is proved

All theorems are for arbitrary sets of incidents, actions, targets, requests, operators, workers,
operations, jobs, drafts, users, endpoints and keys, and arbitrary bounds. The assumptions are typing
(`ConstantsAssumption`, `WindowAssumption`, `WorkloadAssumption`, `AccessAssumption`,
`SettingsAssumption`) and positive counts where the code has them; TLC evaluates them in every run.

* `RemediationProofs`: `TypeCorrect`, `ExecutesOnce`, `TargetsAreExclusive`. The invariant adds to
  the types (`TypeOK`) what a handler's position says about its record (`Handlers`): a request before
  its claim has no record and one past it has. Without it, nothing relates the claim's
  precondition, which speaks of records in the store, to the requests that hold them.
* `RemediationLifeProofs`: `AuthorisedDispatch`, `StartedExecutes`. The strengthening is the life of
  an action (`Life`): no status before its evaluation, no operation before its claim, no claim
  without an approval or policy's leave; and `Progress`: what a handler's position says of its record,
  its action's status and its operation. The step that matters is `RecordApproval` against a claim:
  its guard is the status it finds then, not the one it read.
  For the incidents: `MovesAsPromised`, `ResolvedForCause`, `RolledBackForReal`, `ApprovedHasAction`,
  `NoneStranded`. `Evidenced` says what a handler's position says of its verdict and its
  compensation; from it `Written` lists how a step writes an incident, and `Kept` that what
  an outcome rests on is never written again. `Hopeful` covers the stale refresh: an incident that one
  is about to approve has an action allowed or approved, and a claim, the only step that takes such an
  action away, takes the incident to where the table has no way back. `Committed` says the same of every
  incident with a claimed action, and so of every incident a handler moves: from there `TableFacts`
  and `MoveFacts`, about the table alone, give each handler's move its place in `MovesOn`.
* `RemediationGateProofs`: `WritePathImplementsGate`. `standing` maps an action to its place in
  `ExecutionGate` from its records and status; `effect` is the supervisor's result. Each action of
  `Next` is shown to be one step of the gate or a stutter, with the invariant above.
  `WritePathKeepsContract` does the same towards the supervisor. `executionCall` reads a call off the
  record and the position of the request, `rollbackCall` off the rollback record. The proof needs that
  a request which waits has sent (`Progress`) and that nothing is compensated before its rollback
  began (`Evidenced`). A crash takes several requests at once, so the contract loses a set of calls
  in one step (`Lose`).
* `TriageJobsProofs`: `TriageTypeCorrect`, `TriageIsNeverLost`, `EvaluatesOnce`,
  `RetriesAreBounded`, `TriageIsOver`. The invariant says what a worker knows: the owner of
  a running job has read its current attempt number (`OwnAttempt`), a worker about to report success
  has moved its incident out of triage or found it so (`Handled`); and what the store says: no
  evaluation before triage is left (`Unevaluated`), no job or competing request for an episode
  before its intake (`Fresh`), no resolved alert in flight for an incident it may not end (`Resolving`). From these
  `LettingGo`: a late worker or webhook finds its compare-and-swap refused.
  `JobsImplementQueue` is the refinement of `TriageQueue`. `standing` reads an episode's place off its
  state and `evaluations`; leases, owners, positions of workers and requests disappear. `Propose` needs
  `Unevaluated`, `Finish` needs `Handled`, `GiveUp` needs `OwnAttempt` (the worker decides from the
  number it read, the queue from the one stored), and `TakeUpAgain` needs `Fresh`: the job that
  `RecoverTriageJobs` would insert is never missing, so a restart only revives dead letters.
  `OneEpisodeAtATime` turns the finding `duplicate_deliveries` around: with a single webhook handler
  (its hypothesis) one episode at most is undecided, so concurrency of deliveries is all it takes.
* `ProposalsProofs`: `OffersStart`, `FewOffers`, `OffersAreCurrent`, `StateIsTrue`. `CatalogRisks`
  says what the shipped catalog guarantees by risk level, entry by entry. `Validated` carries the
  validation of each candidate through saving and evaluation, for an environment that stays what it
  is; `Short` bounds the known types from the fourth place on, which is what the skipped length
  check leaves true; `Current` ties the rules' drafts to the last evidence, for any collector;
  `Told` the incident's state to the list.
* `VerificationProofs`: `SuccessIsStable`, `VerdictsAreInTime`, `FailureIsUnreachable`. The
  invariant (`Counted`) says that the last `consecutive` entries of the history passed and all lie an
  interval apart. That a snapshot which passed is not degraded (`PassedIsNotDegraded`) is what makes
  `failed` unreachable for any `Required > 1`.
* `WorkloadProofs`: `WorkloadTyped`, `Supervision`, `Renewal`, `PauseTakesOne`, `NoJobLost`,
  `Exclusion`, `HonestSuccess`, `SupervisorKeepsContract`. `Renewing` says that between its two critical sections a restart's
  old process is gone and, unless another restart intervened, nobody has a child; `Awaited` that an
  unfinished request nobody lost is the one its client waits for; `Processing` that a message has one
  holder, who is past the count when it acknowledges; `Pausing` that whoever reads while paused read
  the flags before; `Answering` where a stored result and an answer come from; `Backed` that an answer of 200 to the
  attempt its client waits for has a stored result, which makes the client's success one the contract
  allows; it holds because results are stored before they are answered, and never deleted.
* `ConsoleProofs`: `SettingsTyped`, `SwitchSafe`, `ConnectionReloads`, `ServerRestarts`,
  `AdminsOnly`, `LimiterIsExact`. `SwitchInv` and `ConnectionInv` say what a request that nothing overlaps has in hand:
  that the bundle it read is still the stored one, and that the stored one is what it is about to
  activate. `ServerRestarts` has the hypothesis `ApiHosts \subseteq BootHosts` (section 5).
  `AdminsOnly` needs that a handler at work was let in as an administrator's (`ByAdmins`), whatever
  its session has become. The limiter's list is kept as the set of logins in it, each with its time and
  its number, which is what makes two logins of one instant two. `LimiterInv` says that list and history
  agree on the window and that the numbers are those given so far; `CountsAlike` that the two are
  therefore counted alike, by the theorems on finite sets.

Only model-checked: the liveness properties (`RecoveryCompletes`, `RemediationConcludes`,
`TriageConcludes`, `Concludes`, `TargetFreed`, `QueuedJobsTaken`): fairness and `ENABLED` are beyond
the prover. Every safety property a passing run checks is a theorem. The types of `TriageJobs` and `Workload` and
`EvaluatedOnce` are theorems that no run repeats: the refinement says the last one step by step. That the two sides of
a seam hold together in one system, one `MovesOn` assumed here and guaranteed there, is an argument
of this text: there is no module in which both run.

## 5. Where the code differs from what is written about it

Each has a run that shows it:

| Run | Code | Text |
|---|---|---|
| `crash_after_outcome` | A crash after the stored outcome leaves the incident in `executing_action` or `verifying_action` for good | `README.md:37` |
| `duplicate_deliveries` | Two concurrent deliveries of a firing alert open two episodes | `docs/architecture/final-architecture.md:26` |
| `unrecorded_effect` | The supervisor stores a result under the request's context and ignores the error: an operation whose client is gone takes effect and reconciliation finds nothing | `docs/architecture/final-architecture.md:40`, `README.md:84` |

Seen while modelling, and in the model, without a run of their own:

* The claim sets `executing_action` whatever the incident's state is, against
  `docs/architecture/incident-state-machine.md:26`; `WritePathMoves` says that it is the only one to do
  so.
* `ApproveAction` does not read the kill switch, against `README.md:87`,
  `docs/architecture/final-architecture.md:50` and `docs/operations/policy-rules-v1.md:8`. Policy
  evaluation reads it once per action, so a list may be half denied.
* A job lost during its last attempt stays `running`; recovery takes dead letters only, against
  `docs/architecture/final-architecture.md:28`. `TriageConcludes` names it (`Stranded`) as the one
  exception besides a dead letter.
* With three observations required no verdict is `failed` (`NeverFailed`), so no automatic rollback
  starts, against `docs/scenarios/worker-stall-rollback.md:34` and
  `docs/operations/demo-environment.md:222`.
* An incident whose backlog was zero before cannot recover: no snapshot shows less
  (`verification/service.go:632`), although `docs/architecture/final-architecture.md:46` accepts an
  empty queue.
* The audit label `catalog_mode` is read separately from the mode the generator uses, and a fallback
  of the generator to the rules is not recorded (`remediation/llm_generator.go:160`), against
  `README.md:149`.
* Over the API a loopback HTTP endpoint is accepted where the next start may not accept it
  (`cmd/server/main.go:80` asks for environment `local` or `local-demo`): the server would not come
  up. `CanRestart` therefore holds for `ApiHosts` within `BootHosts`, which is an assumption on the
  deployment, and the `console` run gives both the same endpoints.

Consequences nobody wrote about: a crash after `action_proposed` leaves candidates undecided, because the
retried job cannot go back to `triaging`; an incident whose candidates policy all denies stays
`action_proposed`; a request cut off after its claim blocks its target until the next start;
rejecting the only awaiting action commits and then reports an error; a retry is given the stored
result with status 200 even when it is a failure, and the execution is recorded as succeeded
(`SuccessHasEffect` allows this and nothing else); an approval that expired cannot be given again;
the check against `MaxExecutionAttempts` is never reached, because an action has one record;
`refresh_demo_cache` and `retry_demo_background_job` are offered and fail after the claim where the
control adapter is deployed, which supports three operations; `pause_consumer` on `queue-worker` is
always denied, because the topology registry lacks that target; a message read by a killed worker stays
pending, since no consumer takes it over; a switch turned on whose write failed is off again after a
restart; overlapping changes of the connection may leave store and running client apart; a change of
the connection without a key, while the key comes from the environment, keeps the older encrypted key
for the next start; a lost key file falls back to the plain profile; `PATCH` of the settings turns
the switch before it refuses an invalid mode (`http/api_v1.go:271`); a viewer cannot log out
(`http/security.go:165`), and a logout ignores the store's error (`:101`); modes and limiter are
forgotten at a restart; a mode turned between baseline and snapshots compares two sources
(`observability/switching.go:80`), and a backlog above 20 is a stall to the workload's collector but
not to its snapshot (`observability/workload_collector.go:58`, `verification/service.go:80`).

## 6. Not modelled

Retrieval, redaction, configuration, readiness, metrics and the console's pages: no state of the
protocol, or pure input and output. Triage text, prompts and parsing: their result is a draft or a
failure. The queries of the collectors: their result is evidence. Password hashing, CSRF tokens,
origin checks and the webhook limiter, which is the login limiter per host. The Grafana profile,
which is stored alone and read at the next start only. The tests of connections, which change
no setting. The memory store is not what is deployed; PostgreSQL's transactions are modelled, its
plain inserts and the queries for pages are not. The workload's counters and heartbeat: what
its `/state` makes of them is any value in `Proposals` (`WorkloadEvidence`).

The `failed` verdict, the discredited action and the rollback are in `Remediation` although
`Verification` shows that today's configuration does not reach them: another number of
observations would.

## 7. Plan

Done: the write path and its gate, intake and jobs, the verification window, the workload, the
pipeline with the policy's tables, the console with its settings and sessions, each with its theorems
except where section 4 says so. What would add most next:

1. `Workload` composed with `Verification`'s window, with numbers for the backlog, to ask which
   operations verify successfully, and how often an empty queue is the reason they do not.
2. `Proposals` as a refinement of the pipeline step of `TriageJobs`, with retries of the whole
   pipeline over what an earlier attempt saved.
3. The Grafana profile next to the reasoning connection, once it is applied without a restart.
