----------------------------- MODULE TriageJobs -----------------------------
(***************************************************************************)
(* Alert intake and the durable triage jobs (internal/incident,            *)
(* internal/workflow, the job table of internal/storage): webhooks of one  *)
(* external alert open and close episodes, each with a job in the same     *)
(* transaction; database workers claim jobs under leases, triage the       *)
(* incident and report; a restart puts dead-lettered triage back.          *)
(*                                                                         *)
(* Grain: one step per store call other processes can observe.  Evidence,  *)
(* documents and model answers are data nobody else reads: the steps that  *)
(* produce them are one step that may fail.                                *)
(***************************************************************************)
EXTENDS Naturals, IncidentLifecycle

CONSTANTS
  MaxIncidents,  \* bound: episodes of the alert
  Workers,
  NoWorker,
  Requests,      \* webhook requests in flight at a time
  MaxAttempts,   \* the job's max_attempts (3 in the code)
  MaxCrashes,    \* bound: how often the process is killed
  StoreFaults    \* whether store calls fail

ASSUME ConstantsAssumption ==
  /\ MaxIncidents \in Nat
  /\ NoWorker \notin Workers
  /\ MaxAttempts \in Nat \ {0}
  /\ MaxCrashes \in Nat
  /\ StoreFaults \in BOOLEAN

\* Incidents are numbered in the order of their created_at.
Incidents == 1..MaxIncidents

VARIABLES
  \* PostgreSQL
  incidentState,  \* "absent" until the intake transaction
  jobStatus, attempts, owner,
  leased,         \* lease_until is in the future
  \* the process
  phase, crashes,
  pc, job, attempt,           \* workers: the job and attempt number in hand
  request, target, requestSaw,\* webhook handlers
  stamps,                     \* created_at values taken so far
  evaluations                 \* history: how often an evaluation began

jobVars     == <<jobStatus, attempts, owner, leased>>
workerVars  == <<pc, job, attempt>>
requestVars == <<request, target, requestSaw, stamps>>
procVars    == <<phase, crashes>>

vars == <<incidentState, jobVars, evaluations, workerVars, requestVars, procVars>>

JobStatuses == {"none", "queued", "running", "succeeded", "dead_letter"}

\* Where a worker is in ProcessWorkflowJob.
Working == {"load", "reason", "propose", "escalate", "evaluate"}

Init ==
  /\ incidentState = [i \in Incidents |-> "absent"]
  /\ jobStatus = [i \in Incidents |-> "none"]
  /\ attempts = [i \in Incidents |-> 0]
  /\ owner = [i \in Incidents |-> NoWorker]
  /\ leased = [i \in Incidents |-> FALSE]
  /\ phase = "serving" /\ crashes = 0
  /\ pc = [w \in Workers |-> "idle"]
  /\ job = [w \in Workers |-> 0]
  /\ attempt = [w \in Workers |-> 0]
  /\ request = [r \in Requests |-> "idle"]
  /\ target = [r \in Requests |-> 0]
  /\ requestSaw = [r \in Requests |-> "closed"]
  /\ stamps = 0
  /\ evaluations = [i \in Incidents |-> 0]
----------------------------------------------------------------------------
(* transitionIncidentState: compare-and-swap from the state last read.     *)
SwapBlindly(i, from) == i \in Incidents  \* mutant: an unconditional update
Swappable(i, from)   == incidentState[i] = from

MoveFrom(i, from, to) == incidentState' = [incidentState EXCEPT ![i] = to]
----------------------------------------------------------------------------
(* Intake (acceptGrafanaWebhook).                                          *)

Created == {i \in Incidents : incidentState[i] # "absent"}

\* GetLatestIncidentByExternalAlertID; 0 when there is none.
Latest == IF Created = {} THEN 0 ELSE CHOOSE i \in Created : \A j \in Created : j <= i

HasOpenEpisode == Latest # 0 /\ incidentState[Latest] \notin TerminalStates

\* A firing alert that finds no open episode stamps a new incident; one that
\* finds an open episode only leaves an audit event.
FiringAlert(r) ==
  /\ phase = "serving"
  /\ request[r] = "idle"
  /\ ~HasOpenEpisode
  /\ stamps < MaxIncidents
  /\ stamps' = stamps + 1
  /\ request' = [request EXCEPT ![r] = "creating"]
  /\ target' = [target EXCEPT ![r] = stamps + 1]
  /\ UNCHANGED <<incidentState, jobVars, evaluations, workerVars, requestSaw, procVars>>

EndRequest(r) ==
  /\ request' = [request EXCEPT ![r] = "idle"]
  /\ target' = [target EXCEPT ![r] = 0]
  /\ requestSaw' = [requestSaw EXCEPT ![r] = "closed"]
  /\ UNCHANGED stamps

\* Incident, audit event and job in one transaction, before the 202.
CreateIncidentIntake(r) ==
  LET i == target[r] IN
  /\ request[r] = "creating"
  /\ incidentState' = [incidentState EXCEPT ![i] = "triaging"]
  /\ jobStatus' = [jobStatus EXCEPT ![i] = "queued"]
  /\ EndRequest(r)
  /\ UNCHANGED <<attempts, owner, leased, evaluations, workerVars, procVars>>

\* A resolved alert holds the state it read; a terminal latest episode, and
\* one that is approved or executing, is left alone.
ResolvedAlert(r) ==
  /\ phase = "serving"
  /\ request[r] = "idle"
  /\ HasOpenEpisode
  /\ ResolvableByAlert(incidentState[Latest])
  /\ request' = [request EXCEPT ![r] = "resolving"]
  /\ target' = [target EXCEPT ![r] = Latest]
  /\ requestSaw' = [requestSaw EXCEPT ![r] = incidentState[Latest]]
  /\ UNCHANGED <<incidentState, jobVars, evaluations, workerVars, stamps, procVars>>

ApplyResolvedAlert(r) ==
  /\ request[r] = "resolving"
  /\ IF Swappable(target[r], requestSaw[r])
     THEN MoveFrom(target[r], requestSaw[r], nextStateForResolvedAlert(requestSaw[r]))
     ELSE UNCHANGED incidentState
  /\ EndRequest(r)
  /\ UNCHANGED <<jobVars, evaluations, workerVars, procVars>>

\* The transaction or the swap fails: the sender gets an error and retries
\* with a request of its own.
RequestFails(r) ==
  /\ StoreFaults
  /\ request[r] # "idle"
  /\ EndRequest(r)
  /\ UNCHANGED <<incidentState, jobVars, evaluations, workerVars, procVars>>
----------------------------------------------------------------------------
(* The job table and the runner (Runner.runWorker).                        *)

ClaimableQueued(i) ==   \* mutant: a lost lease is never taken over
  attempts[i] < MaxAttempts /\ jobStatus[i] = "queued"

Claimable(i) ==
  /\ attempts[i] < MaxAttempts
  /\ jobStatus[i] = "queued" \/ (jobStatus[i] = "running" /\ ~leased[i])

\* An idle worker polls.  Retry delays only postpone the claim.
ClaimJob(w) ==
  /\ phase = "serving"
  /\ pc[w] = "idle"
  /\ \E i \in Incidents :
       /\ Claimable(i)
       /\ jobStatus' = [jobStatus EXCEPT ![i] = "running"]
       /\ attempts' = [attempts EXCEPT ![i] = @ + 1]
       /\ owner' = [owner EXCEPT ![i] = w]
       /\ leased' = [leased EXCEPT ![i] = TRUE]
       /\ job' = [job EXCEPT ![w] = i]
       /\ attempt' = [attempt EXCEPT ![w] = attempts[i] + 1]
  /\ pc' = [pc EXCEPT ![w] = "load"]
  /\ UNCHANGED <<incidentState, evaluations, requestVars, procVars>>

\* The lease runs out.  The handler's context ends a moment later, so until
\* then both its steps and another worker's claim are possible.
LeaseExpires(i) ==
  /\ jobStatus[i] = "running"
  /\ leased[i]
  /\ leased' = [leased EXCEPT ![i] = FALSE]
  /\ UNCHANGED <<incidentState, jobStatus, attempts, owner, evaluations, workerVars,
                 requestVars, procVars>>

Release(w) ==
  /\ pc' = [pc EXCEPT ![w] = "idle"]
  /\ job' = [job EXCEPT ![w] = 0]
  /\ attempt' = [attempt EXCEPT ![w] = 0]

OwnsJob(i, w) == jobStatus[i] = "running" /\ owner[i] = w

Settle(i, status) ==
  /\ jobStatus' = [jobStatus EXCEPT ![i] = status]
  /\ owner' = [owner EXCEPT ![i] = NoWorker]
  /\ leased' = [leased EXCEPT ![i] = FALSE]

CompleteJob(w) ==
  /\ pc[w] = "complete"
  /\ IF OwnsJob(job[w], w) THEN Settle(job[w], "succeeded")
                           ELSE UNCHANGED <<jobStatus, owner, leased>>
  /\ Release(w)
  /\ UNCHANGED <<incidentState, attempts, evaluations, requestVars, procVars>>

AfterFailureLate(n) == IF n > MaxAttempts THEN "dead_letter" ELSE "queued"  \* mutant
AfterFailure(n)     == IF n >= MaxAttempts THEN "dead_letter" ELSE "queued"

FailJob(w) ==
  /\ pc[w] = "fail"
  /\ IF OwnsJob(job[w], w) THEN Settle(job[w], AfterFailure(attempt[w]))
                           ELSE UNCHANGED <<jobStatus, owner, leased>>
  /\ Release(w)
  /\ UNCHANGED <<incidentState, attempts, evaluations, requestVars, procVars>>

\* The report itself fails and is only logged.
ReportFails(w) ==
  /\ StoreFaults
  /\ pc[w] \in {"complete", "fail"}
  /\ Release(w)
  /\ UNCHANGED <<incidentState, jobVars, evaluations, requestVars, procVars>>
----------------------------------------------------------------------------
(* The handler (ProcessWorkflowJob, runReadOnlyTriage).                    *)

Goto(w, to) ==
  /\ pc' = [pc EXCEPT ![w] = to]
  /\ UNCHANGED <<job, attempt>>

NextAfterLoad(s) ==
  IF s \in TerminalStates THEN "complete"
  ELSE IF s = "triaging" THEN "reason"
  ELSE "fail"  \* no way back to triaging from a later state

LoadIncident(w) ==
  /\ pc[w] = "load"
  /\ Goto(w, NextAfterLoad(incidentState[job[w]]))
  /\ UNCHANGED <<incidentState, jobVars, evaluations, requestVars, procVars>>

\* Evidence, documents, the triage result and the proposals; with no valid
\* proposal the incident is escalated.
GenerateActions(w) ==
  /\ pc[w] = "reason"
  /\ \E next \in {"propose", "escalate"} : Goto(w, next)
  /\ UNCHANGED <<incidentState, jobVars, evaluations, requestVars, procVars>>

ProposeActions(w) ==
  LET i == job[w] IN
  /\ pc[w] = "propose"
  /\ IF Swappable(i, "triaging")
     THEN /\ Goto(w, "evaluate")
          /\ MoveFrom(i, "triaging", "action_proposed")
          /\ evaluations' = [evaluations EXCEPT ![i] = @ + 1]
     ELSE /\ Goto(w, "fail")
          /\ UNCHANGED <<incidentState, evaluations>>
  /\ UNCHANGED <<jobVars, requestVars, procVars>>

EscalateIncident(w) ==
  LET i == job[w] IN
  /\ pc[w] = "escalate"
  /\ IF Swappable(i, "triaging")
     THEN Goto(w, "complete") /\ MoveFrom(i, "triaging", "escalated")
     ELSE Goto(w, "fail") /\ UNCHANGED incidentState
  /\ UNCHANGED <<jobVars, evaluations, requestVars, procVars>>

\* EvaluateActions, whose writes Remediation models one by one.
EvaluateActions(w) ==
  LET i == job[w] IN
  /\ pc[w] = "evaluate"
  /\ \E s \in {"action_proposed", "awaiting_approval", "approved"} :
       \/ /\ s = "action_proposed" \/ Swappable(i, "action_proposed")
          /\ Goto(w, "complete")
          /\ incidentState' = IF s = "action_proposed" THEN incidentState
                              ELSE [incidentState EXCEPT ![i] = s]
       \/ /\ s # "action_proposed" /\ ~Swappable(i, "action_proposed")
          /\ Goto(w, "fail")
          /\ UNCHANGED incidentState
  /\ UNCHANGED <<jobVars, evaluations, requestVars, procVars>>

Shrugged   == "complete"  \* mutant: an error counts as done
AfterError == "fail"

\* A provider or store error, or the job's context running out.
HandlerFails(w) ==
  /\ pc[w] \in Working
  /\ Goto(w, AfterError)
  /\ UNCHANGED <<incidentState, jobVars, evaluations, requestVars, procVars>>
----------------------------------------------------------------------------
(* The process dies and starts again; leases outlive it.                   *)

Crash ==
  /\ phase = "serving"
  /\ crashes < MaxCrashes
  /\ crashes' = crashes + 1
  /\ phase' = "down"
  /\ pc' = [w \in Workers |-> "idle"]
  /\ job' = [w \in Workers |-> 0]
  /\ attempt' = [w \in Workers |-> 0]
  /\ request' = [r \in Requests |-> "idle"]
  /\ target' = [r \in Requests |-> 0]
  /\ requestSaw' = [r \in Requests |-> "closed"]
  /\ UNCHANGED <<incidentState, jobVars, evaluations, stamps>>

\* RecoverTriageJobs: insert the missing job, or put a dead letter back.
Recovers(i) ==
  incidentState[i] = "triaging" /\ jobStatus[i] \in {"none", "dead_letter"}

Restart ==
  /\ phase = "down"
  /\ phase' = "serving"
  /\ jobStatus' = [i \in Incidents |-> IF Recovers(i) THEN "queued" ELSE jobStatus[i]]
  /\ attempts' = [i \in Incidents |-> IF Recovers(i) THEN 0 ELSE attempts[i]]
  /\ owner' = [i \in Incidents |-> IF Recovers(i) THEN NoWorker ELSE owner[i]]
  /\ leased' = [i \in Incidents |-> IF Recovers(i) THEN FALSE ELSE leased[i]]
  /\ UNCHANGED <<incidentState, evaluations, workerVars, requestVars, crashes>>

\* Refreshes, approvals, claims, outcomes and recovery, which Remediation
\* models: once the evaluation began, the state follows them.
Remediate(i) ==
  /\ evaluations[i] > 0
  /\ \E s \in IncidentStates :
       /\ <<incidentState[i], s>> \in writePathMoves
       /\ incidentState' = [incidentState EXCEPT ![i] = s]
  /\ UNCHANGED <<jobVars, evaluations, workerVars, requestVars, procVars>>
----------------------------------------------------------------------------
Request(r) ==
  \/ FiringAlert(r) \/ CreateIncidentIntake(r)
  \/ ResolvedAlert(r) \/ ApplyResolvedAlert(r)
  \/ RequestFails(r)

Triage(w) ==
  \/ LoadIncident(w) \/ GenerateActions(w)
  \/ ProposeActions(w) \/ EscalateIncident(w) \/ EvaluateActions(w)
  \/ HandlerFails(w)

Report(w) == CompleteJob(w) \/ FailJob(w) \/ ReportFails(w)

Next ==
  \/ \E r \in Requests : Request(r)
  \/ \E w \in Workers : ClaimJob(w) \/ Triage(w) \/ Report(w)
  \/ \E i \in Incidents : LeaseExpires(i) \/ Remediate(i)
  \/ Crash
  \/ Restart

Spec == Init /\ [][Next]_vars

\* Workers poll and their calls end by the job's deadline, clocks advance, and
\* the container is started again.  Nothing makes alerts or operators act.
FairSpec ==
  /\ Spec
  /\ \A w \in Workers : WF_vars(ClaimJob(w)) /\ WF_vars(Triage(w)) /\ WF_vars(Report(w))
  /\ \A i \in Incidents : WF_vars(LeaseExpires(i))
  /\ WF_vars(Restart)
----------------------------------------------------------------------------
\* Every variable keeps its type.
TypeOK ==
  /\ incidentState \in [Incidents -> IncidentStates \cup {"absent"}]
  /\ jobStatus \in [Incidents -> JobStatuses]
  /\ attempts \in [Incidents -> 0..MaxAttempts]
  /\ owner \in [Incidents -> Workers \cup {NoWorker}]
  /\ leased \in [Incidents -> BOOLEAN]
  /\ evaluations \in [Incidents -> Nat]
  /\ phase \in {"serving", "down"}
  /\ crashes \in 0..MaxCrashes
  /\ pc \in [Workers -> Working \cup {"idle", "complete", "fail"}]
  /\ job \in [Workers -> Incidents \cup {0}]
  /\ attempt \in [Workers -> 0..MaxAttempts]
  /\ request \in [Requests -> {"idle", "creating", "resolving"}]
  /\ target \in [Requests -> Incidents \cup {0}]
  /\ requestSaw \in [Requests -> IncidentStates]
  /\ stamps \in 0..MaxIncidents

\* An incident that still needs triage has a job that nobody marked done,
\* whatever workers, alerts and crashes do between the job's claim and the
\* report of its handler.
TriagingHasJob ==
  \A i \in Incidents :
    incidentState[i] = "triaging" => jobStatus[i] \in {"queued", "running", "dead_letter"}

\* However often leases run out under a working handler, the candidates of an
\* incident go to policy evaluation once: the swap to action_proposed admits
\* one of the attempts.
EvaluatedOnce == \A i \in Incidents : evaluations[i] <= 1

\* The attempt count and the status of a job agree, although the status comes
\* from the attempt number a worker read when it claimed: a queued job has an
\* attempt left, a dead letter has none.
RetriesAgree ==
  \A i \in Incidents :
    /\ jobStatus[i] = "queued" => attempts[i] < MaxAttempts
    /\ jobStatus[i] = "dead_letter" => attempts[i] = MaxAttempts

\* With the webhooks of one alert delivered one after the other, one episode
\* of it at most is short of its approval.
UndecidedStates == {"triaging", "action_proposed", "awaiting_approval"}

OneUndecidedEpisode ==
  \A i, j \in Incidents :
    incidentState[i] \in UndecidedStates /\ incidentState[j] \in UndecidedStates => i = j

\* Once it is out of triage an incident belongs to the write path and its
\* alert: no worker or webhook moves it, or revives it after its end, from a
\* state it read earlier.  Remediation!WritePathMoves is the other half.
TriageLetsGo ==
  [][\A i \in Incidents :
       incidentState[i] \notin {"absent", "triaging"} =>
         MovesOn(incidentState[i], incidentState'[i])]_vars

\* How far an episode has come.  Out of triage it is proposed when policy
\* evaluation was begun for it, and settled otherwise.
standing ==
  [i \in Incidents |->
     IF incidentState[i] = "absent" THEN "unknown"
     ELSE IF incidentState[i] = "triaging" THEN "accepted"
     ELSE IF evaluations[i] > 0 THEN "proposed" ELSE "settled"]

Queue == INSTANCE TriageQueue
           WITH Episodes <- Incidents, stage <- standing, evaluated <- evaluations,
                status <- jobStatus, tries <- attempts

\* Webhooks, workers that overlap after lost leases, old attempt numbers,
\* crashes and restarts show one queue of episodes: see TriageQueue.
ImplementsQueue == Queue!Spec

\* Out of attempts, and nobody at work on it: no worker can claim the job and
\* no report will come.
Stranded(i) ==
  /\ jobStatus[i] = "running"
  /\ attempts[i] = MaxAttempts
  /\ \A w \in Workers : job[w] # i

\* An incident does not stay in triage: it moves on, its job becomes a dead
\* letter, or its last attempt ended without a report.
TriageConcludes ==
  \A i \in Incidents :
    incidentState[i] = "triaging" ~>
      (incidentState[i] # "triaging" \/ jobStatus[i] = "dead_letter" \/ Stranded(i))
=============================================================================
