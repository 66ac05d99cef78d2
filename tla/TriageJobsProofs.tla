-------------------------- MODULE TriageJobsProofs --------------------------
(***************************************************************************)
(* Proofs about TriageJobs, for every number of episodes, workers,         *)
(* requests, attempts and crashes.                                         *)
(***************************************************************************)
EXTENDS TriageJobs, TLAPS

Unstarted == {"absent", "triaging"}

(* A worker has an incident in hand, and one that evaluates it or is about to  *)
(* report success has moved it out of triage, or found it out of triage.   *)
Handled ==
  \A w \in Workers :
    /\ pc[w] # "idle" => job[w] \in Incidents /\ incidentState[job[w]] # "absent"
    /\ pc[w] \in {"evaluate", "complete"} => incidentState[job[w]] # "triaging"

(* Incidents come into being in the intake only: until then there is no job, *)
(* and requests create different ones.                                     *)
Fresh ==
  /\ \A i \in Incidents :
       /\ incidentState[i] = "absent" <=> jobStatus[i] = "none"
       /\ jobStatus[i] = "none" => attempts[i] = 0
       /\ i > stamps => incidentState[i] = "absent"
  /\ \A r \in Requests :
       /\ request[r] # "idle" => target[r] \in Incidents
       /\ request[r] = "creating" => target[r] <= stamps
         /\ incidentState[target[r]] = "absent"
  /\ \A r, q \in Requests :
       request[r] = "creating" /\ request[q] = "creating" /\ target[r] = target[q] => r = q

(* A resolved alert in flight has seen an incident it may end.             *)
Resolving ==
  \A r \in Requests : request[r] = "resolving" =>
    requestSaw[r] \notin TerminalStates /\ ResolvableByAlert(requestSaw[r])

(* Evaluation begins by leaving triage.                                    *)
Unevaluated == \A i \in Incidents : incidentState[i] \in Unstarted => evaluations[i] = 0

(* The owner of a running job has read its current attempt number.         *)
OwnAttempt ==
  \A w \in Workers :
    pc[w] # "idle" /\ OwnsJob(job[w], w) => attempt[w] = attempts[job[w]]

Inv ==
  /\ TypeOK /\ Handled /\ Fresh /\ Resolving
  /\ TriagingHasJob /\ Unevaluated /\ EvaluatedOnce /\ OwnAttempt /\ RetriesAgree
----------------------------------------------------------------------------
LEMMA InitInv == Init => Inv
<1> SUFFICES ASSUME Init PROVE Inv
  OBVIOUS
<1> USE ConstantsAssumption DEF Init, Incidents
<1>1. TypeOK
  BY DEF TypeOK, IncidentStates, JobStatuses, Working
<1>2. Handled /\ Fresh /\ Resolving
  BY DEF Handled, Fresh, Resolving
<1>3. TriagingHasJob /\ Unevaluated /\ EvaluatedOnce /\ OwnAttempt /\ RetriesAgree
  BY DEF TriagingHasJob, Unevaluated, EvaluatedOnce, OwnAttempt, RetriesAgree, OwnsJob
<1> QED
  BY <1>1, <1>2, <1>3 DEF Inv

\* Where the incident goes when the alert resolves, and when the write path
\* moves it, is not back to triage.
LEMMA Results ==
  /\ \A s : nextStateForResolvedAlert(s) \in {"resolved", "closed"}
  /\ \A s, t : <<s, t>> \in writePathMoves =>
       s \notin {"triaging", "absent"} /\ t \in IncidentStates \ {"triaging", "absent"}
  /\ Latest # 0 => Latest \in Incidents /\ incidentState[Latest] # "absent"
  /\ "absent" \notin IncidentStates
  /\ {"triaging", "action_proposed", "awaiting_approval", "approved", "escalated",
      "resolved", "closed"} \subseteq IncidentStates
<1>1. \A s : nextStateForResolvedAlert(s) \in {"resolved", "closed"}
  BY DEF nextStateForResolvedAlert
<1>2. \A s, t : <<s, t>> \in writePathMoves =>
        s \notin {"triaging", "absent"} /\ t \in IncidentStates \ {"triaging", "absent"}
  BY DEF writePathMoves, allowedTransitions, Underway, Executed, IncidentStates
<1>4. Latest # 0 => Latest \in Incidents /\ incidentState[Latest] # "absent"
  BY DEF Latest, Created
<1>5. "absent" \notin IncidentStates
  BY DEF IncidentStates
<1>6. {"triaging", "action_proposed", "awaiting_approval", "approved", "escalated",
       "resolved", "closed"} \subseteq IncidentStates
  BY DEF IncidentStates
<1> QED
  BY <1>1, <1>2, <1>4, <1>5, <1>6

\* A failed job has attempts left or is given up after the last.
LEMMA GivesUp ==
  ASSUME NEW n \in 0..MaxAttempts
  PROVE  \/ AfterFailure(n) = "queued" /\ n < MaxAttempts
         \/ AfterFailure(n) = "dead_letter" /\ n = MaxAttempts
  BY ConstantsAssumption DEF AfterFailure

LEMMA TypeStep ==
  ASSUME TypeOK, Handled, Fresh, [Next]_vars PROVE TypeOK'
<1> USE ConstantsAssumption, Results DEF TypeOK, Handled, Fresh, JobStatuses, Working,
        jobVars, workerVars, requestVars, procVars
<1>1. ASSUME NEW r \in Requests, FiringAlert(r) PROVE TypeOK'
  BY <1>1 DEF FiringAlert, Incidents
<1>2. ASSUME NEW r \in Requests, CreateIncidentIntake(r) PROVE TypeOK'
  BY <1>2 DEF CreateIncidentIntake, EndRequest
<1>3. ASSUME NEW r \in Requests, ResolvedAlert(r) PROVE TypeOK'
  BY <1>3 DEF ResolvedAlert, HasOpenEpisode
<1>4. ASSUME NEW r \in Requests, ApplyResolvedAlert(r) PROVE TypeOK'
  BY <1>4 DEF ApplyResolvedAlert, EndRequest, MoveFrom, Swappable
<1>5. ASSUME NEW r \in Requests, RequestFails(r) PROVE TypeOK'
  BY <1>5 DEF RequestFails, EndRequest
<1>6. ASSUME NEW w \in Workers, ClaimJob(w) PROVE TypeOK'
  BY <1>6 DEF ClaimJob, Claimable
<1>7. ASSUME NEW w \in Workers, LoadIncident(w) PROVE TypeOK'
  BY <1>7 DEF LoadIncident, Goto, NextAfterLoad
<1>8. ASSUME NEW w \in Workers, GenerateActions(w) PROVE TypeOK'
  BY <1>8 DEF GenerateActions, Goto
<1>9. ASSUME NEW w \in Workers, ProposeActions(w) PROVE TypeOK'
  BY <1>9 DEF ProposeActions, Goto, MoveFrom, Swappable
<1>10. ASSUME NEW w \in Workers, EscalateIncident(w) PROVE TypeOK'
  BY <1>10 DEF EscalateIncident, Goto, MoveFrom, Swappable
<1>11. ASSUME NEW w \in Workers, EvaluateActions(w) PROVE TypeOK'
  BY <1>11 DEF EvaluateActions, Goto, Swappable
<1>12. ASSUME NEW w \in Workers, HandlerFails(w) PROVE TypeOK'
  BY <1>12 DEF HandlerFails, Goto, AfterError
<1>13. ASSUME NEW w \in Workers, CompleteJob(w) PROVE TypeOK'
  <2>1. jobStatus' \in [Incidents -> JobStatuses]
    BY <1>13 DEF CompleteJob, Release, OwnsJob, Settle
  <2>2. owner' \in [Incidents -> Workers \cup {NoWorker}]
    BY <1>13 DEF CompleteJob, Release, OwnsJob, Settle
  <2>3. leased' \in [Incidents -> BOOLEAN]
    BY <1>13 DEF CompleteJob, Release, OwnsJob, Settle
  <2>4. attempts' \in [Incidents -> 0..MaxAttempts]
    BY <1>13 DEF CompleteJob, Release, OwnsJob, Settle
  <2> QED
    BY <2>1, <2>2, <2>3, <2>4, <1>13 DEF CompleteJob, Release, OwnsJob, Settle
<1>14. ASSUME NEW w \in Workers, FailJob(w) PROVE TypeOK'
  <2>1. jobStatus' \in [Incidents -> JobStatuses]
    BY <1>14 DEF FailJob, Release, OwnsJob, Settle, AfterFailure
  <2>2. owner' \in [Incidents -> Workers \cup {NoWorker}]
    BY <1>14 DEF FailJob, Release, OwnsJob, Settle, AfterFailure
  <2>3. leased' \in [Incidents -> BOOLEAN]
    BY <1>14 DEF FailJob, Release, OwnsJob, Settle, AfterFailure
  <2>4. attempts' \in [Incidents -> 0..MaxAttempts]
    BY <1>14 DEF FailJob, Release, OwnsJob, Settle, AfterFailure
  <2> QED
    BY <2>1, <2>2, <2>3, <2>4, <1>14 DEF FailJob, Release, OwnsJob, Settle, AfterFailure
<1>15. ASSUME NEW w \in Workers, ReportFails(w) PROVE TypeOK'
  BY <1>15 DEF ReportFails, Release
<1>16. ASSUME NEW i \in Incidents, LeaseExpires(i) PROVE TypeOK'
  BY <1>16 DEF LeaseExpires
<1>17. ASSUME NEW i \in Incidents, Remediate(i) PROVE TypeOK'
  BY <1>17 DEF Remediate
<1>18. ASSUME Crash PROVE TypeOK'
  BY <1>18 DEF Crash
<1>19. ASSUME Restart PROVE TypeOK'
  <2>1. jobStatus' \in [Incidents -> JobStatuses]
    BY <1>19 DEF Restart, Recovers
  <2>2. owner' \in [Incidents -> Workers \cup {NoWorker}]
    BY <1>19 DEF Restart, Recovers
  <2>3. leased' \in [Incidents -> BOOLEAN]
    BY <1>19 DEF Restart, Recovers
  <2>4. attempts' \in [Incidents -> 0..MaxAttempts]
    BY <1>19 DEF Restart, Recovers
  <2> QED
    BY <2>1, <2>2, <2>3, <2>4, <1>19 DEF Restart, Recovers
<1>20. CASE UNCHANGED vars
  BY <1>20 DEF vars
<1> QED
  BY <1>1, <1>2, <1>3, <1>4, <1>5, <1>6, <1>7, <1>8, <1>9, <1>10, <1>11, <1>12, <1>13,
    <1>14, <1>15, <1>16, <1>17, <1>18, <1>19, <1>20 DEF Next, Request, Triage, Report

LEMMA HandledStep ==
  ASSUME TypeOK, Fresh, Handled, [Next]_vars PROVE Handled'
<1> USE ConstantsAssumption, Results DEF TypeOK, Fresh, Handled, Working, jobVars,
        workerVars, requestVars, procVars
<1>1. ASSUME NEW r \in Requests, FiringAlert(r) PROVE Handled'
  BY <1>1 DEF FiringAlert
<1>2. ASSUME NEW r \in Requests, CreateIncidentIntake(r) PROVE Handled'
  BY <1>2 DEF CreateIncidentIntake, EndRequest
<1>3. ASSUME NEW r \in Requests, ResolvedAlert(r) PROVE Handled'
  BY <1>3 DEF ResolvedAlert
<1>4. ASSUME NEW r \in Requests, ApplyResolvedAlert(r) PROVE Handled'
  BY <1>4 DEF ApplyResolvedAlert, EndRequest, MoveFrom, Swappable
<1>5. ASSUME NEW r \in Requests, RequestFails(r) PROVE Handled'
  BY <1>5 DEF RequestFails, EndRequest
<1>6. ASSUME NEW w \in Workers, ClaimJob(w) PROVE Handled'
  BY <1>6 DEF ClaimJob, Claimable
<1>7. ASSUME NEW w \in Workers, LoadIncident(w) PROVE Handled'
  BY <1>7 DEF LoadIncident, Goto, NextAfterLoad, TerminalStates
<1>8. ASSUME NEW w \in Workers, GenerateActions(w) PROVE Handled'
  BY <1>8 DEF GenerateActions, Goto
<1>9. ASSUME NEW w \in Workers, ProposeActions(w) PROVE Handled'
  BY <1>9 DEF ProposeActions, Goto, MoveFrom, Swappable
<1>10. ASSUME NEW w \in Workers, EscalateIncident(w) PROVE Handled'
  BY <1>10 DEF EscalateIncident, Goto, MoveFrom, Swappable
<1>11. ASSUME NEW w \in Workers, EvaluateActions(w) PROVE Handled'
  <2>1. \A k \in Incidents : incidentState'[k] = "absent" <=> incidentState[k] = "absent"
    BY <1>11 DEF EvaluateActions, Swappable
  <2>2. \A k \in Incidents : incidentState[k] # "triaging" => incidentState'[k] # "triaging"
    BY <1>11 DEF EvaluateActions, Swappable
  <2> QED
    BY <2>1, <2>2, <1>11 DEF EvaluateActions, Goto, Swappable
<1>12. ASSUME NEW w \in Workers, HandlerFails(w) PROVE Handled'
  BY <1>12 DEF HandlerFails, Goto, AfterError
<1>13. ASSUME NEW w \in Workers, CompleteJob(w) PROVE Handled'
  BY <1>13 DEF CompleteJob, Release, OwnsJob, Settle
<1>14. ASSUME NEW w \in Workers, FailJob(w) PROVE Handled'
  BY <1>14 DEF FailJob, Release, OwnsJob, Settle, AfterFailure
<1>15. ASSUME NEW w \in Workers, ReportFails(w) PROVE Handled'
  BY <1>15 DEF ReportFails, Release
<1>16. ASSUME NEW i \in Incidents, LeaseExpires(i) PROVE Handled'
  BY <1>16 DEF LeaseExpires
<1>17. ASSUME NEW i \in Incidents, Remediate(i) PROVE Handled'
  BY <1>17 DEF Remediate
<1>18. ASSUME Crash PROVE Handled'
  BY <1>18 DEF Crash
<1>19. ASSUME Restart PROVE Handled'
  BY <1>19 DEF Restart, Recovers
<1>20. CASE UNCHANGED vars
  BY <1>20 DEF vars
<1> QED
  BY <1>1, <1>2, <1>3, <1>4, <1>5, <1>6, <1>7, <1>8, <1>9, <1>10, <1>11, <1>12, <1>13,
    <1>14, <1>15, <1>16, <1>17, <1>18, <1>19, <1>20 DEF Next, Request, Triage, Report

LEMMA FreshStep ==
  ASSUME TypeOK, Handled, Unevaluated, Fresh, [Next]_vars PROVE Fresh'
<1> USE ConstantsAssumption, Results DEF TypeOK, Fresh, Handled, Unevaluated, Unstarted,
        Working, JobStatuses, jobVars, workerVars, requestVars, procVars
<1>1. ASSUME NEW r \in Requests, FiringAlert(r) PROVE Fresh'
  BY <1>1 DEF FiringAlert, Incidents
<1>2. ASSUME NEW r \in Requests, CreateIncidentIntake(r) PROVE Fresh'
  <2>1. request[r] = "creating" /\ target[r] \in Incidents /\ target[r] <= stamps
    BY <1>2 DEF CreateIncidentIntake
  <2>2. \A k \in Incidents : k # target[r] => incidentState'[k] = incidentState[k]
        /\ jobStatus'[k] = jobStatus[k]
    BY <1>2 DEF CreateIncidentIntake
  <2>3. \A q \in Requests : q # r => request'[q] = request[q] /\ target'[q] = target[q]
    BY <1>2 DEF CreateIncidentIntake, EndRequest
  <2>4. request'[r] = "idle" /\ incidentState'[target[r]] = "triaging"
        /\ jobStatus'[target[r]] = "queued"
    BY <1>2, <2>1 DEF CreateIncidentIntake, EndRequest
  <2>5. stamps' = stamps /\ attempts' = attempts
    BY <1>2 DEF CreateIncidentIntake, EndRequest
  <2>6. \A q \in Requests : request'[q] = "creating" => target'[q] # target[r]
        /\ request[q] = "creating" /\ target'[q] = target[q]
    BY <1>2, <2>1, <2>3, <2>4
  <2>7. \A i \in Incidents : (incidentState'[i] = "absent" <=> jobStatus'[i] = "none")
        /\ (jobStatus'[i] = "none" => attempts'[i] = 0)
    BY <1>2, <2>1, <2>2, <2>4, <2>5
  <2>8. \A i \in Incidents : i > stamps' => incidentState'[i] = "absent"
    BY <1>2, <2>1, <2>2, <2>5 DEF Incidents
  <2>9. \A q \in Requests : (request'[q] # "idle" => target'[q] \in Incidents)
        /\ (request'[q] = "creating" => target'[q] <= stamps'
        /\ incidentState'[target'[q]] = "absent")
    BY <1>2, <2>1, <2>2, <2>3, <2>4, <2>5, <2>6
  <2>10. \A p, q \in Requests : request'[p] = "creating" /\ request'[q] = "creating"
         /\ target'[p] = target'[q] => p = q
    BY <1>2, <2>6
  <2> QED
    BY <2>1, <2>2, <2>3, <2>4, <2>5, <2>6, <2>7, <2>8, <2>9, <2>10
<1>3. ASSUME NEW r \in Requests, ResolvedAlert(r) PROVE Fresh'
  BY <1>3 DEF ResolvedAlert, HasOpenEpisode
<1>4. ASSUME NEW r \in Requests, ApplyResolvedAlert(r) PROVE Fresh'
  <2>1. \A k \in Incidents : incidentState'[k] = "absent" <=> incidentState[k] = "absent"
    BY <1>4 DEF ApplyResolvedAlert, EndRequest, MoveFrom, Swappable
  <2> QED
    BY <2>1, <1>4 DEF ApplyResolvedAlert, EndRequest, MoveFrom, Swappable
<1>5. ASSUME NEW r \in Requests, RequestFails(r) PROVE Fresh'
  BY <1>5 DEF RequestFails, EndRequest
<1>6. ASSUME NEW w \in Workers, ClaimJob(w) PROVE Fresh'
  BY <1>6 DEF ClaimJob, Claimable
<1>7. ASSUME NEW w \in Workers, LoadIncident(w) PROVE Fresh'
  BY <1>7 DEF LoadIncident, Goto, NextAfterLoad
<1>8. ASSUME NEW w \in Workers, GenerateActions(w) PROVE Fresh'
  BY <1>8 DEF GenerateActions, Goto
<1>9. ASSUME NEW w \in Workers, ProposeActions(w) PROVE Fresh'
  <2>1. \A k \in Incidents : incidentState'[k] = "absent" <=> incidentState[k] = "absent"
    BY <1>9 DEF ProposeActions, Goto, MoveFrom, Swappable
  <2> QED
    BY <2>1, <1>9 DEF ProposeActions, Goto, MoveFrom, Swappable
<1>10. ASSUME NEW w \in Workers, EscalateIncident(w) PROVE Fresh'
  <2>1. \A k \in Incidents : incidentState'[k] = "absent" <=> incidentState[k] = "absent"
    BY <1>10 DEF EscalateIncident, Goto, MoveFrom, Swappable
  <2> QED
    BY <2>1, <1>10 DEF EscalateIncident, Goto, MoveFrom, Swappable
<1>11. ASSUME NEW w \in Workers, EvaluateActions(w) PROVE Fresh'
  <2>1. \A k \in Incidents : incidentState'[k] = "absent" <=> incidentState[k] = "absent"
    BY <1>11 DEF EvaluateActions, Goto, Swappable
  <2> QED
    BY <2>1, <1>11 DEF EvaluateActions, Goto, Swappable
<1>12. ASSUME NEW w \in Workers, HandlerFails(w) PROVE Fresh'
  BY <1>12 DEF HandlerFails, Goto, AfterError
<1>13. ASSUME NEW w \in Workers, CompleteJob(w) PROVE Fresh'
  BY <1>13 DEF CompleteJob, Release, OwnsJob, Settle
<1>14. ASSUME NEW w \in Workers, FailJob(w) PROVE Fresh'
  BY <1>14 DEF FailJob, Release, OwnsJob, Settle, AfterFailure
<1>15. ASSUME NEW w \in Workers, ReportFails(w) PROVE Fresh'
  BY <1>15 DEF ReportFails, Release
<1>16. ASSUME NEW i \in Incidents, LeaseExpires(i) PROVE Fresh'
  BY <1>16 DEF LeaseExpires
<1>17. ASSUME NEW i \in Incidents, Remediate(i) PROVE Fresh'
  <2>1. \A k \in Incidents : incidentState'[k] = "absent" <=> incidentState[k] = "absent"
    BY <1>17 DEF Remediate
  <2> QED
    BY <2>1, <1>17 DEF Remediate
<1>18. ASSUME Crash PROVE Fresh'
  BY <1>18 DEF Crash
<1>19. ASSUME Restart PROVE Fresh'
  BY <1>19 DEF Restart, Recovers
<1>20. CASE UNCHANGED vars
  BY <1>20 DEF vars
<1> QED
  BY <1>1, <1>2, <1>3, <1>4, <1>5, <1>6, <1>7, <1>8, <1>9, <1>10, <1>11, <1>12, <1>13,
    <1>14, <1>15, <1>16, <1>17, <1>18, <1>19, <1>20 DEF Next, Request, Triage, Report

LEMMA ResolvingStep ==
  ASSUME TypeOK, Resolving, [Next]_vars PROVE Resolving'
<1> USE DEF TypeOK, Resolving, jobVars, workerVars, requestVars, procVars
<1>1. ASSUME NEW r \in Requests, FiringAlert(r) PROVE Resolving'
  BY <1>1 DEF FiringAlert
<1>2. ASSUME NEW r \in Requests, CreateIncidentIntake(r) PROVE Resolving'
  BY <1>2 DEF CreateIncidentIntake, EndRequest
<1>3. ASSUME NEW r \in Requests, ResolvedAlert(r) PROVE Resolving'
  BY <1>3 DEF ResolvedAlert, HasOpenEpisode
<1>4. ASSUME NEW r \in Requests, ApplyResolvedAlert(r) PROVE Resolving'
  BY <1>4 DEF ApplyResolvedAlert, EndRequest, MoveFrom, Swappable
<1>5. ASSUME NEW r \in Requests, RequestFails(r) PROVE Resolving'
  BY <1>5 DEF RequestFails, EndRequest
<1>6. ASSUME NEW w \in Workers, ClaimJob(w) PROVE Resolving'
  BY <1>6 DEF ClaimJob, Claimable
<1>7. ASSUME NEW w \in Workers, LoadIncident(w) PROVE Resolving'
  BY <1>7 DEF LoadIncident, Goto, NextAfterLoad
<1>8. ASSUME NEW w \in Workers, GenerateActions(w) PROVE Resolving'
  BY <1>8 DEF GenerateActions, Goto
<1>9. ASSUME NEW w \in Workers, ProposeActions(w) PROVE Resolving'
  BY <1>9 DEF ProposeActions, Goto, MoveFrom, Swappable
<1>10. ASSUME NEW w \in Workers, EscalateIncident(w) PROVE Resolving'
  BY <1>10 DEF EscalateIncident, Goto, MoveFrom, Swappable
<1>11. ASSUME NEW w \in Workers, EvaluateActions(w) PROVE Resolving'
  BY <1>11 DEF EvaluateActions, Goto, Swappable
<1>12. ASSUME NEW w \in Workers, HandlerFails(w) PROVE Resolving'
  BY <1>12 DEF HandlerFails, Goto, AfterError
<1>13. ASSUME NEW w \in Workers, CompleteJob(w) PROVE Resolving'
  BY <1>13 DEF CompleteJob, Release, OwnsJob, Settle
<1>14. ASSUME NEW w \in Workers, FailJob(w) PROVE Resolving'
  BY <1>14 DEF FailJob, Release, OwnsJob, Settle, AfterFailure
<1>15. ASSUME NEW w \in Workers, ReportFails(w) PROVE Resolving'
  BY <1>15 DEF ReportFails, Release
<1>16. ASSUME NEW i \in Incidents, LeaseExpires(i) PROVE Resolving'
  BY <1>16 DEF LeaseExpires
<1>17. ASSUME NEW i \in Incidents, Remediate(i) PROVE Resolving'
  BY <1>17 DEF Remediate
<1>18. ASSUME Crash PROVE Resolving'
  BY <1>18 DEF Crash
<1>19. ASSUME Restart PROVE Resolving'
  BY <1>19 DEF Restart, Recovers
<1>20. CASE UNCHANGED vars
  BY <1>20 DEF vars
<1> QED
  BY <1>1, <1>2, <1>3, <1>4, <1>5, <1>6, <1>7, <1>8, <1>9, <1>10, <1>11, <1>12, <1>13,
    <1>14, <1>15, <1>16, <1>17, <1>18, <1>19, <1>20 DEF Next, Request, Triage, Report

LEMMA TriagingHasJobStep ==
  ASSUME TypeOK, Handled, Fresh, TriagingHasJob, [Next]_vars PROVE TriagingHasJob'
<1> USE ConstantsAssumption, Results DEF TypeOK, Handled, Fresh, TriagingHasJob, Working,
        jobVars, workerVars, requestVars, procVars
<1>1. ASSUME NEW r \in Requests, FiringAlert(r) PROVE TriagingHasJob'
  BY <1>1 DEF FiringAlert
<1>2. ASSUME NEW r \in Requests, CreateIncidentIntake(r) PROVE TriagingHasJob'
  BY <1>2 DEF CreateIncidentIntake, EndRequest
<1>3. ASSUME NEW r \in Requests, ResolvedAlert(r) PROVE TriagingHasJob'
  BY <1>3 DEF ResolvedAlert
<1>4. ASSUME NEW r \in Requests, ApplyResolvedAlert(r) PROVE TriagingHasJob'
  BY <1>4 DEF ApplyResolvedAlert, EndRequest, MoveFrom, Swappable
<1>5. ASSUME NEW r \in Requests, RequestFails(r) PROVE TriagingHasJob'
  BY <1>5 DEF RequestFails, EndRequest
<1>6. ASSUME NEW w \in Workers, ClaimJob(w) PROVE TriagingHasJob'
  BY <1>6 DEF ClaimJob, Claimable
<1>7. ASSUME NEW w \in Workers, LoadIncident(w) PROVE TriagingHasJob'
  BY <1>7 DEF LoadIncident, Goto, NextAfterLoad
<1>8. ASSUME NEW w \in Workers, GenerateActions(w) PROVE TriagingHasJob'
  BY <1>8 DEF GenerateActions, Goto
<1>9. ASSUME NEW w \in Workers, ProposeActions(w) PROVE TriagingHasJob'
  BY <1>9 DEF ProposeActions, Goto, MoveFrom, Swappable
<1>10. ASSUME NEW w \in Workers, EscalateIncident(w) PROVE TriagingHasJob'
  BY <1>10 DEF EscalateIncident, Goto, MoveFrom, Swappable
<1>11. ASSUME NEW w \in Workers, EvaluateActions(w) PROVE TriagingHasJob'
  BY <1>11 DEF EvaluateActions, Goto, Swappable
<1>12. ASSUME NEW w \in Workers, HandlerFails(w) PROVE TriagingHasJob'
  BY <1>12 DEF HandlerFails, Goto, AfterError
<1>13. ASSUME NEW w \in Workers, CompleteJob(w) PROVE TriagingHasJob'
  BY <1>13 DEF CompleteJob, Release, OwnsJob, Settle
<1>14. ASSUME NEW w \in Workers, FailJob(w) PROVE TriagingHasJob'
  BY <1>14 DEF FailJob, Release, OwnsJob, Settle, AfterFailure
<1>15. ASSUME NEW w \in Workers, ReportFails(w) PROVE TriagingHasJob'
  BY <1>15 DEF ReportFails, Release
<1>16. ASSUME NEW i \in Incidents, LeaseExpires(i) PROVE TriagingHasJob'
  BY <1>16 DEF LeaseExpires
<1>17. ASSUME NEW i \in Incidents, Remediate(i) PROVE TriagingHasJob'
  BY <1>17 DEF Remediate
<1>18. ASSUME Crash PROVE TriagingHasJob'
  BY <1>18 DEF Crash
<1>19. ASSUME Restart PROVE TriagingHasJob'
  BY <1>19 DEF Restart, Recovers
<1>20. CASE UNCHANGED vars
  BY <1>20 DEF vars
<1> QED
  BY <1>1, <1>2, <1>3, <1>4, <1>5, <1>6, <1>7, <1>8, <1>9, <1>10, <1>11, <1>12, <1>13,
    <1>14, <1>15, <1>16, <1>17, <1>18, <1>19, <1>20 DEF Next, Request, Triage, Report

LEMMA EvaluationStep ==
  ASSUME TypeOK, Handled, Fresh, Unevaluated, EvaluatedOnce, [Next]_vars
    PROVE Unevaluated' /\ EvaluatedOnce'
<1> USE Results DEF TypeOK, Handled, Fresh, Unevaluated, EvaluatedOnce, Unstarted, Working,
        jobVars, workerVars, requestVars, procVars
<1>1. ASSUME NEW r \in Requests, FiringAlert(r) PROVE Unevaluated' /\ EvaluatedOnce'
  BY <1>1 DEF FiringAlert
<1>2. ASSUME NEW r \in Requests, CreateIncidentIntake(r) PROVE Unevaluated'
      /\ EvaluatedOnce'
  BY <1>2 DEF CreateIncidentIntake, EndRequest
<1>3. ASSUME NEW r \in Requests, ResolvedAlert(r) PROVE Unevaluated' /\ EvaluatedOnce'
  BY <1>3 DEF ResolvedAlert
<1>4. ASSUME NEW r \in Requests, ApplyResolvedAlert(r) PROVE Unevaluated' /\ EvaluatedOnce'
  BY <1>4 DEF ApplyResolvedAlert, EndRequest, MoveFrom, Swappable
<1>5. ASSUME NEW r \in Requests, RequestFails(r) PROVE Unevaluated' /\ EvaluatedOnce'
  BY <1>5 DEF RequestFails, EndRequest
<1>6. ASSUME NEW w \in Workers, ClaimJob(w) PROVE Unevaluated' /\ EvaluatedOnce'
  BY <1>6 DEF ClaimJob, Claimable
<1>7. ASSUME NEW w \in Workers, LoadIncident(w) PROVE Unevaluated' /\ EvaluatedOnce'
  BY <1>7 DEF LoadIncident, Goto, NextAfterLoad
<1>8. ASSUME NEW w \in Workers, GenerateActions(w) PROVE Unevaluated' /\ EvaluatedOnce'
  BY <1>8 DEF GenerateActions, Goto
<1>9. ASSUME NEW w \in Workers, ProposeActions(w) PROVE Unevaluated' /\ EvaluatedOnce'
  BY <1>9 DEF ProposeActions, Goto, MoveFrom, Swappable
<1>10. ASSUME NEW w \in Workers, EscalateIncident(w) PROVE Unevaluated' /\ EvaluatedOnce'
  BY <1>10 DEF EscalateIncident, Goto, MoveFrom, Swappable
<1>11. ASSUME NEW w \in Workers, EvaluateActions(w) PROVE Unevaluated' /\ EvaluatedOnce'
  BY <1>11 DEF EvaluateActions, Goto, Swappable
<1>12. ASSUME NEW w \in Workers, HandlerFails(w) PROVE Unevaluated' /\ EvaluatedOnce'
  BY <1>12 DEF HandlerFails, Goto, AfterError
<1>13. ASSUME NEW w \in Workers, CompleteJob(w) PROVE Unevaluated' /\ EvaluatedOnce'
  BY <1>13 DEF CompleteJob, Release, OwnsJob, Settle
<1>14. ASSUME NEW w \in Workers, FailJob(w) PROVE Unevaluated' /\ EvaluatedOnce'
  BY <1>14 DEF FailJob, Release, OwnsJob, Settle, AfterFailure
<1>15. ASSUME NEW w \in Workers, ReportFails(w) PROVE Unevaluated' /\ EvaluatedOnce'
  BY <1>15 DEF ReportFails, Release
<1>16. ASSUME NEW i \in Incidents, LeaseExpires(i) PROVE Unevaluated' /\ EvaluatedOnce'
  BY <1>16 DEF LeaseExpires
<1>17. ASSUME NEW i \in Incidents, Remediate(i) PROVE Unevaluated' /\ EvaluatedOnce'
  BY <1>17 DEF Remediate
<1>18. ASSUME Crash PROVE Unevaluated' /\ EvaluatedOnce'
  BY <1>18 DEF Crash
<1>19. ASSUME Restart PROVE Unevaluated' /\ EvaluatedOnce'
  BY <1>19 DEF Restart, Recovers
<1>20. CASE UNCHANGED vars
  BY <1>20 DEF vars
<1> QED
  BY <1>1, <1>2, <1>3, <1>4, <1>5, <1>6, <1>7, <1>8, <1>9, <1>10, <1>11, <1>12, <1>13,
    <1>14, <1>15, <1>16, <1>17, <1>18, <1>19, <1>20 DEF Next, Request, Triage, Report

LEMMA RetriesStep ==
  ASSUME TypeOK, Handled, Fresh, OwnAttempt, RetriesAgree, [Next]_vars PROVE OwnAttempt'
    /\ RetriesAgree'
<1> USE ConstantsAssumption DEF TypeOK, Handled, Fresh, OwnAttempt, RetriesAgree, OwnsJob,
        Working, jobVars, workerVars, requestVars, procVars
<1>1. ASSUME NEW r \in Requests, FiringAlert(r) PROVE OwnAttempt' /\ RetriesAgree'
  BY <1>1 DEF FiringAlert
<1>2. ASSUME NEW r \in Requests, CreateIncidentIntake(r) PROVE OwnAttempt' /\ RetriesAgree'
  BY <1>2 DEF CreateIncidentIntake, EndRequest
<1>3. ASSUME NEW r \in Requests, ResolvedAlert(r) PROVE OwnAttempt' /\ RetriesAgree'
  BY <1>3 DEF ResolvedAlert
<1>4. ASSUME NEW r \in Requests, ApplyResolvedAlert(r) PROVE OwnAttempt' /\ RetriesAgree'
  BY <1>4 DEF ApplyResolvedAlert, EndRequest, MoveFrom, Swappable
<1>5. ASSUME NEW r \in Requests, RequestFails(r) PROVE OwnAttempt' /\ RetriesAgree'
  BY <1>5 DEF RequestFails, EndRequest
<1>6. ASSUME NEW w \in Workers, ClaimJob(w) PROVE OwnAttempt' /\ RetriesAgree'
  BY <1>6 DEF ClaimJob, Claimable
<1>7. ASSUME NEW w \in Workers, LoadIncident(w) PROVE OwnAttempt' /\ RetriesAgree'
  BY <1>7 DEF LoadIncident, Goto, NextAfterLoad
<1>8. ASSUME NEW w \in Workers, GenerateActions(w) PROVE OwnAttempt' /\ RetriesAgree'
  BY <1>8 DEF GenerateActions, Goto
<1>9. ASSUME NEW w \in Workers, ProposeActions(w) PROVE OwnAttempt' /\ RetriesAgree'
  BY <1>9 DEF ProposeActions, Goto, MoveFrom, Swappable
<1>10. ASSUME NEW w \in Workers, EscalateIncident(w) PROVE OwnAttempt' /\ RetriesAgree'
  BY <1>10 DEF EscalateIncident, Goto, MoveFrom, Swappable
<1>11. ASSUME NEW w \in Workers, EvaluateActions(w) PROVE OwnAttempt' /\ RetriesAgree'
  BY <1>11 DEF EvaluateActions, Goto, Swappable
<1>12. ASSUME NEW w \in Workers, HandlerFails(w) PROVE OwnAttempt' /\ RetriesAgree'
  BY <1>12 DEF HandlerFails, Goto, AfterError
<1>13. ASSUME NEW w \in Workers, CompleteJob(w) PROVE OwnAttempt' /\ RetriesAgree'
  BY <1>13 DEF CompleteJob, Release, OwnsJob, Settle
<1>14. ASSUME NEW w \in Workers, FailJob(w) PROVE OwnAttempt' /\ RetriesAgree'
  <2>1. OwnAttempt'
    BY <1>14 DEF FailJob, Release, OwnsJob, Settle
  <2>2. OwnsJob(job[w], w) => attempt[w] = attempts[job[w]]
        /\ attempts[job[w]] \in 0..MaxAttempts
    BY <1>14 DEF FailJob
  <2>3. RetriesAgree'
    BY <1>14, <2>2, GivesUp DEF FailJob, Release, OwnsJob, Settle
  <2> QED
    BY <2>1, <2>2, <2>3
<1>15. ASSUME NEW w \in Workers, ReportFails(w) PROVE OwnAttempt' /\ RetriesAgree'
  BY <1>15 DEF ReportFails, Release
<1>16. ASSUME NEW i \in Incidents, LeaseExpires(i) PROVE OwnAttempt' /\ RetriesAgree'
  BY <1>16 DEF LeaseExpires
<1>17. ASSUME NEW i \in Incidents, Remediate(i) PROVE OwnAttempt' /\ RetriesAgree'
  BY <1>17 DEF Remediate
<1>18. ASSUME Crash PROVE OwnAttempt' /\ RetriesAgree'
  BY <1>18 DEF Crash
<1>19. ASSUME Restart PROVE OwnAttempt' /\ RetriesAgree'
  BY <1>19 DEF Restart, Recovers
<1>20. CASE UNCHANGED vars
  BY <1>20 DEF vars
<1> QED
  BY <1>1, <1>2, <1>3, <1>4, <1>5, <1>6, <1>7, <1>8, <1>9, <1>10, <1>11, <1>12, <1>13,
    <1>14, <1>15, <1>16, <1>17, <1>18, <1>19, <1>20 DEF Next, Request, Triage, Report

----------------------------------------------------------------------------
LEMMA Invariance == Spec => []Inv
<1>1. Inv /\ [Next]_vars => Inv'
  BY TypeStep, HandledStep, FreshStep, ResolvingStep, TriagingHasJobStep, EvaluationStep,
     RetriesStep DEF Inv
<1> QED
  BY InitInv, <1>1, PTL DEF Spec

\* Every variable of intake and triage keeps its type.
THEOREM TriageTypeCorrect == Spec => []TypeOK
<1>1. Inv => TypeOK
  BY DEF Inv
<1> QED
  BY Invariance, <1>1, PTL

\* An accepted incident that still needs triage has a job nobody marked done:
\* the intake writes both in one transaction, and a handler that returns
\* success has taken its incident out of triage first.
THEOREM TriageIsNeverLost == Spec => []TriagingHasJob
<1>1. Inv => TriagingHasJob
  BY DEF Inv
<1> QED
  BY Invariance, <1>1, PTL

\* Two attempts of a job, one of them past its lease, evaluate the candidates
\* of an incident once: both swap from triaging, and nothing leads back to it.
THEOREM EvaluatesOnce == Spec => []EvaluatedOnce
<1>1. Inv => EvaluatedOnce
  BY DEF Inv
<1> QED
  BY Invariance, <1>1, PTL

\* A queued job has an attempt left and a dead letter none: the attempt number
\* a worker decides from is current as long as it owns the job.
THEOREM RetriesAreBounded == Spec => []RetriesAgree
<1>1. Inv => RetriesAgree
  BY DEF Inv
<1> QED
  BY Invariance, <1>1, PTL

LEMMA LettingGo ==
  ASSUME Inv, [Next]_vars, NEW i \in Incidents, incidentState[i] \notin Unstarted
  PROVE  MovesOn(incidentState[i], incidentState'[i])
<1> USE DEF Inv, TypeOK, Handled, Fresh, Resolving, Unstarted, Working, jobVars, workerVars,
        requestVars, procVars
<1>1. ASSUME NEW k \in Incidents, Remediate(k)
      PROVE  MovesOn(incidentState[i], incidentState'[i])
  BY <1>1 DEF Remediate, MovesOn
<1>2. ASSUME NEW r \in Requests, CreateIncidentIntake(r)
      PROVE  MovesOn(incidentState[i], incidentState'[i])
  BY <1>2 DEF CreateIncidentIntake, MovesOn
<1>3. ASSUME NEW r \in Requests, ApplyResolvedAlert(r)
      PROVE  MovesOn(incidentState[i], incidentState'[i])
  BY <1>3 DEF ApplyResolvedAlert, MoveFrom, Swappable, MovesOn
<1>4. ASSUME NEW w \in Workers, ProposeActions(w) \/ EscalateIncident(w)
      PROVE  incidentState'[i] = incidentState[i]
  BY <1>4 DEF ProposeActions, EscalateIncident, MoveFrom, Swappable
<1>5. ASSUME NEW w \in Workers, EvaluateActions(w)
      PROVE  MovesOn(incidentState[i], incidentState'[i])
  <2>1. MovesOn("action_proposed", "awaiting_approval") /\ MovesOn("action_proposed", "approved")
    BY DEF MovesOn, writePathMoves
  <2> QED
    BY <1>5, <2>1 DEF EvaluateActions, Swappable, MovesOn
<1>6. ASSUME \/ \E r \in Requests : FiringAlert(r) \/ ResolvedAlert(r) \/ RequestFails(r)
             \/ \E w \in Workers : \/ ClaimJob(w) \/ LoadIncident(w) \/ GenerateActions(w)
                                   \/ HandlerFails(w) \/ Report(w)
             \/ \E k \in Incidents : LeaseExpires(k)
             \/ Crash \/ Restart \/ UNCHANGED vars
      PROVE  incidentState' = incidentState
  BY <1>6 DEF FiringAlert, ResolvedAlert, RequestFails, ClaimJob, LoadIncident,
              GenerateActions, HandlerFails, Report, CompleteJob, FailJob, ReportFails,
              LeaseExpires, Crash, Restart, vars
<1> QED
  BY <1>1, <1>2, <1>3, <1>4, <1>5, <1>6 DEF Next, Request, Triage, MovesOn

\* Neither a triage worker nor a webhook moves an incident that has left triage
\* otherwise than the write path and its alert may, however old what it read.
THEOREM TriageIsOver == Spec => TriageLetsGo
<1>1. Inv /\ [Next]_vars =>
        \A i \in Incidents :
          incidentState[i] \notin {"absent", "triaging"} =>
            MovesOn(incidentState[i], incidentState'[i])
  BY LettingGo DEF Unstarted
<1> QED
  BY Invariance, <1>1, PTL DEF Spec, TriageLetsGo
----------------------------------------------------------------------------
(* The refinement of TriageQueue.                                          *)

StandingFor(s, n) ==
  IF s = "absent" THEN "unknown"
  ELSE IF s = "triaging" THEN "accepted"
  ELSE IF n > 0 THEN "proposed" ELSE "settled"

LEMMA Standings ==
  /\ standing = [k \in Incidents |-> StandingFor(incidentState[k], evaluations[k])]
  /\ standing' = [k \in Incidents |-> StandingFor(incidentState'[k], evaluations'[k])]
  BY DEF standing, StandingFor

\* What each step must be shown to do.
QueueStep == Queue!Next \/ UNCHANGED Queue!vars

\* Beyond triage no move shows.
LEMMA Unmoved ==
  ASSUME evaluations' = evaluations, NEW i \in Incidents, NEW to,
         TypeOK, incidentState[i] \notin Unstarted, to \notin Unstarted,
         incidentState' = [incidentState EXCEPT ![i] = to]
  PROVE  standing' = standing
<1>1. \A k \in Incidents :
        StandingFor(incidentState'[k], evaluations'[k]) = StandingFor(incidentState[k], evaluations[k])
  BY DEF StandingFor, Unstarted, TypeOK
<1> QED
  BY <1>1, Standings

\* An episode leaves triage, or enters it.
LEMMA Moved ==
  ASSUME NEW i \in Incidents, NEW to, TypeOK,
         incidentState' = [incidentState EXCEPT ![i] = to],
         \A k \in Incidents \ {i} : evaluations'[k] = evaluations[k]
  PROVE  standing' = [standing EXCEPT ![i] = StandingFor(to, evaluations'[i])]
<1>1. incidentState'[i] = to
  BY DEF TypeOK
<1>2. \A k \in Incidents \ {i} :
        StandingFor(incidentState'[k], evaluations'[k]) = StandingFor(incidentState[k], evaluations[k])
  BY DEF TypeOK
<1> QED
  BY <1>1, <1>2, Standings

LEMMA RequestRefines ==
  ASSUME Inv, NEW r \in Requests, Request(r)
  PROVE  QueueStep
<1> USE DEF Inv, TypeOK, Fresh, jobVars
<1>1. CASE CreateIncidentIntake(r)
  <2> DEFINE i == target[r]
  <2>1. /\ i \in Incidents /\ incidentState[i] = "absent" /\ jobStatus[i] = "none"
        /\ incidentState' = [incidentState EXCEPT ![i] = "triaging"]
        /\ jobStatus' = [jobStatus EXCEPT ![i] = "queued"]
        /\ evaluations' = evaluations /\ attempts' = attempts
    BY <1>1 DEF CreateIncidentIntake
  <2>2. standing[i] = "unknown" /\ standing' = [standing EXCEPT ![i] = "accepted"]
    BY <2>1, Moved, Standings DEF StandingFor
  <2>3. Queue!Accept(i)
    BY <2>1, <2>2 DEF Queue!Accept
  <2> QED
    BY <2>1, <2>3 DEF QueueStep, Queue!Next
<1>2. CASE ApplyResolvedAlert(r)
  <2> DEFINE i == target[r]  to == nextStateForResolvedAlert(requestSaw[r])
  <2>1. UNCHANGED <<jobStatus, attempts, evaluations>> /\ i \in Incidents
    BY <1>2 DEF ApplyResolvedAlert
  <2>2. to \notin Unstarted /\ requestSaw[r] # "absent"
    BY Results DEF Unstarted
  <2>3. CASE incidentState' = incidentState
    BY <2>1, <2>3 DEF QueueStep, Queue!vars, standing
  <2>4. CASE /\ incidentState' = [incidentState EXCEPT ![i] = to]
             /\ incidentState[i] # "absent" /\ incidentState[i] # "triaging"
    <3>1. standing' = standing
      BY <2>1, <2>2, <2>4, Unmoved DEF Unstarted
    <3> QED
      BY <2>1, <3>1 DEF QueueStep, Queue!vars
  <2>5. CASE /\ incidentState' = [incidentState EXCEPT ![i] = to]
             /\ incidentState[i] = "triaging"
    <3>1. evaluations'[i] = 0
      BY <2>1, <2>5 DEF Unevaluated, Unstarted
    <3>2. standing' = [standing EXCEPT ![i] = "settled"] /\ standing[i] = "accepted"
      BY <2>1, <2>2, <2>5, <3>1, Moved, Standings DEF StandingFor, Unstarted
    <3>3. Queue!Settle(i)
      BY <2>1, <3>2 DEF Queue!Settle, Queue!Leave
    <3> QED
      BY <2>1, <3>3 DEF QueueStep, Queue!Next
  <2> QED
    BY <1>2, <2>2, <2>3, <2>4, <2>5 DEF ApplyResolvedAlert, Swappable, MoveFrom
<1>3. CASE FiringAlert(r) \/ ResolvedAlert(r) \/ RequestFails(r)
  BY <1>3 DEF FiringAlert, ResolvedAlert, RequestFails, QueueStep, Queue!vars, standing
<1> QED
  BY <1>1, <1>2, <1>3 DEF Request

LEMMA HandlerRefines ==
  ASSUME Inv, NEW w \in Workers, Triage(w)
  PROVE  QueueStep
<1> USE DEF Inv, TypeOK, Handled, Working, jobVars
<1> DEFINE i == job[w]
<1>1. CASE ProposeActions(w)
  <2>1. jobStatus' = jobStatus /\ attempts' = attempts /\ i \in Incidents
    BY <1>1 DEF ProposeActions
  <2>2. CASE incidentState[i] = "triaging"
    <3>1. /\ evaluations[i] = 0
          /\ evaluations' = [evaluations EXCEPT ![i] = 1]
          /\ incidentState' = [incidentState EXCEPT ![i] = "action_proposed"]
      BY <1>1, <2>1, <2>2 DEF ProposeActions, Swappable, MoveFrom, Unevaluated, Unstarted
    <3>2. standing[i] = "accepted" /\ standing' = [standing EXCEPT ![i] = "proposed"]
      BY <2>1, <2>2, <3>1, Moved, Standings DEF StandingFor
    <3>3. Queue!Propose(i)
      BY <2>1, <3>1, <3>2 DEF Queue!Propose, Queue!Leave
    <3> QED
      BY <2>1, <3>3 DEF QueueStep, Queue!Next
  <2>3. CASE incidentState[i] # "triaging"
    BY <1>1, <2>1, <2>3 DEF ProposeActions, Swappable, QueueStep, Queue!vars, standing
  <2> QED
    BY <2>2, <2>3
<1>2. CASE EscalateIncident(w)
  <2>1. UNCHANGED <<jobStatus, attempts, evaluations>> /\ i \in Incidents
    BY <1>2 DEF EscalateIncident
  <2>2. CASE incidentState[i] = "triaging"
    <3>1. evaluations'[i] = 0 /\ incidentState' = [incidentState EXCEPT ![i] = "escalated"]
      BY <1>2, <2>1, <2>2 DEF EscalateIncident, Swappable, MoveFrom, Unevaluated, Unstarted
    <3>2. standing[i] = "accepted" /\ standing' = [standing EXCEPT ![i] = "settled"]
      BY <2>1, <2>2, <3>1, Moved, Standings DEF StandingFor
    <3>3. Queue!Settle(i)
      BY <2>1, <3>2 DEF Queue!Settle, Queue!Leave
    <3> QED
      BY <2>1, <3>3 DEF QueueStep, Queue!Next
  <2>3. CASE incidentState[i] # "triaging"
    BY <1>2, <2>1, <2>3 DEF EscalateIncident, Swappable, QueueStep, Queue!vars, standing
  <2> QED
    BY <2>2, <2>3
<1>3. CASE EvaluateActions(w)
  <2>1. UNCHANGED <<jobStatus, attempts, evaluations>> /\ i \in Incidents
    BY <1>3 DEF EvaluateActions
  <2>2. \/ incidentState' = incidentState
        \/ /\ incidentState[i] = "action_proposed"
           /\ \E s \in {"awaiting_approval", "approved"} :
                incidentState' = [incidentState EXCEPT ![i] = s]
    BY <1>3 DEF EvaluateActions, Swappable
  <2>3. standing' = standing
    BY <2>1, <2>2, Unmoved DEF Unstarted, standing
  <2> QED
    BY <2>1, <2>3 DEF QueueStep, Queue!vars
<1>4. CASE LoadIncident(w) \/ GenerateActions(w) \/ HandlerFails(w)
  BY <1>4 DEF LoadIncident, GenerateActions, HandlerFails, QueueStep, Queue!vars, standing
<1> QED
  BY <1>1, <1>2, <1>3, <1>4 DEF Triage

LEMMA ReportRefines ==
  ASSUME Inv, NEW w \in Workers, Report(w)
  PROVE  QueueStep
<1> USE DEF Inv, TypeOK, Handled, Working
<1> DEFINE i == job[w]
<1>1. UNCHANGED <<incidentState, evaluations, attempts>> /\ standing' = standing
  BY DEF Report, CompleteJob, FailJob, ReportFails, jobVars, standing
<1>2. CASE jobStatus' = jobStatus
  BY <1>1, <1>2 DEF QueueStep, Queue!vars
<1>3. CASE CompleteJob(w) /\ jobStatus' # jobStatus
  <2>1. /\ i \in Incidents /\ jobStatus[i] = "running"
        /\ jobStatus' = [jobStatus EXCEPT ![i] = "succeeded"]
        /\ incidentState[i] \notin Unstarted
    BY <1>3 DEF CompleteJob, OwnsJob, Settle, Unstarted
  <2>2. standing[i] \in {"proposed", "settled"}
    BY <2>1, Standings DEF StandingFor, Unstarted
  <2>3. Queue!Finish(i)
    BY <1>1, <2>1, <2>2 DEF Queue!Finish, Queue!Turn
  <2> QED
    BY <2>1, <2>3 DEF QueueStep, Queue!Next
<1>4. CASE FailJob(w) /\ jobStatus' # jobStatus
  <2>1. /\ i \in Incidents /\ OwnsJob(i, w) /\ jobStatus[i] = "running"
        /\ jobStatus' = [jobStatus EXCEPT ![i] = AfterFailure(attempt[w])]
        /\ attempt[w] = attempts[i]
    BY <1>4 DEF FailJob, OwnsJob, Settle, OwnAttempt
  <2>2. AfterFailure(attempts[i]) = IF attempts[i] < MaxAttempts THEN "queued" ELSE "dead_letter"
    BY <2>1, GivesUp, ConstantsAssumption
  <2>3. Queue!GiveUp(i)
    BY <1>1, <2>1, <2>2 DEF Queue!GiveUp, Queue!Turn
  <2> QED
    BY <2>1, <2>3 DEF QueueStep, Queue!Next
<1>5. CASE ReportFails(w)
  BY <1>2, <1>5 DEF ReportFails, jobVars
<1> QED
  BY <1>2, <1>3, <1>4, <1>5 DEF Report

LEMMA ClaimRefines ==
  ASSUME Inv, NEW w \in Workers, ClaimJob(w)
  PROVE  QueueStep
<1> USE DEF Inv, TypeOK
<1>1. PICK i \in Incidents :
        /\ Claimable(i)
        /\ jobStatus' = [jobStatus EXCEPT ![i] = "running"]
        /\ attempts' = [attempts EXCEPT ![i] = @ + 1]
  BY DEF ClaimJob
<1>2. UNCHANGED <<incidentState, evaluations>> /\ standing' = standing
  BY DEF ClaimJob, standing
<1>3. Queue!Try(i)
  BY <1>1, <1>2 DEF Claimable, Queue!Try, Queue!Turn
<1> QED
  BY <1>3 DEF QueueStep, Queue!Next

LEMMA RestartRefines ==
  ASSUME Inv, Restart
  PROVE  QueueStep
<1> USE DEF Inv, TypeOK, Fresh
<1>1. UNCHANGED <<incidentState, evaluations>> /\ standing' = standing
  BY DEF Restart, standing
<1>2. \A i \in Incidents :
        Recovers(i) <=> standing[i] = "accepted" /\ jobStatus[i] = "dead_letter"
  BY Standings DEF Recovers, StandingFor
<1>3. Queue!TakeUpAgain
  BY <1>1, <1>2 DEF Restart, Queue!TakeUpAgain
<1> QED
  BY <1>3 DEF QueueStep, Queue!Next

LEMMA RemediateRefines ==
  ASSUME Inv, NEW i \in Incidents, Remediate(i)
  PROVE  QueueStep
<1>1. UNCHANGED <<jobStatus, attempts, evaluations>>
  BY DEF Remediate, jobVars
<1>2. \E s \in IncidentStates :
        /\ s \notin Unstarted /\ incidentState[i] \notin Unstarted
        /\ incidentState' = [incidentState EXCEPT ![i] = s]
  BY Results DEF Remediate, Unstarted
<1>3. standing' = standing
  BY <1>1, <1>2, Unmoved DEF Inv
<1> QED
  BY <1>1, <1>3 DEF QueueStep, Queue!vars

LEMMA QuietRefines ==
  ASSUME Crash \/ (\E i \in Incidents : LeaseExpires(i)) \/ UNCHANGED vars
  PROVE  QueueStep
  BY DEF Crash, LeaseExpires, vars, jobVars, QueueStep, Queue!vars, standing

\* Intake, workers and restarts implement the queue of episodes: whatever
\* leases, reports and requests are lost, each of their steps is one step of
\* TriageQueue on one episode, a restart's requeueing of them all, or none.
THEOREM JobsImplementQueue == Spec => ImplementsQueue
<1>1. Init => Queue!Init
  BY DEF Init, Queue!Init, standing
<1>2. Inv /\ [Next]_vars => [Queue!Next]_(Queue!vars)
  BY RequestRefines, HandlerRefines, ReportRefines, ClaimRefines, RestartRefines,
     RemediateRefines, QuietRefines DEF Next, QueueStep
<1> QED
  BY Invariance, <1>1, <1>2, PTL DEF Spec, ImplementsQueue, Queue!Spec
----------------------------------------------------------------------------
(* One webhook at a time: an undecided episode is the latest there is, and *)
(* a request that creates one has found none undecided.                    *)
Undecided(i) == incidentState[i] \in UndecidedStates

LatestIsUndecided ==
  /\ \A i, j \in Incidents : Undecided(i) /\ incidentState[j] # "absent" => j <= i
  /\ \A r \in Requests : request[r] = "creating" =>
       \A j \in Incidents :
         ~Undecided(j) /\ (incidentState[j] # "absent" => j < target[r])

\* A step other than an intake: nothing becomes undecided, nothing comes into
\* being, and no request starts to create.
Kept ==
  /\ \A i \in Incidents :
       /\ Undecided(i)' => Undecided(i)
       /\ incidentState'[i] # "absent" => incidentState[i] # "absent"
  /\ \A r \in Requests :
       request'[r] = "creating" => request[r] = "creating" /\ target'[r] = target[r]

LEMMA KeptStep ==
  ASSUME Inv, [Next]_vars,
         \A r \in Requests : ~FiringAlert(r) /\ ~CreateIncidentIntake(r)
  PROVE  Kept
<1> USE Results DEF Inv, TypeOK, Handled, Fresh, Resolving, Working, Undecided, Kept,
        UndecidedStates, jobVars, workerVars, requestVars, procVars
<1>3. ASSUME NEW r \in Requests, ResolvedAlert(r) PROVE Kept
  BY <1>3 DEF ResolvedAlert
<1>4. ASSUME NEW r \in Requests, ApplyResolvedAlert(r) PROVE Kept
  BY <1>4 DEF ApplyResolvedAlert, EndRequest, MoveFrom, Swappable
<1>5. ASSUME NEW r \in Requests, RequestFails(r) PROVE Kept
  BY <1>5 DEF RequestFails, EndRequest
<1>6. ASSUME NEW w \in Workers, ClaimJob(w) PROVE Kept
  BY <1>6 DEF ClaimJob, Claimable
<1>7. ASSUME NEW w \in Workers, LoadIncident(w) PROVE Kept
  BY <1>7 DEF LoadIncident, Goto, NextAfterLoad
<1>8. ASSUME NEW w \in Workers, GenerateActions(w) PROVE Kept
  BY <1>8 DEF GenerateActions, Goto
<1>9. ASSUME NEW w \in Workers, ProposeActions(w) PROVE Kept
  BY <1>9 DEF ProposeActions, Goto, MoveFrom, Swappable
<1>10. ASSUME NEW w \in Workers, EscalateIncident(w) PROVE Kept
  BY <1>10 DEF EscalateIncident, Goto, MoveFrom, Swappable
<1>11. ASSUME NEW w \in Workers, EvaluateActions(w) PROVE Kept
  BY <1>11 DEF EvaluateActions, Goto, Swappable
<1>12. ASSUME NEW w \in Workers, HandlerFails(w) PROVE Kept
  BY <1>12 DEF HandlerFails, Goto, AfterError
<1>13. ASSUME NEW w \in Workers, CompleteJob(w) PROVE Kept
  BY <1>13 DEF CompleteJob, Release, OwnsJob, Settle
<1>14. ASSUME NEW w \in Workers, FailJob(w) PROVE Kept
  BY <1>14 DEF FailJob, Release, OwnsJob, Settle, AfterFailure
<1>15. ASSUME NEW w \in Workers, ReportFails(w) PROVE Kept
  BY <1>15 DEF ReportFails, Release
<1>16. ASSUME NEW i \in Incidents, LeaseExpires(i) PROVE Kept
  BY <1>16 DEF LeaseExpires
<1>17. ASSUME NEW i \in Incidents, Remediate(i) PROVE Kept
  <2>1. evaluations[i] > 0 /\ incidentState[i] \notin {"absent", "triaging"}
    BY <1>17 DEF Remediate, Unevaluated, Unstarted
  <2>2. \A s, t : <<s, t>> \in writePathMoves /\ t \in UndecidedStates => s \in UndecidedStates
    BY DEF writePathMoves, allowedTransitions, Underway, Executed, UndecidedStates
  <2> QED
    BY <1>17, <2>1, <2>2 DEF Remediate
<1>18. ASSUME Crash PROVE Kept
  BY <1>18 DEF Crash
<1>19. ASSUME Restart PROVE Kept
  BY <1>19 DEF Restart, Recovers
<1>20. CASE UNCHANGED vars
  BY <1>20 DEF vars
<1> QED
  BY <1>3, <1>4, <1>5, <1>6, <1>7, <1>8, <1>9, <1>10, <1>11, <1>12, <1>13,
    <1>14, <1>15, <1>16, <1>17, <1>18, <1>19, <1>20 DEF Next, Request, Triage, Report

\* An undecided episode is what the next firing alert finds.
LEMMA LatestFound ==
  ASSUME LatestIsUndecided, NEW i \in Incidents, Undecided(i)
  PROVE  HasOpenEpisode
<1>1. i \in Created /\ \A j \in Created : j <= i
  BY DEF LatestIsUndecided, Created, Undecided, UndecidedStates
<1>2. Latest \in Created /\ \A j \in Created : j <= Latest
  BY <1>1 DEF Latest
<1>3. Latest = i
  BY <1>1, <1>2 DEF Created, Incidents
<1> QED
  BY <1>3 DEF HasOpenEpisode, Undecided, UndecidedStates, TerminalStates, Incidents

LEMMA LatestStep ==
  ASSUME \A r, s \in Requests : r = s, Inv, LatestIsUndecided, [Next]_vars
  PROVE  LatestIsUndecided'
<1> USE DEF Inv, TypeOK, Fresh
<1>1. ASSUME NEW r \in Requests, FiringAlert(r) PROVE LatestIsUndecided'
  <2>1. \A j \in Incidents : ~Undecided(j)
    BY <1>1, LatestFound DEF FiringAlert
  <2>2. \A j \in Incidents : incidentState[j] # "absent" => j < stamps + 1
    BY ConstantsAssumption DEF Incidents
  <2>3. target'[r] = stamps + 1 /\ incidentState' = incidentState
    BY <1>1 DEF FiringAlert
  <2> QED
    BY <2>1, <2>2, <2>3 DEF LatestIsUndecided, Undecided
<1>2. ASSUME NEW r \in Requests, CreateIncidentIntake(r) PROVE LatestIsUndecided'
  <2>1. /\ target[r] \in Incidents
        /\ incidentState' = [incidentState EXCEPT ![target[r]] = "triaging"]
        /\ \A s \in Requests : request'[s] = "idle"
    BY <1>2 DEF CreateIncidentIntake, EndRequest
  <2>2. \A j \in Incidents :
          ~Undecided(j) /\ (incidentState[j] # "absent" => j < target[r])
    BY <1>2 DEF LatestIsUndecided, CreateIncidentIntake
  <2> QED
    BY <2>1, <2>2 DEF LatestIsUndecided, Undecided, UndecidedStates, Incidents
<1>3. CASE \A r \in Requests : ~FiringAlert(r) /\ ~CreateIncidentIntake(r)
  BY <1>3, KeptStep DEF Kept, LatestIsUndecided
<1> QED
  BY <1>1, <1>2, <1>3

\* Webhooks of the alert that come one after the other never leave two
\* episodes short of their approval, whatever workers, operators and crashes
\* do between them: the lookup and the intake, not one transaction, would
\* need to overlap with another's.
THEOREM OneEpisodeAtATime ==
  ASSUME \A r, s \in Requests : r = s
  PROVE  Spec => []OneUndecidedEpisode
<1>1. Init => LatestIsUndecided
  BY DEF Init, LatestIsUndecided, Undecided, UndecidedStates
<1>2. Inv /\ LatestIsUndecided /\ [Next]_vars => LatestIsUndecided'
  BY LatestStep
<1>3. LatestIsUndecided => OneUndecidedEpisode
  BY DEF LatestIsUndecided, Undecided, OneUndecidedEpisode, UndecidedStates, Incidents
<1> QED
  BY Invariance, <1>1, <1>2, <1>3, PTL DEF Spec
=============================================================================
