---------------------------- MODULE Remediation ----------------------------
(***************************************************************************)
(* The write path of one Triovexa process: policy evaluation, operator     *)
(* decisions, the execution claim, dispatch to the workload supervisor,    *)
(* verification, compensation, and the recovery that runs before the       *)
(* process serves again (internal/approval, internal/execution,            *)
(* internal/verification, the PostgreSQL store under them).                *)
(*                                                                         *)
(* Grain: one step per store or network call that other processes can      *)
(* observe.  A local computation or a read whose result only the reader    *)
(* holds is part of the step that uses it.  A refusal that writes only an  *)
(* audit event leaves the state alone and is a return to idle.             *)
(***************************************************************************)
EXTENDS Naturals, IncidentLifecycle

CONSTANTS
  Incidents, Actions, Targets,
  incidentOf,    \* the incident a candidate action belongs to
  targetOf,      \* its target_resource
  Reversible,    \* actions whose catalog entry names a rollback action
  Executors,     \* HTTP requests that may execute an action
  Operators,     \* operator sessions, one approve or reject request at a time
  NoAction,
  PolicyOutcomes,\* what the evaluator may return with the kill switch off
  Verdicts,      \* what VerifyExecution's evaluation may conclude
  SwitchSettings,\* what an administrator sets the kill switch to: {} leaves it off
  MaxCrashes,    \* bound: how often the process is killed
  StoreFaults    \* whether store calls fail or clients disconnect mid-request

ASSUME ConstantsAssumption ==
  /\ incidentOf \in [Actions -> Incidents]
  /\ targetOf \in [Actions -> Targets]
  /\ Reversible \subseteq Actions
  /\ NoAction \notin Actions
  /\ PolicyOutcomes \subseteq {"allow", "approval_required", "deny"}
  /\ Verdicts \subseteq {"success", "failed", "inconclusive"}
  /\ SwitchSettings \subseteq BOOLEAN
  /\ MaxCrashes \in Nat
  /\ StoreFaults \in BOOLEAN

VARIABLES
  \* PostgreSQL
  incidentState, actionStatus,
  decision,      \* policy_decisions
  approval,      \* latest approval_records row; "expired" past its 15 minutes
  record,        \* execution_records, by the request that claimed
  verification,  \* verification_results, by execution record
  rollback,      \* rollback_records, by action
  \* the Triovexa process
  phase, killSwitch, crashes,
  evaluation, evaluated,            \* EvaluateActions: where it is, its decisions
  opStep, opAction, opSaw,          \* approve/reject handlers
  pc, subject, saw,                 \* execute handlers and recovery
  \* outside
  operation, compensation,          \* the supervisor's stored results, by key
  fresh,                            \* evidence within its 60 seconds
  alertCleared                      \* history: a resolved alert ended the incident

evalVars  == <<evaluation, evaluated, decision>>
opVars    == <<opStep, opAction, opSaw, approval>>
execVars  == <<pc, subject, saw>>
storeVars == <<record, verification, rollback>>
procVars  == <<phase, killSwitch, crashes>>
extVars   == <<operation, compensation, fresh, alertCleared>>

vars == <<incidentState, actionStatus, evalVars, opVars, execVars, storeVars,
          procVars, extVars>>

ActionStatuses ==
  {"proposed", "allowed", "awaiting_approval", "denied", "approved",
   "executing", "succeeded", "failed", "rolled_back"}

Decisions == {"none", "allow", "approval_required", "deny"}

RecordStatuses == {"started", "succeeded", "failed", "timed_out", "inconclusive"}

\* Where an execute handler is.  Before its claim it has written nothing.
Gates == {"approval", "switch", "evidence", "claim"}
Steps == {"dispatch", "await", "mark", "advance", "verify", "resolve", "discredit",
          "fail", "rollback", "compensate", "compensated", "reverted", "rolled",
          "escalate"}
Labels == {"idle", "done"} \cup Gates \cup Steps

ActionsOf(i) == {a \in Actions : incidentOf[a] = i}
Claimed(a)   == \E e \in Executors : record[e] # "none" /\ subject[e] = a
TargetBusy(t) ==
  \E e \in Executors : record[e] = "started" /\ targetOf[subject[e]] = t
----------------------------------------------------------------------------
(* transitionIncidentState: compare-and-swap from the state the handler    *)
(* read.  Moving to the state already held writes and checks nothing.      *)
CanMoveBlindly(i, from, to) == from = to \/ CanTransition(from, to)  \* mutant

CanMove(i, from, to) ==
  from = to \/ (CanTransition(from, to) /\ incidentState[i] = from)

Move(i, from, to) ==
  incidentState' = IF from = to THEN incidentState
                   ELSE [incidentState EXCEPT ![i] = to]

Init ==
  /\ incidentState = [i \in Incidents |-> "action_proposed"]
  /\ actionStatus = [a \in Actions |-> "proposed"]
  /\ decision = [a \in Actions |-> "none"]
  /\ approval = [a \in Actions |-> "none"]
  /\ record = [e \in Executors |-> "none"]
  /\ verification = [e \in Executors |-> "none"]
  /\ rollback = [a \in Actions |-> "none"]
  /\ phase = "serving" /\ killSwitch = FALSE /\ crashes = 0
  /\ evaluation = [i \in Incidents |-> "deciding"]
  /\ evaluated = [a \in Actions |-> "none"]
  /\ opStep = [o \in Operators |-> "idle"]
  /\ opAction = [o \in Operators |-> NoAction]
  /\ opSaw = [o \in Operators |-> "closed"]
  /\ pc = [e \in Executors |-> "idle"]
  /\ subject = [e \in Executors |-> NoAction]
  /\ saw = [e \in Executors |-> "closed"]
  /\ operation = [a \in Actions |-> "none"]
  /\ compensation = [a \in Actions |-> "none"]
  /\ fresh = [a \in Actions |-> TRUE]
  /\ alertCleared = {}
----------------------------------------------------------------------------
(* Policy evaluation, in the triage job that just moved the incident to    *)
(* action_proposed (approval.EvaluateActions).                             *)

statusFromDecisionVerbatim(d) == d  \* mutant: stored unconverted

statusFromDecision(d) ==
  CASE d = "allow" -> "allowed"
    [] d = "approval_required" -> "awaiting_approval"
    [] OTHER -> "denied"

\* One candidate: decide, then write its status.
EvaluateAction(a) ==
  /\ evaluation[incidentOf[a]] = "deciding"
  /\ evaluated[a] = "none"
  /\ \E d \in (IF killSwitch THEN {"deny"} ELSE PolicyOutcomes) :
       /\ evaluated' = [evaluated EXCEPT ![a] = d]
       /\ actionStatus' = [actionStatus EXCEPT ![a] = statusFromDecision(d)]
  /\ UNCHANGED <<incidentState, evaluation, decision, opVars, execVars, storeVars,
                 procVars, extVars>>

\* All decisions in one transaction, after every status is visible.
SavePolicyDecisions(i) ==
  /\ evaluation[i] = "deciding"
  /\ \A a \in ActionsOf(i) : evaluated[a] # "none"
  /\ decision' = [a \in Actions |-> IF incidentOf[a] = i THEN evaluated[a] ELSE decision[a]]
  /\ evaluation' = [evaluation EXCEPT ![i] = "refreshing"]
  /\ UNCHANGED <<incidentState, actionStatus, evaluated, opVars, execVars, storeVars,
                 procVars, extVars>>

RefreshTargets == {"approved", "awaiting_approval", "action_proposed"}

\* refreshIncidentState's target, from the statuses now in the store.
RefreshTarget(i) ==
  LET held == {actionStatus[a] : a \in ActionsOf(i)}
  IN  IF held \cap {"approved", "allowed"} # {} THEN "approved"
      ELSE IF "awaiting_approval" \in held THEN "awaiting_approval"
      ELSE "action_proposed"

\* The statuses are read first; the move to the state they call for is a
\* second call, and `evaluation` holds that state in between.
ListForEvaluation(i) ==
  /\ evaluation[i] = "refreshing"
  /\ evaluation' = [evaluation EXCEPT ![i] = RefreshTarget(i)]
  /\ UNCHANGED <<incidentState, actionStatus, evaluated, decision, opVars, execVars,
                 storeVars, procVars, extVars>>

\* The job's last write.  A lost race fails the job; its retries find an
\* incident that cannot go back to triaging and write nothing.
RefreshAfterEvaluation(i) ==
  /\ evaluation[i] \in RefreshTargets
  /\ evaluation' = [evaluation EXCEPT ![i] = "ended"]
  /\ IF CanMove(i, "action_proposed", evaluation[i])
     THEN Move(i, "action_proposed", evaluation[i])
     ELSE UNCHANGED incidentState
  /\ UNCHANGED <<actionStatus, evaluated, decision, opVars, execVars, storeVars,
                 procVars, extVars>>

\* A store error ends the job between two writes; retries cannot resume it.
EvaluationFails(i) ==
  /\ StoreFaults
  /\ evaluation[i] # "ended"
  /\ evaluation' = [evaluation EXCEPT ![i] = "ended"]
  /\ UNCHANGED <<incidentState, actionStatus, evaluated, decision, opVars, execVars,
                 storeVars, procVars, extVars>>
----------------------------------------------------------------------------
(* Operator decisions (approval.ApproveAction, approval.RejectAction).     *)
(* Approval does not consult the kill switch.                              *)

\* A request whose checks pass now holds a snapshot of the incident.
ApproveAction(o, a) ==
  /\ phase = "serving"
  /\ opStep[o] = "idle"
  /\ actionStatus[a] = "awaiting_approval"
  /\ decision[a] # "none"
  /\ \/ incidentState[incidentOf[a]] = "approved"
     \/ CanTransition(incidentState[incidentOf[a]], "approved")
  /\ opStep' = [opStep EXCEPT ![o] = "approving"]
  /\ opAction' = [opAction EXCEPT ![o] = a]
  /\ opSaw' = [opSaw EXCEPT ![o] = incidentState[incidentOf[a]]]
  /\ UNCHANGED <<incidentState, actionStatus, approval, evalVars, execVars, storeVars,
                 procVars, extVars>>

RejectAction(o, a) ==
  /\ phase = "serving"
  /\ opStep[o] = "idle"
  /\ actionStatus[a] = "awaiting_approval"
  /\ opStep' = [opStep EXCEPT ![o] = "rejecting"]
  /\ opAction' = [opAction EXCEPT ![o] = a]
  /\ opSaw' = [opSaw EXCEPT ![o] = incidentState[incidentOf[a]]]
  /\ UNCHANGED <<incidentState, actionStatus, approval, evalVars, execVars, storeVars,
                 procVars, extVars>>

\* The request is over; its snapshot is dead and is cleared.
EndRequest(o) ==
  /\ opStep' = [opStep EXCEPT ![o] = "idle"]
  /\ opAction' = [opAction EXCEPT ![o] = NoAction]
  /\ opSaw' = [opSaw EXCEPT ![o] = "closed"]

\* The condition DecideApproval re-checks under row locks.
DecidedOnce(a)   == a \in Actions  \* mutant: the status is not re-checked
StillAwaiting(a) == actionStatus[a] = "awaiting_approval"
StillIn(i, s)    == incidentState[i] = s

\* DecideApproval, approving: record, action and incident in one transaction.
RecordApproval(o) ==
  LET a == opAction[o] IN
  /\ opStep[o] = "approving"
  /\ EndRequest(o)
  /\ IF StillAwaiting(a) /\ StillIn(incidentOf[a], opSaw[o])
     THEN /\ approval' = [approval EXCEPT ![a] = "approved"]
          /\ actionStatus' = [actionStatus EXCEPT ![a] = "approved"]
          /\ incidentState' = [incidentState EXCEPT ![incidentOf[a]] = "approved"]
     ELSE UNCHANGED <<approval, actionStatus, incidentState>>
  /\ UNCHANGED <<evalVars, execVars, storeVars, procVars, extVars>>

\* DecideApproval, rejecting: no condition on the incident.
RecordRejection(o) ==
  LET a == opAction[o] IN
  /\ opStep[o] = "rejecting"
  /\ IF StillAwaiting(a)
     THEN /\ approval' = [approval EXCEPT ![a] = "rejected"]
          /\ actionStatus' = [actionStatus EXCEPT ![a] = "denied"]
          /\ opStep' = [opStep EXCEPT ![o] = "refreshing"]
          /\ UNCHANGED <<opAction, opSaw>>
     ELSE EndRequest(o) /\ UNCHANGED <<approval, actionStatus>>
  /\ UNCHANGED <<incidentState, evalVars, execVars, storeVars, procVars, extVars>>

ListForRejection(o) ==
  /\ opStep[o] = "refreshing"
  /\ opStep' = [opStep EXCEPT ![o] = RefreshTarget(incidentOf[opAction[o]])]
  /\ UNCHANGED <<incidentState, actionStatus, opAction, opSaw, approval, evalVars, execVars,
                 storeVars, procVars, extVars>>

\* refreshIncidentState with the incident read before the rejection.  When
\* the move is refused the request fails; the rejection stays committed.
RefreshAfterRejection(o) ==
  LET i == incidentOf[opAction[o]] IN
  /\ opStep[o] \in RefreshTargets
  /\ EndRequest(o)
  /\ IF CanMove(i, opSaw[o], opStep[o])
     THEN Move(i, opSaw[o], opStep[o])
     ELSE UNCHANGED incidentState
  /\ UNCHANGED <<actionStatus, approval, evalVars, execVars, storeVars, procVars, extVars>>

\* A store error or a closed connection ends the request where it is.
DecisionFails(o) ==
  /\ StoreFaults
  /\ opStep[o] # "idle"
  /\ EndRequest(o)
  /\ UNCHANGED <<incidentState, actionStatus, approval, evalVars, execVars, storeVars,
                 procVars, extVars>>

SetKillSwitch(on) ==
  /\ phase = "serving"
  /\ killSwitch # on
  /\ killSwitch' = on
  /\ UNCHANGED <<incidentState, actionStatus, phase, crashes, evalVars, opVars, execVars,
                 storeVars, extVars>>
----------------------------------------------------------------------------
(* ExecuteAction up to its claim.  Each gate reads the store afresh; any   *)
(* gate may refuse, and a refused request has changed nothing.             *)

\* GetCandidateAction, the idempotency guard and the status check.
ExecuteAction(e, a) ==
  /\ phase = "serving"
  /\ pc[e] = "idle"
  /\ ~Claimed(a)
  /\ actionStatus[a] \in {"approved", "allowed"}
  /\ subject' = [subject EXCEPT ![e] = a]
  /\ pc' = [pc EXCEPT ![e] = IF actionStatus[a] = "approved" THEN "approval" ELSE "switch"]
  /\ UNCHANGED <<incidentState, actionStatus, saw, evalVars, opVars, storeVars, procVars,
                 extVars>>

PassGate(e, gate, next) ==
  /\ pc[e] = gate
  /\ pc' = [pc EXCEPT ![e] = next]
  /\ UNCHANGED <<incidentState, actionStatus, subject, saw, evalVars, opVars, storeVars,
                 procVars, extVars>>

validateApproval(e) ==
  PassGate(e, "approval", "switch") /\ approval[subject[e]] = "approved"

CheckKillSwitch(e) == PassGate(e, "switch", "evidence") /\ ~killSwitch

validateEvidenceFreshness(e) == PassGate(e, "evidence", "claim") /\ fresh[subject[e]]

Refuse(e) ==
  /\ pc[e] \in Gates
  /\ pc' = [pc EXCEPT ![e] = "idle"]
  /\ subject' = [subject EXCEPT ![e] = NoAction]
  /\ UNCHANGED <<incidentState, actionStatus, saw, evalVars, opVars, storeVars, procVars,
                 extVars>>

\* Mutants of the claim: one trusts the earlier checks of the request, the
\* other forgets that another action may hold the target.
ClaimableByTarget(a) == ~TargetBusy(targetOf[a])
ClaimableByStatus(a) == actionStatus[a] \in {"approved", "allowed"} /\ ~Claimed(a)

\* What ClaimExecution checks inside its transaction: the status under a row
\* lock, no started record on the target under an advisory lock, and the
\* unique index on execution_records.candidate_action_id.
Claimable(a) ==
  /\ actionStatus[a] \in {"approved", "allowed"}
  /\ ~TargetBusy(targetOf[a])
  /\ ~Claimed(a)

\* The incident goes to executing_action whatever state it is in.
ClaimExecution(e) ==
  LET a == subject[e] IN
  /\ pc[e] = "claim"
  /\ Claimable(a)
  /\ record' = [record EXCEPT ![e] = "started"]
  /\ actionStatus' = [actionStatus EXCEPT ![a] = "executing"]
  /\ incidentState' = [incidentState EXCEPT ![incidentOf[a]] = "executing_action"]
  /\ saw' = [saw EXCEPT ![e] = "executing_action"]
  /\ pc' = [pc EXCEPT ![e] = "dispatch"]
  /\ UNCHANGED <<subject, verification, rollback, evalVars, opVars, procVars, extVars>>
----------------------------------------------------------------------------
(* From the claim to the recorded outcome.  A failed step ends the request *)
(* where it is; during recovery it ends the process.                       *)

Quit(e) ==
  /\ pc' = [pc EXCEPT ![e] = "done"]
  /\ saw' = [saw EXCEPT ![e] = "closed"]
  /\ phase' = IF phase = "recovering" THEN "down" ELSE phase

Goto(e, from, to) ==
  /\ pc[e] = from
  /\ pc' = [pc EXCEPT ![e] = to]

\* Move the incident from the state this handler holds, or quit.
MoveOrQuit(e, from, state, next) ==
  LET i == incidentOf[subject[e]] IN
  /\ pc[e] = from
  /\ IF CanMove(i, saw[e], state)
     THEN /\ Move(i, saw[e], state)
          /\ saw' = [saw EXCEPT ![e] = IF next = "done" THEN "closed" ELSE state]
          /\ pc' = [pc EXCEPT ![e] = next]
          /\ UNCHANGED phase
     ELSE Quit(e) /\ UNCHANGED incidentState
  /\ UNCHANGED <<actionStatus, subject, killSwitch, crashes, evalVars, opVars, storeVars,
                 extVars>>

\* The operation leaves for the supervisor under the key "execute:<action>".
Dispatch(e) ==
  /\ Goto(e, "dispatch", "await")
  /\ operation' = [operation EXCEPT ![subject[e]] = "sent"]
  /\ UNCHANGED <<incidentState, actionStatus, subject, saw, evalVars, opVars, storeVars,
                 procVars, compensation, fresh, alertCleared>>

ReportedOnceSent(a) ==  \* mutant: an operation that was sent counts as done
  {"failed", "timed_out"} \cup (IF operation[a] # "none" THEN {"succeeded"} ELSE {})

\* What executeWithRetry may report.  The supervisor answers a repeated key
\* with the stored body and status 200, so the retry of an operation that
\* failed reports success.  Errors and the deadline are always possible.
Reported(a) ==
  {"failed", "timed_out"} \cup
    (IF operation[a] \in {"succeeded", "failed"} THEN {"succeeded"} ELSE {})

\* The call returns and SaveExecutionRecord stores what it reported.
SaveExecutionRecord(e) ==
  /\ Goto(e, "await", "mark")
  /\ \E s \in Reported(subject[e]) : record' = [record EXCEPT ![e] = s]
  /\ UNCHANGED <<incidentState, actionStatus, subject, saw, verification, rollback,
                 evalVars, opVars, procVars, extVars>>

MarkAction(e) ==
  /\ Goto(e, "mark", "advance")
  /\ actionStatus' = [actionStatus EXCEPT ![subject[e]] =
                        IF record[e] = "succeeded" THEN "succeeded" ELSE "failed"]
  /\ UNCHANGED <<incidentState, subject, saw, evalVars, opVars, storeVars, procVars,
                 extVars>>

StateAfterSuccessOnly(status) ==  \* mutant: a failure leaves the incident executing
  IF status = "succeeded" THEN "verifying_action" ELSE "executing_action"

StateAfterExecution(status) ==
  CASE status = "succeeded" -> "verifying_action"
    [] status = "inconclusive" -> "escalated"
    [] OTHER -> "failed_remediation"

AdvanceIncident(e) ==
  MoveOrQuit(e, "advance", StateAfterExecution(record[e]),
             IF record[e] = "succeeded" THEN "verify" ELSE "done")
----------------------------------------------------------------------------
(* VerifyExecution: it polls telemetry, then reads the incident and stores *)
(* the result; what follows depends on the verdict.                        *)

AfterUnlessFailed(v) == IF v # "failed" THEN "resolve" ELSE "discredit"  \* mutant
AfterVerdict(v)      == IF v = "success" THEN "resolve" ELSE "discredit"

SaveVerificationResult(e) ==
  /\ pc[e] = "verify"
  /\ \E v \in Verdicts :
       /\ verification' = [verification EXCEPT ![e] = v]
       /\ pc' = [pc EXCEPT ![e] = AfterVerdict(v)]
  /\ saw' = [saw EXCEPT ![e] = incidentState[incidentOf[subject[e]]]]
  /\ UNCHANGED <<incidentState, actionStatus, subject, record, rollback, evalVars, opVars,
                 procVars, extVars>>

ResolveIncident(e) == MoveOrQuit(e, "resolve", "resolved", "done")

DiscreditAction(e) ==
  /\ Goto(e, "discredit", IF verification[e] = "failed" THEN "fail" ELSE "escalate")
  /\ actionStatus' = [actionStatus EXCEPT ![subject[e]] = "failed"]
  /\ UNCHANGED <<incidentState, subject, saw, evalVars, opVars, storeVars, procVars,
                 extVars>>

FailRemediation(e) ==
  MoveOrQuit(e, "fail", "failed_remediation",
             IF subject[e] \in Reversible THEN "rollback" ELSE "escalate")

EscalateIncident(e) == MoveOrQuit(e, "escalate", "escalated", "done")

(* RollbackAction: recorded, sent once under "rollback:<action>", settled. *)
StartRollback(e) ==
  /\ Goto(e, "rollback", "compensate")
  /\ rollback' = [rollback EXCEPT ![subject[e]] = "started"]
  /\ UNCHANGED <<incidentState, actionStatus, subject, saw, record, verification, evalVars,
                 opVars, procVars, extVars>>

SendCompensation(e) ==
  /\ Goto(e, "compensate", "compensated")
  /\ compensation' = [compensation EXCEPT ![subject[e]] = "sent"]
  /\ UNCHANGED <<incidentState, actionStatus, subject, saw, evalVars, opVars, storeVars,
                 procVars, operation, fresh, alertCleared>>

CompensationAnswered(a) == compensation[a] \in {"succeeded", "failed"}  \* mutant
Compensated(a)          == compensation[a] = "succeeded"

\* One call, no retry: success is reported only for a stored success.
SaveRollbackRecord(e) ==
  /\ pc[e] = "compensated"
  /\ \/ /\ Compensated(subject[e])
        /\ rollback' = [rollback EXCEPT ![subject[e]] = "succeeded"]
        /\ pc' = [pc EXCEPT ![e] = "reverted"]
     \/ /\ rollback' = [rollback EXCEPT ![subject[e]] = "failed"]
        /\ pc' = [pc EXCEPT ![e] = "escalate"]
  /\ UNCHANGED <<incidentState, actionStatus, subject, saw, record, verification, evalVars,
                 opVars, procVars, extVars>>

MarkRolledBack(e) ==
  /\ Goto(e, "reverted", "rolled")
  /\ actionStatus' = [actionStatus EXCEPT ![subject[e]] = "rolled_back"]
  /\ UNCHANGED <<incidentState, subject, saw, evalVars, opVars, storeVars, procVars,
                 extVars>>

RollBackIncident(e) == MoveOrQuit(e, "rolled", "rolled_back", "done")

\* A store error inside RollbackAction counts as a failed rollback.
RollbackErrs(e) ==
  /\ StoreFaults
  /\ pc[e] \in {"rollback", "compensated", "reverted"}
  /\ pc' = [pc EXCEPT ![e] = "escalate"]
  /\ UNCHANGED <<incidentState, actionStatus, subject, saw, evalVars, opVars, storeVars,
                 procVars, extVars>>

\* Any other store error, or the client closing the connection whose context
\* every call carries, ends the request with its writes half done.
RequestFails(e) ==
  /\ StoreFaults
  /\ pc[e] \in Steps
  /\ Quit(e)
  /\ UNCHANGED <<incidentState, actionStatus, subject, killSwitch, crashes, evalVars,
                 opVars, storeVars, extVars>>
----------------------------------------------------------------------------
(* The process dies and starts again.  Handlers and the triage job vanish; *)
(* a record left "started" is what recovery works from.  The kill switch   *)
(* is reloaded from the settings table and so keeps its value.             *)

Quiet == \A e \in Executors : pc[e] \in {"idle", "done"}

Crash ==
  /\ phase \in {"serving", "recovering"}
  /\ crashes < MaxCrashes
  /\ crashes' = crashes + 1
  /\ phase' = "down"
  /\ evaluation' = [i \in Incidents |-> "ended"]
  /\ opStep' = [o \in Operators |-> "idle"]
  /\ opAction' = [o \in Operators |-> NoAction]
  /\ opSaw' = [o \in Operators |-> "closed"]
  /\ pc' = [e \in Executors |-> IF record[e] = "none" THEN "idle" ELSE "done"]
  /\ subject' = [e \in Executors |-> IF record[e] = "none" THEN NoAction ELSE subject[e]]
  /\ saw' = [e \in Executors |-> "closed"]
  /\ UNCHANGED <<incidentState, actionStatus, killSwitch, evaluated, decision, approval,
                 storeVars, extVars>>

Restart ==
  /\ phase = "down"
  /\ phase' = "recovering"
  /\ UNCHANGED <<incidentState, actionStatus, killSwitch, crashes, evalVars, opVars,
                 execVars, storeVars, extVars>>

ReconciledOrWait(a) == {operation[a]} \cap {"succeeded", "failed"}  \* mutant

\* What Reconcile can learn.  A 404 (nothing stored yet) and every error
\* count as unknown; pending and unknown end the same way.
Reconciled(a) ==
  {"inconclusive"} \cup ({operation[a]} \cap {"succeeded", "failed"})

AfterReconcileResend == "dispatch"  \* mutant: recovery runs the operation again
AfterReconcile       == "mark"

\* RecoverStartedExecutions, one record: reconcile, read the incident, save
\* the outcome.  The rest is the same sequence of writes a request makes.
Recover(e) ==
  /\ phase = "recovering"
  /\ Quiet
  /\ record[e] = "started"
  /\ \E s \in Reconciled(subject[e]) : record' = [record EXCEPT ![e] = s]
  /\ saw' = [saw EXCEPT ![e] = incidentState[incidentOf[subject[e]]]]
  /\ pc' = [pc EXCEPT ![e] = AfterReconcile]
  /\ UNCHANGED <<incidentState, actionStatus, subject, verification, rollback, evalVars,
                 opVars, procVars, extVars>>

RecoveredSome == \E e \in Executors : record[e] # "started"  \* mutant
RecoveredAll  == \A e \in Executors : record[e] # "started"

\* Recovery returned no error: the HTTP server starts.
RecoveryDone ==
  /\ phase = "recovering"
  /\ Quiet
  /\ RecoveredAll
  /\ phase' = "serving"
  /\ UNCHANGED <<incidentState, actionStatus, killSwitch, crashes, evalVars, opVars,
                 execVars, storeVars, extVars>>
----------------------------------------------------------------------------
(* What happens outside the process.                                       *)

\* The supervisor finishes an operation it received and stores the result;
\* nothing makes a request arrive, so it may also never finish.  A retry may
\* run beside the attempt before it and store a result of its own.
OperationEnds(a) ==
  /\ operation[a] # "none"
  /\ \E r \in {"succeeded", "failed"} : operation' = [operation EXCEPT ![a] = r]
  /\ UNCHANGED <<incidentState, actionStatus, evalVars, opVars, execVars, storeVars,
                 procVars, compensation, fresh, alertCleared>>

\* A compensation is sent once, without a retry.
CompensationEnds(a) ==
  /\ compensation[a] = "sent"
  /\ \E r \in {"succeeded", "failed"} : compensation' = [compensation EXCEPT ![a] = r]
  /\ UNCHANGED <<incidentState, actionStatus, evalVars, opVars, execVars, storeVars,
                 procVars, operation, fresh, alertCleared>>

\* Evidence passes 60 seconds; nothing collects it again, and nothing reads
\* its age, or the approval's, once the action is claimed.
AgeEvidence(a) ==
  /\ fresh[a]
  /\ ~Claimed(a)
  /\ fresh' = [fresh EXCEPT ![a] = FALSE]
  /\ UNCHANGED <<incidentState, actionStatus, evalVars, opVars, execVars, storeVars,
                 procVars, operation, compensation, alertCleared>>

\* An approval passes 15 minutes, long after the evidence it binds.
ExpireApproval(a) ==
  /\ approval[a] = "approved"
  /\ ~fresh[a]
  /\ ~Claimed(a)
  /\ approval' = [approval EXCEPT ![a] = "expired"]
  /\ UNCHANGED <<incidentState, actionStatus, evalVars, opStep, opAction, opSaw, execVars,
                 storeVars, procVars, extVars>>

\* A "resolved" alert for the episode (acceptGrafanaWebhook).  Read and
\* compare-and-swap are one step: a lost race changes nothing.
ResolveAlert(i) ==
  /\ phase = "serving"
  /\ incidentState[i] \notin TerminalStates
  /\ ResolvableByAlert(incidentState[i])
  /\ incidentState' = [incidentState EXCEPT ![i] = nextStateForResolvedAlert(@)]
  /\ alertCleared' = alertCleared \cup {i}
  /\ UNCHANGED <<actionStatus, evalVars, opVars, execVars, storeVars, procVars, operation,
                 compensation, fresh>>
----------------------------------------------------------------------------
Evaluating ==
  \/ \E a \in Actions : EvaluateAction(a)
  \/ \E i \in Incidents :
       SavePolicyDecisions(i) \/ ListForEvaluation(i) \/ RefreshAfterEvaluation(i)

Operating(o) ==
  \/ \E a \in Actions : ApproveAction(o, a) \/ RejectAction(o, a)
  \/ RecordApproval(o) \/ RecordRejection(o)
  \/ ListForRejection(o) \/ RefreshAfterRejection(o)

\* The steps a handler that has started its work goes on to take.
Handling(e) ==
  \/ validateApproval(e) \/ CheckKillSwitch(e) \/ validateEvidenceFreshness(e)
  \/ Refuse(e) \/ ClaimExecution(e)
  \/ Dispatch(e) \/ SaveExecutionRecord(e) \/ MarkAction(e) \/ AdvanceIncident(e)
  \/ SaveVerificationResult(e) \/ ResolveIncident(e) \/ DiscreditAction(e)
  \/ FailRemediation(e) \/ EscalateIncident(e)
  \/ StartRollback(e) \/ SendCompensation(e) \/ SaveRollbackRecord(e)
  \/ MarkRolledBack(e) \/ RollBackIncident(e)

Faults ==
  \/ \E i \in Incidents : EvaluationFails(i)
  \/ \E o \in Operators : DecisionFails(o)
  \/ \E e \in Executors : RollbackErrs(e) \/ RequestFails(e)
  \/ Crash

Starting == Restart \/ RecoveryDone \/ \E e \in Executors : Recover(e)

Outside ==
  \/ \E a \in Actions :
       OperationEnds(a) \/ CompensationEnds(a) \/ AgeEvidence(a) \/ ExpireApproval(a)
  \/ \E i \in Incidents : ResolveAlert(i)
  \/ \E on \in SwitchSettings : SetKillSwitch(on)

Next ==
  \/ Evaluating
  \/ \E o \in Operators : Operating(o)
  \/ \E e \in Executors : Handling(e) \/ \E a \in Actions : ExecuteAction(e, a)
  \/ Faults
  \/ Starting
  \/ Outside

Spec == Init /\ [][Next]_vars

\* Goroutines of a live process run, every network call has a deadline, and
\* the container is restarted (restart policy).  Operators owe nothing.
Fairness ==
  /\ \A e \in Executors : WF_vars(Handling(e))
  /\ WF_vars(Starting)

FairSpec == Spec /\ Fairness
----------------------------------------------------------------------------
(* Properties *)

TypeOK ==
  /\ incidentState \in [Incidents -> IncidentStates]
  /\ actionStatus \in [Actions -> ActionStatuses]
  /\ decision \in [Actions -> Decisions]
  /\ evaluated \in [Actions -> Decisions]
  /\ approval \in [Actions -> {"none", "approved", "rejected", "expired"}]
  /\ record \in [Executors -> {"none"} \cup RecordStatuses]
  /\ verification \in [Executors -> {"none", "success", "failed", "inconclusive"}]
  /\ rollback \in [Actions -> {"none", "started", "succeeded", "failed"}]
  /\ phase \in {"serving", "down", "recovering"}
  /\ killSwitch \in BOOLEAN
  /\ crashes \in Nat
  /\ evaluation \in [Incidents -> {"deciding", "refreshing", "ended"} \cup RefreshTargets]
  /\ opStep \in [Operators -> {"idle", "approving", "rejecting", "refreshing"}
                                \cup RefreshTargets]
  /\ opAction \in [Operators -> Actions \cup {NoAction}]
  /\ opSaw \in [Operators -> IncidentStates]
  /\ pc \in [Executors -> Labels]
  /\ subject \in [Executors -> Actions \cup {NoAction}]
  /\ saw \in [Executors -> IncidentStates]
  /\ operation \in [Actions -> {"none", "sent", "succeeded", "failed"}]
  /\ compensation \in [Actions -> {"none", "sent", "succeeded", "failed"}]
  /\ fresh \in [Actions -> BOOLEAN]
  /\ alertCleared \subseteq Incidents

\* However many requests race, retry or meet a restart, one of them executes
\* an action (the claim transaction and its unique index).
OneExecutionPerAction ==
  \A e, f \in Executors :
    record[e] # "none" /\ record[f] # "none" /\ subject[e] = subject[f] => e = f

\* Two actions on one resource are never in flight together, whichever
\* incidents they belong to (the target lock in the claim).
ExclusiveTarget ==
  \A e, f \in Executors :
    /\ record[e] = "started" /\ record[f] = "started"
    /\ targetOf[subject[e]] = targetOf[subject[f]]
    => e = f

\* An operation reaches the supervisor only for an action that policy allowed
\* or an operator approved, and a later rejection never contradicts it: the
\* decision is rechecked under the lock the claim takes.
DispatchAuthorised ==
  \A a \in Actions :
    operation[a] # "none" => approval[a] \in {"approved", "expired"} \/ evaluated[a] = "allow"

\* While its record says started, an action says executing: no operator
\* request that was under way when the claim committed overwrites it.
StartedMeansExecuting ==
  \A e \in Executors : record[e] = "started" => actionStatus[subject[e]] = "executing"

\* An approved incident has an action an operator can execute.  A claim takes
\* the incident out of approved, so a stale refresh must lose its race.
ApprovedIncidentHasAction ==
  \A i \in Incidents : incidentState[i] = "approved" =>
    \E a \in ActionsOf(i) : actionStatus[a] \in {"approved", "allowed"}

\* A resolved incident was cleared by its alert or verified healthy after one
\* of its own executions.
ResolvedHasCause ==
  \A i \in Incidents : incidentState[i] = "resolved" =>
    \/ i \in alertCleared
    \/ \E e \in Executors :
         /\ record[e] = "succeeded" /\ verification[e] = "success"
         /\ incidentOf[subject[e]] = i

\* A rolled-back incident had an action of its own compensated for real.
RolledBackWasCompensated ==
  \A i \in Incidents : incidentState[i] = "rolled_back" =>
    \E a \in ActionsOf(i) : compensation[a] = "succeeded" /\ rollback[a] = "succeeded"

\* With a healthy store, a serving process has a live request behind every
\* started record: a restart leaves none stranded to block its target.
StartedHasHandler ==
  ~StoreFaults /\ phase = "serving" =>
    \A e \in Executors : record[e] = "started" => pc[e] \in {"dispatch", "await"}

\* Every write of an incident's state follows the table from the state that
\* is in the store, except the claim's; none takes an incident that was ever
\* executed back to its approval, and only an alert closes one.  TriageJobs
\* takes no more than this of the write path for granted.
WritePathMoves ==
  [][\A i \in Incidents : MovesOn(incidentState[i], incidentState'[i])]_vars

\* A crash is always recovered from: the process serves again, every record
\* the crash left started has its outcome, and a record whose recovery aborts
\* the start is settled first, so the next start does not meet it.
RecoveryCompletes ==
  phase # "serving" ~>
    phase = "serving" /\ \A e \in Executors : record[e] # "started"

\* An incident under remediation reaches an end, unless the process dies on
\* the way, even when two of its actions run at once and one loses its
\* compare-and-swap.
RemediationConcludes ==
  \A i \in Incidents :
    incidentState[i] \in {"executing_action", "verifying_action"}
      ~> incidentState[i] \in TerminalStates \/ crashes > 0
----------------------------------------------------------------------------
(* The write path implements the execution gate. *)

standing ==
  [a \in Actions |->
     IF \E e \in Executors : record[e] = "started" /\ subject[e] = a THEN "running"
     ELSE IF Claimed(a) THEN "settled"
     ELSE IF actionStatus[a] \in {"approved", "allowed"} THEN "authorised"
     ELSE IF actionStatus[a] = "denied" THEN "refused"
     ELSE "undecided"]

Gate == INSTANCE ExecutionGate WITH effect <- operation

\* Decisions, claims, crashes, recovery and everything around them show the
\* outside one life cycle per action: see ExecutionGate.
ImplementsGate == Gate!Spec
----------------------------------------------------------------------------
(* The write path keeps its side of the contract with the supervisor, for  *)
(* the operation of an action and for its compensation.                    *)

\* What the records of an action's requests say; one request claims.
Recorded(a) == {record[e] : e \in {f \in Executors : subject[f] = a}}

executionCall ==
  [a \in Actions |->
     LET said == Recorded(a) IN
     IF "succeeded" \in said THEN "succeeded"
     ELSE IF said \cap {"failed", "timed_out"} # {} THEN "failed"
     ELSE IF "inconclusive" \in said THEN "inconclusive"
     ELSE IF operation[a] = "none" THEN "idle"
     ELSE IF \E e \in Executors : subject[e] = a /\ pc[e] = "await" THEN "open"
     ELSE "lost"]

rollbackCall ==
  [a \in Actions |-> IF rollback[a] \notin {"none", "started"} THEN rollback[a]
                     ELSE IF compensation[a] = "none" THEN "idle" ELSE "open"]

Execution    == INSTANCE ControlContract
                  WITH Ids <- Actions, stored <- operation, call <- executionCall
Compensation == INSTANCE ControlContract
                  WITH Ids <- Actions, stored <- compensation, call <- rollbackCall

\* Requests, failures, crashes and recovery send each operation in one call,
\* and record a success only over a result the supervisor stored: see
\* ControlContract.
KeepsContract == Execution!Spec /\ Compensation!Spec

----------------------------------------------------------------------------
(* What the documentation says and the code does not do. *)

\* README.md:37: execution state is durable, with crash recovery.
RemediationSurvivesCrash ==
  \A i \in Incidents :
    incidentState[i] \in {"executing_action", "verifying_action"}
      ~> incidentState[i] \in TerminalStates
============================================================================
