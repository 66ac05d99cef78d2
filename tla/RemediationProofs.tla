------------------------- MODULE RemediationProofs -------------------------
(***************************************************************************)
(* Proofs about Remediation, for every number of incidents, actions,       *)
(* targets, requests and operators, and every placement of the actions.    *)
(***************************************************************************)
EXTENDS Remediation, TLAPS

(* A request past its claim has a record and a request before it has none; *)
(* from its first check on it is about an action.                          *)
Handlers ==
  \A e \in Executors :
    /\ record[e] # "none" <=> pc[e] \in Steps \cup {"done"}
    /\ pc[e] # "idle" => subject[e] \in Actions

Inv == TypeOK /\ Handlers /\ OneExecutionPerAction /\ ExclusiveTarget
----------------------------------------------------------------------------
LEMMA InitInv == Init => Inv
<1> SUFFICES ASSUME Init PROVE Inv
  OBVIOUS
<1>1. TypeOK
  BY DEF Init, TypeOK, IncidentStates, ActionStatuses, Decisions, Labels
<1>2. Handlers
  BY DEF Init, Handlers, Steps
<1>3. OneExecutionPerAction /\ ExclusiveTarget
  BY DEF Init, OneExecutionPerAction, ExclusiveTarget
<1> QED
  BY <1>1, <1>2, <1>3 DEF Inv

\* The statuses and states the helpers return are of their types.
LEMMA Results ==
  /\ \A d : statusFromDecision(d) \in ActionStatuses
  /\ \A i : RefreshTarget(i) \in RefreshTargets
  /\ \A s : nextStateForResolvedAlert(s) \in IncidentStates
  /\ \A s : StateAfterExecution(s) \in IncidentStates
  /\ RefreshTargets \subseteq IncidentStates
  BY DEF statusFromDecision, ActionStatuses, RefreshTarget, RefreshTargets,
         nextStateForResolvedAlert, IncidentStates, StateAfterExecution

LEMMA EvaluatingKeepsTypes ==
  ASSUME TypeOK, Evaluating PROVE TypeOK'
<1> USE ConstantsAssumption, Results DEF TypeOK, evalVars, opVars, execVars, storeVars,
        procVars, extVars
<1>1. ASSUME NEW a \in Actions, EvaluateAction(a) PROVE TypeOK'
  BY <1>1 DEF EvaluateAction, Decisions
<1>2. ASSUME NEW i \in Incidents, SavePolicyDecisions(i) PROVE TypeOK'
  BY <1>2 DEF SavePolicyDecisions
<1>3. ASSUME NEW i \in Incidents, ListForEvaluation(i) PROVE TypeOK'
  BY <1>3 DEF ListForEvaluation
<1>4. ASSUME NEW i \in Incidents, RefreshAfterEvaluation(i) PROVE TypeOK'
  BY <1>4 DEF RefreshAfterEvaluation, Move
<1> QED
  BY <1>1, <1>2, <1>3, <1>4 DEF Evaluating

LEMMA OperatingKeepsTypes ==
  ASSUME TypeOK, NEW o \in Operators, Operating(o) PROVE TypeOK'
<1> USE ConstantsAssumption, Results DEF TypeOK, evalVars, opVars, execVars, storeVars,
        procVars, extVars
<1>1. ASSUME NEW a \in Actions, ApproveAction(o, a) PROVE TypeOK'
  BY <1>1 DEF ApproveAction
<1>2. ASSUME NEW a \in Actions, RejectAction(o, a) PROVE TypeOK'
  BY <1>2 DEF RejectAction
<1>3. ASSUME RecordApproval(o) PROVE TypeOK'
  BY <1>3 DEF RecordApproval, EndRequest, IncidentStates, ActionStatuses
<1>4. ASSUME RecordRejection(o) PROVE TypeOK'
  BY <1>4 DEF RecordRejection, EndRequest, IncidentStates, ActionStatuses
<1>5. ASSUME ListForRejection(o) PROVE TypeOK'
  BY <1>5 DEF ListForRejection
<1>6. ASSUME RefreshAfterRejection(o) PROVE TypeOK'
  <2>1. incidentState' \in [Incidents -> IncidentStates]
    BY <1>6 DEF RefreshAfterRejection, Move
  <2>2. opSaw' \in [Operators -> IncidentStates]
    BY <1>6 DEF RefreshAfterRejection, EndRequest, IncidentStates
  <2> QED
    BY <1>6, <2>1, <2>2 DEF RefreshAfterRejection, EndRequest
<1> QED
  BY <1>1, <1>2, <1>3, <1>4, <1>5, <1>6 DEF Operating

LEMMA HandlingKeepsTypes ==
  ASSUME TypeOK, Handlers, NEW e \in Executors, Handling(e) PROVE TypeOK'
<1> USE ConstantsAssumption, Results DEF TypeOK, evalVars, opVars, execVars, storeVars,
        procVars, extVars
<1>1. ASSUME validateApproval(e) PROVE TypeOK'
  BY <1>1 DEF validateApproval, PassGate, Labels, Gates
<1>2. ASSUME CheckKillSwitch(e) PROVE TypeOK'
  BY <1>2 DEF CheckKillSwitch, PassGate, Labels, Gates
<1>3. ASSUME validateEvidenceFreshness(e) PROVE TypeOK'
  BY <1>3 DEF validateEvidenceFreshness, PassGate, Labels, Gates
<1>4. ASSUME Refuse(e) PROVE TypeOK'
  BY <1>4 DEF Refuse, Labels
<1>5. ASSUME ClaimExecution(e) PROVE TypeOK'
  BY <1>5 DEF ClaimExecution, IncidentStates, ActionStatuses, RecordStatuses, Labels, Steps
<1>6. ASSUME Dispatch(e) PROVE TypeOK'
  BY <1>6 DEF Dispatch, Goto, Labels, Steps
<1>7. ASSUME SaveExecutionRecord(e) PROVE TypeOK'
  BY <1>7 DEF SaveExecutionRecord, Reported, RecordStatuses, Goto, Labels, Steps
<1>8. ASSUME MarkAction(e) PROVE TypeOK'
  BY <1>8 DEF MarkAction, ActionStatuses, Goto, Labels, Steps
<1>9. ASSUME AdvanceIncident(e) PROVE TypeOK'
  BY <1>9 DEF AdvanceIncident, MoveOrQuit, Move, Quit, IncidentStates, Labels, Steps
<1>10. ASSUME SaveVerificationResult(e) PROVE TypeOK'
  BY <1>10 DEF SaveVerificationResult, AfterVerdict, Handlers, Labels, Steps
<1>11. ASSUME ResolveIncident(e) PROVE TypeOK'
  BY <1>11 DEF ResolveIncident, MoveOrQuit, Move, Quit, IncidentStates, Labels, Steps
<1>12. ASSUME DiscreditAction(e) PROVE TypeOK'
  BY <1>12 DEF DiscreditAction, ActionStatuses, Goto, Labels, Steps
<1>13. ASSUME FailRemediation(e) PROVE TypeOK'
  BY <1>13 DEF FailRemediation, MoveOrQuit, Move, Quit, IncidentStates, Labels, Steps
<1>14. ASSUME EscalateIncident(e) PROVE TypeOK'
  BY <1>14 DEF EscalateIncident, MoveOrQuit, Move, Quit, IncidentStates, Labels, Steps
<1>15. ASSUME StartRollback(e) PROVE TypeOK'
  BY <1>15 DEF StartRollback, Goto, Labels, Steps
<1>16. ASSUME SendCompensation(e) PROVE TypeOK'
  BY <1>16 DEF SendCompensation, Goto, Labels, Steps
<1>17. ASSUME SaveRollbackRecord(e) PROVE TypeOK'
  BY <1>17 DEF SaveRollbackRecord, Labels, Steps
<1>18. ASSUME MarkRolledBack(e) PROVE TypeOK'
  BY <1>18 DEF MarkRolledBack, ActionStatuses, Goto, Labels, Steps
<1>19. ASSUME RollBackIncident(e) PROVE TypeOK'
  BY <1>19 DEF RollBackIncident, MoveOrQuit, Move, Quit, IncidentStates, Labels, Steps
<1> QED
  BY <1>1, <1>2, <1>3, <1>4, <1>5, <1>6, <1>7, <1>8, <1>9, <1>10, <1>11, <1>12, <1>13, <1>14, <1>15, <1>16, <1>17, <1>18, <1>19 DEF Handling

LEMMA FaultsKeepTypes ==
  ASSUME TypeOK, Faults PROVE TypeOK'
<1> USE ConstantsAssumption, Results DEF TypeOK, evalVars, opVars, execVars, storeVars,
        procVars, extVars
<1>1. ASSUME NEW i \in Incidents, EvaluationFails(i) PROVE TypeOK'
  BY <1>1 DEF EvaluationFails
<1>2. ASSUME NEW o \in Operators, DecisionFails(o) PROVE TypeOK'
  BY <1>2 DEF DecisionFails, EndRequest, IncidentStates
<1>3. ASSUME NEW e \in Executors, RollbackErrs(e) PROVE TypeOK'
  BY <1>3 DEF RollbackErrs, Labels, Steps
<1>4. ASSUME NEW e \in Executors, RequestFails(e) PROVE TypeOK'
  BY <1>4 DEF RequestFails, Quit, IncidentStates, Labels
<1>5. ASSUME Crash PROVE TypeOK'
  BY <1>5 DEF Crash, IncidentStates, Labels
<1> QED
  BY <1>1, <1>2, <1>3, <1>4, <1>5 DEF Faults

LEMMA StartingKeepsTypes ==
  ASSUME TypeOK, Handlers, Starting PROVE TypeOK'
<1> USE ConstantsAssumption, Results DEF TypeOK, evalVars, opVars, execVars, storeVars,
        procVars, extVars
<1>1. ASSUME Restart PROVE TypeOK'
  BY <1>1 DEF Restart
<1>2. ASSUME RecoveryDone PROVE TypeOK'
  BY <1>2 DEF RecoveryDone
<1>3. ASSUME NEW e \in Executors, Recover(e) PROVE TypeOK'
  BY <1>3 DEF Recover, Reconciled, Handlers, AfterReconcile, Quiet, RecordStatuses, Labels, Steps
<1> QED
  BY <1>1, <1>2, <1>3 DEF Starting

LEMMA OutsideKeepsTypes ==
  ASSUME TypeOK, Outside PROVE TypeOK'
<1> USE ConstantsAssumption, Results DEF TypeOK, evalVars, opVars, execVars, storeVars,
        procVars, extVars
<1>1. ASSUME NEW a \in Actions, OperationEnds(a) PROVE TypeOK'
  BY <1>1 DEF OperationEnds
<1>2. ASSUME NEW a \in Actions, CompensationEnds(a) PROVE TypeOK'
  BY <1>2 DEF CompensationEnds
<1>3. ASSUME NEW a \in Actions, AgeEvidence(a) PROVE TypeOK'
  BY <1>3 DEF AgeEvidence
<1>4. ASSUME NEW a \in Actions, ExpireApproval(a) PROVE TypeOK'
  BY <1>4 DEF ExpireApproval
<1>5. ASSUME NEW i \in Incidents, ResolveAlert(i) PROVE TypeOK'
  BY <1>5 DEF ResolveAlert
<1>6. ASSUME NEW on \in SwitchSettings, SetKillSwitch(on) PROVE TypeOK'
  BY <1>6 DEF SetKillSwitch
<1> QED
  BY <1>1, <1>2, <1>3, <1>4, <1>5, <1>6 DEF Outside

LEMMA StepKeepsTypes ==
  ASSUME TypeOK, Handlers, [Next]_vars PROVE TypeOK'
<1>1. ASSUME NEW e \in Executors, NEW a \in Actions, ExecuteAction(e, a) PROVE TypeOK'
  BY <1>1 DEF ExecuteAction, TypeOK, Labels, Gates, evalVars, opVars, execVars, storeVars,
        procVars, extVars
<1>2. CASE UNCHANGED vars
  BY <1>2 DEF TypeOK, vars, evalVars, opVars, execVars, storeVars, procVars, extVars
<1> QED
  BY <1>1, <1>2, EvaluatingKeepsTypes, OperatingKeepsTypes, HandlingKeepsTypes,
     FaultsKeepTypes, StartingKeepsTypes, OutsideKeepsTypes DEF Next
----------------------------------------------------------------------------
(* Records are opened by claims alone and only change outcome afterwards,   *)
(* and a record's request keeps its action: this is all exclusion rests on. *)

\* What a step does to the requests when it is not a claim.
KeepsClaims ==
  \A e \in Executors :
    /\ record'[e] = "started" => record[e] = "started"
    /\ record'[e] # "none" => record[e] # "none" /\ subject'[e] = subject[e]

LEMMA ClaimKeepsExclusion ==
  ASSUME Inv, NEW e \in Executors, ClaimExecution(e)
  PROVE  OneExecutionPerAction' /\ ExclusiveTarget'
<1> DEFINE a == subject[e]
<1>1. /\ record' = [record EXCEPT ![e] = "started"]
      /\ UNCHANGED subject
      /\ record \in [Executors -> {"none"} \cup RecordStatuses]
  BY DEF ClaimExecution, Inv, TypeOK
<1>2. \A f \in Executors : record[f] # "none" => subject[f] # a
  BY DEF ClaimExecution, Claimable, Claimed
<1>3. \A f \in Executors : record[f] = "started" => targetOf[subject[f]] # targetOf[a]
  BY DEF ClaimExecution, Claimable, TargetBusy
<1>4. OneExecutionPerAction'
  BY <1>1, <1>2 DEF Inv, OneExecutionPerAction
<1>5. ExclusiveTarget'
  BY <1>1, <1>3 DEF Inv, ExclusiveTarget
<1> QED
  BY <1>4, <1>5

LEMMA OtherStepsKeepExclusion ==
  ASSUME OneExecutionPerAction, ExclusiveTarget, KeepsClaims
  PROVE  OneExecutionPerAction' /\ ExclusiveTarget'
  BY DEF OneExecutionPerAction, ExclusiveTarget, KeepsClaims

LEMMA Untouched ==
  ASSUME Handlers, UNCHANGED <<record, pc, subject>>
  PROVE  Handlers' /\ KeepsClaims
  BY DEF Handlers, KeepsClaims

LEMMA HandlingKeepsHandlers ==
  ASSUME TypeOK, Handlers, NEW e \in Executors, Handling(e)
  PROVE  Handlers' /\ (KeepsClaims \/ ClaimExecution(e))
<1> USE DEF TypeOK, Handlers, KeepsClaims, Steps, storeVars
<1>1. ASSUME validateApproval(e) PROVE Handlers' /\ KeepsClaims
  BY <1>1 DEF validateApproval, PassGate
<1>2. ASSUME CheckKillSwitch(e) PROVE Handlers' /\ KeepsClaims
  BY <1>2 DEF CheckKillSwitch, PassGate
<1>3. ASSUME validateEvidenceFreshness(e) PROVE Handlers' /\ KeepsClaims
  BY <1>3 DEF validateEvidenceFreshness, PassGate
<1>4. ASSUME Refuse(e) PROVE Handlers' /\ KeepsClaims
  BY <1>4 DEF Refuse, Gates
<1>5. ASSUME ClaimExecution(e) PROVE Handlers'
  BY <1>5 DEF ClaimExecution
<1>6. ASSUME Dispatch(e) PROVE Handlers' /\ KeepsClaims
  BY <1>6 DEF Dispatch, Goto
<1>7. ASSUME SaveExecutionRecord(e) PROVE Handlers' /\ KeepsClaims
  BY <1>7 DEF SaveExecutionRecord, Reported, Goto
<1>8. ASSUME MarkAction(e) PROVE Handlers' /\ KeepsClaims
  BY <1>8 DEF MarkAction, Goto
<1>9. ASSUME AdvanceIncident(e) PROVE Handlers' /\ KeepsClaims
  BY <1>9 DEF AdvanceIncident, MoveOrQuit, Quit
<1>10. ASSUME SaveVerificationResult(e) PROVE Handlers' /\ KeepsClaims
  BY <1>10 DEF SaveVerificationResult, AfterVerdict
<1>11. ASSUME ResolveIncident(e) PROVE Handlers' /\ KeepsClaims
  BY <1>11 DEF ResolveIncident, MoveOrQuit, Quit
<1>12. ASSUME DiscreditAction(e) PROVE Handlers' /\ KeepsClaims
  BY <1>12 DEF DiscreditAction, Goto
<1>13. ASSUME FailRemediation(e) PROVE Handlers' /\ KeepsClaims
  BY <1>13 DEF FailRemediation, MoveOrQuit, Quit
<1>14. ASSUME EscalateIncident(e) PROVE Handlers' /\ KeepsClaims
  BY <1>14 DEF EscalateIncident, MoveOrQuit, Quit
<1>15. ASSUME StartRollback(e) PROVE Handlers' /\ KeepsClaims
  BY <1>15 DEF StartRollback, Goto
<1>16. ASSUME SendCompensation(e) PROVE Handlers' /\ KeepsClaims
  BY <1>16 DEF SendCompensation, Goto
<1>17. ASSUME SaveRollbackRecord(e) PROVE Handlers' /\ KeepsClaims
  BY <1>17 DEF SaveRollbackRecord
<1>18. ASSUME MarkRolledBack(e) PROVE Handlers' /\ KeepsClaims
  BY <1>18 DEF MarkRolledBack, Goto
<1>19. ASSUME RollBackIncident(e) PROVE Handlers' /\ KeepsClaims
  BY <1>19 DEF RollBackIncident, MoveOrQuit, Quit
<1> QED
  BY <1>1, <1>2, <1>3, <1>4, <1>5, <1>6, <1>7, <1>8, <1>9, <1>10, <1>11, <1>12, <1>13, <1>14, <1>15, <1>16, <1>17, <1>18, <1>19 DEF Handling

LEMMA FaultsKeepHandlers ==
  ASSUME TypeOK, Handlers, Faults
  PROVE  Handlers' /\ KeepsClaims
<1> USE DEF TypeOK, Handlers, KeepsClaims, Steps, storeVars
<1>1. ASSUME NEW i \in Incidents, EvaluationFails(i) PROVE Handlers' /\ KeepsClaims
  BY <1>1, Untouched DEF EvaluationFails, execVars
<1>2. ASSUME NEW o \in Operators, DecisionFails(o) PROVE Handlers' /\ KeepsClaims
  BY <1>2, Untouched DEF DecisionFails, execVars
<1>3. ASSUME NEW e \in Executors, RollbackErrs(e) PROVE Handlers' /\ KeepsClaims
  BY <1>3 DEF RollbackErrs
<1>4. ASSUME NEW e \in Executors, RequestFails(e) PROVE Handlers' /\ KeepsClaims
  BY <1>4 DEF RequestFails, Quit
<1>5. ASSUME Crash PROVE Handlers' /\ KeepsClaims
  BY <1>5 DEF Crash
<1> QED
  BY <1>1, <1>2, <1>3, <1>4, <1>5 DEF Faults

LEMMA OthersKeepHandlers ==
  ASSUME TypeOK, Handlers,
         \/ Evaluating \/ (\E o \in Operators : Operating(o))
         \/ Starting \/ Outside \/ UNCHANGED vars
         \/ \E e \in Executors, a \in Actions : ExecuteAction(e, a)
  PROVE  Handlers' /\ KeepsClaims
<1>1. CASE Evaluating
  BY <1>1, Untouched DEF Evaluating, EvaluateAction, SavePolicyDecisions,
     ListForEvaluation, RefreshAfterEvaluation, execVars, storeVars
<1>2. CASE \E o \in Operators : Operating(o)
  BY <1>2, Untouched DEF Operating, ApproveAction, RejectAction, RecordApproval,
     RecordRejection, ListForRejection, RefreshAfterRejection, execVars, storeVars
<1>3. CASE Restart \/ RecoveryDone
  BY <1>3, Untouched DEF Restart, RecoveryDone, execVars, storeVars
<1>4. ASSUME NEW e \in Executors, Recover(e) PROVE Handlers' /\ KeepsClaims
  BY <1>4 DEF Recover, Reconciled, AfterReconcile, TypeOK, Handlers, KeepsClaims, Steps
<1>5. CASE Outside
  BY <1>5, Untouched DEF Outside, OperationEnds, CompensationEnds, AgeEvidence,
     ExpireApproval, ResolveAlert, SetKillSwitch, execVars, storeVars
<1>6. CASE UNCHANGED vars
  BY <1>6, Untouched DEF vars, execVars, storeVars
<1>7. ASSUME NEW e \in Executors, NEW a \in Actions, ExecuteAction(e, a)
      PROVE  Handlers' /\ KeepsClaims
  BY <1>7 DEF ExecuteAction, TypeOK, Handlers, KeepsClaims, Steps, storeVars
<1> QED
  BY <1>1, <1>2, <1>3, <1>4, <1>5, <1>6, <1>7 DEF Starting

LEMMA StepKeepsInv == Inv /\ [Next]_vars => Inv'
<1> SUFFICES ASSUME Inv, [Next]_vars PROVE Inv'
  OBVIOUS
<1>1. TypeOK'
  BY StepKeepsTypes DEF Inv
<1>2. /\ Handlers'
      /\ KeepsClaims \/ \E e \in Executors : ClaimExecution(e)
  BY HandlingKeepsHandlers, FaultsKeepHandlers, OthersKeepHandlers DEF Inv, Next
<1>3. OneExecutionPerAction' /\ ExclusiveTarget'
  BY <1>2, ClaimKeepsExclusion, OtherStepsKeepExclusion DEF Inv
<1> QED
  BY <1>1, <1>2, <1>3 DEF Inv

LEMMA Invariance == Spec => []Inv
  BY InitInv, StepKeepsInv, PTL DEF Spec

\* Every variable keeps its type through every race, fault and restart.
THEOREM TypeCorrect == Spec => []TypeOK
  BY Invariance, PTL DEF Inv

\* No two requests ever hold execution records of one action.
THEOREM ExecutesOnce == Spec => []OneExecutionPerAction
  BY Invariance, PTL DEF Inv

\* No two started records ever share a target.
THEOREM TargetsAreExclusive == Spec => []ExclusiveTarget
  BY Invariance, PTL DEF Inv
============================================================================
