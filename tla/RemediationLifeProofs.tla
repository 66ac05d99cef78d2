----------------------- MODULE RemediationLifeProofs -----------------------
(***************************************************************************)
(* The life of one action, for any constants: it is evaluated before it is *)
(* decided, decided before it is claimed, claimed before its operation     *)
(* leaves, and it says executing for as long as its record says started.   *)
(* And what follows for its incident: how it moves, what ends it, and what *)
(* an approval of it rests on.                                             *)
(***************************************************************************)
EXTENDS RemediationProofs

\* The statuses of an action that was claimed.
Ran == {"executing", "succeeded", "failed", "rolled_back"}

\* Policy allowed it or an operator approved it; an expiry does not undo that.
Authorised(a) == approval[a] \in {"approved", "expired"} \/ evaluated[a] = "allow"

(* What the store says of an action agrees with itself, whoever wrote it. *)
Life ==
  \A a \in Actions :
    /\ evaluated[a] = "none" => actionStatus[a] = "proposed"
    /\ Claimed(a) => actionStatus[a] \in Ran
    /\ operation[a] # "none" => Claimed(a)
    /\ actionStatus[a] \in {"approved", "allowed"} \/ Claimed(a) => Authorised(a)

(* A request dispatches once, and stops holding a started record before it *)
(* goes on to write the action's outcome.                                  *)
Progress ==
  \A e \in Executors :
    /\ pc[e] = "dispatch" => record[e] = "started" /\ operation[subject[e]] = "none"
    /\ pc[e] = "await" => record[e] = "started" /\ operation[subject[e]] # "none"
    /\ record[e] = "started" => pc[e] \in {"dispatch", "await", "done"}
                                /\ actionStatus[subject[e]] = "executing"

LifeInv == Inv /\ Life /\ Progress
----------------------------------------------------------------------------
LEMMA HandlingKeepsLife ==
  ASSUME LifeInv, NEW e \in Executors, Handling(e)
  PROVE  Life' /\ Progress'
<1> USE DEF LifeInv, Inv, TypeOK, Handlers, OneExecutionPerAction, Life, Progress, Ran,
        Authorised, Claimed, Steps, evalVars, opVars, storeVars, extVars
<1>1. ASSUME validateApproval(e) PROVE Life' /\ Progress'
  BY <1>1 DEF validateApproval, PassGate
<1>2. ASSUME CheckKillSwitch(e) PROVE Life' /\ Progress'
  BY <1>2 DEF CheckKillSwitch, PassGate
<1>3. ASSUME validateEvidenceFreshness(e) PROVE Life' /\ Progress'
  BY <1>3 DEF validateEvidenceFreshness, PassGate
<1>4. ASSUME Refuse(e) PROVE Life' /\ Progress'
  BY <1>4 DEF Refuse, Gates
<1>5. ASSUME ClaimExecution(e) PROVE Life' /\ Progress'
  BY <1>5 DEF ClaimExecution, Claimable
<1>6. ASSUME Dispatch(e) PROVE Life' /\ Progress'
  BY <1>6 DEF Dispatch, Goto
<1>7. ASSUME SaveExecutionRecord(e) PROVE Life' /\ Progress'
  BY <1>7 DEF SaveExecutionRecord, Goto, Reported
<1>8. ASSUME MarkAction(e) PROVE Life' /\ Progress'
  BY <1>8 DEF MarkAction, Goto
<1>9. ASSUME AdvanceIncident(e) PROVE Life' /\ Progress'
  BY <1>9 DEF AdvanceIncident, MoveOrQuit, Quit
<1>10. ASSUME SaveVerificationResult(e) PROVE Life' /\ Progress'
  BY <1>10 DEF SaveVerificationResult, AfterVerdict
<1>11. ASSUME ResolveIncident(e) PROVE Life' /\ Progress'
  BY <1>11 DEF ResolveIncident, MoveOrQuit, Quit
<1>12. ASSUME DiscreditAction(e) PROVE Life' /\ Progress'
  BY <1>12 DEF DiscreditAction, Goto
<1>13. ASSUME FailRemediation(e) PROVE Life' /\ Progress'
  BY <1>13 DEF FailRemediation, MoveOrQuit, Quit
<1>14. ASSUME EscalateIncident(e) PROVE Life' /\ Progress'
  BY <1>14 DEF EscalateIncident, MoveOrQuit, Quit
<1>15. ASSUME StartRollback(e) PROVE Life' /\ Progress'
  BY <1>15 DEF StartRollback, Goto
<1>16. ASSUME SendCompensation(e) PROVE Life' /\ Progress'
  BY <1>16 DEF SendCompensation, Goto
<1>17. ASSUME SaveRollbackRecord(e) PROVE Life' /\ Progress'
  BY <1>17 DEF SaveRollbackRecord
<1>18. ASSUME MarkRolledBack(e) PROVE Life' /\ Progress'
  BY <1>18 DEF MarkRolledBack, Goto
<1>19. ASSUME RollBackIncident(e) PROVE Life' /\ Progress'
  BY <1>19 DEF RollBackIncident, MoveOrQuit, Quit
<1> QED
  BY <1>1, <1>2, <1>3, <1>4, <1>5, <1>6, <1>7, <1>8, <1>9, <1>10, <1>11, <1>12, <1>13, <1>14,
      <1>15, <1>16, <1>17, <1>18, <1>19 DEF Handling

LEMMA FaultsKeepLife ==
  ASSUME LifeInv, Faults
  PROVE  Life' /\ Progress'
<1> USE DEF LifeInv, Inv, TypeOK, Handlers, Life, Progress, Authorised, Claimed, Steps,
        evalVars, opVars, execVars, storeVars, extVars
<1>1. ASSUME NEW i \in Incidents, EvaluationFails(i) PROVE Life' /\ Progress'
  BY <1>1 DEF EvaluationFails
<1>2. ASSUME NEW o \in Operators, DecisionFails(o) PROVE Life' /\ Progress'
  BY <1>2 DEF DecisionFails
<1>3. ASSUME NEW e \in Executors, RollbackErrs(e) PROVE Life' /\ Progress'
  BY <1>3 DEF RollbackErrs
<1>4. ASSUME NEW e \in Executors, RequestFails(e) PROVE Life' /\ Progress'
  BY <1>4 DEF RequestFails, Quit
<1>5. ASSUME Crash PROVE Life' /\ Progress'
  BY <1>5 DEF Crash
<1> QED
  BY <1>1, <1>2, <1>3, <1>4, <1>5 DEF Faults

LEMMA EvaluatingKeepsLife ==
  ASSUME LifeInv, Evaluating
  PROVE  Life' /\ Progress'
<1> USE DEF LifeInv, Inv, TypeOK, Handlers, Life, Progress, Ran, Authorised, Claimed, Steps,
        opVars, execVars, storeVars, extVars
<1>1. ASSUME NEW a \in Actions, EvaluateAction(a) PROVE Life' /\ Progress'
  BY <1>1, ConstantsAssumption DEF EvaluateAction, statusFromDecision
<1>2. ASSUME NEW i \in Incidents, SavePolicyDecisions(i) PROVE Life' /\ Progress'
  BY <1>2 DEF SavePolicyDecisions
<1>3. ASSUME NEW i \in Incidents, ListForEvaluation(i) PROVE Life' /\ Progress'
  BY <1>3 DEF ListForEvaluation
<1>4. ASSUME NEW i \in Incidents, RefreshAfterEvaluation(i) PROVE Life' /\ Progress'
  BY <1>4 DEF RefreshAfterEvaluation
<1> QED
  BY <1>1, <1>2, <1>3, <1>4 DEF Evaluating

LEMMA OperatingKeepsLife ==
  ASSUME LifeInv, NEW o \in Operators, Operating(o)
  PROVE  Life' /\ Progress'
<1> USE DEF LifeInv, Inv, TypeOK, Handlers, Life, Progress, Ran, Authorised, Claimed, Steps,
        evalVars, execVars, storeVars, extVars
<1>1. ASSUME NEW a \in Actions, ApproveAction(o, a) \/ RejectAction(o, a)
      PROVE  Life' /\ Progress'
  BY <1>1 DEF ApproveAction, RejectAction
<1>2. ASSUME RecordApproval(o) PROVE Life' /\ Progress'
  BY <1>2 DEF RecordApproval, StillAwaiting
<1>3. ASSUME RecordRejection(o) PROVE Life' /\ Progress'
  BY <1>3 DEF RecordRejection, StillAwaiting
<1>4. ASSUME ListForRejection(o) PROVE Life' /\ Progress'
  BY <1>4 DEF ListForRejection
<1>5. ASSUME RefreshAfterRejection(o) PROVE Life' /\ Progress'
  BY <1>5 DEF RefreshAfterRejection
<1> QED
  BY <1>1, <1>2, <1>3, <1>4, <1>5 DEF Operating

LEMMA OthersKeepLife ==
  ASSUME LifeInv,
         \/ Starting \/ Outside \/ UNCHANGED vars
         \/ \E e \in Executors, a \in Actions : ExecuteAction(e, a)
  PROVE  Life' /\ Progress'
<1> USE DEF LifeInv, Inv, TypeOK, Handlers, Life, Progress, Ran, Authorised, Claimed, Steps,
        evalVars, opVars, execVars, storeVars, extVars
<1>1. CASE Restart \/ RecoveryDone
  BY <1>1 DEF Restart, RecoveryDone
<1>2. ASSUME NEW e \in Executors, Recover(e) PROVE Life' /\ Progress'
  BY <1>2 DEF Recover, Reconciled, AfterReconcile
<1>3. ASSUME NEW a \in Actions,
             OperationEnds(a) \/ CompensationEnds(a) \/ AgeEvidence(a) \/ ExpireApproval(a)
      PROVE  Life' /\ Progress'
  BY <1>3 DEF OperationEnds, CompensationEnds, AgeEvidence, ExpireApproval
<1>4. ASSUME NEW i \in Incidents, ResolveAlert(i) PROVE Life' /\ Progress'
  BY <1>4 DEF ResolveAlert
<1>5. ASSUME NEW on \in SwitchSettings, SetKillSwitch(on) PROVE Life' /\ Progress'
  BY <1>5 DEF SetKillSwitch
<1>6. CASE UNCHANGED vars
  BY <1>6 DEF vars
<1>7. ASSUME NEW e \in Executors, NEW a \in Actions, ExecuteAction(e, a)
      PROVE  Life' /\ Progress'
  BY <1>7 DEF ExecuteAction
<1> QED
  BY <1>1, <1>2, <1>3, <1>4, <1>5, <1>6, <1>7 DEF Starting, Outside

LEMMA InitLife == Init => LifeInv
<1> SUFFICES ASSUME Init PROVE LifeInv
  OBVIOUS
<1> QED
  BY InitInv DEF LifeInv, Init, Life, Progress, Claimed

LEMMA StepKeepsLife == LifeInv /\ [Next]_vars => LifeInv'
<1> SUFFICES ASSUME LifeInv, [Next]_vars PROVE LifeInv'
  OBVIOUS
<1>1. Inv'
  BY StepKeepsInv DEF LifeInv
<1>2. Life' /\ Progress'
  BY HandlingKeepsLife, FaultsKeepLife, EvaluatingKeepsLife, OperatingKeepsLife,
     OthersKeepLife DEF Next
<1> QED
  BY <1>1, <1>2 DEF LifeInv

LEMMA LifeInvariance == Spec => []LifeInv
  BY InitLife, StepKeepsLife, PTL DEF Spec

\* No operation leaves without a policy decision or an approval, and no later
\* decision takes that back.
THEOREM AuthorisedDispatch == Spec => []DispatchAuthorised
<1>1. LifeInv => DispatchAuthorised
  BY DEF LifeInv, Life, Authorised, DispatchAuthorised
<1> QED
  BY <1>1, LifeInvariance, PTL

\* No operator request and no other execution overwrites the status of an
\* action whose record says started.
THEOREM StartedExecutes == Spec => []StartedMeansExecuting
<1>1. LifeInv => StartedMeansExecuting
  BY DEF LifeInv, Progress, StartedMeansExecuting
<1> QED
  BY <1>1, LifeInvariance, PTL
----------------------------------------------------------------------------
(* What an outcome rests on. *)

Unverified == {"dispatch", "await", "mark", "advance", "verify"}
Uncompensated == Unverified \cup {"resolve", "discredit", "fail", "rollback"}

(* What a request's position says of its verdict and its compensation.     *)
Evidenced ==
  /\ \A e \in Executors :
       /\ record[e] \in {"none", "started"} => verification[e] = "none"
       /\ pc[e] \in Unverified => verification[e] = "none"
       /\ pc[e] = "verify" => record[e] = "succeeded"
       /\ pc[e] = "resolve" => record[e] = "succeeded" /\ verification[e] = "success"
       /\ record[e] = "started" \/ pc[e] \in Uncompensated => rollback[subject[e]] = "none"
       /\ pc[e] \in {"compensate", "compensated"} => rollback[subject[e]] = "started"
       /\ pc[e] = "compensate" => compensation[subject[e]] = "none"
       /\ pc[e] = "compensated" => compensation[subject[e]] # "none"
       /\ pc[e] \in {"reverted", "rolled"} =>
            rollback[subject[e]] = "succeeded" /\ compensation[subject[e]] = "succeeded"
  /\ \A a \in Actions :
       /\ rollback[a] # "none" => Claimed(a)
       /\ rollback[a] = "none" => compensation[a] = "none"

(* An approval under way has found an incident that can be approved.       *)
Approving ==
  \A o \in Operators :
    opStep[o] = "approving" => opSaw[o] = "approved" \/ CanTransition(opSaw[o], "approved")

EndInv == LifeInv /\ Evidenced /\ Approving

LEMMA HandlingKeepsEvidence ==
  ASSUME EndInv, NEW e \in Executors, Handling(e)
  PROVE  Evidenced' /\ Approving'
<1> USE DEF EndInv, LifeInv, Inv, TypeOK, Handlers, OneExecutionPerAction, Evidenced,
        Approving, Progress, Claimed, Steps, Unverified, Uncompensated, evalVars, opVars,
        execVars, storeVars, extVars
<1>1. ASSUME validateApproval(e) PROVE Evidenced' /\ Approving'
  BY <1>1 DEF validateApproval, PassGate
<1>2. ASSUME CheckKillSwitch(e) PROVE Evidenced' /\ Approving'
  BY <1>2 DEF CheckKillSwitch, PassGate
<1>3. ASSUME validateEvidenceFreshness(e) PROVE Evidenced' /\ Approving'
  BY <1>3 DEF validateEvidenceFreshness, PassGate
<1>4. ASSUME Refuse(e) PROVE Evidenced' /\ Approving'
  BY <1>4 DEF Refuse, Gates
<1>5. ASSUME ClaimExecution(e) PROVE Evidenced' /\ Approving'
  BY <1>5 DEF ClaimExecution, Claimable
<1>6. ASSUME Dispatch(e) PROVE Evidenced' /\ Approving'
  BY <1>6 DEF Dispatch, Goto
<1>7. ASSUME SaveExecutionRecord(e) PROVE Evidenced' /\ Approving'
  BY <1>7 DEF SaveExecutionRecord, Goto, Reported
<1>8. ASSUME MarkAction(e) PROVE Evidenced' /\ Approving'
  BY <1>8 DEF MarkAction, Goto
<1>9. ASSUME AdvanceIncident(e) PROVE Evidenced' /\ Approving'
  BY <1>9 DEF AdvanceIncident, MoveOrQuit, Quit, CanMove, Move, StateAfterExecution
<1>10. ASSUME SaveVerificationResult(e) PROVE Evidenced' /\ Approving'
  BY <1>10 DEF SaveVerificationResult, AfterVerdict
<1>11. ASSUME ResolveIncident(e) PROVE Evidenced' /\ Approving'
  BY <1>11 DEF ResolveIncident, MoveOrQuit, Quit, CanMove, Move
<1>12. ASSUME DiscreditAction(e) PROVE Evidenced' /\ Approving'
  BY <1>12 DEF DiscreditAction, Goto
<1>13. ASSUME FailRemediation(e) PROVE Evidenced' /\ Approving'
  BY <1>13 DEF FailRemediation, MoveOrQuit, Quit, CanMove, Move
<1>14. ASSUME EscalateIncident(e) PROVE Evidenced' /\ Approving'
  BY <1>14 DEF EscalateIncident, MoveOrQuit, Quit, CanMove, Move
<1>15. ASSUME StartRollback(e) PROVE Evidenced' /\ Approving'
  BY <1>15 DEF StartRollback, Goto
<1>16. ASSUME SendCompensation(e) PROVE Evidenced' /\ Approving'
  BY <1>16 DEF SendCompensation, Goto
<1>17. ASSUME SaveRollbackRecord(e) PROVE Evidenced' /\ Approving'
  BY <1>17 DEF SaveRollbackRecord, Compensated
<1>18. ASSUME MarkRolledBack(e) PROVE Evidenced' /\ Approving'
  BY <1>18 DEF MarkRolledBack, Goto
<1>19. ASSUME RollBackIncident(e) PROVE Evidenced' /\ Approving'
  BY <1>19 DEF RollBackIncident, MoveOrQuit, Quit, CanMove, Move
<1> QED
  BY <1>1, <1>2, <1>3, <1>4, <1>5, <1>6, <1>7, <1>8, <1>9, <1>10, <1>11, <1>12, <1>13, <1>14,
      <1>15, <1>16, <1>17, <1>18, <1>19 DEF Handling

LEMMA FaultsKeepEvidence ==
  ASSUME EndInv, Faults
  PROVE  Evidenced' /\ Approving'
<1> USE DEF EndInv, LifeInv, Inv, TypeOK, Handlers, OneExecutionPerAction, Evidenced,
        Approving, Progress, Claimed, Steps, Unverified, Uncompensated, evalVars, opVars,
        execVars, storeVars, extVars
<1>1. ASSUME NEW i \in Incidents, EvaluationFails(i) PROVE Evidenced' /\ Approving'
  BY <1>1 DEF EvaluationFails
<1>2. ASSUME NEW o \in Operators, DecisionFails(o) PROVE Evidenced' /\ Approving'
  BY <1>2 DEF DecisionFails, EndRequest
<1>3. ASSUME NEW e \in Executors, RollbackErrs(e) PROVE Evidenced' /\ Approving'
  BY <1>3 DEF RollbackErrs
<1>4. ASSUME NEW e \in Executors, RequestFails(e) PROVE Evidenced' /\ Approving'
  BY <1>4 DEF RequestFails, Quit
<1>5. ASSUME Crash PROVE Evidenced' /\ Approving'
  BY <1>5 DEF Crash
<1> QED
  BY <1>1, <1>2, <1>3, <1>4, <1>5 DEF Faults

LEMMA EvaluatingKeepsEvidence ==
  ASSUME EndInv, Evaluating
  PROVE  Evidenced' /\ Approving'
<1> USE DEF EndInv, LifeInv, Inv, TypeOK, Handlers, OneExecutionPerAction, Evidenced,
        Approving, Progress, Claimed, Steps, Unverified, Uncompensated, evalVars, opVars,
        execVars, storeVars, extVars
<1>1. ASSUME NEW a \in Actions, EvaluateAction(a) PROVE Evidenced' /\ Approving'
  BY <1>1 DEF EvaluateAction
<1>2. ASSUME NEW i \in Incidents, SavePolicyDecisions(i) PROVE Evidenced' /\ Approving'
  BY <1>2 DEF SavePolicyDecisions
<1>3. ASSUME NEW i \in Incidents, ListForEvaluation(i) PROVE Evidenced' /\ Approving'
  BY <1>3 DEF ListForEvaluation, RefreshTarget
<1>4. ASSUME NEW i \in Incidents, RefreshAfterEvaluation(i) PROVE Evidenced' /\ Approving'
  BY <1>4 DEF RefreshAfterEvaluation, CanMove, Move, RefreshTargets
<1> QED
  BY <1>1, <1>2, <1>3, <1>4 DEF Evaluating

LEMMA OperatingKeepsEvidence ==
  ASSUME EndInv, NEW o \in Operators, Operating(o)
  PROVE  Evidenced' /\ Approving'
<1> USE DEF EndInv, LifeInv, Inv, TypeOK, Handlers, OneExecutionPerAction, Evidenced,
        Approving, Progress, Claimed, Steps, Unverified, Uncompensated, evalVars, opVars,
        execVars, storeVars, extVars
<1>1. ASSUME NEW a \in Actions, ApproveAction(o, a) PROVE Evidenced' /\ Approving'
  BY <1>1 DEF ApproveAction
<1>2. ASSUME NEW a \in Actions, RejectAction(o, a) PROVE Evidenced' /\ Approving'
  BY <1>2 DEF RejectAction
<1>3. ASSUME RecordApproval(o) PROVE Evidenced' /\ Approving'
  BY <1>3 DEF RecordApproval, StillAwaiting, StillIn, EndRequest
<1>4. ASSUME RecordRejection(o) PROVE Evidenced' /\ Approving'
  BY <1>4 DEF RecordRejection, StillAwaiting, EndRequest
<1>5. ASSUME ListForRejection(o) PROVE Evidenced' /\ Approving'
  BY <1>5 DEF ListForRejection, RefreshTarget
<1>6. ASSUME RefreshAfterRejection(o) PROVE Evidenced' /\ Approving'
  BY <1>6 DEF RefreshAfterRejection, EndRequest, CanMove, Move, RefreshTargets
<1> QED
  BY <1>1, <1>2, <1>3, <1>4, <1>5, <1>6 DEF Operating

LEMMA OthersKeepEvidence ==
  ASSUME EndInv, \/ Starting \/ Outside \/ UNCHANGED vars
         \/ \E e \in Executors, a \in Actions : ExecuteAction(e, a)
  PROVE  Evidenced' /\ Approving'
<1> USE DEF EndInv, LifeInv, Inv, TypeOK, Handlers, OneExecutionPerAction, Evidenced,
        Approving, Progress, Claimed, Steps, Unverified, Uncompensated, evalVars, opVars,
        execVars, storeVars, extVars
<1>1. ASSUME Restart \/ RecoveryDone PROVE Evidenced' /\ Approving'
  BY <1>1 DEF Restart, RecoveryDone
<1>2. ASSUME NEW e \in Executors, Recover(e) PROVE Evidenced' /\ Approving'
  BY <1>2 DEF Recover, AfterReconcile, Reconciled
<1>3. ASSUME NEW a \in Actions,
             OperationEnds(a) \/ CompensationEnds(a) \/ AgeEvidence(a) \/ ExpireApproval(a)
      PROVE Evidenced' /\ Approving'
  BY <1>3 DEF OperationEnds, CompensationEnds, AgeEvidence, ExpireApproval
<1>4. ASSUME NEW i \in Incidents, ResolveAlert(i) PROVE Evidenced' /\ Approving'
  BY <1>4 DEF ResolveAlert, ResolvableByAlert, nextStateForResolvedAlert
<1>5. ASSUME NEW on \in SwitchSettings, SetKillSwitch(on) PROVE Evidenced' /\ Approving'
  BY <1>5 DEF SetKillSwitch
<1>6. ASSUME UNCHANGED vars PROVE Evidenced' /\ Approving'
  BY <1>6 DEF vars
<1>7. ASSUME NEW e \in Executors, NEW a \in Actions, ExecuteAction(e, a)
      PROVE Evidenced' /\ Approving'
  BY <1>7 DEF ExecuteAction
<1> QED
  BY <1>1, <1>2, <1>3, <1>4, <1>5, <1>6, <1>7 DEF Starting, Outside

LEMMA InitEnd == Init => EndInv
<1> SUFFICES ASSUME Init PROVE EndInv
  OBVIOUS
<1> QED
  BY InitLife DEF EndInv, Init, Evidenced, Approving, Unverified, Uncompensated, Claimed

LEMMA StepKeepsEnd == EndInv /\ [Next]_vars => EndInv'
<1> SUFFICES ASSUME EndInv, [Next]_vars PROVE EndInv'
  OBVIOUS
<1>1. LifeInv'
  BY StepKeepsLife DEF EndInv
<1>2. Evidenced' /\ Approving'
  BY HandlingKeepsEvidence, FaultsKeepEvidence, EvaluatingKeepsEvidence,
     OperatingKeepsEvidence, OthersKeepEvidence DEF Next
<1> QED
  BY <1>1, <1>2 DEF EndInv

LEMMA EndInvariance == Spec => []EndInv
  BY InitEnd, StepKeepsEnd, PTL DEF Spec
----------------------------------------------------------------------------
(* How a step writes an incident: along the table from the stored state,   *)
(* to resolved or rolled back only from the handler step that says so or   *)
(* an alert, and to executing_action from anywhere (the claim).            *)
Written(i) ==
  \/ incidentState'[i] = incidentState[i]
  \/ incidentState'[i] = "executing_action"
  \/ /\ CanTransition(incidentState[i], incidentState'[i])
     /\ incidentState'[i] = "resolved" =>
          \/ i \in alertCleared'
          \/ \E e \in Executors : pc[e] = "resolve" /\ incidentOf[subject[e]] = i
     /\ incidentState'[i] = "rolled_back" =>
          \E e \in Executors : pc[e] = "rolled" /\ incidentOf[subject[e]] = i

LEMMA HandlerWrites ==
  ASSUME EndInv, NEW e \in Executors, NEW from, NEW state, NEW next,
         MoveOrQuit(e, from, state, next),
         state = "resolved" => from = "resolve", state = "rolled_back" => from = "rolled",
         NEW i \in Incidents
  PROVE  Written(i)
  BY DEF MoveOrQuit, Quit, CanMove, Move, Written, EndInv, LifeInv, Inv, TypeOK

LEMMA HandlingWrites ==
  ASSUME EndInv, NEW e \in Executors, Handling(e), NEW i \in Incidents
  PROVE  Written(i)
<1>1. ASSUME AdvanceIncident(e) PROVE Written(i)
  BY <1>1, HandlerWrites DEF AdvanceIncident, StateAfterExecution
<1>2. ASSUME ResolveIncident(e) PROVE Written(i)
  BY <1>2, HandlerWrites DEF ResolveIncident
<1>3. ASSUME FailRemediation(e) PROVE Written(i)
  BY <1>3, HandlerWrites DEF FailRemediation
<1>4. ASSUME EscalateIncident(e) PROVE Written(i)
  BY <1>4, HandlerWrites DEF EscalateIncident
<1>5. ASSUME RollBackIncident(e) PROVE Written(i)
  BY <1>5, HandlerWrites DEF RollBackIncident
<1>6. ASSUME ClaimExecution(e) PROVE Written(i)
  BY <1>6 DEF ClaimExecution, Written, EndInv, LifeInv, Inv, TypeOK
<1>7. ASSUME \/ validateApproval(e) \/ CheckKillSwitch(e) \/ validateEvidenceFreshness(e)
             \/ Refuse(e) \/ Dispatch(e) \/ SaveExecutionRecord(e) \/ MarkAction(e)
             \/ SaveVerificationResult(e) \/ DiscreditAction(e) \/ StartRollback(e)
             \/ SendCompensation(e) \/ SaveRollbackRecord(e) \/ MarkRolledBack(e)
      PROVE  Written(i)
  BY <1>7 DEF validateApproval, CheckKillSwitch, validateEvidenceFreshness, PassGate,
              Refuse, Dispatch, SaveExecutionRecord, MarkAction, SaveVerificationResult,
              DiscreditAction, StartRollback, SendCompensation, SaveRollbackRecord,
              MarkRolledBack, Written
<1> QED
  BY <1>1, <1>2, <1>3, <1>4, <1>5, <1>6, <1>7 DEF Handling

LEMMA StepWrites ==
  ASSUME EndInv, [Next]_vars, NEW i \in Incidents
  PROVE  Written(i)
<1> USE DEF EndInv, LifeInv, Inv, TypeOK
<1>1. ASSUME Evaluating PROVE Written(i)
  <2>1. ASSUME NEW j \in Incidents, RefreshAfterEvaluation(j) PROVE Written(i)
    BY <2>1 DEF RefreshAfterEvaluation, RefreshTargets, CanMove, Move, Written
  <2> QED
    BY <1>1, <2>1 DEF Evaluating, EvaluateAction, SavePolicyDecisions, ListForEvaluation,
                      Written
<1>2. ASSUME NEW o \in Operators, Operating(o) PROVE Written(i)
  <2>1. ASSUME RecordApproval(o) PROVE Written(i)
    BY <2>1 DEF RecordApproval, StillIn, Approving, Written
  <2>2. ASSUME RefreshAfterRejection(o) PROVE Written(i)
    BY <2>2 DEF RefreshAfterRejection, RefreshTargets, CanMove, Move, Written
  <2> QED
    BY <1>2, <2>1, <2>2 DEF Operating, ApproveAction, RejectAction, RecordRejection,
                            ListForRejection, Written
<1>3. ASSUME NEW e \in Executors, Handling(e) PROVE Written(i)
  BY <1>3, HandlingWrites
<1>4. ASSUME NEW j \in Incidents, ResolveAlert(j) PROVE Written(i)
  BY <1>4 DEF ResolveAlert, ResolvableByAlert, nextStateForResolvedAlert, Written
<1>5. ASSUME Faults PROVE Written(i)
  BY <1>5 DEF Faults, EvaluationFails, DecisionFails, RollbackErrs, RequestFails, Crash,
              Written
<1>6. ASSUME Starting \/ UNCHANGED vars PROVE Written(i)
  BY <1>6 DEF Starting, Restart, RecoveryDone, Recover, vars, Written
<1>7. ASSUME NEW e \in Executors, NEW a \in Actions, ExecuteAction(e, a) PROVE Written(i)
  BY <1>7 DEF ExecuteAction, Written
<1>8. ASSUME Outside PROVE Written(i)
  BY <1>8, <1>4 DEF Outside, OperationEnds, CompensationEnds, AgeEvidence, ExpireApproval,
                    SetKillSwitch, Written
<1> QED
  BY <1>1, <1>2, <1>3, <1>5, <1>6, <1>7, <1>8 DEF Next
----------------------------------------------------------------------------
(* What an outcome rests on is never written again. *)
Kept ==
  /\ \A e \in Executors :
       record[e] = "succeeded" /\ verification[e] = "success" =>
         record'[e] = "succeeded" /\ verification'[e] = "success" /\ subject'[e] = subject[e]
  /\ \A a \in Actions :
       rollback[a] = "succeeded" /\ compensation[a] = "succeeded" =>
         rollback'[a] = "succeeded" /\ compensation'[a] = "succeeded"
  /\ alertCleared \subseteq alertCleared'

LEMMA HandlingForgetsNothing ==
  ASSUME EndInv, NEW e \in Executors, Handling(e)
  PROVE  Kept
<1> USE DEF EndInv, LifeInv, Inv, TypeOK, Handlers, Evidenced, Progress, Steps, Unverified,
        Uncompensated, Kept, evalVars, opVars, execVars, storeVars, extVars
<1>1. ASSUME validateApproval(e) PROVE Kept
  BY <1>1 DEF validateApproval, PassGate
<1>2. ASSUME CheckKillSwitch(e) PROVE Kept
  BY <1>2 DEF CheckKillSwitch, PassGate
<1>3. ASSUME validateEvidenceFreshness(e) PROVE Kept
  BY <1>3 DEF validateEvidenceFreshness, PassGate
<1>4. ASSUME Refuse(e) PROVE Kept
  BY <1>4 DEF Refuse, Gates
<1>5. ASSUME ClaimExecution(e) PROVE Kept
  BY <1>5 DEF ClaimExecution, Claimable
<1>6. ASSUME Dispatch(e) PROVE Kept
  BY <1>6 DEF Dispatch, Goto
<1>7. ASSUME SaveExecutionRecord(e) PROVE Kept
  BY <1>7 DEF SaveExecutionRecord, Goto, Reported
<1>8. ASSUME MarkAction(e) PROVE Kept
  BY <1>8 DEF MarkAction, Goto
<1>9. ASSUME AdvanceIncident(e) PROVE Kept
  BY <1>9 DEF AdvanceIncident, MoveOrQuit, Quit
<1>10. ASSUME SaveVerificationResult(e) PROVE Kept
  BY <1>10 DEF SaveVerificationResult, AfterVerdict
<1>11. ASSUME ResolveIncident(e) PROVE Kept
  BY <1>11 DEF ResolveIncident, MoveOrQuit, Quit
<1>12. ASSUME DiscreditAction(e) PROVE Kept
  BY <1>12 DEF DiscreditAction, Goto
<1>13. ASSUME FailRemediation(e) PROVE Kept
  BY <1>13 DEF FailRemediation, MoveOrQuit, Quit
<1>14. ASSUME EscalateIncident(e) PROVE Kept
  BY <1>14 DEF EscalateIncident, MoveOrQuit, Quit
<1>15. ASSUME StartRollback(e) PROVE Kept
  BY <1>15 DEF StartRollback, Goto
<1>16. ASSUME SendCompensation(e) PROVE Kept
  BY <1>16 DEF SendCompensation, Goto
<1>17. ASSUME SaveRollbackRecord(e) PROVE Kept
  BY <1>17 DEF SaveRollbackRecord
<1>18. ASSUME MarkRolledBack(e) PROVE Kept
  BY <1>18 DEF MarkRolledBack, Goto
<1>19. ASSUME RollBackIncident(e) PROVE Kept
  BY <1>19 DEF RollBackIncident, MoveOrQuit, Quit
<1> QED
  BY <1>1, <1>2, <1>3, <1>4, <1>5, <1>6, <1>7, <1>8, <1>9, <1>10, <1>11, <1>12, <1>13, <1>14,
      <1>15, <1>16, <1>17, <1>18, <1>19 DEF Handling

LEMMA FaultsForgetNothing ==
  ASSUME EndInv, Faults
  PROVE  Kept
<1> USE DEF EndInv, LifeInv, Inv, TypeOK, Handlers, Evidenced, Progress, Steps, Unverified,
        Uncompensated, Kept, evalVars, opVars, execVars, storeVars, extVars
<1>1. ASSUME NEW i \in Incidents, EvaluationFails(i) PROVE Kept
  BY <1>1 DEF EvaluationFails
<1>2. ASSUME NEW o \in Operators, DecisionFails(o) PROVE Kept
  BY <1>2 DEF DecisionFails, EndRequest
<1>3. ASSUME NEW e \in Executors, RollbackErrs(e) PROVE Kept
  BY <1>3 DEF RollbackErrs
<1>4. ASSUME NEW e \in Executors, RequestFails(e) PROVE Kept
  BY <1>4 DEF RequestFails, Quit
<1>5. ASSUME Crash PROVE Kept
  BY <1>5 DEF Crash
<1> QED
  BY <1>1, <1>2, <1>3, <1>4, <1>5 DEF Faults

LEMMA EvaluatingForgetsNothing ==
  ASSUME EndInv, Evaluating
  PROVE  Kept
<1> USE DEF EndInv, LifeInv, Inv, TypeOK, Handlers, Evidenced, Progress, Steps, Unverified,
        Uncompensated, Kept, evalVars, opVars, execVars, storeVars, extVars
<1>1. ASSUME NEW a \in Actions, EvaluateAction(a) PROVE Kept
  BY <1>1 DEF EvaluateAction
<1>2. ASSUME NEW i \in Incidents, SavePolicyDecisions(i) PROVE Kept
  BY <1>2 DEF SavePolicyDecisions
<1>3. ASSUME NEW i \in Incidents, ListForEvaluation(i) PROVE Kept
  BY <1>3 DEF ListForEvaluation, RefreshTarget
<1>4. ASSUME NEW i \in Incidents, RefreshAfterEvaluation(i) PROVE Kept
  BY <1>4 DEF RefreshAfterEvaluation, CanMove, Move, RefreshTargets
<1> QED
  BY <1>1, <1>2, <1>3, <1>4 DEF Evaluating

LEMMA OperatingForgetsNothing ==
  ASSUME EndInv, NEW o \in Operators, Operating(o)
  PROVE  Kept
<1> USE DEF EndInv, LifeInv, Inv, TypeOK, Handlers, Evidenced, Progress, Steps, Unverified,
        Uncompensated, Kept, evalVars, opVars, execVars, storeVars, extVars
<1>1. ASSUME NEW a \in Actions, ApproveAction(o, a) PROVE Kept
  BY <1>1 DEF ApproveAction
<1>2. ASSUME NEW a \in Actions, RejectAction(o, a) PROVE Kept
  BY <1>2 DEF RejectAction
<1>3. ASSUME RecordApproval(o) PROVE Kept
  BY <1>3 DEF RecordApproval, StillAwaiting, StillIn, EndRequest
<1>4. ASSUME RecordRejection(o) PROVE Kept
  BY <1>4 DEF RecordRejection, StillAwaiting, EndRequest
<1>5. ASSUME ListForRejection(o) PROVE Kept
  BY <1>5 DEF ListForRejection, RefreshTarget
<1>6. ASSUME RefreshAfterRejection(o) PROVE Kept
  BY <1>6 DEF RefreshAfterRejection, EndRequest, CanMove, Move, RefreshTargets
<1> QED
  BY <1>1, <1>2, <1>3, <1>4, <1>5, <1>6 DEF Operating

LEMMA OthersForgetNothing ==
  ASSUME EndInv, \/ Starting \/ Outside \/ UNCHANGED vars
         \/ \E e \in Executors, a \in Actions : ExecuteAction(e, a)
  PROVE  Kept
<1> USE DEF EndInv, LifeInv, Inv, TypeOK, Handlers, Evidenced, Progress, Steps, Unverified,
        Uncompensated, Kept, evalVars, opVars, execVars, storeVars, extVars
<1>1. ASSUME Restart \/ RecoveryDone PROVE Kept
  BY <1>1 DEF Restart, RecoveryDone
<1>2. ASSUME NEW e \in Executors, Recover(e) PROVE Kept
  BY <1>2 DEF Recover, AfterReconcile, Reconciled
<1>3. ASSUME NEW a \in Actions,
             OperationEnds(a) \/ CompensationEnds(a) \/ AgeEvidence(a) \/ ExpireApproval(a)
      PROVE Kept
  BY <1>3 DEF OperationEnds, CompensationEnds, AgeEvidence, ExpireApproval
<1>4. ASSUME NEW i \in Incidents, ResolveAlert(i) PROVE Kept
  BY <1>4 DEF ResolveAlert, ResolvableByAlert, nextStateForResolvedAlert
<1>5. ASSUME NEW on \in SwitchSettings, SetKillSwitch(on) PROVE Kept
  BY <1>5 DEF SetKillSwitch
<1>6. ASSUME UNCHANGED vars PROVE Kept
  BY <1>6 DEF vars
<1>7. ASSUME NEW e \in Executors, NEW a \in Actions, ExecuteAction(e, a) PROVE Kept
  BY <1>7 DEF ExecuteAction
<1> QED
  BY <1>1, <1>2, <1>3, <1>4, <1>5, <1>6, <1>7 DEF Starting, Outside

LEMMA StepForgetsNothing ==
  ASSUME EndInv, [Next]_vars
  PROVE  Kept
  BY HandlingForgetsNothing, FaultsForgetNothing, EvaluatingForgetsNothing,
     OperatingForgetsNothing, OthersForgetNothing DEF Next

\* No race, failure or restart resolves an incident without its alert clearing
\* or an execution of its own verified healthy, and what it rests on stays.
THEOREM ResolvedForCause == Spec => []ResolvedHasCause
<1>1. Init => ResolvedHasCause
  BY DEF Init, ResolvedHasCause
<1>2. ASSUME EndInv, [Next]_vars, ResolvedHasCause
      PROVE  ResolvedHasCause'
  <2> SUFFICES ASSUME NEW i \in Incidents, incidentState'[i] = "resolved"
               PROVE  \/ i \in alertCleared'
                      \/ \E e \in Executors :
                           /\ record'[e] = "succeeded" /\ verification'[e] = "success"
                           /\ incidentOf[subject'[e]] = i
    BY DEF ResolvedHasCause
  <2>1. \/ i \in alertCleared \/ i \in alertCleared'
        \/ \E e \in Executors :
             /\ record[e] = "succeeded" /\ verification[e] = "success"
             /\ incidentOf[subject[e]] = i
    BY <1>2, StepWrites DEF Written, ResolvedHasCause, EndInv, Evidenced
  <2> QED
    BY <1>2, <2>1, StepForgetsNothing DEF Kept
<1> QED
  BY <1>1, <1>2, EndInvariance, PTL DEF Spec

\* An incident says rolled back only over a compensation the supervisor stored
\* as a success, whatever failed on the way.
THEOREM RolledBackForReal == Spec => []RolledBackWasCompensated
<1>1. Init => RolledBackWasCompensated
  BY DEF Init, RolledBackWasCompensated
<1>2. ASSUME EndInv, [Next]_vars, RolledBackWasCompensated
      PROVE  RolledBackWasCompensated'
  <2> SUFFICES ASSUME NEW i \in Incidents, incidentState'[i] = "rolled_back"
               PROVE  \E a \in ActionsOf(i) :
                        compensation'[a] = "succeeded" /\ rollback'[a] = "succeeded"
    BY DEF RolledBackWasCompensated
  <2>1. \E a \in ActionsOf(i) : compensation[a] = "succeeded" /\ rollback[a] = "succeeded"
    BY <1>2, StepWrites
    DEF Written, RolledBackWasCompensated, ActionsOf, EndInv, Evidenced, LifeInv, Inv, Handlers
  <2> QED
    BY <1>2, <2>1, StepForgetsNothing DEF Kept, ActionsOf
<1> QED
  BY <1>1, <1>2, EndInvariance, PTL DEF Spec
----------------------------------------------------------------------------
(* An incident that is approved, or that a refresh under way is about to   *)
(* approve, has an action to execute; one whose action was claimed never   *)
(* comes back to where a refresh could approve it.                         *)
Ready(a) == actionStatus[a] \in {"approved", "allowed"}

Approvable(i) ==
  \/ incidentState[i] = "approved"
  \/ /\ incidentState[i] \in {"action_proposed", "awaiting_approval"}
     /\ \/ evaluation[i] = "approved"
        \/ \E o \in Operators : opStep[o] = "approved" /\ incidentOf[opAction[o]] = i

Hopeful ==
  /\ \A i \in Incidents : Approvable(i) => \E a \in Actions : incidentOf[a] = i /\ Ready(a)
  /\ \A i \in Incidents : incidentState[i] \notin {"detected", "triaging"}
  /\ \A o \in Operators : opStep[o] # "idle" => opAction[o] \in Actions

LEMMA HandlingKeepsHope ==
  ASSUME EndInv, Hopeful, NEW e \in Executors, Handling(e)
  PROVE  Hopeful'
<1> USE ConstantsAssumption
    DEF EndInv, LifeInv, Inv, TypeOK, Handlers, Life, Hopeful, Approvable, Ready, Claimed,
        Ran, Steps, evalVars, opVars, execVars, storeVars, extVars
<1>1. ASSUME validateApproval(e) PROVE Hopeful'
  BY <1>1 DEF validateApproval, PassGate
<1>2. ASSUME CheckKillSwitch(e) PROVE Hopeful'
  BY <1>2 DEF CheckKillSwitch, PassGate
<1>3. ASSUME validateEvidenceFreshness(e) PROVE Hopeful'
  BY <1>3 DEF validateEvidenceFreshness, PassGate
<1>4. ASSUME Refuse(e) PROVE Hopeful'
  BY <1>4 DEF Refuse, Gates
<1>5. ASSUME ClaimExecution(e) PROVE Hopeful'
  BY <1>5 DEF ClaimExecution, Claimable
<1>6. ASSUME Dispatch(e) PROVE Hopeful'
  BY <1>6 DEF Dispatch, Goto
<1>7. ASSUME SaveExecutionRecord(e) PROVE Hopeful'
  BY <1>7 DEF SaveExecutionRecord, Goto, Reported
<1>8. ASSUME MarkAction(e) PROVE Hopeful'
  BY <1>8 DEF MarkAction, Goto
<1>9. ASSUME AdvanceIncident(e) PROVE Hopeful'
  BY <1>9 DEF AdvanceIncident, MoveOrQuit, Quit, CanMove, Move, CanTransition,
              allowedTransitions, StateAfterExecution
<1>10. ASSUME SaveVerificationResult(e) PROVE Hopeful'
  BY <1>10 DEF SaveVerificationResult, AfterVerdict
<1>11. ASSUME ResolveIncident(e) PROVE Hopeful'
  BY <1>11 DEF ResolveIncident, MoveOrQuit, Quit, CanMove, Move, CanTransition,
               allowedTransitions
<1>12. ASSUME DiscreditAction(e) PROVE Hopeful'
  BY <1>12 DEF DiscreditAction, Goto
<1>13. ASSUME FailRemediation(e) PROVE Hopeful'
  BY <1>13 DEF FailRemediation, MoveOrQuit, Quit, CanMove, Move, CanTransition,
               allowedTransitions
<1>14. ASSUME EscalateIncident(e) PROVE Hopeful'
  BY <1>14 DEF EscalateIncident, MoveOrQuit, Quit, CanMove, Move, CanTransition,
               allowedTransitions
<1>15. ASSUME StartRollback(e) PROVE Hopeful'
  BY <1>15 DEF StartRollback, Goto
<1>16. ASSUME SendCompensation(e) PROVE Hopeful'
  BY <1>16 DEF SendCompensation, Goto
<1>17. ASSUME SaveRollbackRecord(e) PROVE Hopeful'
  BY <1>17 DEF SaveRollbackRecord
<1>18. ASSUME MarkRolledBack(e) PROVE Hopeful'
  BY <1>18 DEF MarkRolledBack, Goto
<1>19. ASSUME RollBackIncident(e) PROVE Hopeful'
  BY <1>19 DEF RollBackIncident, MoveOrQuit, Quit, CanMove, Move, CanTransition,
               allowedTransitions
<1> QED
  BY <1>1, <1>2, <1>3, <1>4, <1>5, <1>6, <1>7, <1>8, <1>9, <1>10, <1>11, <1>12, <1>13, <1>14,
      <1>15, <1>16, <1>17, <1>18, <1>19 DEF Handling

LEMMA FaultsKeepHope ==
  ASSUME EndInv, Hopeful, Faults
  PROVE  Hopeful'
<1> USE ConstantsAssumption
    DEF EndInv, LifeInv, Inv, TypeOK, Handlers, Life, Hopeful, Approvable, Ready, Claimed,
        Ran, Steps, evalVars, opVars, execVars, storeVars, extVars
<1>1. ASSUME NEW i \in Incidents, EvaluationFails(i) PROVE Hopeful'
  BY <1>1 DEF EvaluationFails
<1>2. ASSUME NEW o \in Operators, DecisionFails(o) PROVE Hopeful'
  BY <1>2 DEF DecisionFails, EndRequest
<1>3. ASSUME NEW e \in Executors, RollbackErrs(e) PROVE Hopeful'
  BY <1>3 DEF RollbackErrs
<1>4. ASSUME NEW e \in Executors, RequestFails(e) PROVE Hopeful'
  BY <1>4 DEF RequestFails, Quit
<1>5. ASSUME Crash PROVE Hopeful'
  BY <1>5 DEF Crash
<1> QED
  BY <1>1, <1>2, <1>3, <1>4, <1>5 DEF Faults

LEMMA EvaluatingKeepsHope ==
  ASSUME EndInv, Hopeful, Evaluating
  PROVE  Hopeful'
<1> USE ConstantsAssumption
    DEF EndInv, LifeInv, Inv, TypeOK, Handlers, Life, Hopeful, Approvable, Ready, Claimed,
        Ran, Steps, evalVars, opVars, execVars, storeVars, extVars
<1>1. ASSUME NEW a \in Actions, EvaluateAction(a) PROVE Hopeful'
  BY <1>1 DEF EvaluateAction
<1>2. ASSUME NEW i \in Incidents, SavePolicyDecisions(i) PROVE Hopeful'
  BY <1>2 DEF SavePolicyDecisions
<1>3. ASSUME NEW i \in Incidents, ListForEvaluation(i) PROVE Hopeful'
  BY <1>3 DEF ListForEvaluation, RefreshTarget, ActionsOf
<1>4. ASSUME NEW i \in Incidents, RefreshAfterEvaluation(i) PROVE Hopeful'
  BY <1>4 DEF RefreshAfterEvaluation, CanMove, Move, RefreshTargets, CanTransition,
              allowedTransitions
<1> QED
  BY <1>1, <1>2, <1>3, <1>4 DEF Evaluating

LEMMA OperatingKeepsHope ==
  ASSUME EndInv, Hopeful, NEW o \in Operators, Operating(o)
  PROVE  Hopeful'
<1> USE ConstantsAssumption
    DEF EndInv, LifeInv, Inv, TypeOK, Handlers, Life, Hopeful, Approvable, Ready, Claimed,
        Ran, Steps, evalVars, opVars, execVars, storeVars, extVars
<1>1. ASSUME NEW a \in Actions, ApproveAction(o, a) PROVE Hopeful'
  BY <1>1 DEF ApproveAction
<1>2. ASSUME NEW a \in Actions, RejectAction(o, a) PROVE Hopeful'
  BY <1>2 DEF RejectAction
<1>3. ASSUME RecordApproval(o) PROVE Hopeful'
  BY <1>3 DEF RecordApproval, StillAwaiting, StillIn, EndRequest
<1>4. ASSUME RecordRejection(o) PROVE Hopeful'
  BY <1>4 DEF RecordRejection, StillAwaiting, EndRequest
<1>5. ASSUME ListForRejection(o) PROVE Hopeful'
  BY <1>5 DEF ListForRejection, RefreshTarget, ActionsOf
<1>6. ASSUME RefreshAfterRejection(o) PROVE Hopeful'
  BY <1>6 DEF RefreshAfterRejection, EndRequest, CanMove, Move, RefreshTargets,
              CanTransition, allowedTransitions
<1> QED
  BY <1>1, <1>2, <1>3, <1>4, <1>5, <1>6 DEF Operating

LEMMA OthersKeepHope ==
  ASSUME EndInv, Hopeful, \/ Starting \/ Outside \/ UNCHANGED vars
         \/ \E e \in Executors, a \in Actions : ExecuteAction(e, a)
  PROVE  Hopeful'
<1> USE ConstantsAssumption
    DEF EndInv, LifeInv, Inv, TypeOK, Handlers, Life, Hopeful, Approvable, Ready, Claimed,
        Ran, Steps, evalVars, opVars, execVars, storeVars, extVars
<1>1. ASSUME Restart \/ RecoveryDone PROVE Hopeful'
  BY <1>1 DEF Restart, RecoveryDone
<1>2. ASSUME NEW e \in Executors, Recover(e) PROVE Hopeful'
  BY <1>2 DEF Recover, AfterReconcile, Reconciled
<1>3. ASSUME NEW a \in Actions,
             OperationEnds(a) \/ CompensationEnds(a) \/ AgeEvidence(a) \/ ExpireApproval(a)
      PROVE Hopeful'
  BY <1>3 DEF OperationEnds, CompensationEnds, AgeEvidence, ExpireApproval
<1>4. ASSUME NEW i \in Incidents, ResolveAlert(i) PROVE Hopeful'
  BY <1>4 DEF ResolveAlert, ResolvableByAlert, nextStateForResolvedAlert, CanTransition,
              allowedTransitions
<1>5. ASSUME NEW on \in SwitchSettings, SetKillSwitch(on) PROVE Hopeful'
  BY <1>5 DEF SetKillSwitch
<1>6. ASSUME UNCHANGED vars PROVE Hopeful'
  BY <1>6 DEF vars
<1>7. ASSUME NEW e \in Executors, NEW a \in Actions, ExecuteAction(e, a) PROVE Hopeful'
  BY <1>7 DEF ExecuteAction
<1> QED
  BY <1>1, <1>2, <1>3, <1>4, <1>5, <1>6, <1>7 DEF Starting, Outside

LEMMA HopefulStep == ASSUME EndInv, Hopeful, [Next]_vars PROVE Hopeful'
  BY HandlingKeepsHope, FaultsKeepHope, EvaluatingKeepsHope, OperatingKeepsHope,
     OthersKeepHope DEF Next

\* An approved incident always has an action to execute: whatever an operator
\* or a refresh read before a claim committed, it cannot approve the incident
\* over that claim.
THEOREM ApprovedHasAction == Spec => []ApprovedIncidentHasAction
<1>1. Init => EndInv /\ Hopeful
  BY InitEnd DEF Init, Hopeful, Approvable
<1>2. EndInv /\ Hopeful /\ [Next]_vars => EndInv' /\ Hopeful'
  BY StepKeepsEnd, HopefulStep
<1>3. Hopeful => ApprovedIncidentHasAction
  BY DEF Hopeful, Approvable, Ready, ApprovedIncidentHasAction, ActionsOf
<1> QED
  BY <1>1, <1>2, <1>3, PTL DEF Spec
----------------------------------------------------------------------------
(* What the write path promises the triage jobs about every move of an     *)
(* incident.  Handlers move one whose action was claimed, and from then on *)
(* the table has no way back to its approval.                              *)
Committed == \A a \in Actions : Claimed(a) => incidentState[incidentOf[a]] \in Executed

LEMMA TableFacts ==
  /\ \A s, t : CanTransition(s, t) => s \in IncidentStates /\ t \in IncidentStates
  /\ \A s, t : CanTransition(s, t) /\ s \in Executed => t \in Executed
  /\ \A s : CanTransition(s, "approved") => s \in {"action_proposed", "awaiting_approval"}
  /\ \A s : CanTransition(s, "awaiting_approval") => s = "action_proposed"
  /\ \A s : CanTransition(s, "action_proposed") => s = "triaging"
  BY DEF CanTransition, allowedTransitions, Executed, Underway, IncidentStates

LEMMA MoveFacts ==
  /\ \A s : MovesOn(s, s)
  /\ \A s \in Underway : MovesOn(s, "executing_action")
  /\ \A s \in Executed : \A t : CanTransition(s, t) /\ t # "closed" => MovesOn(s, t)
  /\ MovesOn("action_proposed", "awaiting_approval")
  /\ MovesOn("action_proposed", "approved") /\ MovesOn("awaiting_approval", "approved")
<1>1. \A s \in Executed : \A t : CanTransition(s, t) /\ t # "closed" => MovesOn(s, t)
  <2> SUFFICES ASSUME NEW s \in Executed, NEW t, CanTransition(s, t), t # "closed"
               PROVE  MovesOn(s, t)
    OBVIOUS
  <2>1. <<s, t>> \in {move \in allowedTransitions : move[1] \in Executed /\ move[2] # "closed"}
    BY DEF CanTransition
  <2> QED
    BY <2>1 DEF MovesOn, writePathMoves
<1> QED
  BY <1>1 DEF MovesOn, writePathMoves

LEMMA HandlerMoves ==
  ASSUME EndInv, Committed, NEW e \in Executors, NEW from, NEW state, NEW next,
         MoveOrQuit(e, from, state, next), from \in Steps, state # "closed",
         NEW i \in Incidents
  PROVE  MovesOn(incidentState[i], incidentState'[i])
<1> USE DEF EndInv, LifeInv, Inv, TypeOK, Handlers
<1>1. subject[e] \in Actions /\ Claimed(subject[e])
  BY DEF MoveOrQuit, Claimed, Steps
<1>2. incidentState[incidentOf[subject[e]]] \in Executed
  BY <1>1 DEF Committed
<1>3. CASE CanMove(incidentOf[subject[e]], saw[e], state)
  BY <1>2, <1>3, MoveFacts DEF MoveOrQuit, CanMove, Move
<1>4. CASE ~CanMove(incidentOf[subject[e]], saw[e], state)
  BY <1>4, MoveFacts DEF MoveOrQuit
<1> QED
  BY <1>3, <1>4

LEMMA HandlingMoves ==
  ASSUME EndInv, Hopeful, Committed, NEW e \in Executors, Handling(e), NEW i \in Incidents
  PROVE  MovesOn(incidentState[i], incidentState'[i])
<1> USE DEF Steps
<1>1. ASSUME AdvanceIncident(e) PROVE MovesOn(incidentState[i], incidentState'[i])
  BY <1>1, HandlerMoves DEF AdvanceIncident, StateAfterExecution
<1>2. ASSUME ResolveIncident(e) PROVE MovesOn(incidentState[i], incidentState'[i])
  BY <1>2, HandlerMoves DEF ResolveIncident
<1>3. ASSUME FailRemediation(e) PROVE MovesOn(incidentState[i], incidentState'[i])
  BY <1>3, HandlerMoves DEF FailRemediation
<1>4. ASSUME EscalateIncident(e) PROVE MovesOn(incidentState[i], incidentState'[i])
  BY <1>4, HandlerMoves DEF EscalateIncident
<1>5. ASSUME RollBackIncident(e) PROVE MovesOn(incidentState[i], incidentState'[i])
  BY <1>5, HandlerMoves DEF RollBackIncident
<1>6. ASSUME ClaimExecution(e) PROVE MovesOn(incidentState[i], incidentState'[i])
  <2>1. incidentState[i] \in Underway
    BY DEF EndInv, LifeInv, Inv, TypeOK, Hopeful, Underway
  <2> QED
    BY <1>6, <2>1, MoveFacts DEF ClaimExecution, EndInv, LifeInv, Inv, TypeOK
<1>7. ASSUME incidentState' = incidentState
      PROVE  MovesOn(incidentState[i], incidentState'[i])
  BY <1>7, MoveFacts
<1> QED
  BY <1>1, <1>2, <1>3, <1>4, <1>5, <1>6, <1>7
  DEF Handling, validateApproval, CheckKillSwitch, validateEvidenceFreshness, PassGate,
      Refuse, Dispatch, SaveExecutionRecord, MarkAction, SaveVerificationResult,
      DiscreditAction, StartRollback, SendCompensation, SaveRollbackRecord, MarkRolledBack

LEMMA StepMoves ==
  ASSUME EndInv, Hopeful, Committed, [Next]_vars, NEW i \in Incidents
  PROVE  MovesOn(incidentState[i], incidentState'[i])
<1> USE DEF EndInv, LifeInv, Inv, TypeOK
<1>0. incidentState[i] \notin {"detected", "triaging"}
  BY DEF Hopeful
<1>1. ASSUME Evaluating PROVE MovesOn(incidentState[i], incidentState'[i])
  <2>1. ASSUME NEW j \in Incidents, RefreshAfterEvaluation(j)
        PROVE  MovesOn(incidentState[i], incidentState'[i])
    BY <2>1, MoveFacts, TableFacts DEF RefreshAfterEvaluation, RefreshTargets, CanMove, Move
  <2> QED
    BY <1>1, <2>1, MoveFacts DEF Evaluating, EvaluateAction, SavePolicyDecisions,
                                 ListForEvaluation
<1>2. ASSUME NEW o \in Operators, Operating(o)
      PROVE  MovesOn(incidentState[i], incidentState'[i])
  <2>1. ASSUME RecordApproval(o) PROVE MovesOn(incidentState[i], incidentState'[i])
    BY <2>1, MoveFacts, TableFacts DEF RecordApproval, StillIn, Approving
  <2>2. ASSUME RefreshAfterRejection(o) PROVE MovesOn(incidentState[i], incidentState'[i])
    BY <2>2, <1>0, MoveFacts, TableFacts
    DEF RefreshAfterRejection, RefreshTargets, CanMove, Move
  <2> QED
    BY <1>2, <2>1, <2>2, MoveFacts DEF Operating, ApproveAction, RejectAction,
                                       RecordRejection, ListForRejection
<1>3. ASSUME NEW e \in Executors, Handling(e)
      PROVE  MovesOn(incidentState[i], incidentState'[i])
  BY <1>3, HandlingMoves
<1>4. ASSUME NEW j \in Incidents, ResolveAlert(j)
      PROVE  MovesOn(incidentState[i], incidentState'[i])
  BY <1>4, MoveFacts DEF ResolveAlert, MovesOn
<1>5. ASSUME incidentState' = incidentState
      PROVE  MovesOn(incidentState[i], incidentState'[i])
  BY <1>5, MoveFacts
<1>6. ASSUME Faults \/ Starting \/ UNCHANGED vars
             \/ \E e \in Executors, a \in Actions : ExecuteAction(e, a)
      PROVE  incidentState' = incidentState
  BY <1>6 DEF Faults, EvaluationFails, DecisionFails, RollbackErrs, RequestFails, Crash,
              Starting, Restart, RecoveryDone, Recover, vars, ExecuteAction
<1>7. ASSUME Outside PROVE MovesOn(incidentState[i], incidentState'[i])
  BY <1>4, <1>5, <1>7 DEF Outside, OperationEnds, CompensationEnds, AgeEvidence,
                          ExpireApproval, SetKillSwitch
<1> QED
  BY <1>1, <1>2, <1>3, <1>5, <1>6, <1>7 DEF Next

\* An action that is claimed after a step was claimed before it or by it.
LEMMA ClaimsAreMade ==
  ASSUME EndInv, [Next]_vars, NEW a \in Actions, Claimed(a)'
  PROVE  Claimed(a) \/ incidentState'[incidentOf[a]] = "executing_action"
<1> USE DEF EndInv, LifeInv, Inv, TypeOK, Handlers, Claimed
<1>1. ASSUME NEW e \in Executors, ClaimExecution(e)
      PROVE  Claimed(a) \/ incidentState'[incidentOf[a]] = "executing_action"
  BY <1>1, ConstantsAssumption DEF ClaimExecution
<1>2. ASSUME \A e \in Executors : record'[e] # "none" =>
               record[e] # "none" /\ subject'[e] = subject[e]
      PROVE  Claimed(a)
  BY <1>2
<1>3. ASSUME NEW e \in Executors, Handling(e), ~ClaimExecution(e)
      PROVE  \A f \in Executors : record'[f] # "none" =>
               record[f] # "none" /\ subject'[f] = subject[f]
  BY <1>3 DEF Handling, validateApproval, CheckKillSwitch, validateEvidenceFreshness, PassGate,
      Refuse, Dispatch, SaveExecutionRecord, MarkAction, SaveVerificationResult,
      DiscreditAction, StartRollback, SendCompensation, SaveRollbackRecord, MarkRolledBack,
      AdvanceIncident, ResolveIncident, FailRemediation, EscalateIncident, RollBackIncident,
      MoveOrQuit, Quit, Goto, Steps, Gates, storeVars, execVars
<1>4. ASSUME NEW e \in Executors, NEW b \in Actions, ExecuteAction(e, b)
      PROVE  \A f \in Executors : record'[f] # "none" =>
               record[f] # "none" /\ subject'[f] = subject[f]
  BY <1>4 DEF ExecuteAction, storeVars, Steps
<1>5. ASSUME Faults \/ Starting
      PROVE  \A f \in Executors : record'[f] # "none" =>
               record[f] # "none" /\ subject'[f] = subject[f]
  <2>1. ASSUME NEW e \in Executors, Recover(e)
            PROVE  \A f \in Executors : record'[f] # "none" =>
                 record[f] # "none" /\ subject'[f] = subject[f]
    BY <2>1 DEF Recover
  <2>2. ASSUME Crash
            PROVE  \A f \in Executors : record'[f] # "none" =>
                 record[f] # "none" /\ subject'[f] = subject[f]
    BY <2>2 DEF Crash, storeVars
  <2>3. ASSUME record' = record /\ subject' = subject
            PROVE  \A f \in Executors : record'[f] # "none" =>
                 record[f] # "none" /\ subject'[f] = subject[f]
    BY <2>3
  <2> QED
    BY <1>5, <2>1, <2>2, <2>3
    DEF Faults, EvaluationFails, DecisionFails, RollbackErrs, RequestFails, Starting, Restart,
        RecoveryDone, storeVars, execVars
<1>6. ASSUME Evaluating \/ UNCHANGED vars \/ \E o \in Operators : Operating(o)
      PROVE  \A f \in Executors : record'[f] # "none" =>
               record[f] # "none" /\ subject'[f] = subject[f]
  <2>1. record' = record /\ subject' = subject
    BY <1>6 DEF Evaluating, EvaluateAction, SavePolicyDecisions, ListForEvaluation,
                RefreshAfterEvaluation, Operating, ApproveAction, RejectAction, RecordApproval,
                RecordRejection, ListForRejection, RefreshAfterRejection, vars, storeVars,
                execVars
  <2> QED
    BY <2>1
<1>7. ASSUME Outside
      PROVE  \A f \in Executors : record'[f] # "none" =>
               record[f] # "none" /\ subject'[f] = subject[f]
  <2>1. record' = record /\ subject' = subject
    BY <1>7 DEF Outside, OperationEnds, CompensationEnds, AgeEvidence, ExpireApproval,
                SetKillSwitch, ResolveAlert, storeVars, execVars
  <2> QED
    BY <2>1
<1> QED
  BY <1>1, <1>2, <1>3, <1>4, <1>5, <1>6, <1>7 DEF Next

LEMMA CommittedStep == ASSUME EndInv, Committed, [Next]_vars PROVE Committed'
<1> SUFFICES ASSUME NEW a \in Actions, Claimed(a)'
             PROVE  incidentState'[incidentOf[a]] \in Executed
  BY DEF Committed
<1>1. "executing_action" \in Executed /\ incidentOf[a] \in Incidents
  BY ConstantsAssumption DEF Executed, Underway, IncidentStates
<1>2. CASE Claimed(a)
  BY <1>1, <1>2, StepWrites, TableFacts DEF Committed, Written
<1> QED
  BY <1>1, <1>2, ClaimsAreMade

\* Every move of an incident after its proposal is one the triage jobs expect
\* of the write path or its alert, from the state that is stored: no request
\* that read the incident before a claim takes it back to its approval.
THEOREM MovesAsPromised == Spec => WritePathMoves
<1>1. Init => Hopeful /\ Committed
  BY DEF Init, Hopeful, Approvable, Committed, Claimed
<1>2. EndInv /\ Hopeful /\ Committed /\ [Next]_vars => Hopeful' /\ Committed'
  BY HopefulStep, CommittedStep
<1>3. EndInv /\ Hopeful /\ Committed /\ [Next]_vars =>
        \A i \in Incidents : MovesOn(incidentState[i], incidentState'[i])
  BY StepMoves
<1> QED
  BY <1>1, <1>2, <1>3, EndInvariance, PTL DEF Spec, WritePathMoves
----------------------------------------------------------------------------
LEMMA HandlingKeepsHandler ==
  ASSUME LifeInv, StartedHasHandler, NEW e \in Executors, Handling(e)
  PROVE  StartedHasHandler'
<1> USE DEF LifeInv, Inv, TypeOK, Handlers, Progress, StartedHasHandler, Steps, evalVars,
        opVars, storeVars, procVars, extVars
<1>1. ASSUME NEW from, NEW state, NEW next, MoveOrQuit(e, from, state, next),
             from \in {"advance", "resolve", "fail", "escalate", "rolled"}
      PROVE  StartedHasHandler'
  BY <1>1 DEF MoveOrQuit, Quit
<1>2. ASSUME \/ AdvanceIncident(e) \/ ResolveIncident(e) \/ FailRemediation(e)
             \/ EscalateIncident(e) \/ RollBackIncident(e)
      PROVE  StartedHasHandler'
  BY <1>1, <1>2 DEF AdvanceIncident, ResolveIncident, FailRemediation, EscalateIncident,
                    RollBackIncident
<1>3. ASSUME validateApproval(e) \/ CheckKillSwitch(e) \/ validateEvidenceFreshness(e)
             \/ Refuse(e)
      PROVE  StartedHasHandler'
  BY <1>3 DEF validateApproval, CheckKillSwitch, validateEvidenceFreshness, PassGate,
              Refuse, Gates
<1>4. ASSUME ClaimExecution(e) \/ Dispatch(e) \/ SaveExecutionRecord(e) PROVE StartedHasHandler'
  BY <1>4 DEF ClaimExecution, Dispatch, SaveExecutionRecord, Reported, Goto
<1>5. ASSUME MarkAction(e) \/ SaveVerificationResult(e) \/ DiscreditAction(e)
      PROVE  StartedHasHandler'
  BY <1>5 DEF MarkAction, SaveVerificationResult, DiscreditAction, Goto
<1>6. ASSUME \/ StartRollback(e) \/ SendCompensation(e) \/ SaveRollbackRecord(e)
             \/ MarkRolledBack(e)
      PROVE  StartedHasHandler'
  BY <1>6 DEF StartRollback, SendCompensation, SaveRollbackRecord, MarkRolledBack, Goto
<1> QED
  BY <1>2, <1>3, <1>4, <1>5, <1>6 DEF Handling

LEMMA OthersKeepHandler ==
  ASSUME LifeInv, StartedHasHandler,
         \/ Evaluating \/ Faults \/ Starting \/ Outside \/ UNCHANGED vars
         \/ \E o \in Operators : Operating(o)
         \/ \E e \in Executors, a \in Actions : ExecuteAction(e, a)
  PROVE  StartedHasHandler'
<1> USE DEF LifeInv, Inv, TypeOK, Handlers, Progress, StartedHasHandler, Steps, execVars,
        storeVars, procVars
<1>1. ASSUME Evaluating PROVE StartedHasHandler'
  BY <1>1 DEF Evaluating, EvaluateAction, SavePolicyDecisions, ListForEvaluation,
              RefreshAfterEvaluation
<1>2. ASSUME NEW o \in Operators, Operating(o) PROVE StartedHasHandler'
  BY <1>2 DEF Operating, ApproveAction, RejectAction, RecordApproval, RecordRejection,
              ListForRejection, RefreshAfterRejection
<1>3. ASSUME Faults PROVE StartedHasHandler'
  BY <1>3 DEF Faults, EvaluationFails, DecisionFails, RollbackErrs, RequestFails, Crash
<1>4. ASSUME Starting PROVE StartedHasHandler'
  BY <1>4 DEF Starting, Restart, RecoveryDone, RecoveredAll, Recover
<1>5. ASSUME Outside PROVE StartedHasHandler'
  BY <1>5 DEF Outside, OperationEnds, CompensationEnds, AgeEvidence, ExpireApproval,
              ResolveAlert, SetKillSwitch
<1>6. ASSUME UNCHANGED vars PROVE StartedHasHandler'
  BY <1>6 DEF vars
<1>7. ASSUME NEW e \in Executors, NEW a \in Actions, ExecuteAction(e, a)
      PROVE  StartedHasHandler'
  BY <1>7 DEF ExecuteAction
<1> QED
  BY <1>1, <1>2, <1>3, <1>4, <1>5, <1>6, <1>7

\* With a healthy store no restart and no lost race strands a started record,
\* which would hold its target for good: only a process that is down or still
\* recovering has one without a request.
THEOREM NoneStranded == Spec => []StartedHasHandler
<1>1. Init => StartedHasHandler
  BY DEF Init, StartedHasHandler
<1>2. LifeInv /\ StartedHasHandler /\ [Next]_vars => StartedHasHandler'
  BY HandlingKeepsHandler, OthersKeepHandler DEF Next
<1> QED
  BY <1>1, <1>2, LifeInvariance, PTL DEF Spec
=============================================================================
