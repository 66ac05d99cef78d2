----------------------- MODULE RemediationGateProofs -----------------------
(***************************************************************************)
(* The write path implements ExecutionGate and keeps ControlContract, for  *)
(* any constants: every step is a step of the abstraction by one action,   *)
(* or by all whose calls a crash takes, or leaves it as it is.             *)
(***************************************************************************)
EXTENDS RemediationLifeProofs

\* A step that opens and closes no record and decides no action leaves every
\* standing as it is.
Still ==
  /\ \A e \in Executors :
       record'[e] = record[e] /\ (record[e] # "none" => subject'[e] = subject[e])
  /\ \A a \in Actions : Claimed(a) \/ actionStatus'[a] = actionStatus[a]

LEMMA StillStanding ==
  ASSUME Still PROVE standing' = standing
  BY DEF Still, standing, Claimed

\* The gate's step taken by one action, in terms of its standing.
LEMMA Becoming ==
  ASSUME NEW a \in Actions, NEW from, NEW to,
         standing[a] = from, standing'[a] = to,
         \A b \in Actions \ {a} : standing'[b] = standing[b]
  PROVE  standing' = [standing EXCEPT ![a] = to]
<1>1. standing = [b \in Actions |-> standing[b]] /\ standing' = [b \in Actions |-> standing'[b]]
  BY DEF standing
<1> QED
  BY <1>1

\* What each step must be shown to do.
GateStep == Gate!Next \/ (standing' = standing /\ operation' = operation)

\* A decision about an action that was never claimed.
LEMMA OneBecomes ==
  ASSUME LifeInv, NEW a \in Actions, operation' = operation,
         record' = record, subject' = subject, ~Claimed(a),
         \A b \in Actions \ {a} : actionStatus'[b] = actionStatus[b],
         actionStatus[a] \in {"proposed", "awaiting_approval"},
         actionStatus'[a] \in {"allowed", "approved", "denied", "awaiting_approval", "proposed"}
  PROVE  GateStep
<1>1. standing[a] = "undecided"
  BY DEF standing, Claimed
<1>2. \A b \in Actions \ {a} : standing'[b] = standing[b]
  BY DEF standing, Claimed
<1>3. standing'[a] = IF actionStatus'[a] \in {"approved", "allowed"} THEN "authorised"
                     ELSE IF actionStatus'[a] = "denied" THEN "refused" ELSE "undecided"
  BY DEF standing, Claimed
<1>4. CASE actionStatus'[a] \in {"approved", "allowed"}
  <2>1. standing' = [standing EXCEPT ![a] = "authorised"]
    BY <1>1, <1>2, <1>3, <1>4, Becoming
  <2>2. Gate!Authorise(a)
    BY <1>1, <2>1 DEF Gate!Authorise, Gate!Become
  <2> QED
    BY <2>2 DEF GateStep, Gate!Next
<1>5. CASE actionStatus'[a] = "denied"
  <2>1. standing' = [standing EXCEPT ![a] = "refused"]
    BY <1>1, <1>2, <1>3, <1>5, Becoming
  <2>2. Gate!Deny(a)
    BY <1>1, <2>1 DEF Gate!Deny, Gate!Become
  <2> QED
    BY <2>2 DEF GateStep, Gate!Next
<1>6. CASE actionStatus'[a] \in {"awaiting_approval", "proposed"}
  <2>1. standing'[a] = standing[a]
    BY <1>1, <1>3, <1>6
  <2>2. standing' = standing
    BY <1>2, <2>1 DEF standing
  <2> QED
    BY <2>2 DEF GateStep
<1> QED
  BY <1>4, <1>5, <1>6

----------------------------------------------------------------------------
LEMMA EvaluatingRefines ==
  ASSUME LifeInv, Evaluating PROVE GateStep
<1> USE DEF LifeInv, Inv, TypeOK, Life, Ran, opVars, execVars, storeVars, extVars
<1>1. ASSUME NEW a \in Actions, EvaluateAction(a) PROVE GateStep
  <2>1. ~Claimed(a) /\ actionStatus[a] = "proposed"
    BY <1>1 DEF EvaluateAction
  <2>2. PICK d \in Decisions : actionStatus' = [actionStatus EXCEPT ![a] = statusFromDecision(d)]
    BY <1>1, ConstantsAssumption DEF EvaluateAction, Decisions
  <2>3. statusFromDecision(d) \in {"allowed", "awaiting_approval", "denied"}
    BY DEF statusFromDecision
  <2> QED
    BY <1>1, <2>1, <2>2, <2>3, OneBecomes DEF EvaluateAction
<1>2. ASSUME NEW i \in Incidents,
             SavePolicyDecisions(i) \/ ListForEvaluation(i) \/ RefreshAfterEvaluation(i)
      PROVE  GateStep
  <2>1. Still /\ operation' = operation
    BY <1>2 DEF SavePolicyDecisions, ListForEvaluation, RefreshAfterEvaluation, Still
  <2> QED
    BY <2>1, StillStanding DEF GateStep
<1> QED
  BY <1>1, <1>2 DEF Evaluating

LEMMA OperatingRefines ==
  ASSUME LifeInv, NEW o \in Operators, Operating(o) PROVE GateStep
<1> USE DEF LifeInv, Inv, TypeOK, Life, Ran, evalVars, execVars, storeVars, extVars
<1>1. CASE RecordApproval(o) \/ RecordRejection(o)
  <2> DEFINE a == opAction[o]
  <2>1. CASE actionStatus' = actionStatus
    <3>1. Still /\ operation' = operation
      BY <1>1, <2>1 DEF RecordApproval, RecordRejection, Still
    <3> QED
      BY <3>1, StillStanding DEF GateStep
  <2>2. CASE actionStatus' # actionStatus
    <3>1. a \in Actions
      BY <1>1, <2>2 DEF RecordApproval, RecordRejection
    <3>2. actionStatus[a] = "awaiting_approval" /\ ~Claimed(a)
      BY <1>1, <2>2, <3>1 DEF RecordApproval, RecordRejection, StillAwaiting
    <3>3. /\ actionStatus'[a] \in {"approved", "denied"}
          /\ \A b \in Actions \ {a} : actionStatus'[b] = actionStatus[b]
      BY <1>1, <2>2, <3>1 DEF RecordApproval, RecordRejection
    <3>4. record' = record /\ subject' = subject /\ operation' = operation
      BY <1>1 DEF RecordApproval, RecordRejection
    <3> QED
      BY <3>1, <3>2, <3>3, <3>4, OneBecomes
  <2> QED
    BY <2>1, <2>2
<1>2. ASSUME \/ \E a \in Actions : ApproveAction(o, a) \/ RejectAction(o, a)
             \/ ListForRejection(o) \/ RefreshAfterRejection(o)
      PROVE  GateStep
  <2>1. Still /\ operation' = operation
    BY <1>2 DEF ApproveAction, RejectAction, ListForRejection, RefreshAfterRejection, Still
  <2> QED
    BY <2>1, StillStanding DEF GateStep
<1> QED
  BY <1>1, <1>2 DEF Operating

LEMMA ClaimBegins ==
  ASSUME LifeInv, NEW e \in Executors, ClaimExecution(e) PROVE GateStep
<1> USE DEF LifeInv, Inv, TypeOK, Handlers
<1> DEFINE a == subject[e]
<1>1. /\ a \in Actions /\ ~Claimed(a)
      /\ actionStatus[a] \in {"approved", "allowed"}
      /\ record' = [record EXCEPT ![e] = "started"] /\ subject' = subject
      /\ actionStatus' = [actionStatus EXCEPT ![a] = "executing"]
      /\ operation' = operation
  BY DEF ClaimExecution, Claimable, extVars
<1>2. standing[a] = "authorised"
  BY <1>1 DEF standing, Claimed
<1>3. standing'[a] = "running"
  BY <1>1 DEF standing
<1>4. \A b \in Actions \ {a} : standing'[b] = standing[b]
  BY <1>1 DEF standing, Claimed
<1>5. standing' = [standing EXCEPT ![a] = "running"]
  BY <1>1, <1>2, <1>3, <1>4, Becoming
<1>6. \A b \in Actions : standing[b] = "running" => targetOf[b] # targetOf[a]
  BY DEF ClaimExecution, Claimable, TargetBusy, standing
<1>7. Gate!Begin(a)
  BY <1>1, <1>2, <1>5, <1>6 DEF Gate!Begin, Gate!Become
<1> QED
  BY <1>1, <1>7 DEF GateStep, Gate!Next

\* Storing an outcome, by the request or by recovery.
LEMMA OutcomeSettles ==
  ASSUME LifeInv, NEW e \in Executors, record[e] = "started",
         NEW s \in RecordStatuses \ {"started"},
         record' = [record EXCEPT ![e] = s], subject' = subject,
         actionStatus' = actionStatus, operation' = operation
  PROVE  GateStep
<1> USE DEF LifeInv, Inv, TypeOK, Handlers, OneExecutionPerAction, RecordStatuses
<1> DEFINE a == subject[e]
<1>1. a \in Actions
  BY DEF Progress
<1>2. standing[a] = "running"
  BY <1>1 DEF standing
<1>3. standing'[a] = "settled"
  BY <1>1 DEF standing, Claimed
<1>4. \A b \in Actions \ {a} : standing'[b] = standing[b]
  BY DEF standing, Claimed
<1>5. standing' = [standing EXCEPT ![a] = "settled"]
  BY <1>1, <1>2, <1>3, <1>4, Becoming
<1>6. Gate!Settle(a)
  BY <1>2, <1>5 DEF Gate!Settle, Gate!Become
<1> QED
  BY <1>1, <1>6 DEF GateStep, Gate!Next

LEMMA HandlingRefines ==
  ASSUME LifeInv, NEW e \in Executors, Handling(e) PROVE GateStep
<1> USE DEF LifeInv, Inv, TypeOK, Handlers, evalVars, opVars, storeVars, extVars
<1>1. CASE ClaimExecution(e)
  BY <1>1, ClaimBegins
<1>2. CASE SaveExecutionRecord(e)
  <2>1. record[e] = "started"
    BY <1>2 DEF SaveExecutionRecord, Goto, Progress
  <2>2. \E s \in RecordStatuses \ {"started"} : record' = [record EXCEPT ![e] = s]
    BY <1>2 DEF SaveExecutionRecord, Reported, RecordStatuses
  <2>3. subject' = subject /\ actionStatus' = actionStatus /\ operation' = operation
    BY <1>2 DEF SaveExecutionRecord
  <2> QED
    BY <2>1, <2>2, <2>3, OutcomeSettles
<1>3. CASE Dispatch(e)
  <2> DEFINE a == subject[e]
  <2>1. /\ a \in Actions /\ record[e] = "started" /\ operation[a] = "none"
        /\ operation' = [operation EXCEPT ![a] = "sent"]
    BY <1>3 DEF Dispatch, Goto, Progress
  <2>2. Still
    BY <1>3 DEF Dispatch, Goto, Still
  <2>3. standing[a] = "running"
    BY <2>1 DEF standing
  <2>4. Gate!Send(a)
    BY <2>1, <2>2, <2>3, StillStanding DEF Gate!Send
  <2> QED
    BY <2>1, <2>4 DEF GateStep, Gate!Next
<1>4. CASE \/ MarkAction(e) \/ DiscreditAction(e) \/ MarkRolledBack(e)
  <2>1. Still /\ operation' = operation
    BY <1>4 DEF MarkAction, DiscreditAction, MarkRolledBack, Goto, Still, Claimed, Steps
  <2> QED
    BY <2>1, StillStanding DEF GateStep
<1>5. CASE \/ AdvanceIncident(e) \/ ResolveIncident(e) \/ FailRemediation(e)
           \/ EscalateIncident(e) \/ RollBackIncident(e)
  <2>1. Still /\ operation' = operation
    BY <1>5 DEF AdvanceIncident, ResolveIncident, FailRemediation, EscalateIncident,
       RollBackIncident, MoveOrQuit, Still
  <2> QED
    BY <2>1, StillStanding DEF GateStep
<1>6. CASE \/ validateApproval(e) \/ CheckKillSwitch(e) \/ validateEvidenceFreshness(e)
           \/ Refuse(e) \/ SaveVerificationResult(e) \/ StartRollback(e)
           \/ SendCompensation(e) \/ SaveRollbackRecord(e)
  <2>1. Still /\ operation' = operation
    BY <1>6 DEF validateApproval, CheckKillSwitch, validateEvidenceFreshness, PassGate,
       Refuse, Gates, Steps, SaveVerificationResult, StartRollback, SendCompensation,
       SaveRollbackRecord, Goto, Still
  <2> QED
    BY <2>1, StillStanding DEF GateStep
<1> QED
  BY <1>1, <1>2, <1>3, <1>4, <1>5, <1>6 DEF Handling

LEMMA OthersRefine ==
  ASSUME LifeInv,
         \/ Faults \/ Starting \/ Outside \/ UNCHANGED vars
         \/ \E e \in Executors, a \in Actions : ExecuteAction(e, a)
  PROVE  GateStep
<1> USE DEF LifeInv, Inv, TypeOK, Handlers, evalVars, opVars, execVars, storeVars, extVars
<1>1. CASE \/ Faults \/ Restart \/ RecoveryDone \/ UNCHANGED vars
           \/ \E e \in Executors, a \in Actions : ExecuteAction(e, a)
           \/ \E a \in Actions : CompensationEnds(a) \/ AgeEvidence(a) \/ ExpireApproval(a)
           \/ \E i \in Incidents : ResolveAlert(i)
           \/ \E on \in SwitchSettings : SetKillSwitch(on)
  <2>1. CASE Faults
    <3>1. Still /\ operation' = operation
      BY <2>1 DEF Faults, EvaluationFails, DecisionFails, RollbackErrs, RequestFails, Crash,
         Still
    <3> QED
      BY <3>1, StillStanding DEF GateStep
  <2>2. CASE \E e \in Executors, a \in Actions : ExecuteAction(e, a)
    <3>1. Still /\ operation' = operation
      BY <2>2 DEF ExecuteAction, Still, Steps
    <3> QED
      BY <3>1, StillStanding DEF GateStep
  <2>3. ASSUME \/ Restart \/ RecoveryDone \/ UNCHANGED vars
               \/ \E a \in Actions : CompensationEnds(a) \/ AgeEvidence(a) \/ ExpireApproval(a)
               \/ \E i \in Incidents : ResolveAlert(i)
               \/ \E on \in SwitchSettings : SetKillSwitch(on)
        PROVE  GateStep
    <3>1. Still /\ operation' = operation
      BY <2>3 DEF Restart, RecoveryDone, vars, CompensationEnds, AgeEvidence,
         ExpireApproval, ResolveAlert, SetKillSwitch, Still
    <3> QED
      BY <3>1, StillStanding DEF GateStep
  <2> QED
    BY <1>1, <2>1, <2>2, <2>3
<1>2. ASSUME NEW e \in Executors, Recover(e) PROVE GateStep
  <2>1. \E s \in RecordStatuses \ {"started"} : record' = [record EXCEPT ![e] = s]
    BY <1>2 DEF Recover, Reconciled, RecordStatuses
  <2>2. /\ record[e] = "started" /\ subject' = subject
        /\ actionStatus' = actionStatus /\ operation' = operation
    BY <1>2 DEF Recover
  <2> QED
    BY <2>1, <2>2, OutcomeSettles
<1>3. ASSUME NEW a \in Actions, OperationEnds(a) PROVE GateStep
  <2>1. Still
    BY <1>3 DEF OperationEnds, Still
  <2>2. Gate!Land(a)
    BY <1>3, <2>1, StillStanding DEF OperationEnds, Gate!Land
  <2> QED
    BY <2>2 DEF GateStep, Gate!Next
<1> QED
  BY <1>1, <1>2, <1>3 DEF Starting, Outside

\* Whatever races, fails, crashes and recovers, the outside sees each action
\* go through one life cycle: see ExecutionGate.
THEOREM WritePathImplementsGate == Spec => ImplementsGate
<1>1. Init => Gate!Init
  BY DEF Init, Gate!Init, standing, Claimed
<1>2. LifeInv /\ [Next]_vars => [Gate!Next]_(Gate!vars)
  <2> SUFFICES ASSUME LifeInv, [Next]_vars PROVE [Gate!Next]_(Gate!vars)
    OBVIOUS
  <2>1. GateStep
    BY EvaluatingRefines, OperatingRefines, HandlingRefines, OthersRefine DEF Next
  <2> QED
    BY <2>1 DEF GateStep, Gate!vars
<1> QED
  BY <1>1, <1>2, LifeInvariance, PTL DEF Spec, ImplementsGate, Gate!Spec
----------------------------------------------------------------------------
(* The contract with the supervisor. *)

\* The call of an action whose request's record is not none.
CallBy(e) ==
  IF record[e] = "succeeded" THEN "succeeded"
  ELSE IF record[e] \in {"failed", "timed_out"} THEN "failed"
  ELSE IF record[e] = "inconclusive" THEN "inconclusive"
  ELSE IF operation[subject[e]] = "none" THEN "idle"
  ELSE IF pc[e] = "await" THEN "open" ELSE "lost"

\* One request decides what the call of an action is, as one executes it.
CallsDecided ==
  /\ \A a \in Actions : ~Claimed(a) => executionCall[a] = "idle"
  /\ \A e \in Executors : record[e] # "none" => executionCall[subject[e]] = CallBy(e)

LEMMA Calls == LifeInv => CallsDecided
<1> SUFFICES ASSUME LifeInv PROVE CallsDecided
  OBVIOUS
<1> USE DEF LifeInv, Inv, TypeOK, Handlers, Claimed
<1>1. ASSUME NEW a \in Actions, ~Claimed(a) PROVE executionCall[a] = "idle"
  <2>1. Recorded(a) \subseteq {"none"}
    BY <1>1 DEF Recorded
  <2>2. operation[a] = "none"
    BY <1>1 DEF Life
  <2> QED
    BY <2>1, <2>2 DEF executionCall
<1>2. ASSUME NEW e \in Executors, record[e] # "none"
      PROVE  executionCall[subject[e]] = CallBy(e)
  <2> DEFINE a == subject[e]
  <2>1. a \in Actions
    BY <1>2 DEF Steps
  <2>2. \A f \in Executors : subject[f] = a /\ f # e => record[f] = "none"
    BY <1>2 DEF OneExecutionPerAction
  <2>3. Recorded(a) \subseteq {record[e], "none"} /\ record[e] \in Recorded(a)
    BY <2>2 DEF Recorded
  <2>4. (\E f \in Executors : subject[f] = a /\ pc[f] = "await") <=> pc[e] = "await"
    BY <2>2 DEF Steps
  <2>5. record[e] \in RecordStatuses
    BY <1>2
  <2> HIDE DEF a
  <2>6. executionCall[a] =
          IF record[e] = "succeeded" THEN "succeeded"
          ELSE IF record[e] \in {"failed", "timed_out"} THEN "failed"
          ELSE IF record[e] = "inconclusive" THEN "inconclusive"
          ELSE IF operation[a] = "none" THEN "idle"
          ELSE IF pc[e] = "await" THEN "open" ELSE "lost"
    BY <2>1, <2>3, <2>4, <2>5 DEF executionCall, RecordStatuses
  <2> QED
    BY <2>6 DEF CallBy, a
<1> QED
  BY <1>1, <1>2 DEF CallsDecided

LEMMA CallsAfter == LifeInv' => CallsDecided'
  BY Calls, PTL

\* What a request contributes to the call of its action stays as it is.
SameCall(e) ==
  /\ record'[e] = record[e]
  /\ record[e] # "none" =>
       /\ subject'[e] = subject[e]
       /\ pc'[e] = "await" <=> pc[e] = "await"
       /\ operation'[subject[e]] = "none" <=> operation[subject[e]] = "none"

LEMMA CallsKept ==
  ASSUME LifeInv, LifeInv', \A e \in Executors : SameCall(e)
  PROVE  executionCall' = executionCall
<1>1. ASSUME NEW a \in Actions PROVE executionCall'[a] = executionCall[a]
  <2>1. CASE Claimed(a)
    <3>1. PICK e \in Executors : record[e] # "none" /\ subject[e] = a
      BY <2>1 DEF Claimed
    <3>2. CallBy(e)' = CallBy(e)
      BY <3>1 DEF CallBy, SameCall
    <3> QED
      BY <3>1, <3>2, Calls, CallsAfter DEF CallsDecided, SameCall
  <2>2. CASE ~Claimed(a)
    <3>1. ~Claimed(a)'
      BY <2>2 DEF Claimed, SameCall
    <3> QED
      BY <2>2, <3>1, Calls, CallsAfter DEF CallsDecided
  <2> QED
    BY <2>1, <2>2
<1>2. DOMAIN executionCall = Actions /\ DOMAIN executionCall' = Actions
  BY DEF executionCall
<1>3. /\ executionCall = [a \in Actions |-> executionCall[a]]
      /\ executionCall' = [a \in Actions |-> executionCall'[a]]
  BY DEF executionCall
<1> QED
  BY <1>1, <1>3

LEMMA OneCallChanges ==
  ASSUME LifeInv, LifeInv', NEW e \in Executors,
         record[e] # "none", record'[e] # "none", subject'[e] = subject[e],
         \A f \in Executors \ {e} : SameCall(f)
  PROVE  /\ subject[e] \in Actions
         /\ executionCall[subject[e]] = CallBy(e)
         /\ executionCall' = [executionCall EXCEPT ![subject[e]] = CallBy(e)']
<1> DEFINE s == subject[e]
<1>1. s \in Actions
  BY DEF LifeInv, Inv, Handlers, Steps, TypeOK
<1>2. executionCall[s] = CallBy(e) /\ executionCall'[s] = CallBy(e)'
  BY Calls, CallsAfter DEF CallsDecided
<1>3. ASSUME NEW a \in Actions \ {s} PROVE executionCall'[a] = executionCall[a]
  <2>1. CASE Claimed(a)
    <3>1. PICK f \in Executors : record[f] # "none" /\ subject[f] = a
      BY <2>1 DEF Claimed
    <3>2. f # e
      BY <1>3, <3>1
    <3>3. CallBy(f)' = CallBy(f)
      BY <3>1, <3>2 DEF CallBy, SameCall
    <3> QED
      BY <3>1, <3>2, <3>3, Calls, CallsAfter DEF CallsDecided, SameCall
  <2>2. CASE ~Claimed(a)
    <3>1. ~Claimed(a)'
      BY <1>3, <2>2 DEF Claimed, SameCall
    <3> QED
      BY <2>2, <3>1, Calls, CallsAfter DEF CallsDecided
  <2> QED
    BY <2>1, <2>2
<1>4. /\ executionCall = [a \in Actions |-> executionCall[a]]
      /\ executionCall' = [a \in Actions |-> executionCall'[a]]
  BY DEF executionCall
<1> QED
  BY <1>1, <1>2, <1>3, <1>4

CallStep == [Execution!Next]_(Execution!vars)

\* A request that gives up may hold an open call, and loses it.
LEMMA GivingUp ==
  ASSUME LifeInv, LifeInv', NEW e \in Executors, pc[e] \in Steps, pc'[e] \notin {"await"},
         record' = record, operation' = operation,
         \A f \in Executors \ {e} : pc'[f] = pc[f] /\ subject'[f] = subject[f],
         subject'[e] = subject[e]
  PROVE  CallStep
<1>1. record[e] # "none"
  BY DEF LifeInv, Inv, Handlers
<1>2. \A f \in Executors \ {e} : SameCall(f)
  BY DEF SameCall
<1>3. CASE pc[e] # "await"
  <2>1. SameCall(e)
    BY <1>3 DEF SameCall
  <2>2. executionCall' = executionCall
    BY <1>2, <2>1, CallsKept
  <2> QED
    BY <2>2 DEF CallStep, Execution!vars
<1>4. CASE pc[e] = "await"
  <2>1. record[e] = "started" /\ operation[subject[e]] # "none"
    BY <1>4 DEF LifeInv, Progress
  <2>2. CallBy(e) = "open" /\ CallBy(e)' = "lost"
    BY <1>4, <2>1 DEF CallBy
  <2>3. /\ subject[e] \in Actions
        /\ executionCall[subject[e]] = "open"
        /\ executionCall' = [executionCall EXCEPT ![subject[e]] = "lost"]
    BY <1>1, <1>2, <2>2, OneCallChanges
  <2>4. executionCall = [a \in Actions |-> executionCall[a]]
    BY DEF executionCall
  <2>5. Execution!Lose({subject[e]})
    BY <2>3, <2>4 DEF Execution!Lose
  <2>6. {subject[e]} \in SUBSET Actions
    BY <2>3
  <2> QED
    BY <2>5, <2>6 DEF CallStep, Execution!Next
<1> QED
  BY <1>3, <1>4

\* A step that writes no record, operation or request's place in the wait.
LEMMA OutOfTheWay ==
  ASSUME LifeInv, LifeInv', record' = record, operation' = operation,
         \A e \in Executors :
           record[e] # "none" =>
             subject'[e] = subject[e] /\ (pc'[e] = "await" <=> pc[e] = "await")
  PROVE  CallStep
<1>1. executionCall' = executionCall
  BY CallsKept DEF SameCall
<1> QED
  BY <1>1 DEF CallStep, Execution!vars

\* An outcome is stored: by the request, from what the call returned, or by
\* recovery, from what the supervisor says.
LEMMA OutcomeReported ==
  ASSUME LifeInv, LifeInv', NEW e \in Executors, SaveExecutionRecord(e) PROVE CallStep
<1> USE DEF SaveExecutionRecord, Goto, extVars
<1>1. PICK s \in Reported(subject[e]) : record' = [record EXCEPT ![e] = s]
  OBVIOUS
<1>2. record[e] = "started" /\ operation[subject[e]] # "none" /\ pc[e] = "await"
  BY DEF LifeInv, Progress
<1>3. record'[e] = s
  BY <1>1 DEF LifeInv, Inv, TypeOK
<1>4. \A f \in Executors \ {e} : SameCall(f)
  BY <1>1 DEF SameCall, LifeInv, Inv, TypeOK
<1>5. CallBy(e) = "open" /\ CallBy(e)' = IF s = "succeeded" THEN "succeeded" ELSE "failed"
  BY <1>2, <1>3 DEF CallBy, Reported
<1>6. /\ subject[e] \in Actions
      /\ executionCall[subject[e]] = "open"
      /\ executionCall' = [executionCall EXCEPT ![subject[e]] = CallBy(e)']
  BY <1>2, <1>3, <1>4, <1>5, OneCallChanges DEF Reported
<1>7. s = "succeeded" => operation[subject[e]] \in {"succeeded", "failed"}
  BY DEF Reported
<1>8. Execution!Report(subject[e])
  BY <1>5, <1>6, <1>7 DEF Execution!Report, Execution!Call, Execution!Results
<1> QED
  BY <1>6, <1>8 DEF CallStep, Execution!Next

LEMMA OutcomeLearned ==
  ASSUME LifeInv, LifeInv', NEW e \in Executors, Recover(e) PROVE CallStep
<1> USE DEF Recover, extVars
<1>1. PICK s \in Reconciled(subject[e]) : record' = [record EXCEPT ![e] = s]
  OBVIOUS
<1>2. record[e] = "started" /\ pc[e] # "await"
  BY DEF Quiet
<1>3. record'[e] = s
  BY <1>1 DEF LifeInv, Inv, TypeOK
<1>4. \A f \in Executors \ {e} : SameCall(f)
  BY <1>1 DEF SameCall, LifeInv, Inv, TypeOK
<1>5. /\ CallBy(e) = IF operation[subject[e]] = "none" THEN "idle" ELSE "lost"
      /\ CallBy(e)' = s
  BY <1>2, <1>3 DEF CallBy, Reconciled
<1>6. /\ subject[e] \in Actions
      /\ executionCall[subject[e]] = CallBy(e)
      /\ executionCall' = [executionCall EXCEPT ![subject[e]] = s]
  BY <1>2, <1>3, <1>4, <1>5, OneCallChanges DEF Reconciled
<1>7. CASE operation[subject[e]] = "none"
  <2>1. s = "inconclusive"
    BY <1>7 DEF Reconciled
  <2>2. Execution!Withhold(subject[e])
    BY <1>5, <1>6, <1>7, <2>1 DEF Execution!Withhold, Execution!Call
  <2> QED
    BY <1>6, <2>2 DEF CallStep, Execution!Next
<1>8. CASE operation[subject[e]] # "none"
  <2>1. s \in {"inconclusive"} \cup ({operation[subject[e]]} \cap Execution!Results)
    BY DEF Reconciled, Execution!Results
  <2>2. Execution!Learn(subject[e])
    BY <1>5, <1>6, <1>8, <2>1 DEF Execution!Learn, Execution!Call
  <2> QED
    BY <1>6, <2>2 DEF CallStep, Execution!Next
<1> QED
  BY <1>7, <1>8

LEMMA OperationSent ==
  ASSUME LifeInv, LifeInv', NEW e \in Executors, Dispatch(e) PROVE CallStep
<1> USE DEF Dispatch, Goto, storeVars
<1>1. record[e] = "started" /\ operation[subject[e]] = "none" /\ subject[e] \in Actions
  BY DEF LifeInv, Progress, Inv, Handlers, TypeOK, Steps
<1>2. pc'[e] = "await" /\ operation'[subject[e]] = "sent"
  BY <1>1 DEF LifeInv, Inv, TypeOK
<1>3. \A f \in Executors \ {e} : SameCall(f)
  BY <1>1 DEF SameCall, LifeInv, Inv, TypeOK, OneExecutionPerAction
<1>4. CallBy(e) = "idle" /\ CallBy(e)' = "open"
  BY <1>1, <1>2 DEF CallBy
<1>5. /\ executionCall[subject[e]] = "idle"
      /\ executionCall' = [executionCall EXCEPT ![subject[e]] = "open"]
  BY <1>1, <1>3, <1>4, OneCallChanges
<1>6. Execution!Send(subject[e])
  BY <1>5 DEF Execution!Send, Execution!Call
<1> QED
  BY <1>1, <1>6 DEF CallStep, Execution!Next

LEMMA ClaimCallsNothing ==
  ASSUME LifeInv, LifeInv', NEW e \in Executors, ClaimExecution(e) PROVE CallStep
<1> USE DEF ClaimExecution, extVars
<1> DEFINE s == subject[e]
<1>1. /\ s \in Actions /\ record[e] = "none" /\ ~Claimed(s) /\ record'[e] = "started"
      /\ pc'[e] = "dispatch" /\ subject'[e] = s
  BY DEF LifeInv, Inv, Handlers, TypeOK, Gates, Steps, Claimable
<1>2. operation[s] = "none" /\ operation'[s] = "none"
  BY <1>1 DEF LifeInv, Life
<1>3. executionCall[s] = "idle" /\ executionCall'[s] = "idle"
  BY <1>1, <1>2, Calls, CallsAfter DEF CallsDecided, CallBy
<1>4. ASSUME NEW a \in Actions \ {s} PROVE executionCall'[a] = executionCall[a]
  <2>1. CASE Claimed(a)
    <3>1. PICK f \in Executors : record[f] # "none" /\ subject[f] = a
      BY <2>1 DEF Claimed
    <3>2. f # e
      BY <1>1, <3>1
    <3>3. CallBy(f)' = CallBy(f) /\ record'[f] # "none" /\ subject'[f] = a
      BY <3>1, <3>2 DEF CallBy, LifeInv, Inv, TypeOK
    <3> QED
      BY <3>1, <3>2, <3>3, Calls, CallsAfter DEF CallsDecided
  <2>2. CASE ~Claimed(a)
    <3>1. ~Claimed(a)'
      BY <1>4, <2>2 DEF Claimed, LifeInv, Inv, TypeOK
    <3> QED
      BY <2>2, <3>1, Calls, CallsAfter DEF CallsDecided
  <2> QED
    BY <2>1, <2>2
<1>5. /\ executionCall = [a \in Actions |-> executionCall[a]]
      /\ executionCall' = [a \in Actions |-> executionCall'[a]]
  BY DEF executionCall
<1>6. executionCall' = executionCall
  BY <1>3, <1>4, <1>5
<1> QED
  BY <1>6 DEF CallStep, Execution!vars

\* A crash takes every open call at once.
LEMMA CrashLosesCalls ==
  ASSUME LifeInv, LifeInv', Crash PROVE CallStep
<1> USE DEF Crash, storeVars, extVars
<1> DEFINE gone == {a \in Actions : executionCall[a] = "open"}
<1>1. ASSUME NEW a \in Actions
      PROVE  executionCall'[a] = IF a \in gone THEN "lost" ELSE executionCall[a]
  <2>1. CASE Claimed(a)
    <3>1. PICK e \in Executors : record[e] # "none" /\ subject[e] = a
      BY <2>1 DEF Claimed
    <3>2. /\ record' = record /\ operation' = operation
          /\ subject'[e] = a /\ pc'[e] = "done"
      BY <3>1
    <3>3. executionCall[a] = CallBy(e) /\ executionCall'[a] = CallBy(e)'
      BY <3>1, <3>2, Calls, CallsAfter DEF CallsDecided
    <3>4. CallBy(e)' = IF CallBy(e) = "open" THEN "lost" ELSE CallBy(e)
      BY <3>1, <3>2 DEF CallBy
    <3> QED
      BY <3>3, <3>4
  <2>2. CASE ~Claimed(a)
    <3>1. ~Claimed(a)'
      BY <2>2 DEF Claimed
    <3> QED
      BY <2>2, <3>1, Calls, CallsAfter DEF CallsDecided
  <2> QED
    BY <2>1, <2>2
<1>2. executionCall' = [a \in Actions |-> IF a \in gone THEN "lost" ELSE executionCall[a]]
  BY <1>1 DEF executionCall
<1> HIDE DEF gone
<1>3. Execution!Lose(gone) /\ gone \in SUBSET Actions
  BY <1>2 DEF Execution!Lose, gone
<1> QED
  BY <1>3 DEF CallStep, Execution!Next

LEMMA HandlingKeepsContract ==
  ASSUME LifeInv, LifeInv', NEW e \in Executors, Handling(e) PROVE CallStep
<1> USE DEF LifeInv, Inv, TypeOK, Handlers, Goto, storeVars, extVars
<1>1. CASE Dispatch(e) \/ SaveExecutionRecord(e) \/ ClaimExecution(e)
  BY <1>1, OperationSent, OutcomeReported, ClaimCallsNothing
<1>2. CASE \/ validateApproval(e) \/ CheckKillSwitch(e) \/ validateEvidenceFreshness(e)
           \/ Refuse(e)
  <2>1. /\ record' = record /\ operation' = operation
        /\ \A f \in Executors : record[f] # "none" =>
             subject'[f] = subject[f] /\ (pc'[f] = "await" <=> pc[f] = "await")
    BY <1>2 DEF validateApproval, CheckKillSwitch, validateEvidenceFreshness, PassGate,
       Refuse, Gates, Steps
  <2> QED
    BY <2>1, OutOfTheWay
<1>3. CASE \/ MarkAction(e) \/ DiscreditAction(e) \/ MarkRolledBack(e)
           \/ SaveVerificationResult(e) \/ StartRollback(e) \/ SendCompensation(e)
           \/ SaveRollbackRecord(e)
  <2>1. /\ record' = record /\ operation' = operation
        /\ \A f \in Executors : record[f] # "none" =>
             subject'[f] = subject[f] /\ (pc'[f] = "await" <=> pc[f] = "await")
    BY <1>3 DEF MarkAction, DiscreditAction, MarkRolledBack, SaveVerificationResult,
       AfterVerdict, StartRollback, SendCompensation, SaveRollbackRecord
  <2> QED
    BY <2>1, OutOfTheWay
<1>4. CASE \/ AdvanceIncident(e) \/ ResolveIncident(e) \/ FailRemediation(e)
           \/ EscalateIncident(e) \/ RollBackIncident(e)
  <2>1. /\ record' = record /\ operation' = operation
        /\ \A f \in Executors : record[f] # "none" =>
             subject'[f] = subject[f] /\ (pc'[f] = "await" <=> pc[f] = "await")
    BY <1>4 DEF AdvanceIncident, ResolveIncident, FailRemediation, EscalateIncident,
       RollBackIncident, MoveOrQuit, Quit
  <2> QED
    BY <2>1, OutOfTheWay
<1> QED
  BY <1>1, <1>2, <1>3, <1>4 DEF Handling

LEMMA FaultsKeepContract ==
  ASSUME LifeInv, LifeInv', Faults PROVE CallStep
<1> USE DEF LifeInv, Inv, TypeOK, Handlers, storeVars, extVars, execVars
<1>1. ASSUME \/ \E i \in Incidents : EvaluationFails(i)
             \/ \E o \in Operators : DecisionFails(o)
      PROVE  CallStep
  BY <1>1, OutOfTheWay DEF EvaluationFails, DecisionFails
<1>2. ASSUME NEW e \in Executors, RollbackErrs(e) PROVE CallStep
  BY <1>2, OutOfTheWay DEF RollbackErrs
<1>3. ASSUME NEW e \in Executors, RequestFails(e) PROVE CallStep
  <2>1. /\ pc[e] \in Steps /\ pc'[e] \notin {"await"} /\ record' = record
        /\ operation' = operation /\ subject' = subject
        /\ \A f \in Executors \ {e} : pc'[f] = pc[f]
    BY <1>3 DEF RequestFails, Quit
  <2> QED
    BY <2>1, GivingUp
<1> QED
  BY <1>1, <1>2, <1>3, CrashLosesCalls DEF Faults

LEMMA OthersKeepContract ==
  ASSUME LifeInv, LifeInv',
         \/ Evaluating \/ Starting \/ Outside \/ UNCHANGED vars
         \/ \E o \in Operators : Operating(o)
         \/ \E e \in Executors, a \in Actions : ExecuteAction(e, a)
  PROVE  CallStep
<1> USE DEF LifeInv, Inv, TypeOK, Handlers, storeVars, extVars, execVars
<1>1. CASE Evaluating
  BY <1>1, OutOfTheWay DEF Evaluating, EvaluateAction, SavePolicyDecisions,
     ListForEvaluation, RefreshAfterEvaluation
<1>2. ASSUME NEW o \in Operators, Operating(o) PROVE CallStep
  BY <1>2, OutOfTheWay DEF Operating, ApproveAction, RejectAction, RecordApproval,
     RecordRejection, ListForRejection, RefreshAfterRejection
<1>3. ASSUME NEW e \in Executors, NEW a \in Actions, ExecuteAction(e, a) PROVE CallStep
  <2>1. /\ record' = record /\ operation' = operation
        /\ \A f \in Executors : record[f] # "none" =>
             subject'[f] = subject[f] /\ (pc'[f] = "await" <=> pc[f] = "await")
    BY <1>3 DEF ExecuteAction, Steps
  <2> QED
    BY <2>1, OutOfTheWay
<1>4. CASE Restart \/ RecoveryDone \/ UNCHANGED vars
  BY <1>4, OutOfTheWay DEF Restart, RecoveryDone, vars
<1>5. ASSUME NEW a \in Actions, OperationEnds(a) PROVE CallStep
  <2>1. \A e \in Executors : SameCall(e)
    BY <1>5 DEF OperationEnds, SameCall
  <2>2. executionCall' = executionCall
    BY <2>1, CallsKept
  <2>3. Execution!Land(a)
    BY <1>5, <2>2 DEF OperationEnds, Execution!Land, Execution!Results
  <2> QED
    BY <2>3 DEF CallStep, Execution!Next
<1>6. ASSUME \/ \E a \in Actions : CompensationEnds(a) \/ AgeEvidence(a) \/ ExpireApproval(a)
             \/ \E i \in Incidents : ResolveAlert(i)
             \/ \E on \in SwitchSettings : SetKillSwitch(on)
      PROVE  CallStep
  BY <1>6, OutOfTheWay DEF CompensationEnds, AgeEvidence, ExpireApproval, ResolveAlert,
     SetKillSwitch
<1> QED
  BY <1>1, <1>2, <1>3, <1>4, <1>5, <1>6, OutcomeLearned DEF Starting, Outside

LEMMA ExecutionKeepsContract == LifeInv /\ LifeInv' /\ [Next]_vars => CallStep
  BY HandlingKeepsContract, FaultsKeepContract, OthersKeepContract DEF Next
----------------------------------------------------------------------------
(* The same contract for compensations, which are sent without a retry. *)

RollbackStep == [Compensation!Next]_(Compensation!vars)

LEMMA OneRollbackChanges ==
  ASSUME NEW a \in Actions, NEW to, rollbackCall'[a] = to,
         \A b \in Actions \ {a} : rollback'[b] = rollback[b] /\ compensation'[b] = compensation[b]
  PROVE  rollbackCall' = [rollbackCall EXCEPT ![a] = to]
<1>1. \A b \in Actions \ {a} : rollbackCall'[b] = rollbackCall[b]
  BY DEF rollbackCall
<1>2. /\ rollbackCall = [b \in Actions |-> rollbackCall[b]]
      /\ rollbackCall' = [b \in Actions |-> rollbackCall'[b]]
  BY DEF rollbackCall
<1> QED
  BY <1>1, <1>2

LEMMA RollbackHandlingKeepsContract ==
  ASSUME EndInv, NEW e \in Executors, Handling(e) PROVE RollbackStep
<1> USE DEF EndInv, LifeInv, Inv, TypeOK, Handlers, Evidenced, Goto, Steps, storeVars,
        extVars, Uncompensated, RollbackStep
<1> DEFINE a == subject[e]
<1>1. CASE SendCompensation(e)
  <2>1. /\ a \in Actions /\ rollback[a] = "started" /\ compensation[a] = "none"
        /\ compensation' = [compensation EXCEPT ![a] = "sent"] /\ rollback' = rollback
    BY <1>1 DEF SendCompensation
  <2> HIDE DEF a
  <2>2. rollbackCall[a] = "idle" /\ rollbackCall'[a] = "open"
    BY <2>1 DEF rollbackCall
  <2>3. rollbackCall' = [rollbackCall EXCEPT ![a] = "open"]
    BY <2>1, <2>2, OneRollbackChanges
  <2>4. Compensation!Send(a)
    BY <2>1, <2>2, <2>3 DEF Compensation!Send, Compensation!Call
  <2> QED
    BY <2>1, <2>4 DEF Compensation!Next
<1>2. CASE SaveRollbackRecord(e)
  <2>1. /\ a \in Actions /\ rollback[a] = "started" /\ compensation[a] # "none"
        /\ compensation' = compensation
    BY <1>2 DEF SaveRollbackRecord
  <2>2. \/ /\ rollback' = [rollback EXCEPT ![a] = "succeeded"]
           /\ compensation[a] = "succeeded"
        \/ rollback' = [rollback EXCEPT ![a] = "failed"]
    BY <1>2 DEF SaveRollbackRecord, Compensated
  <2> HIDE DEF a
  <2>3. rollbackCall[a] = "open"
    BY <2>1 DEF rollbackCall
  <2>4. \/ rollbackCall'[a] = "succeeded" /\ compensation[a] = "succeeded"
        \/ rollbackCall'[a] = "failed"
    BY <2>1, <2>2 DEF rollbackCall
  <2>5. \A b \in Actions \ {a} : rollback'[b] = rollback[b] /\ compensation'[b] = compensation[b]
    BY <2>1, <2>2
  <2>6. rollbackCall' = [rollbackCall EXCEPT ![a] = rollbackCall'[a]]
    BY <2>1, <2>5, OneRollbackChanges
  <2>7. Compensation!Report(a)
    BY <2>1, <2>3, <2>4, <2>6 DEF Compensation!Report, Compensation!Call, Compensation!Results
  <2> QED
    BY <2>1, <2>7 DEF Compensation!Next
<1>3. CASE StartRollback(e)
  <2>1. /\ a \in Actions /\ rollback[a] = "none" /\ compensation[a] = "none"
        /\ rollback' = [rollback EXCEPT ![a] = "started"]
        /\ compensation' = compensation
    BY <1>3 DEF StartRollback
  <2> HIDE DEF a
  <2>2. rollbackCall' = rollbackCall
    BY <2>1 DEF rollbackCall
  <2> QED
    BY <2>1, <2>2 DEF Compensation!vars
<1>4. ASSUME rollback' = rollback, compensation' = compensation PROVE RollbackStep
  BY <1>4 DEF rollbackCall, Compensation!vars
<1>5. CASE \/ validateApproval(e) \/ CheckKillSwitch(e) \/ validateEvidenceFreshness(e)
           \/ Refuse(e) \/ ClaimExecution(e) \/ Dispatch(e) \/ SaveExecutionRecord(e)
           \/ MarkAction(e) \/ SaveVerificationResult(e) \/ DiscreditAction(e)
           \/ MarkRolledBack(e)
  BY <1>4, <1>5 DEF validateApproval, CheckKillSwitch, validateEvidenceFreshness, PassGate,
     Refuse, ClaimExecution, Dispatch, SaveExecutionRecord, MarkAction,
     SaveVerificationResult, DiscreditAction, MarkRolledBack
<1>6. CASE \/ AdvanceIncident(e) \/ ResolveIncident(e) \/ FailRemediation(e)
           \/ EscalateIncident(e) \/ RollBackIncident(e)
  BY <1>4, <1>6 DEF AdvanceIncident, ResolveIncident, FailRemediation, EscalateIncident,
     RollBackIncident, MoveOrQuit
<1> QED
  BY <1>1, <1>2, <1>3, <1>5, <1>6 DEF Handling

LEMMA OthersKeepRollbackContract ==
  ASSUME EndInv,
         \/ Evaluating \/ Faults \/ Starting \/ Outside \/ UNCHANGED vars
         \/ \E o \in Operators : Operating(o)
         \/ \E e \in Executors, a \in Actions : ExecuteAction(e, a)
  PROVE  RollbackStep
<1> USE DEF storeVars, extVars, RollbackStep
<1>1. ASSUME rollback' = rollback, compensation' = compensation PROVE RollbackStep
  BY <1>1 DEF rollbackCall, Compensation!vars
<1>2. ASSUME NEW a \in Actions, CompensationEnds(a) PROVE RollbackStep
  <2>1. rollback' = rollback /\ compensation[a] # "none" /\ compensation'[a] # "none"
        /\ \A b \in Actions \ {a} : compensation'[b] = compensation[b]
    BY <1>2 DEF CompensationEnds, EndInv, LifeInv, Inv, TypeOK
  <2>2. rollbackCall' = rollbackCall
    BY <2>1 DEF rollbackCall
  <2>3. Compensation!Land(a)
    BY <1>2, <2>2 DEF CompensationEnds, Compensation!Land, Compensation!Results
  <2> QED
    BY <2>3 DEF Compensation!Next
<1>3. CASE Evaluating \/ \E o \in Operators : Operating(o)
  BY <1>1, <1>3 DEF Evaluating, EvaluateAction, SavePolicyDecisions, ListForEvaluation,
     RefreshAfterEvaluation, Operating, ApproveAction, RejectAction, RecordApproval,
     RecordRejection, ListForRejection, RefreshAfterRejection
<1>4. CASE Faults \/ Starting
  BY <1>1, <1>4 DEF Faults, EvaluationFails, DecisionFails, RollbackErrs, RequestFails,
     Crash, Starting, Restart, RecoveryDone, Recover
<1>5. CASE \/ UNCHANGED vars
           \/ \E e \in Executors, a \in Actions : ExecuteAction(e, a)
           \/ \E a \in Actions : OperationEnds(a) \/ AgeEvidence(a) \/ ExpireApproval(a)
           \/ \E i \in Incidents : ResolveAlert(i)
           \/ \E on \in SwitchSettings : SetKillSwitch(on)
  BY <1>1, <1>5 DEF vars, ExecuteAction, OperationEnds, AgeEvidence, ExpireApproval,
     ResolveAlert, SetKillSwitch
<1> QED
  BY <1>2, <1>3, <1>4, <1>5 DEF Outside

\* Whatever fails, crashes and recovers on this side, each operation and each
\* compensation is sent in one call, success is recorded only over a stored
\* result, and a lost call ends as what was stored or as inconclusive.
THEOREM WritePathKeepsContract == Spec => KeepsContract
<1>1. Init => Execution!Init
  BY DEF Init, Execution!Init, executionCall, Recorded
<1>2. Init => Compensation!Init
  BY DEF Init, Compensation!Init, rollbackCall
<1>3. LifeInv /\ LifeInv' /\ [Next]_vars => [Execution!Next]_(Execution!vars)
  BY ExecutionKeepsContract DEF CallStep
<1>4. EndInv /\ [Next]_vars => [Compensation!Next]_(Compensation!vars)
  BY RollbackHandlingKeepsContract, OthersKeepRollbackContract DEF Next, RollbackStep
<1> QED
  BY <1>1, <1>2, <1>3, <1>4, LifeInvariance, EndInvariance, PTL
     DEF Spec, KeepsContract, Execution!Spec, Compensation!Spec
============================================================================
