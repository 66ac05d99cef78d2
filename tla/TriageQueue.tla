---------------------------- MODULE TriageQueue ----------------------------
(***************************************************************************)
(* What intake and triage jobs promise about an episode, whoever works on  *)
(* it and whatever leases, workers and requests are lost: an accepted      *)
(* episode is queued with it, its triage is tried a bounded number of      *)
(* times, its candidates are evaluated once or never, its job is not done  *)
(* before it has left triage, and a restart tries a dead letter again.     *)
(***************************************************************************)
EXTENDS Naturals

CONSTANTS Episodes, MaxAttempts

VARIABLES
  stage,      \* unknown, accepted, or out of triage: proposed or settled
  evaluated,  \* how often policy evaluation was begun for it
  status,     \* of its job: none, queued, running, succeeded or dead_letter
  tries       \* attempts begun since it was queued

vars == <<stage, evaluated, status, tries>>

Init ==
  /\ stage = [i \in Episodes |-> "unknown"]
  /\ evaluated = [i \in Episodes |-> 0]
  /\ status = [i \in Episodes |-> "none"]
  /\ tries = [i \in Episodes |-> 0]

Leave(i, to) ==
  /\ stage[i] = "accepted"
  /\ stage' = [stage EXCEPT ![i] = to]

Turn(i, to) ==
  /\ status' = [status EXCEPT ![i] = to]
  /\ UNCHANGED <<stage, evaluated>>

Accept(i) ==
  /\ stage[i] = "unknown" /\ status[i] = "none"
  /\ stage' = [stage EXCEPT ![i] = "accepted"]
  /\ status' = [status EXCEPT ![i] = "queued"]
  /\ UNCHANGED <<evaluated, tries>>

\* An attempt begins; the one before it may not know that it has ended.
Try(i) ==
  /\ status[i] \in {"queued", "running"}
  /\ tries[i] < MaxAttempts
  /\ tries' = [tries EXCEPT ![i] = @ + 1]
  /\ Turn(i, "running")

\* An attempt, the current one or one that went on without its lease, hands
\* the candidates to policy evaluation.
Propose(i) ==
  /\ evaluated[i] = 0
  /\ Leave(i, "proposed")
  /\ evaluated' = [evaluated EXCEPT ![i] = 1]
  /\ UNCHANGED <<status, tries>>

\* Escalated without a candidate, or closed by its alert.
Settle(i) == Leave(i, "settled") /\ UNCHANGED <<evaluated, status, tries>>

Finish(i) ==
  /\ status[i] = "running"
  /\ stage[i] \in {"proposed", "settled"}
  /\ Turn(i, "succeeded")
  /\ UNCHANGED tries

\* A failed attempt is the last one exactly when none is left.
GiveUp(i) ==
  /\ status[i] = "running"
  /\ Turn(i, IF tries[i] < MaxAttempts THEN "queued" ELSE "dead_letter")
  /\ UNCHANGED tries

\* A restart leaves no accepted episode with a dead letter.
TakeUpAgain ==
  LET dead == {i \in Episodes : stage[i] = "accepted" /\ status[i] = "dead_letter"} IN
  /\ status' = [i \in Episodes |-> IF i \in dead THEN "queued" ELSE status[i]]
  /\ tries' = [i \in Episodes |-> IF i \in dead THEN 0 ELSE tries[i]]
  /\ UNCHANGED <<stage, evaluated>>

Next ==
  \/ \E i \in Episodes :
       Accept(i) \/ Try(i) \/ Propose(i) \/ Settle(i) \/ Finish(i) \/ GiveUp(i)
  \/ TakeUpAgain

Spec == Init /\ [][Next]_vars
============================================================================
