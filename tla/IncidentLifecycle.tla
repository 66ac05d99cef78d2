------------------------- MODULE IncidentLifecycle -------------------------
(***************************************************************************)
(* The incident state machine of internal/incident: the transition table  *)
(* every service consults before it moves an incident, the states the     *)
(* intake path treats as closed episodes, and the state a resolved alert   *)
(* leads to.  Pure: no variables.                                          *)
(***************************************************************************)

IncidentStates ==
  {"detected", "triaging", "action_proposed", "awaiting_approval", "approved",
   "executing_action", "verifying_action", "resolved", "failed_remediation",
   "rolled_back", "escalated", "closed"}

(* The table, one row per source state. *)
allowedTransitions ==
  ({"detected"} \X {"triaging", "closed"})
    \cup ({"triaging"} \X {"action_proposed", "escalated", "closed"})
    \cup ({"action_proposed"} \X {"awaiting_approval", "approved", "escalated", "closed"})
    \cup ({"awaiting_approval"} \X {"approved", "escalated", "closed"})
    \cup ({"approved"} \X {"executing_action", "escalated"})
    \cup ({"executing_action"} \X {"verifying_action", "failed_remediation", "escalated"})
    \cup ({"verifying_action"} \X {"resolved", "failed_remediation", "rolled_back", "escalated"})
    \cup ({"resolved"} \X {"closed"})
    \cup ({"failed_remediation"} \X {"rolled_back", "escalated", "closed"})
    \cup ({"rolled_back"} \X {"escalated", "closed"})
    \cup ({"escalated"} \X {"closed"})

CanTransition(from, to) == <<from, to>> \in allowedTransitions

(* A new firing alert opens a new episode once the latest one is here. *)
TerminalStates ==
  {"resolved", "failed_remediation", "rolled_back", "escalated", "closed"}

(* Whether, and to where, a "resolved" alert moves an incident. *)
ResolvableByAlert(s) == CanTransition(s, "resolved") \/ CanTransition(s, "closed")

nextStateForResolvedAlert(s) ==
  IF CanTransition(s, "resolved") THEN "resolved" ELSE "closed"
----------------------------------------------------------------------------
(* What the triage jobs and the write path expect of each other.           *)

\* From the proposal on, and from the first claim on.
Underway == IncidentStates \ {"detected", "triaging"}
Executed == Underway \ {"action_proposed", "awaiting_approval", "approved"}

\* The write path approves what was proposed, moves an executed incident along
\* the table without closing it, and claims whatever the state is.
writePathMoves ==
  ({"action_proposed"} \X {"awaiting_approval", "approved"})
    \cup ({"awaiting_approval"} \X {"approved"})
    \cup {move \in allowedTransitions : move[1] \in Executed /\ move[2] # "closed"}
    \cup (Underway \X {"executing_action"})

\* Nobody but the write path and a resolved alert moves a proposed incident.
MovesOn(from, to) ==
  \/ from = to \/ <<from, to>> \in writePathMoves
  \/ /\ from \notin TerminalStates /\ ResolvableByAlert(from)
     /\ to = nextStateForResolvedAlert(from)
=============================================================================
