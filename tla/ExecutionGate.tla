--------------------------- MODULE ExecutionGate ---------------------------
(***************************************************************************)
(* What the write path promises about the outside world, whatever races,   *)
(* crashes and retries happen inside: an action is decided once, runs at   *)
(* most once and never beside another action on its target, its operation  *)
(* leaves only while it runs, and a settled action stays settled.          *)
(***************************************************************************)
CONSTANTS Actions, targetOf

VARIABLES
  standing,  \* where each action is in its life cycle
  effect     \* the external operation: none, sent, or the result it left

vars == <<standing, effect>>

Init ==
  /\ standing = [a \in Actions |-> "undecided"]
  /\ effect = [a \in Actions |-> "none"]

Become(a, from, to) ==
  /\ standing[a] = from
  /\ standing' = [standing EXCEPT ![a] = to]
  /\ UNCHANGED effect

Authorise(a) == Become(a, "undecided", "authorised")
Deny(a)      == Become(a, "undecided", "refused")

Begin(a) ==
  /\ \A b \in Actions : standing[b] = "running" => targetOf[b] # targetOf[a]
  /\ Become(a, "authorised", "running")

Send(a) ==
  /\ standing[a] = "running"
  /\ effect[a] = "none"
  /\ effect' = [effect EXCEPT ![a] = "sent"]
  /\ UNCHANGED standing

\* The operation may land long after the action was settled without it, and
\* a retry that ran beside the first attempt lands over it.
Land(a) ==
  /\ effect[a] # "none"
  /\ \E r \in {"succeeded", "failed"} : effect' = [effect EXCEPT ![a] = r]
  /\ UNCHANGED standing

Settle(a) == Become(a, "running", "settled")

Next ==
  \E a \in Actions :
    Authorise(a) \/ Deny(a) \/ Begin(a) \/ Send(a) \/ Land(a) \/ Settle(a)

Spec == Init /\ [][Next]_vars
============================================================================
