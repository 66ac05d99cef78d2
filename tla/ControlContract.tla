-------------------------- MODULE ControlContract --------------------------
(***************************************************************************)
(* What the executor and the workload supervisor owe each other about one  *)
(* operation id, whatever is retried, lost or restarted on either side: an *)
(* operation leaves in one call; whoever reports success was shown a       *)
(* stored result; a call that was lost ends as what the supervisor stored, *)
(* or as unknown; nothing is sent once the call ended.  A retry may run    *)
(* beside the attempt before it, so a stored result may be written over.   *)
(***************************************************************************)
CONSTANT Ids

VARIABLES
  stored,  \* none: never sent; sent: nothing stored yet; or the result
  call     \* the caller's side: idle, open, lost, or what it recorded

vars == <<stored, call>>

Results == {"succeeded", "failed"}

Init ==
  /\ stored = [o \in Ids |-> "none"]
  /\ call = [o \in Ids |-> "idle"]

Call(o, from, to) ==
  /\ call[o] = from
  /\ call' = [call EXCEPT ![o] = to]

Send(o) ==
  /\ Call(o, "idle", "open")
  /\ stored' = [stored EXCEPT ![o] = "sent"]

\* The supervisor stores a result, perhaps after its caller has gone.
Land(o) ==
  /\ stored[o] # "none"
  /\ \E r \in Results : stored' = [stored EXCEPT ![o] = r]
  /\ UNCHANGED call

\* The answer's status field is not read: a stored failure is a success, too.
Report(o) ==
  /\ \/ Call(o, "open", "failed")
     \/ stored[o] \in Results /\ Call(o, "open", "succeeded")
  /\ UNCHANGED stored

\* The caller gives up or dies, with every call it had under way.
Lose(gone) ==
  /\ \A o \in gone : call[o] = "open"
  /\ call' = [o \in Ids |-> IF o \in gone THEN "lost" ELSE call[o]]
  /\ UNCHANGED stored

\* Reconciliation: what is stored, or nothing known.
Learn(o) ==
  /\ \E r \in {"inconclusive"} \cup ({stored[o]} \cap Results) : Call(o, "lost", r)
  /\ UNCHANGED stored

\* A call that was never made is settled without one.
Withhold(o) == Call(o, "idle", "inconclusive") /\ UNCHANGED stored

Next ==
  \/ \E o \in Ids : Send(o) \/ Land(o) \/ Report(o) \/ Learn(o) \/ Withhold(o)
  \/ \E gone \in SUBSET Ids : Lose(gone)

Spec == Init /\ [][Next]_vars
============================================================================
