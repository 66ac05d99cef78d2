--------------------------- MODULE MCRemediation ---------------------------
(***************************************************************************)
(* Two candidate actions of one incident, on one target, where only one of *)
(* them may run at a time, or on two, where both may; and one alone.       *)
(***************************************************************************)
EXTENDS Remediation, TLC

CONSTANTS a1, a2, i1, i2, t1, t2

OneIncident  == a1 :> i1 @@ a2 :> i1
OneTarget    == a1 :> t1 @@ a2 :> t1
TwoTargets   == a1 :> t1 @@ a2 :> t2

FirstOnly    == a1 :> i1
FirstTarget  == a1 :> t1

\* Requests and sessions are interchangeable, and so are the actions where
\* they share incident, target and reversibility; used without liveness only.
Requests == Permutations(Executors) \cup Permutations(Operators)
RequestsAndActions == Requests \cup Permutations(Actions)
============================================================================
