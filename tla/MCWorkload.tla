----------------------------- MODULE MCWorkload -----------------------------
(***************************************************************************)
(* Instances of Workload for TLC: a restart and a pause, one retry each.   *)
(* The bound lets two worker processes start, main's and one of a restart; *)
(* an attempt that ends that one too goes no further.                      *)
(***************************************************************************)
EXTENDS Workload

CONSTANTS o1, o2

RestartAndPause == [o \in {o1, o2} |-> IF o = o1 THEN "restart_worker" ELSE "pause_consumer"]
=============================================================================
