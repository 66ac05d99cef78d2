----------------------------- MODULE MCConsole -----------------------------
(***************************************************************************)
(* An instance of Console for TLC: an administrator and an operator, two   *)
(* requests at once.                                                       *)
(***************************************************************************)
EXTENDS Console, TLC

CONSTANTS r1, r2, k1, h1, h2, h3, env

AdminAndOperator == [u \in {"ann", "oscar"} |-> IF u = "ann" THEN "admin" ELSE "operator"]
Handling == Permutations({r1, r2})
=============================================================================
