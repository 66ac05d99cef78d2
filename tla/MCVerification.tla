--------------------------- MODULE MCVerification ---------------------------
(***************************************************************************)
(* Instances of Verification for TLC: the server's three observations, and *)
(* a window of four intervals instead of twelve.                           *)
(***************************************************************************)
EXTENDS Verification
=============================================================================
