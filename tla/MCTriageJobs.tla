---------------------------- MODULE MCTriageJobs ----------------------------
(***************************************************************************)
(* Instances of TriageJobs for TLC.                                        *)
(***************************************************************************)
EXTENDS TriageJobs

CONSTANTS w1, w2, r1, r2

OneWorker   == {w1}
TwoWorkers  == {w1, w2}
OneRequest  == {r1}
TwoRequests == {r1, r2}
=============================================================================
