---------------------------- MODULE MCProposals ----------------------------
(***************************************************************************)
(* Instances of Proposals for TLC: what a provider may draft.              *)
(***************************************************************************)
EXTENDS Proposals

\* A good draft of each risk level that can be offered, one that is catalogued
\* and not executable, one without its parameter, an unknown action and a blank one.
SomeDrafts ==
  {Draft("restart_worker", "queue-worker", {"worker_id"}),
   Draft("pause_demo_queue_consumer", "demo-queue-consumer", {}),
   Draft("restart_demo_service", "demo-api", {}),
   Draft("restart_worker", "queue-worker", {}),
   Draft("drain_queue", "queue-worker", {}),
   Draft("", "", {})}
=============================================================================
