------------------------------ MODULE Workload ------------------------------
(***************************************************************************)
(* The reference workload and the way Triovexa drives it: a worker process *)
(* on a Redis stream, the supervisor that keeps it and serves operations   *)
(* on it (internal/workload), and the executor's client for them           *)
(* (ControlAdapter and executeWithRetry in internal/execution).            *)
(*                                                                         *)
(* An HTTP request and the supervisor's work on it are separate: the       *)
(* client may stop waiting while the supervisor carries on, with a request *)
(* context that is then cancelled.                                         *)
(***************************************************************************)
EXTENDS Integers, FiniteSets

CONSTANTS
  Ops,         \* operation ids (the idempotency keys of executions)
  KindOf,      \* the operation each of them asks for
  Jobs,        \* messages of the stream
  Retries,     \* ACTION_EXECUTION_RETRIES
  MaxWorkers,  \* bound: worker processes the supervisor ever starts
  MaxFaults    \* bound: faults injected

Operations == {"restart_worker", "pause_consumer", "resume_consumer"}

ASSUME WorkloadAssumption ==
  /\ KindOf \in [Ops -> Operations]
  /\ Retries \in Nat
  /\ MaxWorkers \in Nat \ {0}
  /\ MaxFaults \in Nat

Attempts == 1..(Retries + 1)
Workers  == 1..MaxWorkers

\* A worker process: where it is in its loop, or dead, or dead and waited for.
WorkerSteps == {"unborn", "loop", "reading", "delivered", "marked", "counted",
                "acked", "dead", "reaped"}
Alive       == WorkerSteps \ {"unborn", "dead", "reaped"}
JobStates   == {"absent", "queued", "pending", "acked", "deleted"}

\* A request for an operation inside the supervisor.
HandlerSteps == {"none", "arrived", "looked", "killed", "cleared", "applied",
                 "failed", "replied_200", "replied_500", "dropped"}
Finished     == {"none", "replied_200", "replied_500", "dropped"}
ClientStates == {"ready", "waiting", "crashed", "succeeded", "failed", "inconclusive"}

VARIABLES
  \* Redis
  job, marked, counted, paused, fault, result,
  \* the worker processes: step, the fault mode last read, the job held
  step, mode, held,
  \* the supervisor: the current child (0: nil), how many were started
  child, generation, handler,
  \* the executor's client
  client, attempt,
  \* bound, and history: what only the properties read
  faults, effect, lost, found, taken

redis   == <<job, marked, counted, paused, fault, result>>
worker  == <<step, mode, held>>
super   == <<child, generation, handler>>
caller  == <<client, attempt>>
history == <<effect, lost, found, taken>>
vars    == <<redis, worker, super, caller, faults, history>>

\* main starts the supervisor with a worker before it serves.
Init ==
  /\ job = [j \in Jobs |-> "absent"]
  /\ marked = {} /\ counted = {}
  /\ paused = FALSE /\ fault = "healthy"
  /\ result = [o \in Ops |-> "none"]
  /\ step = [w \in Workers |-> IF w = 1 THEN "loop" ELSE "unborn"]
  /\ mode = [w \in Workers |-> "healthy"]
  /\ held = [w \in Workers |-> {}]
  /\ child = 1 /\ generation = 1
  /\ handler = [o \in Ops |-> [n \in Attempts |-> "none"]]
  /\ client = [o \in Ops |-> "ready"]
  /\ attempt = [o \in Ops |-> 0]
  /\ faults = 0
  /\ effect = {} /\ lost = {}
  /\ found = [o \in Ops |-> [n \in Attempts |-> 0]]
  /\ taken = 0
----------------------------------------------------------------------------
(* The worker process *)

Go(w, s) == step' = [step EXCEPT ![w] = s]

\* What a process knew and held is gone with it; its message stays pending.
Ends(ws) ==
  /\ step' = [w \in Workers |-> IF w \in ws /\ step[w] \in Alive THEN "dead" ELSE step[w]]
  /\ mode' = [w \in Workers |-> IF w \in ws THEN "healthy" ELSE mode[w]]
  /\ held' = [w \in Workers |-> IF w \in ws THEN {} ELSE held[w]]

\* One turn of the loop reads the flags; paused or stalled it sleeps.
ReadFlags(w) ==
  /\ step[w] = "loop"
  /\ ~paused /\ fault # "stall"
  /\ mode' = [mode EXCEPT ![w] = fault]
  /\ Go(w, "reading")
  /\ UNCHANGED <<redis, held, super, caller, faults, history>>

\* Mutant: the flags are read when the process starts, never again.
TakeAndReadOn(w) ==
  /\ step[w] \in {"reading", "loop"}
  /\ \E j \in Jobs :
       /\ job[j] = "queued"
       /\ job' = [job EXCEPT ![j] = "pending"]
       /\ held' = [held EXCEPT ![w] = {j}]
  /\ Go(w, "delivered")
  /\ taken' = IF paused THEN taken + 1 ELSE 0
  /\ UNCHANGED <<marked, counted, paused, fault, result, mode, super, caller,
                 faults, effect, lost, found>>

\* XREADGROUP ">" blocks with the flags already read; a message goes to one
\* consumer, once.
Take(w) ==
  /\ step[w] = "reading"
  /\ \E j \in Jobs :
       /\ job[j] = "queued"
       /\ job' = [job EXCEPT ![j] = "pending"]
       /\ held' = [held EXCEPT ![w] = {j}]
  /\ Go(w, "delivered")
  /\ taken' = IF paused THEN taken + 1 ELSE 0
  /\ UNCHANGED <<marked, counted, paused, fault, result, mode, super, caller,
                 faults, effect, lost, found>>

TakeNothing(w) ==
  /\ step[w] = "reading"
  /\ \A j \in Jobs : job[j] # "queued"
  /\ Go(w, "loop")
  /\ UNCHANGED <<redis, mode, held, super, caller, faults, history>>

\* Fault mode fail: an error is counted, the message stays pending.
FailJob(w) ==
  /\ step[w] = "delivered" /\ mode[w] = "fail"
  /\ held' = [held EXCEPT ![w] = {}]
  /\ Go(w, "loop")
  /\ UNCHANGED <<redis, mode, super, caller, faults, history>>

\* Mutant: the marker alone counts as the job done.
MarkOnly(w) ==
  /\ step[w] = "delivered" /\ mode[w] # "fail"
  /\ marked' = marked \cup held[w]
  /\ Go(w, "counted")
  /\ UNCHANGED <<job, counted, paused, fault, result, mode, held, super, caller,
                 faults, history>>

\* SETNX of the processed marker; a job marked before is not counted again.
Mark(w) ==
  /\ step[w] = "delivered" /\ mode[w] # "fail"
  /\ marked' = marked \cup held[w]
  /\ Go(w, IF held[w] \subseteq marked THEN "counted" ELSE "marked")
  /\ UNCHANGED <<job, counted, paused, fault, result, mode, held, super, caller,
                 faults, history>>

Count(w) ==
  /\ step[w] = "marked"
  /\ counted' = counted \cup held[w]
  /\ Go(w, "counted")
  /\ UNCHANGED <<job, marked, paused, fault, result, mode, held, super, caller,
                 faults, history>>

Ack(w) ==
  /\ step[w] = "counted"
  /\ job' = [j \in Jobs |-> IF j \in held[w] THEN "acked" ELSE job[j]]
  /\ Go(w, "acked")
  /\ UNCHANGED <<marked, counted, paused, fault, result, mode, held, super, caller,
                 faults, history>>

Del(w) ==
  /\ step[w] = "acked"
  /\ job' = [j \in Jobs |-> IF j \in held[w] THEN "deleted" ELSE job[j]]
  /\ held' = [held EXCEPT ![w] = {}]
  /\ Go(w, "loop")
  /\ UNCHANGED <<marked, counted, paused, fault, result, mode, super, caller,
                 faults, history>>

RunWorker(w) ==
  ReadFlags(w) \/ Take(w) \/ TakeNothing(w) \/ FailJob(w)
    \/ Mark(w) \/ Count(w) \/ Ack(w) \/ Del(w)

\* A worker that ends by itself: out of memory, killed from outside.
Die(w) ==
  /\ step[w] \in Alive
  /\ faults < MaxFaults
  /\ faults' = faults + 1
  /\ Ends({w})
  /\ UNCHANGED <<redis, super, caller, history>>

\* Mutant: the waiter forgets whatever child there is by now.
ReapAny(w) ==
  /\ step[w] = "dead"
  /\ Go(w, "reaped")
  /\ child' = 0
  /\ UNCHANGED <<redis, mode, held, generation, handler, caller, faults, history>>

\* Mutant: nobody forgets a child that ended.
ReapOnly(w) ==
  /\ step[w] = "dead"
  /\ Go(w, "reaped")
  /\ UNCHANGED <<redis, mode, held, super, caller, faults, history>>

\* The waiter of StartWorker forgets the child, if it still is the child.
Reap(w) ==
  /\ step[w] = "dead"
  /\ Go(w, "reaped")
  /\ child' = IF child = w THEN 0 ELSE child
  /\ UNCHANGED <<redis, mode, held, generation, handler, caller, faults, history>>

(* The environment: RunProducer and POST /faults *)

Produce(j) ==
  /\ job[j] = "absent"
  /\ job' = [job EXCEPT ![j] = "queued"]
  /\ UNCHANGED <<marked, counted, paused, fault, result, worker, super, caller,
                 faults, history>>

SetFault(m) ==
  /\ m # fault /\ faults < MaxFaults
  /\ faults' = faults + 1
  /\ fault' = m
  /\ UNCHANGED <<job, marked, counted, paused, result, worker, super, caller, history>>
----------------------------------------------------------------------------
(* POST /operations inside the supervisor *)

Waiting(o, n) == client[o] = "waiting" /\ attempt[o] = n
Handle(o, n, s) == handler' = [handler EXCEPT ![o][n] = s]

\* The connection went before the request was read.
Drop(o, n) ==
  /\ handler[o][n] = "arrived" /\ ~Waiting(o, n)
  /\ Handle(o, n, "dropped")
  /\ UNCHANGED <<redis, worker, child, generation, caller, faults, history>>

\* A stored result is replayed, with 200 whatever it says.
Replay(o, n) ==
  /\ handler[o][n] = "arrived"
  /\ result[o] # "none"
  /\ Handle(o, n, "replied_200")
  /\ UNCHANGED <<redis, worker, child, generation, caller, faults, history>>

\* The error of the lookup is ignored: under a cancelled context nothing is
\* found, whether there is a result or not.
Lookup(o, n) ==
  /\ handler[o][n] = "arrived"
  /\ result[o] = "none" \/ ~Waiting(o, n)
  /\ Handle(o, n, "looked")
  /\ UNCHANGED <<redis, worker, child, generation, caller, faults, history>>

\* Mutant: the child is killed and not forgotten.
KillOnly(o, n) ==
  /\ handler[o][n] = "looked" /\ KindOf[o] = "restart_worker"
  /\ Ends({child})
  /\ found' = [found EXCEPT ![o][n] = generation]
  /\ Handle(o, n, "killed")
  /\ UNCHANGED <<redis, child, generation, caller, faults, effect, lost, taken>>

\* restart, first critical section.
Kill(o, n) ==
  /\ handler[o][n] = "looked" /\ KindOf[o] = "restart_worker"
  /\ Ends({child})
  /\ child' = 0
  /\ found' = [found EXCEPT ![o][n] = generation]
  /\ Handle(o, n, "killed")
  /\ UNCHANGED <<redis, generation, caller, faults, effect, lost, taken>>

\* restart, between its critical sections: under the server's context.
ClearFault(o, n) ==
  /\ handler[o][n] = "killed"
  /\ fault' = "healthy"
  /\ Handle(o, n, "cleared")
  /\ UNCHANGED <<job, marked, counted, paused, result, worker, child, generation,
                 caller, faults, history>>

\* StartWorker: a child somebody else started will do.
KeepChild(o, n) ==
  /\ handler[o][n] = "cleared"
  /\ child # 0
  /\ effect' = effect \cup {o}
  /\ Handle(o, n, "applied")
  /\ UNCHANGED <<redis, worker, child, generation, caller, faults, lost, found, taken>>

StartWorker(o, n) ==
  /\ handler[o][n] = "cleared"
  /\ child = 0 /\ generation < MaxWorkers
  /\ generation' = generation + 1
  /\ child' = generation + 1
  /\ Go(generation + 1, "loop")
  /\ effect' = effect \cup {o}
  /\ Handle(o, n, "applied")
  /\ UNCHANGED <<redis, mode, held, caller, faults, lost, found, taken>>

\* The process cannot be started.
StartFails(o, n) ==
  /\ handler[o][n] = "cleared"
  /\ child = 0
  /\ Handle(o, n, "failed")
  /\ UNCHANGED <<redis, worker, child, generation, caller, faults, history>>

\* pause_consumer and resume_consumer: one SET under the request's context.
SetPaused(o, n) ==
  /\ handler[o][n] = "looked" /\ KindOf[o] # "restart_worker"
  /\ paused' = (KindOf[o] = "pause_consumer")
  /\ taken' = 0
  /\ effect' = effect \cup {o}
  /\ \/ Handle(o, n, "applied")
     \/ ~Waiting(o, n) /\ Handle(o, n, "failed")
  /\ UNCHANGED <<job, marked, counted, fault, result, worker, child, generation,
                 caller, faults, lost, found>>

SetFails(o, n) ==
  /\ handler[o][n] = "looked" /\ KindOf[o] # "restart_worker"
  /\ ~Waiting(o, n)
  /\ Handle(o, n, "failed")
  /\ UNCHANGED <<redis, worker, child, generation, caller, faults, history>>

Outcome(o, n) == IF handler[o][n] = "applied" THEN "succeeded" ELSE "failed"

\* The result is stored under the request's context, its error ignored, and
\* the answer says 500 when the operation failed.
Store(o, n) ==
  /\ handler[o][n] \in {"applied", "failed"}
  /\ \/ result' = [result EXCEPT ![o] = Outcome(o, n)]
     \/ ~Waiting(o, n) /\ UNCHANGED result
  /\ Handle(o, n, IF handler[o][n] = "applied" THEN "replied_200" ELSE "replied_500")
  /\ found' = [found EXCEPT ![o][n] = 0]
  /\ UNCHANGED <<job, marked, counted, paused, fault, worker, child, generation,
                 caller, faults, effect, lost, taken>>

Serve(o, n) ==
  Drop(o, n) \/ Replay(o, n) \/ Lookup(o, n) \/ Kill(o, n) \/ ClearFault(o, n)
    \/ KeepChild(o, n) \/ StartWorker(o, n) \/ StartFails(o, n)
    \/ SetPaused(o, n) \/ SetFails(o, n) \/ Store(o, n)
----------------------------------------------------------------------------
(* The executor's client: ControlAdapter under executeWithRetry *)

Conclude(o, s) == client' = [client EXCEPT ![o] = s] /\ UNCHANGED <<attempt, handler>>

\* The claim admits one started execution of the target at a time.
Claimed(o) == client[o] \in {"waiting", "crashed"}

\* Mutant: the claim does not look at other executions of the target.
ExecuteUnclaimed(o) ==
  /\ client[o] = "ready"
  /\ client' = [client EXCEPT ![o] = "waiting"]
  /\ attempt' = [attempt EXCEPT ![o] = 1]
  /\ Handle(o, 1, "arrived")
  /\ UNCHANGED <<redis, worker, child, generation, faults, history>>

Execute(o) ==
  /\ client[o] = "ready" /\ \A p \in Ops : ~Claimed(p)
  /\ client' = [client EXCEPT ![o] = "waiting"]
  /\ attempt' = [attempt EXCEPT ![o] = 1]
  /\ Handle(o, 1, "arrived")
  /\ UNCHANGED <<redis, worker, child, generation, faults, history>>

\* Mutant: no limit on the attempts.
RetryForever(o) ==
  /\ Handle(o, attempt[o], "arrived")
  /\ UNCHANGED <<client, attempt>>

\* A RetryableError: the same operation id again, while there are attempts.
Retry(o) ==
  \/ /\ attempt[o] <= Retries
     /\ attempt' = [attempt EXCEPT ![o] = @ + 1]
     /\ Handle(o, attempt[o] + 1, "arrived")
     /\ UNCHANGED client
  \/ /\ attempt[o] = Retries + 1
     /\ Conclude(o, "failed")

\* Mutant: a server error is taken for an answer as well.
AnsweredAny(o) ==
  /\ client[o] = "waiting"
  /\ handler[o][attempt[o]] \in {"replied_200", "replied_500"}
  /\ Conclude(o, "succeeded")
  /\ UNCHANGED <<redis, worker, child, generation, faults, history>>

\* Any answer below 400 counts as success; its status field is not read.
Answered(o) ==
  /\ client[o] = "waiting"
  /\ \/ handler[o][attempt[o]] = "replied_200" /\ Conclude(o, "succeeded")
     \/ handler[o][attempt[o]] = "replied_500" /\ Retry(o)
  /\ UNCHANGED <<redis, worker, child, generation, faults, history>>

\* The connection fails with the request anywhere.
Broken(o) ==
  /\ client[o] = "waiting"
  /\ lost' = lost \cup {o}
  /\ Retry(o)
  /\ UNCHANGED <<redis, worker, child, generation, faults, effect, found, taken>>

\* A deadline that ran out is not retried.
TimedOut(o) ==
  /\ client[o] = "waiting"
  /\ lost' = lost \cup {o}
  /\ Conclude(o, "failed")
  /\ UNCHANGED <<redis, worker, child, generation, faults, effect, found, taken>>

\* Triovexa goes down; what it was waiting for goes on.
Crash(o) ==
  /\ client[o] = "waiting"
  /\ lost' = lost \cup {o}
  /\ Conclude(o, "crashed")
  /\ UNCHANGED <<redis, worker, child, generation, faults, effect, found, taken>>

\* Mutant: an operation the supervisor does not know counts as failed.
ReconcileUnknownAsFailed(o) ==
  /\ client[o] = "crashed"
  /\ Conclude(o, IF result[o] = "succeeded" THEN "succeeded" ELSE "failed")
  /\ UNCHANGED <<redis, worker, child, generation, faults, history>>

\* RecoverStartedExecutions: one GET of the operation, no second dispatch.  A
\* result that is missing, or an error on the way to it, leaves it unknown.
Reconcile(o) ==
  /\ client[o] = "crashed"
  /\ \E s \in {"inconclusive"} \cup ({result[o]} \ {"none"}) : Conclude(o, s)
  /\ UNCHANGED <<redis, worker, child, generation, faults, history>>

Next ==
  \/ \E w \in Workers : RunWorker(w) \/ Die(w) \/ Reap(w)
  \/ \E j \in Jobs : Produce(j)
  \/ \E m \in {"stall", "fail", "healthy"} : SetFault(m)
  \/ \E o \in Ops, n \in Attempts : Serve(o, n)
  \/ \E o \in Ops :
       Execute(o) \/ Answered(o) \/ Broken(o) \/ TimedOut(o) \/ Crash(o) \/ Reconcile(o)

\* Processes and handlers that can go on do, an answer that came is read, and
\* Triovexa comes back after a crash.
Spec ==
  /\ Init /\ [][Next]_vars
  /\ \A w \in Workers : WF_vars(RunWorker(w)) /\ WF_vars(Reap(w))
  /\ \A o \in Ops, n \in Attempts : WF_vars(Serve(o, n))
  /\ \A o \in Ops : WF_vars(Answered(o)) /\ WF_vars(Reconcile(o))
----------------------------------------------------------------------------
(* Type correctness of the stream, the processes, the supervisor and its   *)
(* client.                                                                 *)
TypeOK ==
  /\ job \in [Jobs -> JobStates]
  /\ marked \subseteq Jobs /\ counted \subseteq Jobs
  /\ paused \in BOOLEAN /\ fault \in {"healthy", "stall", "fail"}
  /\ result \in [Ops -> {"none", "succeeded", "failed"}]
  /\ step \in [Workers -> WorkerSteps]
  /\ mode \in [Workers -> {"healthy", "fail"}]
  /\ held \in [Workers -> SUBSET Jobs]
  /\ child \in 0..MaxWorkers /\ generation \in Workers
  /\ handler \in [Ops -> [Attempts -> HandlerSteps]]
  /\ client \in [Ops -> ClientStates]
  /\ attempt \in [Ops -> 0..(Retries + 1)]
  /\ faults \in 0..MaxFaults
  /\ effect \subseteq Ops /\ lost \subseteq Ops
  /\ found \in [Ops -> [Attempts -> 0..MaxWorkers]]
  /\ taken \in Nat

(* At most one worker process runs and it is the one the supervisor would  *)
(* kill: overlapping restarts and late waiters never leave a second        *)
(* consumer on the stream that no operation reaches any more.              *)
WorkersSupervised == \A w \in Workers : step[w] \in Alive => child = w

(* A restart that reports success has replaced the process it found, also  *)
(* when another restart ran in between its two critical sections.          *)
RestartsRenew ==
  \A o \in Ops, n \in Attempts :
    KindOf[o] = "restart_worker" /\ handler[o][n] = "applied" => generation > found[o][n]

(* The worker reads the pause flag before it blocks on the stream, so a    *)
(* job may still be taken after a pause: one, however many processes and   *)
(* restarts there are, never a second.                                     *)
PauseBounded == taken <= 1

(* A message leaves the stream only when its job was counted as processed, *)
(* whatever kills the worker and wherever.                                 *)
LeftMeansProcessed == \A j \in Jobs : job[j] \in {"acked", "deleted"} => j \in counted

(* An execution is recorded as succeeded only when its operation took      *)
(* effect, or when a retry was given the stored failure of an earlier      *)
(* attempt with 200: the one way to a success without an effect.           *)
SuccessHasEffect ==
  \A o \in Ops :
    client[o] = "succeeded" => o \in effect \/ (result[o] = "failed" /\ attempt[o] > 1)

(* Claims keep one execution per target, so operations overlap in the      *)
(* supervisor only when the client of one of them stopped waiting.         *)
ExclusiveUnlessLost ==
  \A o, p \in Ops : \A n, k \in Attempts :
    /\ o # p
    /\ handler[o][n] \notin Finished
    /\ handler[p][k] \notin Finished
    => {o, p} \cap lost # {}

(* Supervisor and client keep the contract between them: what is stored is *)
(* the supervisor's, what was recorded is the client's.                    *)
stored ==
  [o \in Ops |-> IF client[o] = "ready" THEN "none"
                 ELSE IF result[o] = "none" THEN "sent" ELSE result[o]]

call ==
  [o \in Ops |-> CASE client[o] = "ready"   -> "idle"
                   [] client[o] = "waiting" -> "open"
                   [] client[o] = "crashed" -> "lost"
                   [] OTHER                 -> client[o]]

Contract == INSTANCE ControlContract WITH Ids <- Ops

(* Retries that overlap in the supervisor, replayed results, lost answers  *)
(* and a crash show Triovexa one call per operation id, and a success only *)
(* over a stored result: see ControlContract.                              *)
KeepsContract == Contract!Spec

(* README: stable operation ids allow reconciliation after uncertain       *)
(* external effects.  An operation that took effect and whose requests are *)
(* all over has a stored result.                                           *)
EffectsRecorded ==
  \A o \in Ops :
    o \in effect /\ (\A n \in Attempts : handler[o][n] \in Finished) => result[o] # "none"

(* A claimed target becomes free again: retries are bounded, the           *)
(* supervisor answers, and a crash is followed by one reconciliation.      *)
TargetFreed == (\E o \in Ops : Claimed(o)) ~> (\A o \in Ops : ~Claimed(o))

(* While the flags let it and the supervisor keeps a child, the worker     *)
(* takes every job that is queued.                                         *)
QueuedJobsTaken ==
  <>[](~paused /\ fault # "stall" /\ child # 0) => \A j \in Jobs : []<>(job[j] # "queued")
=============================================================================
