--------------------------- MODULE WorkloadProofs ---------------------------
(***************************************************************************)
(* Proofs about Workload, for every set of operations and jobs, any number *)
(* of retries, worker processes and faults.                                *)
(***************************************************************************)
EXTENDS Workload, TLAPS

\* Restarts on their way: the process a restart found is gone, and until
\* another was started nobody has a child.
Renewing ==
  \A o \in Ops, n \in Attempts :
    /\ handler[o][n] \in {"killed", "cleared"} =>
         found[o][n] <= generation /\ (found[o][n] = generation => child = 0)
    /\ KindOf[o] = "restart_worker" /\ handler[o][n] = "applied" => generation > found[o][n]

\* One claim at a time, and an unfinished request nobody lost is the one its
\* client waits for.
Awaited ==
  /\ \A o, p \in Ops : Claimed(o) /\ Claimed(p) => o = p
  /\ \A o \in Ops, n \in Attempts :
       handler[o][n] \notin Finished /\ o \notin lost => Waiting(o, n)

\* A job has one holder, is marked by it at most, and goes on to be acknowledged
\* only when it was counted.
Processing ==
  /\ \A j \in Jobs : job[j] \in {"absent", "queued"} =>
       j \notin marked /\ \A w \in Workers : j \notin held[w]
  /\ \A v, w \in Workers : v # w => held[v] \cap held[w] = {}
  /\ \A w \in Workers :
       /\ step[w] = "delivered" => held[w] \cap marked = {}
       /\ step[w] \in {"counted", "acked"} => held[w] \subseteq counted
  /\ LeftMeansProcessed

\* Whoever reads when the consumer is paused has read the flags before.
Pausing == taken = 0 \/ (taken = 1 /\ paused /\ \A w \in Workers : step[w] # "reading")

\* Where a stored result and an answer come from, for each operation.
NotYet(o)     == (client[o] = "ready" <=> attempt[o] = 0) /\ (attempt[o] = 0 => result[o] = "none")
Unsent(o)     == \A n \in Attempts : n > attempt[o] => handler[o][n] = "none"
Effective(o)  ==
  /\ result[o] = "succeeded" => o \in effect
  /\ \A n \in Attempts :
       /\ handler[o][n] = "applied" => o \in effect
       /\ handler[o][n] = "replied_200" => o \in effect \/ result[o] = "failed"
FirstFails(o) == result[o] = "failed" /\ attempt[o] = 1 => handler[o][1] = "replied_500"
Succeeds(o)   == client[o] = "succeeded" => o \in effect \/ (result[o] = "failed" /\ attempt[o] > 1)

Answers(o) == NotYet(o) /\ Unsent(o) /\ Effective(o) /\ FirstFails(o) /\ Succeeds(o)
Answering  == \A o \in Ops : Answers(o)
----------------------------------------------------------------------------
LEMMA AttemptRange == Attempts \subseteq Nat /\ 1 \in Attempts /\ \A n \in Attempts : 1 <= n /\ n <= Retries + 1
  BY WorkloadAssumption DEF Attempts

\* What a request's step does to the requests.
LEMMA HandleFacts ==
  ASSUME TypeOK, NEW o \in Ops, NEW n \in Attempts, NEW s \in HandlerSteps, Handle(o, n, s)
  PROVE  /\ handler' \in [Ops -> [Attempts -> HandlerSteps]]
         /\ handler'[o][n] = s
         /\ \A p \in Ops, k \in Attempts : p # o \/ k # n => handler'[p][k] = handler[p][k]
  BY DEF Handle, TypeOK

LEMMA EndsFacts ==
  ASSUME TypeOK, NEW ws, Ends(ws)
  PROVE  /\ step' \in [Workers -> WorkerSteps] /\ mode' \in [Workers -> {"healthy", "fail"}]
         /\ held' \in [Workers -> SUBSET Jobs]
         /\ \A w \in Workers : step'[w] \in Alive => step'[w] = step[w] /\ w \notin ws
         /\ \A w \in Workers : held'[w] \subseteq held[w]
         /\ \A w \in Workers : step'[w] \in {step[w], "dead"}
  BY DEF Ends, TypeOK, WorkerSteps, Alive

LEMMA InitTypeOK == Init => TypeOK
<1> SUFFICES ASSUME Init PROVE TypeOK
  OBVIOUS
<1>1. 1 \in Workers /\ 1 \in 0..MaxWorkers /\ 0 \in 0..MaxWorkers /\ 0 \in 0..MaxFaults
      /\ 0 \in 0..(Retries + 1) /\ 0 \in Nat
  BY WorkloadAssumption DEF Workers
<1>2. /\ job \in [Jobs -> JobStates] /\ marked \subseteq Jobs /\ counted \subseteq Jobs
      /\ result \in [Ops -> {"none", "succeeded", "failed"}]
      /\ paused \in BOOLEAN /\ fault \in {"healthy", "stall", "fail"}
  BY DEF Init, JobStates
<1>3. /\ step \in [Workers -> WorkerSteps] /\ mode \in [Workers -> {"healthy", "fail"}]
      /\ held \in [Workers -> SUBSET Jobs]
  BY DEF Init, WorkerSteps
<1>4. /\ handler \in [Ops -> [Attempts -> HandlerSteps]] /\ client \in [Ops -> ClientStates]
      /\ attempt \in [Ops -> 0..(Retries + 1)]
      /\ found \in [Ops -> [Attempts -> 0..MaxWorkers]]
  BY <1>1 DEF Init, HandlerSteps, ClientStates
<1> QED
  BY <1>1, <1>2, <1>3, <1>4 DEF Init, TypeOK

\* A turn of a worker leaves the supervisor and its clients alone.
LEMMA WorkerFrame ==
  ASSUME TypeOK, NEW w \in Workers, RunWorker(w)
  PROVE  /\ step[w] \in Alive
         /\ \E s \in Alive : step' = [step EXCEPT ![w] = s]
         /\ UNCHANGED <<paused, fault, result, super, caller, faults, effect, lost, found>>
  BY DEF RunWorker, ReadFlags, Take, TakeNothing, FailJob, Mark, Count, Ack, Del, Go, Alive,
     WorkerSteps, redis, history

LEMMA WorkerTyped ==
  ASSUME TypeOK, NEW w \in Workers, RunWorker(w)
  PROVE  TypeOK'
<1>1. step' \in [Workers -> WorkerSteps]
  BY WorkerFrame DEF TypeOK, Alive
<1>2. UNCHANGED <<paused, fault, result, super, caller, faults, effect, lost, found>>
  BY WorkerFrame
<1>3. /\ job' \in [Jobs -> JobStates] /\ marked' \subseteq Jobs /\ counted' \subseteq Jobs
      /\ mode' \in [Workers -> {"healthy", "fail"}] /\ held' \in [Workers -> SUBSET Jobs]
      /\ taken' \in Nat
  <2> USE DEF TypeOK, JobStates, redis, history
  <2>1. CASE ReadFlags(w)
    BY <2>1 DEF ReadFlags
  <2>2. CASE Take(w)
    BY <2>2 DEF Take
  <2>3. CASE TakeNothing(w) \/ FailJob(w)
    BY <2>3 DEF TakeNothing, FailJob
  <2>4. CASE Mark(w) \/ Count(w)
    BY <2>4 DEF Mark, Count
  <2>5. CASE Ack(w) \/ Del(w)
    BY <2>5 DEF Ack, Del
  <2> QED
    BY <2>1, <2>2, <2>3, <2>4, <2>5 DEF RunWorker
<1> QED
  BY <1>1, <1>2, <1>3 DEF TypeOK, super, caller

LEMMA ServeTyped ==
  ASSUME TypeOK, NEW o \in Ops, NEW n \in Attempts, Serve(o, n)
  PROVE  TypeOK'
<1> USE DEF TypeOK, redis, worker, caller, history
<1>1. handler' \in [Ops -> [Attempts -> HandlerSteps]]
  <2>1. \E s \in HandlerSteps : Handle(o, n, s)
    BY DEF Serve, Drop, Replay, Lookup, Kill, ClearFault, KeepChild, StartWorker, StartFails,
       SetPaused, SetFails, Store, HandlerSteps
  <2> QED
    BY <2>1, HandleFacts
<1>2. CASE Drop(o, n) \/ Replay(o, n) \/ Lookup(o, n) \/ StartFails(o, n) \/ SetFails(o, n)
  BY <1>1, <1>2 DEF Drop, Replay, Lookup, StartFails, SetFails
<1>3. CASE Kill(o, n)
  <2>1. generation \in 0..MaxWorkers /\ 0 \in 0..MaxWorkers
    BY WorkloadAssumption DEF Workers
  <2>2. found' \in [Ops -> [Attempts -> 0..MaxWorkers]]
    BY <1>3, <2>1 DEF Kill
  <2> QED
    BY <1>1, <1>3, <2>1, <2>2, EndsFacts DEF Kill
<1>4. CASE ClearFault(o, n) \/ KeepChild(o, n)
  BY <1>1, <1>4 DEF ClearFault, KeepChild
<1>5. CASE StartWorker(o, n)
  <2>1. generation + 1 \in Workers /\ generation + 1 \in 0..MaxWorkers
    BY <1>5, WorkloadAssumption DEF StartWorker, Workers
  <2>2. step' \in [Workers -> WorkerSteps]
    BY <1>5, <2>1 DEF StartWorker, Go, WorkerSteps
  <2> QED
    BY <1>1, <1>5, <2>1, <2>2 DEF StartWorker
<1>6. CASE SetPaused(o, n)
  BY <1>1, <1>6 DEF SetPaused
<1>7. CASE Store(o, n)
  <2>1. result' \in [Ops -> {"none", "succeeded", "failed"}]
    BY <1>7 DEF Store, Outcome
  <2>2. found' \in [Ops -> [Attempts -> 0..MaxWorkers]]
    <3>1. 0 \in 0..MaxWorkers
      BY WorkloadAssumption
    <3> QED
      BY <1>7, <3>1 DEF Store
  <2> QED
    BY <1>1, <1>7, <2>1, <2>2 DEF Store
<1> QED
  BY <1>2, <1>3, <1>4, <1>5, <1>6, <1>7 DEF Serve

ClientStep(o) ==
  Execute(o) \/ Answered(o) \/ Broken(o) \/ TimedOut(o) \/ Crash(o) \/ Reconcile(o)

\* What the client's steps do: send a request, or conclude.
LEMMA ClientFacts ==
  ASSUME TypeOK, Answering, NEW o \in Ops, ClientStep(o)
  PROVE  /\ UNCHANGED <<redis, worker, child, generation, faults, effect, found, taken>>
         /\ lost' \in {lost, lost \cup {o}}
         /\ \/ /\ attempt[o] + 1 \in Attempts /\ Handle(o, attempt[o] + 1, "arrived")
               /\ attempt' = [attempt EXCEPT ![o] = attempt[o] + 1]
               /\ client' = [client EXCEPT ![o] = "waiting"]
            \/ /\ UNCHANGED <<attempt, handler>> /\ attempt[o] > 0
               /\ \E s \in ClientStates \ {"ready", "waiting"} : client' = [client EXCEPT ![o] = s]
<1> USE AttemptRange DEF TypeOK, history, ClientStates
<1>1. attempt[o] \in 0..(Retries + 1) /\ Retries \in Nat
  BY WorkloadAssumption
<1>2. ASSUME client[o] = "waiting", Retry(o)
      PROVE  \/ /\ attempt[o] + 1 \in Attempts /\ Handle(o, attempt[o] + 1, "arrived")
                /\ attempt' = [attempt EXCEPT ![o] = attempt[o] + 1]
                /\ client' = [client EXCEPT ![o] = "waiting"]
             \/ /\ UNCHANGED <<attempt, handler>> /\ attempt[o] > 0
                /\ \E s \in ClientStates \ {"ready", "waiting"} : client' = [client EXCEPT ![o] = s]
  <2>1. CASE /\ attempt[o] <= Retries
             /\ attempt' = [attempt EXCEPT ![o] = @ + 1]
             /\ Handle(o, attempt[o] + 1, "arrived")
             /\ UNCHANGED client
    <3>1. client' = [client EXCEPT ![o] = "waiting"]
      BY <1>2, <2>1
    <3>2. attempt[o] + 1 \in Attempts
      BY <1>1, <2>1 DEF Attempts
    <3>3. attempt' = [attempt EXCEPT ![o] = attempt[o] + 1]
      BY <2>1
    <3> QED
      BY <2>1, <3>1, <3>2, <3>3
  <2>2. CASE attempt[o] = Retries + 1 /\ Conclude(o, "failed")
    <3>1. attempt[o] > 0
      BY <1>1, <2>2
    <3>2. "failed" \in ClientStates \ {"ready", "waiting"}
      OBVIOUS
    <3> QED
      BY <2>2, <3>1, <3>2 DEF Conclude
  <2> QED
    BY <1>2, <2>1, <2>2 DEF Retry
<1>3. /\ client[o] = "ready" <=> attempt[o] = 0
      /\ client[o] = "waiting" \/ client[o] = "crashed" => attempt[o] > 0
  <2>1. client[o] = "ready" <=> attempt[o] = 0
    BY DEF Answering, Answers, NotYet
  <2> QED
    BY <1>1, <2>1
<1>4. CASE Execute(o)
  <2>1. /\ Handle(o, 1, "arrived") /\ client' = [client EXCEPT ![o] = "waiting"]
        /\ attempt' = [attempt EXCEPT ![o] = 1] /\ client[o] = "ready"
        /\ UNCHANGED <<redis, worker, child, generation, faults, effect, lost, found, taken>>
    BY <1>4 DEF Execute
  <2>2. attempt[o] + 1 = 1
    BY <1>3, <2>1
  <2> QED
    BY <2>1, <2>2
<1>5. CASE Answered(o)
  <2>1. CASE Conclude(o, "succeeded")
    BY <1>3, <1>5, <2>1 DEF Answered, Conclude
  <2> QED
    BY <1>2, <1>5, <2>1 DEF Answered
<1>6. CASE Broken(o)
  BY <1>2, <1>6 DEF Broken
<1>7. CASE TimedOut(o) \/ Crash(o)
  BY <1>3, <1>7 DEF TimedOut, Crash, Conclude
<1>8. CASE Reconcile(o)
  BY <1>3, <1>8 DEF Reconcile, Conclude
<1> QED
  BY <1>4, <1>5, <1>6, <1>7, <1>8 DEF ClientStep

LEMMA ClientTyped ==
  ASSUME TypeOK, Answering, NEW o \in Ops, ClientStep(o)
  PROVE  TypeOK'
<1>1. handler' \in [Ops -> [Attempts -> HandlerSteps]]
  BY ClientFacts, HandleFacts DEF HandlerSteps, TypeOK
<1>2. attempt' \in [Ops -> 0..(Retries + 1)]
  <2>1. attempt[o] + 1 \in Attempts => attempt[o] + 1 \in 0..(Retries + 1)
    BY WorkloadAssumption DEF Attempts
  <2> QED
    BY <2>1, ClientFacts DEF TypeOK
<1>3. client' \in [Ops -> ClientStates]
  BY ClientFacts DEF TypeOK, ClientStates
<1> QED
  BY <1>1, <1>2, <1>3, ClientFacts DEF TypeOK, redis, worker

LEMMA OthersTyped ==
  ASSUME TypeOK,
         \/ \E w \in Workers : Die(w) \/ Reap(w)
         \/ \E j \in Jobs : Produce(j)
         \/ \E m \in {"stall", "fail", "healthy"} : SetFault(m)
  PROVE  TypeOK'
<1> USE DEF TypeOK, redis, worker, super, caller, history
<1>1. ASSUME NEW w \in Workers, Die(w) PROVE TypeOK'
  BY <1>1, EndsFacts, WorkloadAssumption DEF Die
<1>2. ASSUME NEW w \in Workers, Reap(w) PROVE TypeOK'
  BY <1>2, WorkloadAssumption DEF Reap, Go, WorkerSteps
<1>3. ASSUME NEW j \in Jobs, Produce(j) PROVE TypeOK'
  BY <1>3 DEF Produce, JobStates
<1>4. ASSUME NEW m \in {"stall", "fail", "healthy"}, SetFault(m) PROVE TypeOK'
  BY <1>4, WorkloadAssumption DEF SetFault
<1> QED
  BY <1>1, <1>2, <1>3, <1>4
----------------------------------------------------------------------------
Inv ==
  TypeOK /\ WorkersSupervised /\ Renewing /\ Awaited /\ Processing /\ Pausing /\ Answering

Other ==
  \/ \E w \in Workers : Die(w) \/ Reap(w)
  \/ \E j \in Jobs : Produce(j)
  \/ \E m \in {"stall", "fail", "healthy"} : SetFault(m)

LEMMA InitInv == Init => Inv
<1> SUFFICES ASSUME Init PROVE Inv
  OBVIOUS
<1>1. TypeOK
  BY InitTypeOK
<1>2. WorkersSupervised
  BY DEF Init, WorkersSupervised, Alive
<1>3. \A o \in Ops, n \in Attempts : handler[o][n] = "none"
  BY DEF Init
<1>4. Renewing /\ Awaited
  BY <1>3 DEF Init, Renewing, Awaited, Finished, Claimed
<1>5. Processing
  BY DEF Init, Processing, LeftMeansProcessed
<1>6. Pausing
  BY DEF Init, Pausing
<1>7. Answering
  BY <1>3, AttemptRange
     DEF Init, Answering, Answers, NotYet, Unsent, Effective, FirstFails, Succeeds
<1> QED
  BY <1>1, <1>2, <1>4, <1>5, <1>6, <1>7 DEF Inv

(* The worker process and its supervisor                                   *)

LEMMA SupervisedStep ==
  ASSUME Inv,
         \/ Other
         \/ \E w \in Workers : RunWorker(w)
         \/ \E o \in Ops, n \in Attempts : Serve(o, n)
         \/ \E o \in Ops : ClientStep(o)
  PROVE  WorkersSupervised'
<1> USE DEF Inv, WorkersSupervised
<1>1. ASSUME NEW w \in Workers, RunWorker(w) PROVE WorkersSupervised'
  <2>1. step[w] \in Alive /\ child' = child /\ \E s \in Alive : step' = [step EXCEPT ![w] = s]
    BY <1>1, WorkerFrame DEF super
  <2> QED
    BY <2>1 DEF TypeOK
<1>2. ASSUME NEW w \in Workers, Die(w) PROVE WorkersSupervised'
  BY <1>2, EndsFacts DEF Die, super
<1>3. ASSUME NEW w \in Workers, Reap(w) PROVE WorkersSupervised'
  BY <1>3 DEF Reap, Go, TypeOK, Alive
<1>4. ASSUME NEW j \in Jobs, Produce(j) PROVE WorkersSupervised'
  BY <1>4 DEF Produce, worker, super
<1>5. ASSUME NEW m \in {"stall", "fail", "healthy"}, SetFault(m) PROVE WorkersSupervised'
  BY <1>5 DEF SetFault, worker, super
<1>6. ASSUME NEW o \in Ops, NEW n \in Attempts, Serve(o, n) PROVE WorkersSupervised'
  <2>1. CASE Kill(o, n)
    BY <2>1, EndsFacts DEF Kill
  <2>2. CASE StartWorker(o, n)
    <3>1. \A w \in Workers : step[w] \notin Alive
      BY <2>2 DEF StartWorker, Workers
    <3> QED
      BY <2>2, <3>1 DEF StartWorker, Go, TypeOK
  <2>3. CASE ~Kill(o, n) /\ ~StartWorker(o, n)
    BY <1>6, <2>3 DEF Serve, Drop, Replay, Lookup, ClearFault, KeepChild, StartFails,
       SetPaused, SetFails, Store, worker
  <2> QED
    BY <2>1, <2>2, <2>3
<1>7. ASSUME NEW o \in Ops, ClientStep(o) PROVE WorkersSupervised'
  BY <1>7, ClientFacts DEF worker
<1> QED
  BY <1>1, <1>2, <1>3, <1>4, <1>5, <1>6, <1>7 DEF Other

LEMMA RenewingStep ==
  ASSUME Inv,
         \/ Other
         \/ \E w \in Workers : RunWorker(w)
         \/ \E o \in Ops, n \in Attempts : Serve(o, n)
         \/ \E o \in Ops : ClientStep(o)
  PROVE  Renewing'
<1> USE DEF Inv, Renewing
<1>1. ASSUME NEW w \in Workers, RunWorker(w) PROVE Renewing'
  <2>1. UNCHANGED <<super, found>>
    BY <1>1, WorkerFrame
  <2> QED
    BY <2>1 DEF super
<1>2. CASE Other
  <2>1. UNCHANGED <<generation, handler, found>> /\ child' \in {child, 0}
    BY <1>2 DEF Other, Die, Reap, Produce, SetFault, super, history
  <2> QED
    BY <2>1
<1>3. ASSUME NEW o \in Ops, ClientStep(o) PROVE Renewing'
  <2>1. UNCHANGED <<child, generation, found>>
    BY <1>3, ClientFacts
  <2>2. \A p \in Ops, k \in Attempts : handler'[p][k] \in {handler[p][k], "arrived"}
    <3>1. CASE UNCHANGED handler
      BY <3>1
    <3>2. CASE attempt[o] + 1 \in Attempts /\ Handle(o, attempt[o] + 1, "arrived")
      <4>1. PICK k \in Attempts : Handle(o, k, "arrived")
        BY <3>2
      <4>2. /\ handler'[o][k] = "arrived"
            /\ \A p \in Ops, m \in Attempts : p # o \/ m # k => handler'[p][m] = handler[p][m]
        BY <4>1, HandleFacts DEF HandlerSteps
      <4> QED
        BY <4>2
    <3> QED
      BY <1>3, <3>1, <3>2, ClientFacts
  <2> QED
    BY <2>1, <2>2
<1>4. ASSUME NEW o \in Ops, NEW n \in Attempts, Serve(o, n) PROVE Renewing'
  <2> DEFINE Rest == \A p \in Ops, k \in Attempts : p # o \/ k # n => handler'[p][k] = handler[p][k]
  <2> USE DEF HandlerSteps
  <2>0. /\ generation \in Nat
        /\ found \in [Ops -> [Attempts -> 0..MaxWorkers]]
        /\ \A p \in Ops, k \in Attempts : found[p][k] \in Int
    <3>1. generation \in 1..MaxWorkers /\ MaxWorkers \in Nat
      BY WorkloadAssumption DEF TypeOK, Workers
    <3>2. found \in [Ops -> [Attempts -> 0..MaxWorkers]]
      BY DEF TypeOK
    <3>3. \A p \in Ops, k \in Attempts : found[p][k] \in 0..MaxWorkers
      BY <3>2
    <3> QED
      BY <3>1, <3>2, <3>3
  <2>1. CASE Kill(o, n)
    <3>1. Rest /\ handler'[o][n] = "killed" /\ child' = 0 /\ UNCHANGED generation
      BY <2>1, HandleFacts DEF Kill
    <3>2. /\ found'[o][n] = generation
          /\ \A p \in Ops, k \in Attempts : p # o \/ k # n => found'[p][k] = found[p][k]
      BY <2>0, <2>1 DEF Kill
    <3> QED
      BY <2>0, <3>1, <3>2
  <2>2. CASE ClearFault(o, n)
    <3>1. Rest /\ handler[o][n] = "killed" /\ handler'[o][n] = "cleared"
          /\ UNCHANGED <<child, generation, found>>
      BY <2>2, HandleFacts DEF ClearFault, history
    <3> QED
      BY <3>1
  <2>3. CASE KeepChild(o, n)
    <3>1. Rest /\ handler[o][n] = "cleared" /\ child # 0 /\ handler'[o][n] = "applied"
          /\ UNCHANGED <<child, generation, found>>
      BY <2>3, HandleFacts DEF KeepChild
    <3> QED
      BY <2>0, <3>1
  <2>4. CASE StartWorker(o, n)
    <3>1. /\ Rest /\ handler[o][n] = "cleared" /\ handler'[o][n] = "applied"
          /\ generation' = generation + 1 /\ UNCHANGED found
      BY <2>4, HandleFacts DEF StartWorker
    <3> QED
      BY <2>0, <3>1
  <2>5. CASE SetPaused(o, n)
    <3>1. Rest /\ handler'[o][n] \in {"applied", "failed"} /\ KindOf[o] # "restart_worker"
          /\ UNCHANGED <<child, generation, found>>
      BY <2>5, HandleFacts DEF SetPaused
    <3> QED
      BY <3>1
  <2>6. CASE Store(o, n)
    <3>1. Rest /\ handler'[o][n] \in {"replied_200", "replied_500"} /\ UNCHANGED <<child, generation>>
      BY <2>6, HandleFacts DEF Store
    <3>2. \A p \in Ops, k \in Attempts : p # o \/ k # n => found'[p][k] = found[p][k]
      BY <2>0, <2>6 DEF Store
    <3>3. \A p \in Ops, k \in Attempts : handler'[p][k] \in {"killed", "cleared", "applied"} =>
            handler'[p][k] = handler[p][k] /\ found'[p][k] = found[p][k]
      BY <3>1, <3>2
    <3>4. child' = child /\ generation' = generation
      BY <3>1
    <3> HIDE DEF Rest
    <3> QED
      BY <3>3, <3>4
  <2>7. CASE Drop(o, n) \/ Replay(o, n) \/ Lookup(o, n) \/ StartFails(o, n) \/ SetFails(o, n)
    <3>1. Rest /\ handler'[o][n] \in {"dropped", "replied_200", "looked", "failed"}
          /\ UNCHANGED <<child, generation, found>>
      BY <2>7, HandleFacts DEF Drop, Replay, Lookup, StartFails, SetFails, history
    <3> QED
      BY <3>1
  <2> QED
    BY <1>4, <2>1, <2>2, <2>3, <2>4, <2>5, <2>6, <2>7 DEF Serve
<1> QED
  BY <1>1, <1>2, <1>3, <1>4

(* The claim and the requests of an execution                              *)

LEMMA AwaitedStep ==
  ASSUME Inv,
         \/ Other
         \/ \E w \in Workers : RunWorker(w)
         \/ \E o \in Ops, n \in Attempts : Serve(o, n)
         \/ \E o \in Ops : ClientStep(o)
  PROVE  Awaited'
<1> USE DEF Inv
<1>1. CASE Other \/ \E w \in Workers : RunWorker(w)
  <2>1. UNCHANGED <<handler, client, attempt, lost>>
    BY <1>1, WorkerFrame DEF Other, Die, Reap, Produce, SetFault, super, caller, history
  <2> QED
    BY <2>1 DEF Awaited, Claimed, Waiting
<1>2. ASSUME NEW o \in Ops, NEW n \in Attempts, Serve(o, n) PROVE Awaited'
  <2>1. UNCHANGED <<client, attempt, lost>>
    BY <1>2 DEF Serve, Drop, Replay, Lookup, Kill, ClearFault, KeepChild, StartWorker, StartFails,
       SetPaused, SetFails, Store, caller, history
  <2>2. handler[o][n] \notin Finished
    BY <1>2 DEF Serve, Drop, Replay, Lookup, Kill, ClearFault, KeepChild, StartWorker, StartFails,
       SetPaused, SetFails, Store, Finished
  <2>3. PICK s \in HandlerSteps : Handle(o, n, s)
    BY <1>2 DEF Serve, Drop, Replay, Lookup, Kill, ClearFault, KeepChild, StartWorker, StartFails,
       SetPaused, SetFails, Store, HandlerSteps
  <2>4. \A p \in Ops, k \in Attempts : p # o \/ k # n => handler'[p][k] = handler[p][k]
    BY <2>3, HandleFacts
  <2>5. \A p \in Ops, k \in Attempts :
          handler'[p][k] \notin Finished => handler[p][k] \notin Finished
    BY <2>2, <2>4
  <2> QED
    BY <2>1, <2>5 DEF Awaited, Claimed, Waiting
<1>3. ASSUME NEW o \in Ops, ClientStep(o) PROVE Awaited'
  <2>1. \A p \in Ops \ {o} : client'[p] = client[p] /\ attempt'[p] = attempt[p]
    BY <1>3, ClientFacts DEF TypeOK
  <2>2. \A p, q \in Ops : Claimed(p)' /\ Claimed(q)' => p = q
    <3>1. Claimed(o)' => \A p \in Ops \ {o} : ~Claimed(p)
      <4>1. CASE Execute(o)
        BY <4>1 DEF Execute
      <4>2. CASE Claimed(o)
        BY <4>2 DEF Awaited
      <4> QED
        BY <1>3, <4>1, <4>2 DEF ClientStep, Answered, Broken, TimedOut, Crash, Reconcile, Claimed
    <3>2. \A p \in Ops \ {o} : Claimed(p)' <=> Claimed(p)
      BY <2>1 DEF Claimed
    <3> QED
      BY <3>1, <3>2 DEF Awaited
  <2>3. o \notin lost' => \A n \in Attempts : handler[o][n] \in Finished
    <3> SUFFICES ASSUME o \notin lost', NEW n \in Attempts, handler[o][n] \notin Finished
                 PROVE  FALSE
      OBVIOUS
    <3>1. client[o] = "waiting" /\ attempt[o] = n
      BY <1>3, ClientFacts DEF Awaited, Waiting
    <3>2. Answered(o)
      BY <1>3, <3>1 DEF ClientStep, Execute, Broken, TimedOut, Crash, Reconcile
    <3> QED
      BY <3>1, <3>2 DEF Answered, Finished
  <2>4. ASSUME NEW p \in Ops, NEW n \in Attempts, handler'[p][n] \notin Finished, p \notin lost'
        PROVE  Waiting(p, n)'
    <3>1. CASE UNCHANGED <<attempt, handler>>
      <4>1. p # o
        BY <2>3, <2>4, <3>1
      <4>2. Waiting(p, n)
        BY <1>3, <2>4, <3>1, ClientFacts DEF Awaited
      <4> QED
        BY <2>1, <4>1, <4>2 DEF Waiting
    <3>2. CASE /\ attempt[o] + 1 \in Attempts /\ Handle(o, attempt[o] + 1, "arrived")
               /\ attempt' = [attempt EXCEPT ![o] = attempt[o] + 1]
               /\ client' = [client EXCEPT ![o] = "waiting"]
      <4>1. PICK m \in Attempts : m = attempt[o] + 1 /\ Handle(o, m, "arrived")
        BY <3>2
      <4>2. /\ handler'[o][m] = "arrived"
            /\ \A q \in Ops, k \in Attempts : q # o \/ k # m => handler'[q][k] = handler[q][k]
        BY <4>1, HandleFacts DEF HandlerSteps
      <4>3. CASE p = o /\ n = m
        <5>1. attempt'[o] = m /\ client'[o] = "waiting"
          BY <3>2, <4>1 DEF TypeOK
        <5> QED
          BY <4>3, <5>1 DEF Waiting
      <4>4. CASE p = o /\ n # m
        BY <2>3, <2>4, <4>2, <4>4
      <4>5. CASE p # o
        <5>1. Waiting(p, n)
          BY <1>3, <2>4, <4>2, <4>5, ClientFacts DEF Awaited
        <5> QED
          BY <2>1, <4>5, <5>1 DEF Waiting
      <4> QED
        BY <4>3, <4>4, <4>5
    <3> QED
      BY <1>3, <3>1, <3>2, ClientFacts
  <2> QED
    BY <2>2, <2>4 DEF Awaited
<1> QED
  BY <1>1, <1>2, <1>3

(* The jobs of the stream                                                  *)

LEMMA ProcessingStep ==
  ASSUME Inv,
         \/ Other
         \/ \E w \in Workers : RunWorker(w)
         \/ \E o \in Ops, n \in Attempts : Serve(o, n)
         \/ \E o \in Ops : ClientStep(o)
  PROVE  Processing'
<1> USE DEF Inv
<1>1. ASSUME UNCHANGED <<marked, counted>>,
             \A j \in Jobs : job'[j] = job[j] \/ (job[j] = "absent" /\ job'[j] = "queued"),
             \A w \in Workers : held'[w] \subseteq held[w],
             \A w \in Workers : step'[w] = step[w] \/ step'[w] \in {"dead", "reaped", "loop", "reading"}
      PROVE  Processing'
  BY <1>1 DEF Processing, LeftMeansProcessed
<1>2. CASE Other
  <2>1. ASSUME NEW w \in Workers, Die(w) PROVE Processing'
    BY <1>1, <2>1, EndsFacts DEF Die, redis
  <2>2. ASSUME NEW w \in Workers, Reap(w) PROVE Processing'
    BY <1>1, <2>2 DEF Reap, redis, Go, TypeOK
  <2>3. ASSUME NEW j \in Jobs, Produce(j) PROVE Processing'
    BY <1>1, <2>3 DEF Produce, worker, TypeOK
  <2>4. ASSUME NEW m \in {"stall", "fail", "healthy"}, SetFault(m) PROVE Processing'
    BY <1>1, <2>4 DEF SetFault, worker
  <2> QED
    BY <1>2, <2>1, <2>2, <2>3, <2>4 DEF Other
<1>3. ASSUME NEW o \in Ops, ClientStep(o) PROVE Processing'
  BY <1>1, <1>3, ClientFacts DEF redis, worker
<1>4. ASSUME NEW o \in Ops, NEW n \in Attempts, Serve(o, n) PROVE Processing'
  <2>1. UNCHANGED <<job, marked, counted>>
    BY <1>4 DEF Serve, Drop, Replay, Lookup, Kill, ClearFault, KeepChild, StartWorker, StartFails,
       SetPaused, SetFails, Store, redis
  <2>2. CASE Kill(o, n)
    BY <1>1, <2>1, <2>2, EndsFacts DEF Kill
  <2>3. CASE StartWorker(o, n)
    BY <1>1, <2>1, <2>3 DEF StartWorker, Go, TypeOK
  <2>4. CASE ~Kill(o, n) /\ ~StartWorker(o, n)
    <3>1. UNCHANGED worker
      BY <1>4, <2>4 DEF Serve, Drop, Replay, Lookup, ClearFault, KeepChild, StartFails,
         SetPaused, SetFails, Store
    <3> QED
      BY <1>1, <2>1, <3>1 DEF worker
  <2> QED
    BY <2>2, <2>3, <2>4
<1>5. ASSUME NEW w \in Workers, RunWorker(w) PROVE Processing'
  <2>1. CASE ReadFlags(w) \/ TakeNothing(w)
    BY <1>1, <2>1 DEF ReadFlags, TakeNothing, Go, redis, TypeOK
  <2>2. CASE FailJob(w)
    BY <1>1, <2>2 DEF FailJob, Go, redis, TypeOK
  <2>3. CASE Take(w)
    <3>1. PICK j \in Jobs : /\ job[j] = "queued" /\ job' = [job EXCEPT ![j] = "pending"]
                            /\ held' = [held EXCEPT ![w] = {j}]
      BY <2>3 DEF Take
    <3>2. UNCHANGED <<marked, counted>> /\ step' = [step EXCEPT ![w] = "delivered"]
      BY <2>3 DEF Take, Go
    <3>3. j \notin marked /\ \A v \in Workers : j \notin held[v]
      BY <3>1 DEF Processing
    <3> QED
      BY <3>1, <3>2, <3>3 DEF Processing, LeftMeansProcessed, TypeOK
  <2>4. CASE Mark(w)
    <3>1. /\ step[w] = "delivered" /\ marked' = marked \cup held[w] /\ UNCHANGED <<job, counted, held>>
          /\ step' = [step EXCEPT ![w] = IF held[w] \subseteq marked THEN "counted" ELSE "marked"]
      BY <2>4 DEF Mark, Go
    <3>2. held[w] \cap marked = {}
      BY <3>1 DEF Processing
    <3> QED
      BY <3>1, <3>2 DEF Processing, LeftMeansProcessed, TypeOK
  <2>5. CASE Count(w)
    BY <2>5 DEF Count, Go, Processing, LeftMeansProcessed, TypeOK
  <2>6. CASE Ack(w)
    <3>1. /\ step[w] = "counted" /\ UNCHANGED <<marked, counted, held>>
          /\ job' = [j \in Jobs |-> IF j \in held[w] THEN "acked" ELSE job[j]]
          /\ step' = [step EXCEPT ![w] = "acked"]
      BY <2>6 DEF Ack, Go
    <3> QED
      BY <3>1 DEF Processing, LeftMeansProcessed, TypeOK
  <2>7. CASE Del(w)
    <3>1. /\ step[w] = "acked" /\ UNCHANGED <<marked, counted>>
          /\ job' = [j \in Jobs |-> IF j \in held[w] THEN "deleted" ELSE job[j]]
          /\ held' = [held EXCEPT ![w] = {}] /\ step' = [step EXCEPT ![w] = "loop"]
      BY <2>7 DEF Del, Go
    <3> QED
      BY <3>1 DEF Processing, LeftMeansProcessed, TypeOK
  <2> QED
    BY <1>5, <2>1, <2>2, <2>3, <2>4, <2>5, <2>6, <2>7 DEF RunWorker
<1> QED
  BY <1>2, <1>3, <1>4, <1>5

(* The pause flag                                                          *)

LEMMA PausingStep ==
  ASSUME Inv,
         \/ Other
         \/ \E w \in Workers : RunWorker(w)
         \/ \E o \in Ops, n \in Attempts : Serve(o, n)
         \/ \E o \in Ops : ClientStep(o)
  PROVE  Pausing'
<1> USE DEF Inv
<1>1. ASSUME UNCHANGED <<taken, paused>>,
             \A w \in Workers : step'[w] = "reading" => step[w] = "reading"
      PROVE  Pausing'
  BY <1>1 DEF Pausing
<1>2. CASE Other
  <2>1. ASSUME NEW w \in Workers, Die(w) PROVE Pausing'
    BY <1>1, <2>1, EndsFacts DEF Die, redis, history
  <2>2. ASSUME NEW w \in Workers, Reap(w) PROVE Pausing'
    BY <1>1, <2>2 DEF Reap, redis, history, Go, TypeOK
  <2>3. CASE (\E j \in Jobs : Produce(j)) \/ \E m \in {"stall", "fail", "healthy"} : SetFault(m)
    BY <1>1, <2>3 DEF Produce, SetFault, worker, history
  <2> QED
    BY <1>2, <2>1, <2>2, <2>3 DEF Other
<1>3. ASSUME NEW o \in Ops, ClientStep(o) PROVE Pausing'
  BY <1>1, <1>3, ClientFacts DEF redis, worker
<1>4. ASSUME NEW o \in Ops, NEW n \in Attempts, Serve(o, n) PROVE Pausing'
  <2>1. CASE Kill(o, n)
    BY <1>1, <2>1, EndsFacts DEF Kill, redis
  <2>2. CASE StartWorker(o, n)
    BY <1>1, <2>2 DEF StartWorker, Go, TypeOK, redis
  <2>3. CASE SetPaused(o, n)
    BY <2>3 DEF SetPaused, Pausing
  <2>4. CASE ~Kill(o, n) /\ ~StartWorker(o, n) /\ ~SetPaused(o, n)
    <3>1. UNCHANGED <<step, taken, paused>>
      BY <1>4, <2>4 DEF Serve, Drop, Replay, Lookup, ClearFault, KeepChild, StartFails,
         SetFails, Store, worker, redis, history
    <3> QED
      BY <1>1, <3>1
  <2> QED
    BY <2>1, <2>2, <2>3, <2>4
<1>5. ASSUME NEW w \in Workers, RunWorker(w) PROVE Pausing'
  <2>1. CASE ReadFlags(w)
    BY <2>1 DEF ReadFlags, Pausing, redis, history
  <2>2. CASE Take(w)
    <3>1. taken = 0
      BY <2>2 DEF Take, Pausing
    <3>2. \A v \in Workers : step[v] = "reading" => v = w
      BY <2>2 DEF Take, WorkersSupervised, Alive, WorkerSteps
    <3>3. \A v \in Workers : step'[v] # "reading"
      BY <2>2, <3>2 DEF Take, Go, TypeOK
    <3> QED
      BY <2>2, <3>1, <3>3 DEF Take, Pausing
  <2>3. CASE ~ReadFlags(w) /\ ~Take(w)
    <3>1. UNCHANGED <<taken, paused>>
      BY <1>5, <2>3 DEF RunWorker, TakeNothing, FailJob, Mark, Count, Ack, Del, redis, history
    <3>2. \E t \in {"loop", "counted", "marked", "acked"} : step' = [step EXCEPT ![w] = t]
      BY <1>5, <2>3 DEF RunWorker, TakeNothing, FailJob, Mark, Count, Ack, Del, Go
    <3> QED
      BY <1>1, <3>1, <3>2 DEF TypeOK
  <2> QED
    BY <2>1, <2>2, <2>3
<1> QED
  BY <1>2, <1>3, <1>4, <1>5

(* Results and answers                                                     *)

\* A request inside the supervisor was sent.
LEMMA Sent ==
  ASSUME Inv, NEW o \in Ops, NEW n \in Attempts, handler[o][n] # "none"
  PROVE  n <= attempt[o] /\ attempt[o] > 0 /\ attempt[o] \in Nat /\ n \in Nat /\ n >= 1
<1>1. attempt[o] \in Nat /\ n \in Nat /\ n >= 1
  <2>1. attempt[o] \in 0..(Retries + 1) /\ Retries \in Nat
    BY WorkloadAssumption DEF Inv, TypeOK
  <2>2. n \in Nat /\ n >= 1
    BY WorkloadAssumption DEF Attempts
  <2> QED
    BY <2>1, <2>2
<1>2. ~(n > attempt[o])
  BY DEF Inv, Answering, Answers, Unsent
<1> QED
  BY <1>1, <1>2

\* What a step of another operation leaves alone.
LEMMA AnswersKept ==
  ASSUME NEW p \in Ops, Answers(p), effect \subseteq effect',
         client'[p] = client[p], attempt'[p] = attempt[p], result'[p] = result[p],
         \A k \in Attempts : handler'[p][k] = handler[p][k]
  PROVE  Answers(p)'
<1>1. NotYet(p)' /\ Succeeds(p)'
  BY DEF Answers, NotYet, Succeeds
<1>2. Unsent(p)'
  BY DEF Answers, Unsent
<1>3. Effective(p)'
  BY DEF Answers, Effective
<1>4. FirstFails(p)'
  BY AttemptRange DEF Answers, FirstFails
<1> QED
  BY <1>1, <1>2, <1>3, <1>4 DEF Answers

LEMMA ServeAnswers ==
  ASSUME Inv, NEW o \in Ops, NEW n \in Attempts, Serve(o, n)
  PROVE  Answering'
<1> USE DEF Inv
<1>1. UNCHANGED <<client, attempt>>
  BY DEF Serve, Drop, Replay, Lookup, Kill, ClearFault, KeepChild, StartWorker, StartFails,
     SetPaused, SetFails, Store, caller
<1>2. handler[o][n] # "none"
  BY DEF Serve, Drop, Replay, Lookup, Kill, ClearFault, KeepChild, StartWorker, StartFails,
     SetPaused, SetFails, Store
<1>3. PICK s \in HandlerSteps : Handle(o, n, s)
  BY DEF Serve, Drop, Replay, Lookup, Kill, ClearFault, KeepChild, StartWorker, StartFails,
     SetPaused, SetFails, Store, HandlerSteps
<1>4. /\ handler'[o][n] = s
      /\ \A p \in Ops, k \in Attempts : p # o \/ k # n => handler'[p][k] = handler[p][k]
  BY <1>3, HandleFacts
<1>5. n <= attempt[o] /\ attempt[o] > 0 /\ attempt[o] \in Nat /\ n \in Nat /\ n >= 1
  BY <1>2, Sent
<1>6. effect \subseteq effect' /\ \A p \in Ops : p # o => result'[p] = result[p]
  BY DEF Serve, Drop, Replay, Lookup, Kill, ClearFault, KeepChild, StartWorker, StartFails,
     SetPaused, SetFails, Store, redis, history, TypeOK
<1>7. Answers(o) /\ Effective(o)
  BY DEF Answering, Answers
<1>8. /\ result'[o] = "succeeded" => o \in effect'
      /\ s = "applied" => o \in effect'
      /\ s = "replied_200" => o \in effect' \/ result'[o] = "failed"
      /\ result'[o] = "failed" /\ result[o] # "failed" => s = "replied_500"
      /\ result[o] = "failed" /\ result'[o] # "failed" => o \in effect'
      /\ handler[o][n] # "replied_500"
  <2>1. CASE Store(o, n)
    <3>1. UNCHANGED effect /\ result'[o] \in {result[o], Outcome(o, n)}
          /\ handler[o][n] \in {"applied", "failed"}
          /\ handler'[o][n] = IF handler[o][n] = "applied" THEN "replied_200" ELSE "replied_500"
      BY <2>1, HandleFacts DEF Store, HandlerSteps, TypeOK
    <3>2. handler[o][n] = "applied" => o \in effect
      BY <1>7 DEF Effective
    <3>3. result[o] = "succeeded" => o \in effect
      BY <1>7 DEF Effective
    <3> QED
      BY <1>4, <3>1, <3>2, <3>3 DEF Outcome
  <2>2. CASE Replay(o, n)
    <3>1. UNCHANGED <<effect, result>> /\ result[o] # "none" /\ handler[o][n] = "arrived"
          /\ handler'[o][n] = "replied_200"
      BY <2>2, HandleFacts DEF Replay, HandlerSteps, redis, history
    <3>2. result[o] \in {"succeeded", "failed"}
      BY <3>1 DEF TypeOK
    <3> QED
      BY <1>4, <1>7, <3>1, <3>2 DEF Effective
  <2>3. CASE KeepChild(o, n) \/ StartWorker(o, n) \/ SetPaused(o, n)
    <3>1. UNCHANGED result /\ o \in effect' /\ handler[o][n] # "replied_500"
          /\ handler'[o][n] \in {"applied", "failed"}
      BY <2>3, HandleFacts DEF KeepChild, StartWorker, SetPaused, HandlerSteps, redis
    <3> QED
      BY <1>4, <3>1
  <2>4. CASE Drop(o, n) \/ Lookup(o, n) \/ Kill(o, n) \/ ClearFault(o, n) \/ StartFails(o, n)
             \/ SetFails(o, n)
    <3>1. UNCHANGED <<result, effect>> /\ handler[o][n] # "replied_500"
          /\ handler'[o][n] \in {"dropped", "looked", "killed", "cleared", "failed"}
      BY <2>4, HandleFacts
         DEF Drop, Lookup, Kill, ClearFault, StartFails, SetFails, HandlerSteps, redis, history
    <3> QED
      BY <1>4, <1>7, <3>1 DEF Effective
  <2> QED
    BY <2>1, <2>2, <2>3, <2>4 DEF Serve
<1>9. Answers(o)'
  <2>1. NotYet(o)'
    BY <1>1, <1>5, <1>7 DEF Answers, NotYet
  <2>2. Unsent(o)'
    BY <1>1, <1>4, <1>5, <1>7 DEF Answers, Unsent
  <2>3. Effective(o)'
    BY <1>4, <1>6, <1>7, <1>8 DEF Effective
  <2>4. FirstFails(o)'
    <3> SUFFICES ASSUME result'[o] = "failed", attempt[o] = 1 PROVE handler'[o][1] = "replied_500"
      BY <1>1 DEF FirstFails
    <3>1. n = 1
      BY <1>5
    <3>2. result[o] # "failed"
      BY <1>7, <1>8, <3>1 DEF Answers, FirstFails
    <3> QED
      BY <1>4, <1>8, <3>1, <3>2
  <2>5. Succeeds(o)'
    BY <1>1, <1>6, <1>7, <1>8 DEF Answers, Succeeds
  <2> QED
    BY <2>1, <2>2, <2>3, <2>4, <2>5 DEF Answers
<1>10. ASSUME NEW p \in Ops, p # o PROVE Answers(p)'
  BY <1>1, <1>4, <1>6, <1>10, AnswersKept DEF Answering
<1> QED
  BY <1>9, <1>10 DEF Answering

LEMMA ClientAnswers ==
  ASSUME Inv, NEW o \in Ops, ClientStep(o)
  PROVE  Answering'
<1> USE DEF Inv
<1>1. UNCHANGED <<result, effect>>
  BY ClientFacts DEF redis
<1>2. \A p \in Ops : p # o => client'[p] = client[p] /\ attempt'[p] = attempt[p]
  BY ClientFacts DEF TypeOK
<1>3. Answers(o) /\ NotYet(o) /\ Unsent(o) /\ Effective(o) /\ FirstFails(o)
  BY DEF Answering, Answers
<1>4. attempt[o] \in Nat
  BY WorkloadAssumption DEF TypeOK
<1>5. ASSUME NEW m \in Attempts, m = attempt[o] + 1, Handle(o, m, "arrived"),
             attempt' = [attempt EXCEPT ![o] = m], client' = [client EXCEPT ![o] = "waiting"]
      PROVE  Answering'
  <2>1. handler'[o][m] = "arrived"
    BY <1>5, HandleFacts DEF HandlerSteps
  <2>2. \A p \in Ops, k \in Attempts : p # o \/ k # m => handler'[p][k] = handler[p][k]
    BY <1>5, HandleFacts DEF HandlerSteps
  <2>3. attempt'[o] = m /\ client'[o] = "waiting"
    BY <1>5 DEF TypeOK
  <2>4. NotYet(o)' /\ Succeeds(o)'
    BY <1>4, <1>5, <2>3 DEF NotYet, Succeeds
  <2>5. Unsent(o)'
    <3> SUFFICES ASSUME NEW k \in Attempts, k > m PROVE handler'[o][k] = "none"
      BY <2>3 DEF Unsent
    <3>1. k \in Nat /\ k > attempt[o] /\ k # m
      BY <1>4, <1>5, AttemptRange
    <3> QED
      BY <1>3, <2>2, <3>1 DEF Unsent
  <2>6. Effective(o)'
    BY <1>1, <1>3, <2>1, <2>2 DEF Effective
  <2>7. FirstFails(o)'
    <3>1. m = 1 => attempt[o] = 0
      BY <1>4, <1>5
    <3>2. m = 1 => result'[o] = "none"
      BY <1>1, <1>3, <3>1 DEF NotYet
    <3> QED
      BY <2>3, <3>2 DEF FirstFails
  <2>8. ASSUME NEW p \in Ops, p # o PROVE Answers(p)'
    BY <1>1, <1>2, <2>2, <2>8, AnswersKept DEF Answering
  <2> QED
    BY <2>4, <2>5, <2>6, <2>7, <2>8 DEF Answering, Answers
<1>6. ASSUME UNCHANGED <<attempt, handler>>, attempt[o] > 0,
             NEW s \in ClientStates \ {"ready", "waiting"}, client' = [client EXCEPT ![o] = s]
      PROVE  Answering'
  <2>1. attempt[o] # 0 /\ client'[o] = s /\ s # "ready"
    BY <1>4, <1>6 DEF TypeOK
  <2>2. s = "succeeded" => o \in effect \/ (result[o] = "failed" /\ attempt[o] > 1)
    <3> SUFFICES ASSUME s = "succeeded", o \notin effect PROVE result[o] = "failed" /\ attempt[o] > 1
      OBVIOUS
    <3>1. attempt[o] \in Attempts
      BY <1>6, WorkloadAssumption DEF TypeOK, Attempts
    <3>2. CASE Answered(o)
      <4>1. handler[o][attempt[o]] = "replied_200"
        BY <1>6, <2>1, <3>2 DEF Answered, Retry, Conclude, TypeOK
      <4>2. result[o] = "failed"
        BY <1>3, <3>1, <4>1 DEF Effective
      <4>3. attempt[o] # 1
        BY <1>3, <4>1, <4>2 DEF FirstFails
      <4> QED
        BY <1>4, <1>6, <4>2, <4>3
    <3>3. CASE Reconcile(o)
      <4>1. result[o] = "succeeded"
        BY <2>1, <3>3 DEF Reconcile, Conclude, TypeOK
      <4> QED
        BY <1>3, <4>1 DEF Effective
    <3> QED
      BY <1>6, <2>1, <3>2, <3>3
         DEF ClientStep, Execute, Broken, TimedOut, Crash, Retry, Conclude, TypeOK
  <2>3. Answers(o)'
    BY <1>1, <1>3, <1>6, <2>1, <2>2
       DEF Answers, NotYet, Unsent, Effective, FirstFails, Succeeds
  <2>4. ASSUME NEW p \in Ops, p # o PROVE Answers(p)'
    BY <1>1, <1>2, <1>6, <2>4, AnswersKept DEF Answering
  <2> QED
    BY <2>3, <2>4 DEF Answering
<1> QED
  BY <1>5, <1>6, ClientFacts

LEMMA StepInv == Inv /\ [Next]_vars => Inv'
<1> SUFFICES ASSUME Inv, [Next]_vars PROVE Inv'
  OBVIOUS
<1>1. CASE Other
  <2>1. UNCHANGED <<handler, client, attempt, result, effect>>
    BY <1>1 DEF Other, Die, Reap, Produce, SetFault, redis, super, caller, history
  <2>2. Answering'
    BY <2>1, AnswersKept DEF Inv, Answering
  <2>3. TypeOK'
    BY <1>1, OthersTyped DEF Inv, Other
  <2> QED
    BY <1>1, <2>2, <2>3, SupervisedStep, RenewingStep, AwaitedStep, ProcessingStep,
       PausingStep DEF Inv
<1>2. ASSUME NEW w \in Workers, RunWorker(w) PROVE Inv'
  <2>1. UNCHANGED <<handler, client, attempt, result, effect>>
    BY <1>2, WorkerFrame DEF Inv, super, caller
  <2>2. Answering'
    BY <2>1, AnswersKept DEF Inv, Answering
  <2>3. TypeOK'
    BY <1>2, WorkerTyped DEF Inv
  <2> QED
    BY <1>2, <2>2, <2>3, SupervisedStep, RenewingStep, AwaitedStep, ProcessingStep,
       PausingStep DEF Inv
<1>3. ASSUME NEW o \in Ops, NEW n \in Attempts, Serve(o, n) PROVE Inv'
  <2>1. TypeOK'
    BY <1>3, ServeTyped DEF Inv
  <2> QED
    BY <1>3, <2>1, SupervisedStep, RenewingStep, AwaitedStep, ProcessingStep, PausingStep,
       ServeAnswers DEF Inv
<1>4. ASSUME NEW o \in Ops, ClientStep(o) PROVE Inv'
  <2>1. TypeOK'
    BY <1>4, ClientTyped DEF Inv
  <2> QED
    BY <1>4, <2>1, SupervisedStep, RenewingStep, AwaitedStep, ProcessingStep, PausingStep,
       ClientAnswers DEF Inv
<1>5. CASE UNCHANGED vars
  <2> USE <1>5 DEF Inv, vars, redis, worker, super, caller, history
  <2>1. TypeOK' /\ WorkersSupervised' /\ Renewing' /\ Pausing'
    BY DEF TypeOK, WorkersSupervised, Renewing, Pausing
  <2>2. Awaited' /\ Processing'
    BY DEF Awaited, Claimed, Waiting, Processing, LeftMeansProcessed
  <2>3. Answering'
    BY AnswersKept DEF Answering
  <2> QED
    BY <2>1, <2>2, <2>3
<1> QED
  BY <1>1, <1>2, <1>3, <1>4, <1>5 DEF Next, Other, ClientStep
----------------------------------------------------------------------------
\* The stream, the processes, the supervisor and its client stay well typed.
THEOREM WorkloadTyped == Spec => []TypeOK
<1>1. Inv => TypeOK
  BY DEF Inv
<1> QED
  BY <1>1, InitInv, StepInv, PTL DEF Spec

\* Overlapping restarts, dying processes and late waiters never leave a worker
\* that the supervisor does not hold.
THEOREM Supervision == Spec => []WorkersSupervised
<1>1. Inv => WorkersSupervised
  BY DEF Inv
<1> QED
  BY <1>1, InitInv, StepInv, PTL DEF Spec

\* A restart that succeeds has replaced the process it found.
THEOREM Renewal == Spec => []RestartsRenew
<1>1. Inv => RestartsRenew
  BY DEF Inv, Renewing, RestartsRenew
<1> QED
  BY <1>1, InitInv, StepInv, PTL DEF Spec

\* After a pause at most one job is still taken.
THEOREM PauseTakesOne == Spec => []PauseBounded
<1>1. Inv => PauseBounded
  BY DEF Inv, Pausing, PauseBounded
<1> QED
  BY <1>1, InitInv, StepInv, PTL DEF Spec

\* Killed anywhere in its loop, the worker loses no job from the stream that it
\* has not counted.
THEOREM NoJobLost == Spec => []LeftMeansProcessed
<1>1. Inv => LeftMeansProcessed
  BY DEF Inv, Processing
<1> QED
  BY <1>1, InitInv, StepInv, PTL DEF Spec

\* Operations overlap in the supervisor only when a client stopped waiting.
THEOREM Exclusion == Spec => []ExclusiveUnlessLost
<1>1. Inv => ExclusiveUnlessLost
  BY DEF Inv, Awaited, ExclusiveUnlessLost, Waiting, Claimed
<1> QED
  BY <1>1, InitInv, StepInv, PTL DEF Spec

\* An execution recorded as succeeded had its effect, but for a retry that was
\* given the stored failure.
THEOREM HonestSuccess == Spec => []SuccessHasEffect
<1>1. Inv => SuccessHasEffect
  BY DEF Inv, Answering, Answers, Succeeds, SuccessHasEffect
<1> QED
  BY <1>1, InitInv, StepInv, PTL DEF Spec
----------------------------------------------------------------------------
(* The contract between supervisor and client. *)

\* An answer of 200 to the attempt its client waits for has a stored result.
Backed ==
  \A o \in Ops :
    client[o] = "waiting" /\ handler[o][attempt[o]] = "replied_200" => result[o] # "none"

LEMMA ServeBacked ==
  ASSUME Inv, Backed, NEW o \in Ops, NEW n \in Attempts, Serve(o, n)
  PROVE  /\ Backed'
         /\ UNCHANGED <<client, attempt>> /\ client[o] # "ready"
         /\ \/ UNCHANGED result
            \/ \E r \in {"succeeded", "failed"} : result' = [result EXCEPT ![o] = r]
<1> USE DEF Inv
<1>1. UNCHANGED <<client, attempt>>
  BY DEF Serve, Drop, Replay, Lookup, Kill, ClearFault, KeepChild, StartWorker, StartFails,
     SetPaused, SetFails, Store, caller
<1>2. handler[o][n] # "none"
  BY DEF Serve, Drop, Replay, Lookup, Kill, ClearFault, KeepChild, StartWorker, StartFails,
     SetPaused, SetFails, Store
<1>3. PICK s \in HandlerSteps : Handle(o, n, s)
  BY DEF Serve, Drop, Replay, Lookup, Kill, ClearFault, KeepChild, StartWorker, StartFails,
     SetPaused, SetFails, Store, HandlerSteps
<1>4. /\ handler'[o][n] = s
      /\ \A p \in Ops, k \in Attempts : p # o \/ k # n => handler'[p][k] = handler[p][k]
  BY <1>3, HandleFacts
<1>5. client[o] # "ready"
  <2>1. attempt[o] > 0 /\ attempt[o] \in Nat
    BY <1>2, Sent
  <2> QED
    BY <2>1 DEF Answering, Answers, NotYet
<1>6. \/ UNCHANGED result
      \/ \E r \in {"succeeded", "failed"} : result' = [result EXCEPT ![o] = r]
  BY DEF Serve, Drop, Replay, Lookup, Kill, ClearFault, KeepChild, StartWorker, StartFails,
     SetPaused, SetFails, Store, Outcome, redis
<1>7. s = "replied_200" /\ Waiting(o, n) => result'[o] # "none"
  <2>1. CASE Store(o, n)
    BY <2>1 DEF Store, Outcome, TypeOK
  <2>2. CASE Replay(o, n)
    BY <2>2 DEF Replay, redis
  <2>3. CASE ~Store(o, n) /\ ~Replay(o, n)
    <3>1. handler'[o][n] # "replied_200"
      BY <2>3, HandleFacts DEF Serve, Drop, Lookup, Kill, ClearFault, KeepChild, StartWorker,
         StartFails, SetPaused, SetFails, HandlerSteps
    <3> QED
      BY <1>4, <3>1
  <2> QED
    BY <2>1, <2>2, <2>3
<1>8. Backed'
  <2> SUFFICES ASSUME NEW p \in Ops, client[p] = "waiting",
                      handler'[p][attempt[p]] = "replied_200"
               PROVE  result'[p] # "none"
    BY <1>1 DEF Backed
  <2>1. attempt[p] \in Attempts
    BY WorkloadAssumption DEF Answering, Answers, NotYet, TypeOK, Attempts
  <2>2. CASE p = o /\ attempt[p] = n
    BY <1>4, <1>7, <2>2 DEF Waiting
  <2>3. CASE p # o \/ attempt[p] # n
    <3>1. handler[p][attempt[p]] = "replied_200"
      BY <1>4, <2>1, <2>3
    <3>2. result[p] # "none"
      BY <3>1 DEF Backed
    <3> QED
      BY <1>6, <3>2 DEF TypeOK
  <2> QED
    BY <2>2, <2>3
<1> QED
  BY <1>1, <1>5, <1>6, <1>8

LEMMA ClientBacked ==
  ASSUME Inv, Backed, NEW o \in Ops, ClientStep(o)
  PROVE  Backed'
<1> USE DEF Inv
<1>1. UNCHANGED result
  BY ClientFacts DEF redis
<1>2. ASSUME NEW m \in Attempts, m = attempt[o] + 1, Handle(o, m, "arrived"),
             attempt' = [attempt EXCEPT ![o] = m], client' = [client EXCEPT ![o] = "waiting"]
      PROVE  Backed'
  <2>1. /\ handler'[o][m] = "arrived" /\ attempt'[o] = m
        /\ \A p \in Ops : p # o =>
             /\ client'[p] = client[p] /\ attempt'[p] = attempt[p]
             /\ handler'[p] = handler[p]
    BY <1>2 DEF Handle, TypeOK
  <2> QED
    BY <1>1, <2>1 DEF Backed
<1>3. ASSUME UNCHANGED <<attempt, handler>>,
             NEW s \in ClientStates \ {"ready", "waiting"}, client' = [client EXCEPT ![o] = s]
      PROVE  Backed'
  BY <1>1, <1>3 DEF Backed, TypeOK
<1> QED
  BY <1>2, <1>3, ClientFacts

LEMMA StepBacked == Inv /\ Backed /\ [Next]_vars => Backed'
<1> SUFFICES ASSUME Inv, Backed, [Next]_vars PROVE Backed'
  OBVIOUS
<1>1. CASE Other \/ UNCHANGED vars
  BY <1>1 DEF Backed, Other, Die, Reap, Produce, SetFault, redis, super, caller, history, vars
<1>2. ASSUME NEW w \in Workers, RunWorker(w) PROVE Backed'
  BY <1>2, WorkerFrame DEF Inv, Backed, super, caller
<1> QED
  BY <1>1, <1>2, ServeBacked, ClientBacked DEF Next, Other, ClientStep

ContractStep == [Contract!Next]_(Contract!vars)

\* One operation's side of the contract changes at a time.
LEMMA OneStoredChanges ==
  ASSUME NEW o \in Ops,
         \A p \in Ops \ {o} : client'[p] = client[p] /\ result'[p] = result[p]
  PROVE  /\ stored' = [stored EXCEPT ![o] = stored'[o]]
         /\ call' = [call EXCEPT ![o] = call'[o]]
<1>1. \A p \in Ops \ {o} : stored'[p] = stored[p] /\ call'[p] = call[p]
  BY DEF stored, call
<1>2. /\ stored = [p \in Ops |-> stored[p]] /\ stored' = [p \in Ops |-> stored'[p]]
      /\ call = [p \in Ops |-> call[p]] /\ call' = [p \in Ops |-> call'[p]]
  BY DEF stored, call
<1> HIDE DEF stored, call
<1> QED
  BY <1>1, <1>2

LEMMA NothingContracted ==
  ASSUME client' = client, result' = result PROVE ContractStep
<1>1. stored' = stored /\ call' = call
  BY DEF stored, call
<1> QED
  BY <1>1 DEF ContractStep, Contract!vars

LEMMA ServeKeepsContract ==
  ASSUME Inv, Backed, NEW o \in Ops, NEW n \in Attempts, Serve(o, n)
  PROVE  ContractStep
<1>1. CASE UNCHANGED result
  BY <1>1, ServeBacked, NothingContracted
<1>2. ASSUME NEW r \in {"succeeded", "failed"}, result' = [result EXCEPT ![o] = r]
      PROVE  ContractStep
  <2>1. client' = client /\ client[o] # "ready" /\ result'[o] = r
        /\ \A p \in Ops \ {o} : result'[p] = result[p]
    BY <1>2, ServeBacked DEF Inv, TypeOK
  <2>2. stored[o] # "none" /\ stored'[o] = r
    BY <2>1 DEF stored, Inv, TypeOK
  <2>3. call' = call
    BY <2>1 DEF call
  <2>4. stored' = [stored EXCEPT ![o] = r]
    BY <2>1, <2>2, OneStoredChanges
  <2>5. Contract!Land(o)
    BY <2>2, <2>3, <2>4 DEF Contract!Land, Contract!Results
  <2> QED
    BY <2>5 DEF ContractStep, Contract!Next
<1> QED
  BY <1>1, <1>2, ServeBacked

LEMMA ClientKeepsContract ==
  ASSUME Inv, Backed, NEW o \in Ops, ClientStep(o)
  PROVE  ContractStep
<1> USE DEF Inv, TypeOK
<1>1. result' = result /\ \A p \in Ops \ {o} : client'[p] = client[p]
  BY ClientFacts DEF redis
<1>2. /\ stored' = [stored EXCEPT ![o] = stored'[o]]
      /\ call' = [call EXCEPT ![o] = call'[o]]
  BY <1>1, OneStoredChanges
<1>3. CASE client' = client
  BY <1>1, <1>3, NothingContracted
<1>4. CASE Execute(o)
  <2>1. client[o] = "ready" /\ client'[o] = "waiting" /\ result[o] = "none"
    BY <1>4 DEF Execute, Answering, Answers, NotYet
  <2>2. call[o] = "idle" /\ call'[o] = "open" /\ stored'[o] = "sent"
    BY <1>1, <2>1 DEF call, stored
  <2>3. Contract!Send(o)
    BY <1>2, <2>2 DEF Contract!Send, Contract!Call
  <2> QED
    BY <2>3 DEF ContractStep, Contract!Next
<1>5. ASSUME client[o] # "ready", client'[o] # "ready" PROVE stored' = stored
  <2>1. stored'[o] = stored[o]
    BY <1>1, <1>5 DEF stored
  <2>2. stored = [p \in Ops |-> stored[p]]
    BY DEF stored
  <2> HIDE DEF Inv, TypeOK
  <2> QED
    BY <1>2, <2>1, <2>2
<1>6. ASSUME client[o] = "waiting", client'[o] = "failed" PROVE ContractStep
  <2>1. call[o] = "open" /\ call'[o] = "failed" /\ stored' = stored
    BY <1>5, <1>6 DEF call
  <2>2. Contract!Report(o)
    BY <1>2, <2>1 DEF Contract!Report, Contract!Call
  <2> QED
    BY <2>2 DEF ContractStep, Contract!Next
<1>7. CASE Answered(o) /\ client' # client
  <2>1. client[o] = "waiting" /\ client'[o] \in {"succeeded", "failed"}
    BY <1>7 DEF Answered, Retry, Conclude
  <2>2. CASE client'[o] = "succeeded"
    <3>1. handler[o][attempt[o]] = "replied_200"
      BY <1>7, <2>1, <2>2 DEF Answered, Retry, Conclude
    <3>2. result[o] \in {"succeeded", "failed"}
      BY <2>1, <3>1 DEF Backed
    <3>3. /\ call[o] = "open" /\ call'[o] = "succeeded" /\ stored' = stored
          /\ stored[o] \in {"succeeded", "failed"}
      BY <1>5, <2>1, <2>2, <3>2 DEF call, stored
    <3>4. Contract!Report(o)
      BY <1>2, <3>3 DEF Contract!Report, Contract!Call, Contract!Results
    <3> QED
      BY <3>4 DEF ContractStep, Contract!Next
  <2> QED
    BY <1>6, <2>1, <2>2
<1>8. CASE (Broken(o) \/ TimedOut(o)) /\ client' # client
  <2>1. client[o] = "waiting" /\ client'[o] = "failed"
    BY <1>8 DEF Broken, TimedOut, Retry, Conclude
  <2> QED
    BY <1>6, <2>1
<1>9. CASE Crash(o)
  <2>1. client[o] = "waiting" /\ client'[o] = "crashed"
    BY <1>9 DEF Crash, Conclude
  <2>2. call[o] = "open" /\ call'[o] = "lost" /\ stored' = stored
    BY <1>5, <2>1 DEF call
  <2>3. call' = [p \in Ops |-> IF p \in {o} THEN "lost" ELSE call[p]]
    BY <1>2, <2>2 DEF call
  <2>4. Contract!Lose({o})
    BY <2>2, <2>3 DEF Contract!Lose
  <2> QED
    BY <2>4 DEF ContractStep, Contract!Next
<1>10. CASE Reconcile(o)
  <2>1. PICK s \in {"inconclusive"} \cup ({result[o]} \ {"none"}) : Conclude(o, s)
    BY <1>10 DEF Reconcile
  <2>2. /\ client[o] = "crashed" /\ client'[o] = s
        /\ s \in {"succeeded", "failed", "inconclusive"}
    BY <1>10, <2>1 DEF Reconcile, Conclude
  <2>3. call[o] = "lost" /\ call'[o] = s /\ stored' = stored
    BY <1>5, <2>2 DEF call
  <2>4. s = "inconclusive" \/ (s = stored[o] /\ s \in Contract!Results)
    BY <2>1, <2>2 DEF stored, Contract!Results
  <2>5. Contract!Learn(o)
    BY <1>2, <2>3, <2>4 DEF Contract!Learn, Contract!Call
  <2> QED
    BY <2>5 DEF ContractStep, Contract!Next
<1> QED
  BY <1>3, <1>4, <1>7, <1>8, <1>9, <1>10 DEF ClientStep

\* However its requests are retried, overlap, are replayed or lost, the
\* supervisor and the client keep the contract about each operation id.
THEOREM SupervisorKeepsContract == Spec => KeepsContract
<1>1. Init => Backed
  BY DEF Init, Backed
<1>2. Init => Contract!Init
  BY DEF Init, Contract!Init, stored, call
<1>3. Inv /\ Backed /\ [Next]_vars => [Contract!Next]_(Contract!vars)
  <2> SUFFICES ASSUME Inv, Backed, [Next]_vars PROVE ContractStep
    BY DEF ContractStep
  <2>1. CASE Other \/ UNCHANGED vars
    BY <2>1, NothingContracted DEF Other, Die, Reap, Produce, SetFault, redis, super, caller,
       history, vars
  <2>2. ASSUME NEW w \in Workers, RunWorker(w) PROVE ContractStep
    BY <2>2, WorkerFrame, NothingContracted DEF Inv, caller
  <2> QED
    BY <2>1, <2>2, ServeKeepsContract, ClientKeepsContract DEF Next, Other, ClientStep
<1> QED
  BY <1>1, <1>2, <1>3, InitInv, StepInv, StepBacked, PTL
     DEF Spec, KeepsContract, Contract!Spec
=============================================================================
