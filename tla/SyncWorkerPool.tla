--------------------------- MODULE SyncWorkerPool ---------------------------
(***************************************************************************)
(* The dynamic pool that processes the batches of a full sync              *)
(* (services/sync_worker.go): FullSync pushes batches into a channel,      *)
(* workers take them, and every five seconds the manager starts a worker   *)
(* when many batches are queued or puts a "stop" task into the same        *)
(* channel when few are. What a batch does to products is ProductStock.    *)
(***************************************************************************)
EXTENDS Integers, Sequences, FiniteSets

CONSTANTS Slot,        \* goroutines the pool may have; maxWorkers of them at a time
          MaxWorkers,  \* maxWorkers
          QueueSize,   \* capacity of taskQueue
          High, Low,   \* adjustWorkerCount: more than 10 queued, fewer than 5
          MaxBatches   \* bound: batches pushed

ASSUME PoolAssumption ==
  /\ IsFiniteSet(Slot) /\ Cardinality(Slot) = MaxWorkers
  /\ MaxWorkers \in Nat \ {0} /\ QueueSize \in Nat \ {0}
  /\ High \in Nat /\ Low \in Nat
  /\ MaxBatches \in Nat

VARIABLES
  queue,      \* taskQueue
  pushing,    \* 1: PushTask has counted its task and waits for the channel
  wpc,        \* the worker in a slot
  workers,    \* p.workers
  active,     \* stats.ActiveWorkers
  queued,     \* stats.QueuedTasks: batches pushed and not done
  total, processed, failed,  \* stats
  mpc         \* the manager inside adjustWorkerCount

vars  == <<queue, pushing, wpc, workers, active, queued, total, processed, failed, mpc>>
stats == <<total, processed, failed>>

Task == {"batch", "stop"}

TypeOK ==
  /\ queue \in Seq(Task) /\ Len(queue) <= QueueSize
  /\ pushing \in {0, 1}
  /\ wpc \in [Slot -> {"none", "loop", "batch", "counted", "exit", "leaving"}]
  /\ workers \in 0..MaxWorkers /\ active \in 0..MaxWorkers
  /\ queued \in 0..MaxBatches
  /\ total \in 0..MaxBatches /\ processed \in 0..MaxBatches /\ failed \in 0..MaxBatches
  /\ mpc \in {"wait", "many", "few", "stop", "send"}

(* startWorker counts, in both gauges, before its goroutine runs; only the manager, who
   calls it, reads them. *)
StartWorker ==
  IF workers >= MaxWorkers
  THEN UNCHANGED <<workers, active, wpc>>
  ELSE /\ workers' = workers + 1 /\ active' = active + 1
       /\ \E s \in Slot : wpc[s] = "none" /\ wpc' = [wpc EXCEPT ![s] = "loop"]

(* Start: one worker at once. *)
Init ==
  /\ queue = <<>> /\ pushing = 0
  /\ workers = 1 /\ active = 1
  /\ \E s \in Slot : wpc = [t \in Slot |-> IF t = s THEN "loop" ELSE "none"]
  /\ queued = 0 /\ total = 0 /\ processed = 0 /\ failed = 0
  /\ mpc = "wait"

(***************************************************************************)
(* FullSync pushes one batch after the other                               *)
(***************************************************************************)
PushTask ==
  /\ pushing = 0 /\ total < MaxBatches
  /\ pushing' = 1
  /\ total' = total + 1 /\ queued' = queued + 1
  /\ UNCHANGED <<queue, wpc, workers, active, processed, failed, mpc>>

(* Mutant: the push does not wait for a full channel, as it once did. *)
Send_Drops ==
  /\ pushing = 1
  /\ queue' = IF Len(queue) < QueueSize THEN Append(queue, "batch") ELSE queue
  /\ pushing' = 0
  /\ UNCHANGED <<wpc, workers, active, queued, stats, mpc>>

Send ==
  /\ pushing = 1 /\ Len(queue) < QueueSize
  /\ queue' = Append(queue, "batch")
  /\ pushing' = 0
  /\ UNCHANGED <<wpc, workers, active, queued, stats, mpc>>

(***************************************************************************)
(* The manager                                                             *)
(***************************************************************************)
(* adjustWorkerCount loads QueuedTasks, then ActiveWorkers, and acts on what it has
   read; startWorker and stopWorker look at p.workers. *)
Tick ==
  /\ mpc = "wait"
  /\ \/ queued > High /\ mpc' = "many"
     \/ queued < Low /\ mpc' = "few"
  /\ UNCHANGED <<queue, pushing, wpc, workers, active, queued, stats>>

Grow ==
  /\ mpc = "many" /\ mpc' = "wait"
  /\ \/ active < MaxWorkers /\ StartWorker
     \/ active >= MaxWorkers /\ UNCHANGED <<wpc, workers, active>>
  /\ UNCHANGED <<queue, pushing, queued, stats>>

Shrink ==
  /\ \/ mpc = "few" /\ mpc' = (IF active > 1 THEN "stop" ELSE "wait")
     \/ mpc = "stop" /\ mpc' = (IF workers > 1 THEN "send" ELSE "wait")
  /\ UNCHANGED <<queue, pushing, wpc, workers, active, queued, stats>>

(* A full channel drops the stop task. *)
SendStop ==
  /\ mpc = "send" /\ mpc' = "wait"
  /\ queue' = IF Len(queue) < QueueSize THEN Append(queue, "stop") ELSE queue
  /\ UNCHANGED <<pushing, wpc, workers, active, queued, stats>>

(***************************************************************************)
(* A worker                                                                *)
(***************************************************************************)
Take(s) ==
  /\ wpc[s] = "loop" /\ queue # <<>>
  /\ queue' = Tail(queue)
  /\ wpc' = [wpc EXCEPT ![s] = IF Head(queue) = "stop" THEN "exit" ELSE "batch"]
  /\ UNCHANGED <<pushing, workers, active, queued, stats, mpc>>

(* Mutant: a failed batch is counted twice. *)
Process_CountsBoth(s) ==
  /\ wpc[s] = "batch"
  /\ wpc' = [wpc EXCEPT ![s] = "counted"]
  /\ processed' = processed + 1
  /\ failed' \in {failed, failed + 1}
  /\ UNCHANGED <<queue, pushing, workers, active, queued, total, mpc>>

(* The products of the batch one by one; an error or a panic makes it failed,
   the five-minute timeout does not. The deferred functions count it first ... *)
Process(s) ==
  /\ wpc[s] = "batch"
  /\ wpc' = [wpc EXCEPT ![s] = "counted"]
  /\ \/ processed' = processed + 1 /\ UNCHANGED failed
     \/ failed' = failed + 1 /\ UNCHANGED processed
  /\ UNCHANGED <<queue, pushing, workers, active, queued, total, mpc>>

(* ... and then take it out of QueuedTasks. *)
Uncount(s) ==
  /\ wpc[s] = "counted"
  /\ wpc' = [wpc EXCEPT ![s] = "loop"]
  /\ queued' = queued - 1
  /\ UNCHANGED <<queue, pushing, workers, active, stats, mpc>>

(* Mutant: an exiting worker is not taken out of the count. *)
Exit_Uncounted(s) ==
  /\ wpc[s] = "exit"
  /\ wpc' = [wpc EXCEPT ![s] = "leaving"]
  /\ UNCHANGED <<queue, pushing, workers, active, queued, stats, mpc>>

(* Mutant: a stop task leaves QueuedTasks too, where it was never counted. *)
Exit_CountsTask(s) ==
  /\ wpc[s] = "exit"
  /\ wpc' = [wpc EXCEPT ![s] = "leaving"]
  /\ workers' = workers - 1 /\ queued' = queued - 1
  /\ UNCHANGED <<queue, pushing, active, stats, mpc>>

(* The deferred function takes the worker out of p.workers first ... *)
Exit(s) ==
  /\ wpc[s] = "exit"
  /\ wpc' = [wpc EXCEPT ![s] = "leaving"]
  /\ workers' = workers - 1
  /\ UNCHANGED <<queue, pushing, active, queued, stats, mpc>>

(* ... and then out of ActiveWorkers. *)
Leave(s) ==
  /\ wpc[s] = "leaving"
  /\ wpc' = [wpc EXCEPT ![s] = "none"]
  /\ active' = active - 1
  /\ UNCHANGED <<queue, pushing, workers, queued, stats, mpc>>

Work(s) == Take(s) \/ Process(s) \/ Uncount(s) \/ Exit(s) \/ Leave(s)

Manage == Tick \/ Grow \/ Shrink \/ SendStop

Next == PushTask \/ Send \/ Manage \/ \E s \in Slot : Work(s)

Spec == Init /\ [][Next]_vars

(* Goroutines run on, the ticker fires, a batch ends (it has a timeout). *)
Fairness ==
  /\ WF_vars(Send) /\ WF_vars(Manage)
  /\ \A s \in Slot : WF_vars(Work(s))

FairSpec == Spec /\ Fairness

(***************************************************************************)
(* Properties                                                              *)
(***************************************************************************)
InState(p) == {s \in Slot : wpc[s] = p}
Batches == {i \in DOMAIN queue : queue[i] = "batch"}

(* The gauges the manager decides by drift apart only while a goroutine is between two of
   its deferred statements: QueuedTasks is what is being pushed, queued and processed,
   ActiveWorkers the goroutines there are, and p.workers is behind it by those that
   are leaving. A lasting drift would starve the queue or start too many workers
   (sync_worker.go:113-126, 129-148, 270-273). *)
GaugesExact ==
  /\ queued = pushing + Cardinality(Batches)
              + Cardinality(InState("batch")) + Cardinality(InState("counted"))
  /\ active = Cardinality(Slot \ InState("none"))
  /\ workers = active - Cardinality(InState("leaving"))

(* No batch is lost or counted twice: what was pushed is processed, failed or
   still in QueuedTasks (where a counted one stays for a moment). *)
NoBatchLost ==
  total = processed + failed + queued - Cardinality(InState("counted"))

(* The pool keeps what BatchBag promises: stop tasks, starting and stopping workers and
   the gauges move no batch; a batch leaves the channel only into the hands of a worker, and
   its hands only by being counted, once (sync_worker.go:212-224, 237-348). *)
Bag == INSTANCE BatchBag WITH Parallel  <- MaxWorkers,
                              pushed    <- total,
                              waiting   <- pushing + Cardinality(Batches),
                              busy      <- Cardinality(InState("batch")),
                              succeeded <- processed,
                              spoilt    <- failed
ImplementsBag == Bag!BagSpec

(* The comment at PushTask, line 216: batches are not lost under a peak load.
   Every batch pushed is processed or fails in the end. *)
BatchesSettle == \A n \in 1..MaxBatches : (total >= n) ~> (processed + failed >= n)

(* As long as a worker lives, the queue drains. *)
DrainsWithWorker == [](workers >= 1) => BatchesSettle
=============================================================================
