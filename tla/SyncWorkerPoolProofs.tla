------------------------ MODULE SyncWorkerPoolProofs ------------------------
(***************************************************************************)
(* Theorems about SyncWorkerPool, for any number of workers and batches,   *)
(* any queue size and any thresholds.                                      *)
(***************************************************************************)
EXTENDS SyncWorkerPool, FiniteSetTheorems, FunctionTheorems, TLAPS

WorkerStep == {"none", "loop", "batch", "counted", "exit", "leaving"}

Live == Slot \ InState("none")

(* A counted batch has been counted as processed or failed. *)
CountedBefore == processed + failed >= Cardinality(InState("counted"))

PoolTypes ==
  /\ queue \in Seq(Task) /\ Len(queue) <= QueueSize
  /\ pushing \in {0, 1}
  /\ wpc \in [Slot -> WorkerStep]
  /\ workers \in Int /\ active \in Int /\ queued \in Int
  /\ total \in 0..MaxBatches /\ processed \in Nat /\ failed \in Nat
  /\ mpc \in {"wait", "many", "few", "stop", "send"}

IInv == PoolTypes /\ GaugesExact /\ NoBatchLost /\ CountedBefore

(***************************************************************************)
(* Counting                                                                *)
(***************************************************************************)
LEMMA OneMore ==
  ASSUME NEW S, NEW T, NEW x, IsFiniteSet(S), x \notin S, T = S \cup {x}
  PROVE  IsFiniteSet(T) /\ Cardinality(S) \in Nat /\ Cardinality(T) = Cardinality(S) + 1
BY FS_AddElement, FS_CardinalityType

LEMMA OneLess ==
  ASSUME NEW S, NEW T, NEW x, IsFiniteSet(S), x \in S, T = S \ {x}
  PROVE  /\ IsFiniteSet(T) /\ Cardinality(S) \in Nat /\ Cardinality(T) \in Nat
         /\ Cardinality(T) = Cardinality(S) - 1
BY FS_RemoveElement, FS_CardinalityType

LEMMA WorkersFinite ==
  ASSUME NEW p
  PROVE  /\ IsFiniteSet(InState(p)) /\ Cardinality(InState(p)) \in Nat
         /\ IsFiniteSet(Live) /\ Cardinality(Live) \in 0..MaxWorkers
<1>1. InState(p) \subseteq Slot /\ Live \subseteq Slot
  BY DEF InState, Live
<1>2. IsFiniteSet(Slot) /\ Cardinality(Slot) = MaxWorkers
  BY PoolAssumption DEF PoolAssumption
<1> QED
  BY <1>1, <1>2, FS_Subset, FS_CardinalityType

(* A worker that takes a step leaves one state and enters another. *)
LEMMA MoveCounts ==
  ASSUME wpc \in [Slot -> WorkerStep], NEW s \in Slot, NEW q \in WorkerStep,
         wpc' = [wpc EXCEPT ![s] = q], wpc[s] # q, NEW p
  PROVE  Cardinality(InState(p)') = IF p = q THEN Cardinality(InState(p)) + 1
                                    ELSE IF p = wpc[s] THEN Cardinality(InState(p)) - 1
                                    ELSE Cardinality(InState(p))
<1>1. CASE p = q
  <2>1. s \notin InState(p) /\ InState(p)' = InState(p) \cup {s}
    BY <1>1 DEF InState
  <2> QED
    BY <1>1, <2>1, WorkersFinite, OneMore
<1>2. CASE p # q /\ p = wpc[s]
  <2>1. s \in InState(p) /\ InState(p)' = InState(p) \ {s}
    BY <1>2 DEF InState
  <2> QED
    BY <1>2, <2>1, WorkersFinite, OneLess
<1>3. CASE p # q /\ p # wpc[s]
  <2>1. InState(p)' = InState(p)
    BY <1>3 DEF InState
  <2> QED
    BY <1>3, <2>1
<1> QED
  BY <1>1, <1>2, <1>3

LEMMA MoveCountsLive ==
  ASSUME wpc \in [Slot -> WorkerStep], NEW s \in Slot, NEW q \in WorkerStep,
         wpc' = [wpc EXCEPT ![s] = q], wpc[s] # q
  PROVE  Cardinality(Live') = IF q = "none" THEN Cardinality(Live) - 1
                              ELSE IF wpc[s] = "none" THEN Cardinality(Live) + 1
                              ELSE Cardinality(Live)
<1>1. CASE q = "none"
  <2>1. s \in Live /\ Live' = Live \ {s}
    BY <1>1 DEF InState, Live
  <2> QED
    BY <1>1, <2>1, WorkersFinite, OneLess
<1>2. CASE q # "none" /\ wpc[s] = "none"
  <2>1. s \notin Live /\ Live' = Live \cup {s}
    BY <1>2 DEF InState, Live
  <2> QED
    BY <1>2, <2>1, WorkersFinite, OneMore
<1>3. CASE q # "none" /\ wpc[s] # "none"
  <2>1. Live' = Live
    BY <1>3 DEF InState, Live
  <2> QED
    BY <1>3, <2>1
<1> QED
  BY <1>1, <1>2, <1>3

LEMMA BatchesFinite ==
  ASSUME queue \in Seq(Task)
  PROVE  IsFiniteSet(Batches) /\ Cardinality(Batches) \in Nat
<1>1. Batches \in SUBSET (1..Len(queue)) /\ Len(queue) \in Int
  BY DEF Batches
<1>2. IsFiniteSet(1..Len(queue))
  BY <1>1, FS_Interval
<1> QED
  BY <1>1, <1>2, FS_Subset, FS_CardinalityType

LEMMA AppendCounts ==
  ASSUME queue \in Seq(Task), NEW t \in Task, queue' = Append(queue, t)
  PROVE  Cardinality(Batches') = IF t = "batch" THEN Cardinality(Batches) + 1
                                 ELSE Cardinality(Batches)
<1> DEFINE n == Len(queue) + 1
<1>1. /\ Len(queue) \in Nat /\ DOMAIN queue = 1..Len(queue)
      /\ DOMAIN queue' = 1..n
      /\ \A i \in 1..Len(queue) : queue'[i] = queue[i]
      /\ queue'[n] = t
  OBVIOUS
<1>2. CASE t = "batch"
  <2>1. n \notin Batches /\ Batches' = Batches \cup {n}
    BY <1>1, <1>2 DEF Batches
  <2> QED
    BY <1>2, <2>1, BatchesFinite, OneMore
<1>3. CASE t # "batch"
  <2>1. Batches' = Batches
    BY <1>1, <1>3 DEF Batches
  <2> QED
    BY <1>3, <2>1
<1> QED
  BY <1>2, <1>3

(* Taking the head shifts the other tasks by one place. *)
LEMMA TailCounts ==
  ASSUME queue \in Seq(Task), queue # <<>>, queue' = Tail(queue)
  PROVE  Cardinality(Batches') = IF Head(queue) = "batch" THEN Cardinality(Batches) - 1
                                 ELSE Cardinality(Batches)
<1> DEFINE R == Batches \ {1}
           f == [i \in R |-> i - 1]
<1>1. /\ Len(queue) \in Nat \ {0} /\ DOMAIN queue = 1..Len(queue)
      /\ DOMAIN queue' = 1..(Len(queue) - 1)
      /\ \A i \in 1..(Len(queue) - 1) : queue'[i] = queue[i + 1]
      /\ Head(queue) = queue[1]
  OBVIOUS
<1>2. f \in Bijection(R, Batches')
  <2>1. \A i \in R : i \in Nat /\ i - 1 \in Batches'
    BY <1>1 DEF Batches
  <2>2. f \in [R -> Batches']
    BY <2>1
  <2>3. \A i, j \in R : f[i] = f[j] => i = j
    BY <2>1
  <2>4. \A k \in Batches' : k + 1 \in R /\ f[k + 1] = k
    BY <1>1 DEF Batches
  <2> HIDE DEF f, R
  <2> QED
    BY <2>2, <2>3, <2>4 DEF Bijection, Injection, Surjection, IsInjective
<1>3. IsFiniteSet(R)
  BY BatchesFinite, FS_RemoveElement
<1>4. Cardinality(Batches') = Cardinality(R)
  <2> HIDE DEF f, R
  <2> QED
    BY <1>2, <1>3, FS_Bijection DEF ExistsBijection
<1>5. 1 \in Batches <=> Head(queue) = "batch"
  BY <1>1 DEF Batches
<1> QED
  BY <1>4, <1>5, BatchesFinite, FS_RemoveElement

(***************************************************************************)
(* The invariant                                                           *)
(***************************************************************************)
(* ActiveWorkers counts the goroutines of Live, p.workers those that are not leaving. *)
LEMMA WorkersAreLive ==
  GaugesExact => /\ active = Cardinality(Live)
                 /\ workers = active - Cardinality(InState("leaving"))
BY DEF GaugesExact, Live

LEMMA InitHolds == Init => IInv
<1> SUFFICES ASSUME Init PROVE IInv
  OBVIOUS
<1>1. PICK s \in Slot : wpc = [t \in Slot |-> IF t = s THEN "loop" ELSE "none"]
  BY DEF Init
<1>2. /\ InState("batch") = {} /\ InState("counted") = {} /\ InState("leaving") = {}
      /\ Live = {s} /\ Batches = {}
  BY <1>1 DEF Init, InState, Live, Batches
<1>3. Cardinality({}) = 0 /\ Cardinality({s}) = 1
  BY FS_EmptySet, FS_Singleton
<1>a. /\ queue = <<>> /\ pushing = 0 /\ workers = 1 /\ active = 1 /\ mpc = "wait"
      /\ queued = 0 /\ total = 0 /\ processed = 0 /\ failed = 0
  BY DEF Init
<1>b. /\ Cardinality(InState("batch")) = 0 /\ Cardinality(InState("counted")) = 0
      /\ Cardinality(Batches) = 0 /\ Cardinality(Live) = 1
      /\ Cardinality(InState("leaving")) = 0
  <2>1. Cardinality(InState("batch")) = 0 BY <1>2, <1>3, Zenon
  <2>2. Cardinality(InState("counted")) = 0 BY <1>2, <1>3, Zenon
  <2>3. Cardinality(Batches) = 0 BY <1>2, <1>3, Zenon
  <2>4. Cardinality(Live) = 1 BY <1>2, <1>3, Zenon
  <2>5. Cardinality(InState("leaving")) = 0 BY <1>2, <1>3, Zenon
  <2> QED BY <2>1, <2>2, <2>3, <2>4, <2>5
<1>4. GaugesExact
  <2>1. Cardinality(Slot \ InState("none")) = 1
    BY <1>b DEF Live
  <2> QED
    BY <1>a, <1>b, <2>1 DEF GaugesExact
<1>5. NoBatchLost /\ CountedBefore
  BY <1>a, <1>b DEF NoBatchLost, CountedBefore
<1>6. PoolTypes
  <2>1. wpc \in [Slot -> WorkerStep]
    BY <1>1 DEF WorkerStep
  <2>2. queue \in Seq(Task) /\ Len(queue) <= QueueSize
    BY <1>a, PoolAssumption DEF PoolAssumption
  <2> QED
    BY <1>a, <2>1, <2>2, PoolAssumption DEF PoolTypes, PoolAssumption
<1> QED
  BY <1>4, <1>5, <1>6 DEF IInv

(* What a step of a worker does to the four sums. *)
LEMMA WorkKeepsIInv ==
  ASSUME IInv, NEW s \in Slot, Work(s)
  PROVE  IInv'
<1> DEFINE B == Cardinality(InState("batch"))
           C == Cardinality(InState("counted"))
           Q == Cardinality(Batches)
           L == Cardinality(InState("leaving"))
<1>1. wpc \in [Slot -> WorkerStep] /\ queue \in Seq(Task)
  BY DEF IInv, PoolTypes
<1>2. B \in Nat /\ C \in Nat /\ Q \in Nat /\ L \in Nat /\ Cardinality(Live) \in Nat
  BY <1>1, WorkersFinite, BatchesFinite
<1>3. active = Cardinality(Live) /\ workers = active - L
  BY WorkersAreLive DEF IInv
<1>4. CASE Take(s)
  <2>1. PICK q \in {"exit", "batch"} :
          /\ wpc' = [wpc EXCEPT ![s] = q] /\ wpc[s] = "loop"
          /\ q = IF Head(queue) = "stop" THEN "exit" ELSE "batch"
    BY <1>4 DEF Take
  <2>2. /\ B' = (IF q = "batch" THEN B + 1 ELSE B) /\ C' = C
        /\ Cardinality(Live') = Cardinality(Live) /\ L' = L
    BY <1>1, <2>1, MoveCounts, MoveCountsLive DEF WorkerStep
  <2>3. Q' = IF Head(queue) = "batch" THEN Q - 1 ELSE Q
    BY <1>1, <1>4, TailCounts DEF Take
  <2>4. Head(queue) \in Task /\ Tail(queue) \in Seq(Task) /\ Len(Tail(queue)) <= QueueSize
    BY <1>1, <1>4, PoolAssumption DEF Take, IInv, PoolTypes, PoolAssumption
  <2>6. PoolTypes'
    BY <1>4, <2>1, <2>4 DEF Take, stats, IInv, PoolTypes, WorkerStep
  <2>7. GaugesExact'
    <3>1. UNCHANGED <<queued, pushing, workers, active>>
      BY <1>4 DEF Take
    <3>2. queued = pushing + Q + B + C
      BY DEF IInv, GaugesExact
    <3>3. queued = pushing + Q' + B' + C'
      <4>1. pushing \in Nat /\ C' = C
        BY <2>2 DEF IInv, PoolTypes
      <4>2. CASE q = "batch"
        <5>1. B' = B + 1 /\ Q' = Q - 1
          BY <2>1, <2>2, <2>3, <2>4, <4>2 DEF Task
        <5> HIDE DEF B, C, Q
        <5> QED
          BY <1>2, <3>2, <4>1, <5>1
      <4>3. CASE q = "exit"
        <5>1. B' = B /\ Q' = Q
          BY <2>1, <2>2, <2>3, <2>4, <4>3 DEF Task
        <5> HIDE DEF B, C, Q
        <5> QED
          BY <1>2, <3>2, <4>1, <5>1
      <4> QED
        BY <4>2, <4>3
    <3> QED
      BY <1>3, <2>2, <3>1, <3>3 DEF GaugesExact, Live
  <2>8. NoBatchLost' /\ CountedBefore'
    BY <1>4, <2>2 DEF Take, stats, IInv, NoBatchLost, CountedBefore
  <2> QED
    BY <2>6, <2>7, <2>8 DEF IInv
<1>5. CASE Process(s)
  <2>1. wpc' = [wpc EXCEPT ![s] = "counted"] /\ wpc[s] = "batch"
    BY <1>5 DEF Process
  <2>2. B' = B - 1 /\ C' = C + 1 /\ Cardinality(Live') = Cardinality(Live) /\ L' = L
    BY <1>1, <2>1, MoveCounts, MoveCountsLive DEF WorkerStep
  <2>3. Q' = Q
    BY <1>5 DEF Process, Batches
  <2>4. PoolTypes'
    BY <1>5, <2>1 DEF Process, IInv, PoolTypes, WorkerStep
  <2>5. GaugesExact'
    <3>1. queued' = queued /\ pushing' = pushing /\ UNCHANGED <<workers, active>>
      BY <1>5 DEF Process
    <3>2. queued = pushing + Q + B + C
      BY DEF IInv, GaugesExact
    <3>3. queued = pushing + Q' + B' + C'
      <4>1. pushing \in Nat /\ B' = B - 1 /\ C' = C + 1 /\ Q' = Q
        BY <2>2, <2>3 DEF IInv, PoolTypes
      <4> HIDE DEF B, C, Q
      <4> QED
        BY <1>2, <3>2, <4>1
    <3> QED
      BY <1>3, <2>2, <3>1, <3>3 DEF GaugesExact, Live
  <2>6. NoBatchLost' /\ CountedBefore'
    <3>1. /\ total = processed + failed + queued - C /\ processed + failed >= C
          /\ processed \in Nat /\ failed \in Nat /\ queued \in Int /\ total \in Int
      BY DEF IInv, PoolTypes, NoBatchLost, CountedBefore
    <3>2. /\ UNCHANGED <<total, queued>>
          /\ processed' + failed' = processed + failed + 1
          /\ processed' \in Nat /\ failed' \in Nat
      BY <1>5, <3>1 DEF Process
    <3>3. total' = processed' + failed' + queued' - C' /\ processed' + failed' >= C'
      <4>1. C' = C + 1 /\ total' = total /\ queued' = queued
        BY <2>2, <3>2
      <4> HIDE DEF B, C, Q
      <4>2. CASE processed' = processed + 1 /\ failed' = failed
        BY <1>2, <3>1, <4>1, <4>2
      <4>3. CASE failed' = failed + 1 /\ processed' = processed
        BY <1>2, <3>1, <4>1, <4>3
      <4> QED
        BY <1>5, <4>2, <4>3 DEF Process
    <3> QED
      BY <3>3 DEF NoBatchLost, CountedBefore
  <2> QED
    BY <2>4, <2>5, <2>6 DEF IInv
<1>6. CASE Uncount(s)
  <2>1. wpc' = [wpc EXCEPT ![s] = "loop"] /\ wpc[s] = "counted"
    BY <1>6 DEF Uncount
  <2>2. B' = B /\ C' = C - 1 /\ Cardinality(Live') = Cardinality(Live) /\ L' = L
    BY <1>1, <2>1, MoveCounts, MoveCountsLive DEF WorkerStep
  <2>3. Q' = Q
    BY <1>6 DEF Uncount, Batches
  <2>4. PoolTypes'
    BY <1>6, <2>1 DEF Uncount, stats, IInv, PoolTypes, WorkerStep
  <2>5. GaugesExact'
    <3>1. queued' = queued - 1 /\ pushing' = pushing /\ UNCHANGED <<workers, active>>
      BY <1>6 DEF Uncount
    <3>2. queued = pushing + Q + B + C /\ pushing \in Nat
      BY DEF IInv, PoolTypes, GaugesExact
    <3>3. queued' = pushing + Q' + B' + C'
      <4> HIDE DEF B, C, Q, L
      <4> QED
        BY <1>2, <2>2, <2>3, <3>1, <3>2
    <3> QED
      BY <1>3, <2>2, <3>1, <3>3 DEF GaugesExact, Live
  <2>6. NoBatchLost' /\ CountedBefore'
    BY <1>2, <1>6, <2>2 DEF Uncount, stats, IInv, PoolTypes, NoBatchLost, CountedBefore
  <2> QED
    BY <2>4, <2>5, <2>6 DEF IInv
<1>7. CASE Exit(s)
  <2>1. wpc' = [wpc EXCEPT ![s] = "leaving"] /\ wpc[s] = "exit"
    BY <1>7 DEF Exit
  <2>2. B' = B /\ C' = C /\ Cardinality(Live') = Cardinality(Live) /\ L' = L + 1
    BY <1>1, <2>1, MoveCounts, MoveCountsLive DEF WorkerStep
  <2>3. Q' = Q
    BY <1>7 DEF Exit, Batches
  <2>4. PoolTypes'
    BY <1>7, <2>1 DEF Exit, stats, IInv, PoolTypes, WorkerStep
  <2>5. GaugesExact'
    BY <1>2, <1>3, <1>7, <2>2, <2>3 DEF Exit, IInv, PoolTypes, GaugesExact, Live
  <2>6. NoBatchLost' /\ CountedBefore'
    BY <1>7, <2>2 DEF Exit, stats, IInv, NoBatchLost, CountedBefore
  <2> QED
    BY <2>4, <2>5, <2>6 DEF IInv
<1>8. CASE Leave(s)
  <2>1. wpc' = [wpc EXCEPT ![s] = "none"] /\ wpc[s] = "leaving"
    BY <1>8 DEF Leave
  <2>2. B' = B /\ C' = C /\ Cardinality(Live') = Cardinality(Live) - 1 /\ L' = L - 1
    BY <1>1, <2>1, MoveCounts, MoveCountsLive DEF WorkerStep
  <2>3. Q' = Q
    BY <1>8 DEF Leave, Batches
  <2>4. PoolTypes'
    BY <1>8, <2>1 DEF Leave, stats, IInv, PoolTypes, WorkerStep
  <2>5. GaugesExact'
    BY <1>2, <1>3, <1>8, <2>2, <2>3 DEF Leave, IInv, PoolTypes, GaugesExact, Live
  <2>6. NoBatchLost' /\ CountedBefore'
    BY <1>8, <2>2 DEF Leave, stats, IInv, NoBatchLost, CountedBefore
  <2> QED
    BY <2>4, <2>5, <2>6 DEF IInv
<1> QED
  BY <1>4, <1>5, <1>6, <1>7, <1>8 DEF Work

LEMMA NextKeepsIInv ==
  ASSUME IInv, [Next]_vars
  PROVE  IInv'
<1>1. queue \in Seq(Task) /\ wpc \in [Slot -> WorkerStep]
  BY DEF IInv, PoolTypes
<1>2. /\ Cardinality(InState("batch")) \in Nat /\ Cardinality(InState("counted")) \in Nat
      /\ Cardinality(Batches) \in Nat /\ Cardinality(Live) \in Nat
      /\ Cardinality(InState("leaving")) \in Nat
  BY <1>1, WorkersFinite, BatchesFinite
<1>3. CASE UNCHANGED vars
  BY <1>3 DEF vars, IInv, PoolTypes, GaugesExact, NoBatchLost, CountedBefore, InState, Batches
<1>4. CASE PushTask
  <2>1. PoolTypes'
    BY <1>4, PoolAssumption DEF PushTask, IInv, PoolTypes, PoolAssumption
  <2>2. Batches' = Batches /\ \A p : InState(p)' = InState(p)
    BY <1>4 DEF PushTask, Batches, InState
  <2>3. pushing = 0 /\ pushing' = 1 /\ queued' = queued + 1 /\ total' = total + 1
        /\ UNCHANGED <<workers, active, processed, failed>>
    BY <1>4 DEF PushTask, IInv, PoolTypes
  <2>4. GaugesExact'
    <3>1. queued = pushing + Cardinality(Batches) + Cardinality(InState("batch"))
                   + Cardinality(InState("counted"))
      BY DEF IInv, GaugesExact
    <3>2. queued' = pushing' + Cardinality(Batches') + Cardinality(InState("batch")')
                    + Cardinality(InState("counted")')
      BY <1>2, <2>2, <2>3, <3>1
    <3> QED
      BY <2>2, <2>3, <3>2 DEF IInv, GaugesExact
  <2>5. NoBatchLost' /\ CountedBefore'
    BY <1>2, <2>2, <2>3 DEF IInv, PoolTypes, NoBatchLost, CountedBefore
  <2> QED
    BY <2>1, <2>4, <2>5 DEF IInv
<1>5. CASE Send
  <2>1. PoolTypes'
    <3>1. queue' = Append(queue, "batch") /\ Len(queue) < QueueSize
      BY <1>5 DEF Send
    <3>2. queue' \in Seq(Task) /\ Len(queue') = Len(queue) + 1
      BY <1>1, <3>1 DEF Task
    <3>3. Len(queue') <= QueueSize
      BY <1>1, <3>1, <3>2, PoolAssumption DEF PoolAssumption
    <3> QED
      BY <1>5, <3>2, <3>3 DEF Send, stats, IInv, PoolTypes
  <2>2. \A p : InState(p)' = InState(p)
    BY <1>5 DEF Send, InState
  <2>3. Cardinality(Batches') = Cardinality(Batches) + 1
    BY <1>1, <1>5, AppendCounts DEF Send, Task
  <2>4. pushing = 1 /\ pushing' = 0 /\ UNCHANGED <<workers, active, queued, stats>>
    BY <1>5 DEF Send, IInv, PoolTypes
  <2>5. GaugesExact'
    BY <1>2, <2>2, <2>3, <2>4 DEF IInv, GaugesExact
  <2>6. NoBatchLost' /\ CountedBefore'
    BY <2>2, <2>4 DEF stats, IInv, NoBatchLost, CountedBefore
  <2> QED
    BY <2>1, <2>5, <2>6 DEF IInv
<1>6. CASE Tick \/ Shrink
  <2>1. UNCHANGED <<queue, pushing, wpc, workers, active, queued, stats>>
    BY <1>6 DEF Tick, Shrink
  <2>2. mpc' \in {"wait", "many", "few", "stop", "send"}
    BY <1>6 DEF Tick, Shrink
  <2> QED
    BY <2>1, <2>2
       DEF stats, IInv, PoolTypes, GaugesExact, NoBatchLost, CountedBefore, InState, Batches
<1>7. CASE Grow
  <2>1. Batches' = Batches
    BY <1>7 DEF Grow, Batches
  <2>2. CASE UNCHANGED <<workers, active, wpc>>
    <3>1. \A p : InState(p)' = InState(p)
      BY <2>2 DEF InState
    <3> QED
      BY <1>7, <2>1, <2>2, <3>1
         DEF Grow, stats, IInv, PoolTypes, GaugesExact, NoBatchLost, CountedBefore
  <2>3. CASE /\ workers' = workers + 1 /\ active' = active + 1
             /\ \E s \in Slot : wpc[s] = "none" /\ wpc' = [wpc EXCEPT ![s] = "loop"]
    <3>1. PICK s \in Slot : wpc[s] = "none" /\ wpc' = [wpc EXCEPT ![s] = "loop"]
      BY <2>3
    <3>2. /\ Cardinality(InState("batch")') = Cardinality(InState("batch"))
          /\ Cardinality(InState("counted")') = Cardinality(InState("counted"))
          /\ Cardinality(InState("leaving")') = Cardinality(InState("leaving"))
          /\ Cardinality(Live') = Cardinality(Live) + 1
      BY <1>1, <3>1, MoveCounts, MoveCountsLive DEF WorkerStep
    <3>3. PoolTypes'
      BY <1>7, <2>3, <3>1 DEF Grow, stats, IInv, PoolTypes, WorkerStep
    <3>4. GaugesExact'
      BY <1>2, <1>7, <2>1, <2>3, <3>2 DEF Grow, IInv, PoolTypes, GaugesExact, Live
    <3> QED
      BY <1>7, <3>2, <3>3, <3>4 DEF Grow, stats, IInv, NoBatchLost, CountedBefore
  <2> QED
    BY <1>7, <2>2, <2>3 DEF Grow, StartWorker
<1>8. CASE SendStop
  <2>1. \A p : InState(p)' = InState(p)
    BY <1>8 DEF SendStop, InState
  <2>2. CASE Len(queue) < QueueSize /\ queue' = Append(queue, "stop")
    <3>1. Cardinality(Batches') = Cardinality(Batches)
      BY <1>1, <2>2, AppendCounts DEF Task
    <3>2. PoolTypes'
      BY <1>8, <2>2, PoolAssumption DEF SendStop, stats, IInv, PoolTypes, Task, PoolAssumption
    <3> QED
      BY <1>8, <2>1, <3>1, <3>2
         DEF SendStop, stats, IInv, GaugesExact, NoBatchLost, CountedBefore
  <2>3. CASE queue' = queue
    BY <1>8, <2>1, <2>3
       DEF SendStop, stats, IInv, PoolTypes, GaugesExact, NoBatchLost, CountedBefore, Batches
  <2> QED
    BY <1>8, <2>2, <2>3 DEF SendStop
<1> QED
  BY <1>3, <1>4, <1>5, <1>6, <1>7, <1>8, WorkKeepsIInv DEF Next, Manage

(***************************************************************************)
(* The theorems                                                            *)
(***************************************************************************)
(* Every counter of the pool is what it stands for, at any time. *)
THEOREM PoolInvariant == Spec => []IInv
<1>1. IInv /\ [Next]_vars => IInv'
  BY NextKeepsIInv
<1> QED
  BY InitHolds, <1>1, PTL DEF Spec

(* There are never more than maxWorkers workers, QueuedTasks does not go below
   zero, and no counter exceeds the batches pushed. *)
THEOREM PoolTyped == Spec => []TypeOK
<1>1. ASSUME IInv PROVE TypeOK
  <2> DEFINE B == Cardinality(InState("batch"))
             C == Cardinality(InState("counted"))
             Q == Cardinality(Batches)
  <2>1. queue \in Seq(Task) /\ total \in 0..MaxBatches
        /\ processed \in Nat /\ failed \in Nat /\ queued \in Int
    BY <1>1 DEF IInv, PoolTypes
  <2>2. B \in Nat /\ C \in Nat /\ Q \in Nat
    BY <2>1, WorkersFinite, BatchesFinite
  <2>3. workers \in 0..MaxWorkers /\ active \in 0..MaxWorkers
    <3>1. InState("leaving") \subseteq Live
      BY DEF InState, Live
    <3>2. Cardinality(InState("leaving")) <= Cardinality(Live)
      BY <3>1, WorkersFinite, FS_Subset
    <3>3. MaxWorkers \in Nat
      BY PoolAssumption DEF PoolAssumption
    <3> QED
      BY <1>1, <3>2, <3>3, WorkersAreLive, WorkersFinite DEF IInv
  <2>4. queued >= C
    <3>1. queued = pushing + Q + B + C /\ pushing \in Nat
      BY <1>1 DEF IInv, PoolTypes, GaugesExact
    <3> HIDE DEF B, C, Q
    <3> QED
      BY <2>2, <3>1
  <2>5. /\ total = processed + failed + queued - C
        /\ processed + failed >= C
    BY <1>1 DEF IInv, NoBatchLost, CountedBefore
  <2>6. MaxBatches \in Nat
    BY PoolAssumption DEF PoolAssumption
  <2>7. queued \in 0..MaxBatches /\ processed \in 0..MaxBatches /\ failed \in 0..MaxBatches
    <3> HIDE DEF B, C, Q
    <3> QED BY <2>1, <2>2, <2>4, <2>5, <2>6
  <2> QED
    BY <1>1, <2>1, <2>3, <2>7 DEF IInv, PoolTypes, TypeOK, WorkerStep
<1> QED
  BY <1>1, PoolInvariant, PTL

(* The manager decides by exact figures. *)
THEOREM GaugesExactAlways == Spec => []GaugesExact
<1>1. IInv => GaugesExact
  BY DEF IInv
<1> QED
  BY <1>1, PoolInvariant, PTL

(* Every batch pushed is accounted for. *)
THEOREM NoBatchLostAlways == Spec => []NoBatchLost
<1>1. IInv => NoBatchLost
  BY DEF IInv
<1> QED
  BY <1>1, PoolInvariant, PTL

(***************************************************************************)
(* The bag of batches                                                      *)
(***************************************************************************)
BagInv == Bag!BagTypeOK /\ Bag!AllAccounted

LEMMA BagStep == ASSUME BagInv, [Bag!BagNext]_(Bag!bagVars) PROVE BagInv'
<1> DEFINE n == pushing + Cardinality(Batches)
           m == Cardinality(InState("batch"))
<1>1. /\ total \in Nat /\ n \in Nat /\ m \in 0..MaxWorkers /\ processed \in Nat /\ failed \in Nat
      /\ total = n + m + processed + failed /\ MaxWorkers \in Nat
  BY PoolAssumption DEF BagInv, Bag!BagTypeOK, Bag!AllAccounted
<1>2. \/ total' = total + 1 /\ n' = n + 1 /\ UNCHANGED <<m, processed, failed>>
      \/ /\ n > 0 /\ m < MaxWorkers /\ n' = n - 1 /\ m' = m + 1
         /\ UNCHANGED <<total, processed, failed>>
      \/ /\ m > 0 /\ m' = m - 1 /\ UNCHANGED <<total, n>>
         /\ \/ processed' = processed + 1 /\ failed' = failed
            \/ failed' = failed + 1 /\ processed' = processed
      \/ UNCHANGED <<total, n, m, processed, failed>>
  BY DEF Bag!BagNext, Bag!bagVars, Bag!Push, Bag!Begin, Bag!End
<1>3. /\ total' \in Nat /\ n' \in Nat /\ m' \in 0..MaxWorkers
      /\ processed' \in Nat /\ failed' \in Nat
      /\ total' = n' + m' + processed' + failed'
  <2> HIDE DEF n, m
  <2> QED BY <1>1, <1>2
<1> QED
  BY <1>3 DEF BagInv, Bag!BagTypeOK, Bag!AllAccounted

(* The abstract bag loses no batch and processes no more than Parallel at a time. *)
THEOREM BagAccounts == Bag!BagSpec => [](Bag!BagTypeOK /\ Bag!AllAccounted)
<1>1. Bag!BagInit => BagInv
  BY PoolAssumption DEF Bag!BagInit, BagInv, Bag!BagTypeOK, Bag!AllAccounted
<1>2. BagInv /\ [Bag!BagNext]_(Bag!bagVars) => BagInv'
  BY BagStep
<1>3. BagInv <=> Bag!BagTypeOK /\ Bag!AllAccounted
  BY DEF BagInv
<1> QED
  BY <1>1, <1>2, <1>3, PTL DEF Bag!BagSpec

LEMMA InitImplements == Init => Bag!BagInit
<1> SUFFICES ASSUME Init PROVE Bag!BagInit
  OBVIOUS
<1>1. InState("batch") = {} /\ Batches = {}
  BY DEF Init, InState, Batches
<1>2. Cardinality({}) = 0
  BY FS_EmptySet
<1>3. /\ pushing = 0 /\ total = 0 /\ processed = 0 /\ failed = 0
  BY DEF Init
<1>4. pushing + Cardinality(Batches) = 0 /\ Cardinality(InState("batch")) = 0
  BY <1>1, <1>2, <1>3
<1> QED
  BY <1>3, <1>4 DEF Bag!BagInit

(* A worker begins a batch when it takes it out of the channel, and ends it when it counts
   it; taking a stop task, leaving the gauge and exiting do not concern the bag. *)
LEMMA WorkImplements ==
  ASSUME IInv, NEW s \in Slot, Work(s)
  PROVE  Bag!BagNext \/ UNCHANGED Bag!bagVars
<1>1. queue \in Seq(Task) /\ wpc \in [Slot -> WorkerStep] /\ pushing \in Nat
  BY DEF IInv, PoolTypes
<1>2. Cardinality(InState("batch")) \in Nat /\ Cardinality(Batches) \in Nat
  BY <1>1, WorkersFinite, BatchesFinite
<1>3. CASE Take(s)
  <2>1. /\ queue # <<>> /\ queue' = Tail(queue) /\ Head(queue) \in Task /\ wpc[s] = "loop"
        /\ UNCHANGED <<pushing, total, processed, failed>>
    BY <1>1, <1>3 DEF Take, stats
  <2>2. CASE Head(queue) = "stop"
    <3>1. wpc' = [wpc EXCEPT ![s] = "exit"]
      BY <1>3, <2>2 DEF Take
    <3>2. Cardinality(InState("batch")') = Cardinality(InState("batch"))
      BY <1>1, <2>1, <3>1, MoveCounts DEF WorkerStep
    <3>3. Cardinality(Batches') = Cardinality(Batches)
      BY <1>1, <2>1, <2>2, TailCounts
    <3> QED BY <2>1, <3>2, <3>3 DEF Bag!bagVars
  <2>3. CASE Head(queue) = "batch"
    <3>1. wpc' = [wpc EXCEPT ![s] = "batch"]
      BY <1>3, <2>3 DEF Take
    <3>2. Cardinality(InState("batch")') = Cardinality(InState("batch")) + 1
      BY <1>1, <2>1, <3>1, MoveCounts DEF WorkerStep
    <3>3. Cardinality(Batches') = Cardinality(Batches) - 1 /\ Cardinality(Batches') \in Nat
      <4>1. queue' \in Seq(Task)
        BY <1>1, <2>1
      <4>2. Cardinality(Batches') \in Nat
        <5>1. Batches' \in SUBSET (1..Len(queue')) /\ Len(queue') \in Int
          BY <4>1 DEF Batches
        <5>2. IsFiniteSet(1..Len(queue'))
          BY <5>1, FS_Interval
        <5>3. IsFiniteSet(Batches')
          BY <5>1, <5>2, FS_Subset
        <5> QED BY <5>3, FS_CardinalityType
      <4> QED BY <1>1, <2>1, <2>3, <4>2, TailCounts
    <3>4. Cardinality(InState("batch")) < MaxWorkers
      <4>1. /\ InState("batch") \subseteq Slot /\ InState("batch") # Slot
            /\ IsFiniteSet(Slot) /\ Cardinality(Slot) = MaxWorkers
        BY <2>1, PoolAssumption DEF InState, PoolAssumption
      <4> QED BY <4>1, <1>2, FS_Subset, FS_CardinalityType
    <3>5. Bag!Begin
      <4>1. /\ pushing + Cardinality(Batches) > 0
            /\ (pushing + Cardinality(Batches))' = (pushing + Cardinality(Batches)) - 1
        BY <1>1, <1>2, <2>1, <3>3
      <4>2. Cardinality(InState("batch"))' = Cardinality(InState("batch")) + 1
        BY <3>2
      <4> QED BY <2>1, <3>4, <4>1, <4>2 DEF Bag!Begin
    <3> QED BY <3>5 DEF Bag!BagNext
  <2> QED BY <2>1, <2>2, <2>3 DEF Task
<1>4. CASE Process(s)
  <2>1. /\ wpc[s] = "batch" /\ wpc' = [wpc EXCEPT ![s] = "counted"]
        /\ UNCHANGED <<queue, pushing, total>>
    BY <1>4 DEF Process
  <2>2. /\ Cardinality(InState("batch")') = Cardinality(InState("batch")) - 1
        /\ Batches' = Batches
    BY <1>1, <2>1, MoveCounts DEF WorkerStep, Batches
  <2>3. Cardinality(InState("batch")) > 0
    <3>1. s \in InState("batch") /\ IsFiniteSet(InState("batch"))
      BY <2>1, WorkersFinite DEF InState
    <3>2. Cardinality(InState("batch")) # 0
      BY <3>1, FS_EmptySet
    <3> QED BY <1>2, <3>2
  <2>4. Bag!End
    BY <1>4, <2>1, <2>2, <2>3 DEF Process, Bag!End
  <2> QED BY <2>4 DEF Bag!BagNext
<1>5. CASE Uncount(s) \/ Exit(s) \/ Leave(s)
  <2>1. PICK q \in {"loop", "leaving", "none"} :
          /\ wpc[s] \in {"counted", "exit", "leaving"} /\ wpc[s] # q
          /\ wpc' = [wpc EXCEPT ![s] = q]
    BY <1>5 DEF Uncount, Exit, Leave
  <2>2. UNCHANGED <<queue, pushing, stats>>
    BY <1>5 DEF Uncount, Exit, Leave
  <2>3. Cardinality(InState("batch")') = Cardinality(InState("batch")) /\ Batches' = Batches
    BY <1>1, <2>1, <2>2, MoveCounts DEF WorkerStep, Batches
  <2> QED BY <2>2, <2>3 DEF Bag!bagVars, stats
<1> QED
  BY <1>3, <1>4, <1>5 DEF Work

LEMMA StepImplements ==
  ASSUME IInv, [Next]_vars
  PROVE  [Bag!BagNext]_(Bag!bagVars)
<1>1. queue \in Seq(Task) /\ wpc \in [Slot -> WorkerStep]
  BY DEF IInv, PoolTypes
<1>2. Cardinality(InState("batch")) \in Nat /\ Cardinality(Batches) \in Nat
  BY <1>1, WorkersFinite, BatchesFinite
<1>3. CASE PushTask
  <2>1. /\ pushing = 0 /\ pushing' = 1 /\ total' = total + 1 /\ UNCHANGED <<processed, failed>>
        /\ Batches' = Batches /\ InState("batch")' = InState("batch")
    BY <1>3 DEF PushTask, Batches, InState
  <2>2. Bag!Push
    BY <1>2, <2>1 DEF Bag!Push
  <2> QED BY <2>2 DEF Bag!BagNext
<1>4. CASE Send
  <2>1. /\ pushing = 1 /\ pushing' = 0 /\ UNCHANGED stats
        /\ queue' = Append(queue, "batch") /\ InState("batch")' = InState("batch")
    BY <1>4 DEF Send, InState
  <2>2. Cardinality(Batches') = Cardinality(Batches) + 1
    BY <1>1, <2>1, AppendCounts DEF Task
  <2>3. UNCHANGED Bag!bagVars
    BY <1>2, <2>1, <2>2 DEF Bag!bagVars, stats
  <2> QED BY <2>3
<1>5. CASE SendStop
  <2>1. UNCHANGED <<pushing, stats>> /\ InState("batch")' = InState("batch")
    BY <1>5 DEF SendStop, InState
  <2>2. Cardinality(Batches') = Cardinality(Batches)
    <3>1. CASE queue' = Append(queue, "stop")
      BY <1>1, <3>1, AppendCounts DEF Task
    <3>2. CASE queue' = queue
      BY <3>2 DEF Batches
    <3> QED BY <1>5, <3>1, <3>2 DEF SendStop
  <2> QED BY <2>1, <2>2 DEF Bag!bagVars, stats
<1>6. CASE Grow
  <2>1. UNCHANGED <<pushing, stats>> /\ Batches' = Batches
    BY <1>6 DEF Grow, Batches
  <2>2. Cardinality(InState("batch")') = Cardinality(InState("batch"))
    <3>1. CASE \E s \in Slot : wpc[s] = "none" /\ wpc' = [wpc EXCEPT ![s] = "loop"]
      BY <1>1, <3>1, MoveCounts DEF WorkerStep
    <3>2. CASE wpc' = wpc
      BY <3>2 DEF InState
    <3> QED BY <1>6, <3>1, <3>2 DEF Grow, StartWorker
  <2> QED BY <2>1, <2>2 DEF Bag!bagVars, stats
<1>7. CASE Tick \/ Shrink \/ UNCHANGED vars
  <2>1. UNCHANGED <<pushing, stats>> /\ Batches' = Batches /\ InState("batch")' = InState("batch")
    BY <1>7 DEF Tick, Shrink, vars, stats, Batches, InState
  <2> QED BY <2>1 DEF Bag!bagVars, stats
<1>8. ASSUME NEW s \in Slot, Work(s) PROVE Bag!BagNext \/ UNCHANGED Bag!bagVars
  BY <1>8, WorkImplements
<1> QED
  BY <1>3, <1>4, <1>5, <1>6, <1>7, <1>8 DEF Next, Manage

(* The pool implements the bag, for any number of workers, capacity and thresholds: what
   the manager does between the batches, in whatever order, moves none of them. *)
THEOREM BagImplemented == Spec => ImplementsBag
<1>1. IInv /\ [Next]_vars => [Bag!BagNext]_(Bag!bagVars)
  BY StepImplements
<1> QED
  BY <1>1, InitImplements, PoolInvariant, PTL DEF Spec, ImplementsBag, Bag!BagSpec

(* Hence every batch pushed waits, is with one worker, or has ended once. *)
THEOREM BatchesAccounted == Spec => []Bag!AllAccounted
  BY BagImplemented, BagAccounts, PTL DEF ImplementsBag
=============================================================================
