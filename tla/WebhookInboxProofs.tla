-------------------------- MODULE WebhookInboxProofs --------------------------
(***************************************************************************)
(* Proofs about WebhookInbox, for any events, keys, workers and bounds:    *)
(* InboxInv is inductive, and the safety properties follow from it.        *)
(***************************************************************************)
EXTENDS WebhookInbox, FiniteSetTheorems, TLAPS

(* The empty table satisfies the invariant. *)
LEMMA InitInbox == ASSUME Init PROVE InboxInv
  BY InboxAssumption
  DEF Init, InboxInv, TypeOK, RowStatus, Hands, LostStuck, Fresh, Untried, HeldFresh,
      Counted, AppliedOnce, CompletedWasApplied, NoneForgotten, InHands

(* A primary key is a positive number. *)
LEMMA NextIdPositive == NextId \in Nat \ {0}
<1>1. IsFiniteSet({k \in Key : id[k] # 0})
  BY InboxAssumption, FS_Subset
<1>2. Cardinality({k \in Key : id[k] # 0}) \in Nat
  BY <1>1, FS_CardinalityType
<1> QED
  BY <1>2 DEF NextId

(* A delivery inserts a pending row, or leaves the table as it is. *)
LEMMA DeliverKeeps == ASSUME InboxInv, NEW e \in Event, Deliver(e) PROVE InboxInv'
<1> DEFINE k0 == KeyOf[e]
<1>1. k0 \in Key
  BY InboxAssumption
<1>2. acked' \subseteq Event
  BY DEF Deliver, InboxInv, TypeOK
<1>3. CASE id[k0] # 0
  BY <1>2, <1>3
  DEF Deliver, Enqueue, row, work, hist, InboxInv, TypeOK, RowStatus, Hands, LostStuck, Fresh,
      Untried, HeldFresh, Counted, AppliedOnce, CompletedWasApplied, NoneForgotten, InHands
<1>4. CASE id[k0] = 0
  <2>1. /\ id' = [id EXCEPT ![k0] = NextId]
        /\ status' = [status EXCEPT ![k0] = "pending"]
        /\ ripe' = [ripe EXCEPT ![k0] = TRUE]
        /\ UNCHANGED <<attempts, held, job, result, lost, kills, unmarked, replays, runs, oks>>
    BY <1>4 DEF Deliver, Enqueue, work, hist
  <2>2. status[k0] = "none" /\ NextId \in Nat \ {0}
    BY <1>1, <1>4, NextIdPositive DEF InboxInv, Fresh
  <2>3. TypeOK'
    BY <1>1, <1>2, <2>1, <2>2 DEF InboxInv, TypeOK, RowStatus
  <2>4. Hands' /\ LostStuck'
    BY <1>1, <2>1, <2>2 DEF InboxInv, TypeOK, Hands, LostStuck
  <2>5. Fresh' /\ Untried' /\ HeldFresh' /\ Counted'
    BY <1>1, <2>1, <2>2 DEF InboxInv, TypeOK, Fresh, Untried, HeldFresh, Counted
  <2>6. AppliedOnce' /\ CompletedWasApplied' /\ NoneForgotten'
    BY <1>1, <2>1, <2>2
    DEF InboxInv, TypeOK, AppliedOnce, CompletedWasApplied, NoneForgotten, InHands
  <2> QED
    BY <2>3, <2>4, <2>5, <2>6 DEF InboxInv
<1> QED
  BY <1>3, <1>4

(* A claimed row was pending, hence in nobody's hands. *)
LEMMA BatchPending ==
  ASSUME InboxInv, NEW w \in Worker, NEW S \in SUBSET Key, Batch(w, S)
  PROVE  \A k \in S : /\ status[k] = "pending" /\ k \notin lost
                      /\ \A v \in Worker : k \notin held[v] /\ k # job[v]
  BY InboxAssumption DEF InboxInv, TypeOK, Batch, Claimable, Hands, LostStuck

(* A claim moves pending rows into its worker's hands. *)
LEMMA ClaimBatchKeeps == ASSUME InboxInv, NEW w \in Worker, ClaimBatch(w) PROVE InboxInv'
<1>1. PICK S \in SUBSET Key : /\ Batch(w, S)
                              /\ MarkProcessing(S)
                              /\ held' = [held EXCEPT ![w] = S]
  BY DEF ClaimBatch
<1>2. \A k \in S : /\ status[k] = "pending" /\ k \notin lost
                   /\ \A v \in Worker : k \notin held[v] /\ k # job[v]
  BY <1>1, BatchPending
<1>3. /\ status' = [k \in Key |-> IF k \in S THEN "processing" ELSE status[k]]
      /\ UNCHANGED <<id, attempts, ripe, acked, job, result, lost, kills, unmarked, replays,
                     runs, oks>>
  BY <1>1 DEF ClaimBatch, MarkProcessing, hist
<1>4. held[w] = {} /\ job[w] = NoJob
  BY DEF ClaimBatch, Resting
<1>5. TypeOK'
  BY <1>1, <1>3 DEF InboxInv, TypeOK, RowStatus
<1>6. Hands' /\ LostStuck'
  BY InboxAssumption, <1>1, <1>2, <1>3, <1>4 DEF InboxInv, TypeOK, Hands, LostStuck
<1>7. Fresh' /\ Untried'
  BY <1>1, <1>2, <1>3 DEF InboxInv, TypeOK, Fresh, Untried
<1>8. HeldFresh' /\ Counted'
  BY <1>1, <1>2, <1>3, <1>4 DEF InboxInv, TypeOK, HeldFresh, Counted, Untried
<1>9. AppliedOnce' /\ CompletedWasApplied'
  BY <1>1, <1>2, <1>3 DEF InboxInv, TypeOK, AppliedOnce, CompletedWasApplied
<1>10. NoneForgotten'
  BY <1>1, <1>2, <1>3, <1>4, InboxAssumption DEF InboxInv, TypeOK, NoneForgotten, InHands
<1> QED
  BY <1>5, <1>6, <1>7, <1>8, <1>9, <1>10 DEF InboxInv

(* A claim nobody knows of: its rows count as lost. *)
LEMMA ClaimLostKeeps == ASSUME InboxInv, NEW w \in Worker, ClaimLost(w) PROVE InboxInv'
<1>1. PICK S \in SUBSET Key : /\ Batch(w, S)
                              /\ MarkProcessing(S)
                              /\ lost' = lost \cup S
  BY DEF ClaimLost
<1>2. \A k \in S : /\ status[k] = "pending" /\ k \notin lost
                   /\ \A v \in Worker : k \notin held[v] /\ k # job[v]
  BY <1>1, BatchPending
<1>3. /\ status' = [k \in Key |-> IF k \in S THEN "processing" ELSE status[k]]
      /\ kills' = kills + 1
      /\ UNCHANGED <<id, attempts, ripe, acked, held, job, result, unmarked, replays, runs,
                     oks>>
  BY <1>1 DEF ClaimLost, MarkProcessing, work
<1>4. TypeOK'
  BY <1>1, <1>3 DEF InboxInv, TypeOK, RowStatus
<1>5. Hands' /\ LostStuck'
  BY InboxAssumption, <1>1, <1>2, <1>3 DEF InboxInv, TypeOK, Hands, LostStuck
<1>6. Fresh' /\ Untried' /\ HeldFresh' /\ Counted'
  BY <1>1, <1>2, <1>3 DEF InboxInv, TypeOK, Fresh, Untried, HeldFresh, Counted
<1>7. AppliedOnce' /\ CompletedWasApplied' /\ NoneForgotten'
  BY <1>1, <1>2, <1>3
  DEF InboxInv, TypeOK, AppliedOnce, CompletedWasApplied, NoneForgotten, InHands
<1> QED
  BY <1>4, <1>5, <1>6, <1>7 DEF InboxInv

(* A row that is processed has not succeeded before. *)
LEMMA ProcessKeeps ==
  ASSUME InboxInv, NEW w \in Worker, NEW k \in Key, Process(w, k) PROVE InboxInv'
<1>1. PICK r \in {"ok", "error"} :
        /\ result' = [result EXCEPT ![w] = r]
        /\ oks' = IF r = "ok" THEN [oks EXCEPT ![k] = @ + 1] ELSE oks
  BY DEF Process
<1>2. /\ held' = [held EXCEPT ![w] = @ \ {k}]
      /\ job' = [job EXCEPT ![w] = k]
      /\ runs' = [runs EXCEPT ![k] = @ + 1]
      /\ UNCHANGED <<id, status, attempts, ripe, acked, lost, kills, unmarked, replays>>
  BY DEF Process, row
<1>3. /\ job[w] = NoJob /\ k \in held[w] /\ k # NoJob
      /\ status[k] = "processing" /\ k \notin lost /\ oks[k] = 0
      /\ \A v \in Worker \ {w} : k \notin held[v] /\ k # job[v]
      /\ runs[k] <= attempts[k] + replays[k]
  BY InboxAssumption DEF Process, InboxInv, TypeOK, Hands, HeldFresh, Counted
<1>4. TypeOK'
  BY <1>1, <1>2 DEF InboxInv, TypeOK
<1>5. Hands' /\ LostStuck'
  BY InboxAssumption, <1>2, <1>3 DEF InboxInv, TypeOK, Hands, LostStuck
<1>6. Fresh' /\ Untried'
  BY <1>1, <1>2, <1>3 DEF InboxInv, TypeOK, Fresh, Untried
<1>7. HeldFresh'
  BY <1>1, <1>2, <1>3, InboxAssumption DEF InboxInv, TypeOK, HeldFresh, Hands
<1>8. Counted'
  BY <1>2, <1>3 DEF InboxInv, TypeOK, Counted
<1>9. AppliedOnce' /\ CompletedWasApplied'
  BY <1>1, <1>2, <1>3 DEF InboxInv, TypeOK, AppliedOnce, CompletedWasApplied
<1>10. NoneForgotten'
  <2> SUFFICES ASSUME NEW x \in Key, status[x] = "processing", x \notin lost
               PROVE  \E v \in Worker : x \in held'[v] \cup {job'[v]}
    BY <1>2 DEF NoneForgotten, InHands
  <2>1. PICK v \in Worker : x \in held[v] \cup {job[v]}
    BY DEF InboxInv, NoneForgotten, InHands
  <2>2. CASE x = k
    BY <1>2, <2>2 DEF InboxInv, TypeOK
  <2>3. CASE x # k /\ v = w
    BY <1>2, <1>3, <2>1, <2>3, InboxAssumption DEF InboxInv, TypeOK
  <2>4. CASE v # w
    BY <1>2, <2>1, <2>4 DEF InboxInv, TypeOK
  <2> QED
    BY <2>2, <2>3, <2>4
<1> QED
  BY <1>4, <1>5, <1>6, <1>7, <1>8, <1>9, <1>10 DEF InboxInv

(* The three marks: completed after a success, else dead letter or pending. *)
LEMMA FinishKeeps == ASSUME InboxInv, NEW w \in Worker, Finish(w) PROVE InboxInv'
<1> DEFINE k == job[w]
<1>1. /\ k \in Key /\ k # NoJob
      /\ status[k] = "processing" /\ k \notin lost
      /\ oks[k] = (IF result[w] = "ok" THEN 1 ELSE 0)
      /\ \A v \in Worker : k \notin held[v]
      /\ \A v \in Worker \ {w} : k # job[v]
  BY DEF Finish, InboxInv, TypeOK, Hands, HeldFresh
<1>2. /\ job' = [job EXCEPT ![w] = NoJob]
      /\ result' = [result EXCEPT ![w] = "error"]
      /\ UNCHANGED <<held, id, acked, lost, kills, unmarked, replays, runs, oks>>
  BY DEF Finish, Done, hist
<1>3. PICK s \in {"completed", "dead_letter", "pending"} :
        /\ status' = [status EXCEPT ![k] = s]
        /\ s = "completed" <=> result[w] = "ok"
        /\ s # "pending" => UNCHANGED <<attempts, ripe>>
        /\ s = "pending" => /\ attempts' = [attempts EXCEPT ![k] = @ + 1]
                            /\ attempts[k] + 1 < MaxAttempts
                            /\ ripe' = [ripe EXCEPT ![k] = FALSE]
  <2>1. Mark(w, k)
    BY DEF Finish
  <2> QED
    BY <2>1 DEF Mark
<1>4. attempts' \in [Key -> 0..(MaxAttempts - 1)]
  BY InboxAssumption, <1>1, <1>3 DEF InboxInv, TypeOK
<1>5. TypeOK'
  BY <1>1, <1>2, <1>3, <1>4 DEF InboxInv, TypeOK, RowStatus
<1>6. Hands' /\ LostStuck'
  BY InboxAssumption, <1>1, <1>2, <1>3 DEF InboxInv, TypeOK, Hands, LostStuck
<1>7. Fresh' /\ Untried' /\ HeldFresh'
  BY InboxAssumption, <1>1, <1>2, <1>3 DEF InboxInv, TypeOK, Fresh, Untried, HeldFresh, Hands
<1>8. Counted'
  BY <1>1, <1>2, <1>3 DEF InboxInv, TypeOK, Counted
<1>9. AppliedOnce' /\ CompletedWasApplied'
  BY <1>1, <1>2, <1>3 DEF InboxInv, TypeOK, AppliedOnce, CompletedWasApplied
<1>10. NoneForgotten'
  BY <1>1, <1>2, <1>3 DEF InboxInv, TypeOK, NoneForgotten, InHands
<1> QED
  BY <1>5, <1>6, <1>7, <1>8, <1>9, <1>10 DEF InboxInv

(* Rows whose worker gives them up without a mark stay in 'processing' and are lost. *)
LEMMA FinishUnmarkedKeeps ==
  ASSUME InboxInv, NEW w \in Worker, FinishUnmarked(w) PROVE InboxInv'
<1>1. /\ job[w] # NoJob
      /\ lost' = lost \cup {job[w]}
      /\ job' = [job EXCEPT ![w] = NoJob]
      /\ result' = [result EXCEPT ![w] = "error"]
      /\ unmarked' = unmarked + 1
      /\ UNCHANGED <<held, id, status, attempts, ripe, acked, kills, replays, runs, oks>>
  BY DEF FinishUnmarked, Done, row
<1>2. TypeOK'
  BY <1>1 DEF InboxInv, TypeOK
<1>3. Hands' /\ LostStuck'
  BY InboxAssumption, <1>1 DEF InboxInv, TypeOK, Hands, LostStuck
<1>4. Fresh' /\ Untried' /\ HeldFresh' /\ Counted'
  BY <1>1 DEF InboxInv, TypeOK, Fresh, Untried, HeldFresh, Counted
<1>5. AppliedOnce' /\ CompletedWasApplied' /\ NoneForgotten'
  BY <1>1 DEF InboxInv, TypeOK, AppliedOnce, CompletedWasApplied, NoneForgotten, InHands
<1> QED
  BY <1>2, <1>3, <1>4, <1>5 DEF InboxInv

LEMMA CrashKeeps == ASSUME InboxInv, NEW w \in Worker, Crash(w) PROVE InboxInv'
<1>1. /\ lost' = lost \cup held[w] \cup ({job[w]} \ {NoJob})
      /\ held' = [held EXCEPT ![w] = {}]
      /\ job' = [job EXCEPT ![w] = NoJob]
      /\ result' = [result EXCEPT ![w] = "error"]
      /\ kills' = kills + 1
      /\ UNCHANGED <<id, status, attempts, ripe, acked, unmarked, replays, runs, oks>>
  BY DEF Crash, row
<1>2. TypeOK'
  BY <1>1 DEF InboxInv, TypeOK
<1>3. Hands' /\ LostStuck'
  BY InboxAssumption, <1>1 DEF InboxInv, TypeOK, Hands, LostStuck
<1>4. Fresh' /\ Untried' /\ HeldFresh' /\ Counted'
  BY <1>1 DEF InboxInv, TypeOK, Fresh, Untried, HeldFresh, Counted
<1>5. AppliedOnce' /\ CompletedWasApplied'
  BY <1>1 DEF InboxInv, TypeOK, AppliedOnce, CompletedWasApplied
<1>6. NoneForgotten'
  BY <1>1, InboxAssumption DEF InboxInv, TypeOK, NoneForgotten, InHands
<1> QED
  BY <1>2, <1>3, <1>4, <1>5, <1>6 DEF InboxInv

(* Time passing and a replay only change a row nobody works on. *)
LEMMA RipenKeeps == ASSUME InboxInv, NEW k \in Key, Ripen(k) PROVE InboxInv'
  BY DEF Ripen, work, hist, InboxInv, TypeOK, Hands, LostStuck, Fresh, Untried, HeldFresh,
         Counted, AppliedOnce, CompletedWasApplied, NoneForgotten, InHands

LEMMA ReplayKeeps == ASSUME InboxInv, NEW k \in Key, Replay(k) PROVE InboxInv'
<1>1. /\ status[k] = "dead_letter"
      /\ status' = [status EXCEPT ![k] = "pending"]
      /\ ripe' = [ripe EXCEPT ![k] = TRUE]
      /\ replays' = [replays EXCEPT ![k] = @ + 1]
      /\ UNCHANGED <<id, attempts, acked, held, job, result, lost, kills, unmarked, runs, oks>>
  BY DEF Replay, work
<1>2. TypeOK'
  BY <1>1 DEF InboxInv, TypeOK, RowStatus
<1>3. Hands' /\ LostStuck'
  BY <1>1 DEF InboxInv, TypeOK, Hands, LostStuck
<1>4. Fresh' /\ Untried' /\ HeldFresh'
  BY <1>1 DEF InboxInv, TypeOK, Fresh, Untried, HeldFresh
<1>5. Counted'
  BY <1>1 DEF InboxInv, TypeOK, Counted
<1>6. AppliedOnce' /\ CompletedWasApplied' /\ NoneForgotten'
  BY <1>1 DEF InboxInv, TypeOK, AppliedOnce, CompletedWasApplied, NoneForgotten, InHands
<1> QED
  BY <1>2, <1>3, <1>4, <1>5, <1>6 DEF InboxInv

(* Every step of the handlers and the workers preserves the invariant. *)
LEMMA NextInbox == ASSUME InboxInv, [Next]_vars PROVE InboxInv'
<1>1. CASE UNCHANGED vars
  BY <1>1
  DEF vars, InboxInv, TypeOK, Hands, LostStuck, Fresh, Untried, HeldFresh,
      Counted, AppliedOnce, CompletedWasApplied, NoneForgotten, InHands
<1>2. CASE Next
  BY <1>2, DeliverKeeps, ClaimBatchKeeps, ClaimLostKeeps, ProcessKeeps, FinishKeeps,
     FinishUnmarkedKeeps, CrashKeeps, RipenKeeps, ReplayKeeps
  DEF Next
<1> QED
  BY <1>1, <1>2

-----------------------------------------------------------------------------

(* The inductive invariant of the webhook queue holds in every reachable state. *)
THEOREM InboxInvariant == Spec => []InboxInv
  BY InitInbox, NextInbox, PTL DEF Spec

(* Rows keep their types, and attempts stays below max_attempts: no row is retried for
   ever (webhook_inbox_worker.go, handleOne). *)
THEOREM InboxTyped == Spec => []TypeOK
<1>1. InboxInv => TypeOK
  BY DEF InboxInv
<1> QED
  BY <1>1, InboxInvariant, PTL

(* A webhook succeeds at most once, for any number of redeliveries, retries, replays and
   service instances. *)
THEOREM AppliedOnceAlways == Spec => []AppliedOnce
<1>1. InboxInv => AppliedOnce
  BY DEF InboxInv
<1> QED
  BY <1>1, InboxInvariant, PTL

(* A completed row has succeeded. *)
THEOREM CompletedWasAppliedAlways == Spec => []CompletedWasApplied
<1>1. InboxInv => CompletedWasApplied
  BY DEF InboxInv
<1> QED
  BY <1>1, InboxInvariant, PTL

(* A row is processed at most max_attempts times, plus once per replay. *)
THEOREM BoundedRunsAlways == Spec => []BoundedRuns
<1>1. InboxInv => BoundedRuns
  <2> SUFFICES ASSUME InboxInv, NEW k \in Key
               PROVE  runs[k] <= MaxAttempts + replays[k]
    BY DEF BoundedRuns
  <2>1. /\ attempts[k] \in 0..(MaxAttempts - 1) /\ replays[k] \in Nat /\ runs[k] \in Nat
        /\ runs[k] <= attempts[k] + replays[k] + 1
    BY DEF InboxInv, TypeOK, Counted
  <2> QED
    BY <2>1, InboxAssumption
<1> QED
  BY <1>1, InboxInvariant, PTL

(* A row in 'processing' is in some worker's hands, or its worker was lost. *)
THEOREM NoneForgottenAlways == Spec => []NoneForgotten
<1>1. InboxInv => NoneForgotten
  BY DEF InboxInv
<1> QED
  BY <1>1, InboxInvariant, PTL

-----------------------------------------------------------------------------
(* The abstract queue.  Its variables are the state functions Places, oks, acked and
   kills + unmarked, of which these proofs use no definition. *)
LEMMA SameCardinality ==
  \A S : Q!Cardinality(S) = Cardinality(S) /\ (Q!IsFiniteSet(S) <=> IsFiniteSet(S))
BY DEF Q!Cardinality, Cardinality, Q!IsFiniteSet, IsFiniteSet

LEMMA QueueConstants == Q!QueueAssumption
  BY InboxAssumption, SameCardinality DEF Q!QueueAssumption

QueueInv == Q!QueueTypeOK /\ Q!Promise

LEMMA InitQueue == ASSUME Q!QueueInit PROVE QueueInv
<1>1. Q!QueueTypeOK /\ Q!AckedIsStored /\ Q!OneEffect
  BY DEF Q!QueueInit, Q!QueueTypeOK, Q!Place, Q!AckedIsStored, Q!OneEffect
<1>2. Q!LossBounded
  <2>1. Q!At("stuck") = {}
    BY DEF Q!QueueInit, Q!At
  <2>2. Cardinality({}) = 0 /\ BatchSize \in Nat
    BY FS_EmptySet, InboxAssumption
  <2>3. kills + unmarked = 0
    BY DEF Q!QueueInit
  <2> QED BY <2>1, <2>2, <2>3, SameCardinality DEF Q!LossBounded
<1> QED
  BY <1>1, <1>2 DEF QueueInv, Q!Promise

(* A move changes the places of its keys and no others. *)
LEMMA Moved ==
  ASSUME Q!QueueTypeOK, NEW S \in SUBSET Key, NEW p \in Q!Place, Q!MoveTo(S, p)
  PROVE  /\ Places' \in [Key -> Q!Place]
         /\ \A k \in S : Places'[k] = p
         /\ \A k \in Key \ S : Places'[k] = Places[k]
  BY DEF Q!QueueTypeOK, Q!MoveTo

(* Without a mishap nothing gets stuck. *)
LEMMA NothingStuck ==
  ASSUME QueueInv, NEW S \in SUBSET Key, NEW p \in Q!Place \ {"stuck"}, Q!MoveTo(S, p),
         S \cap Q!At("stuck") = {}, UNCHANGED (kills + unmarked)
  PROVE  Q!LossBounded'
<1>1. Q!At("stuck")' = Q!At("stuck")
  BY Moved DEF QueueInv, Q!At
<1> QED
  BY <1>1 DEF QueueInv, Q!Promise, Q!LossBounded

(* A move that respects the effects, and is a mishap if it ends in "stuck". *)
LEMMA MoveKeeps ==
  ASSUME QueueInv, NEW S \in SUBSET Key, NEW p \in Q!Place \ {"absent"}, Q!MoveTo(S, p),
         UNCHANGED acked, oks' \in [Key -> Nat], \A k \in Key \ S : oks'[k] = oks[k],
         \A k \in S : /\ oks'[k] <= 1
                      /\ p \in {"queued", "taken", "dead"} => oks'[k] = 0
                      /\ p \in {"applied", "done"} => oks'[k] = 1,
         \/ UNCHANGED (kills + unmarked) /\ p # "stuck" /\ S \cap Q!At("stuck") = {}
         \/ /\ (kills + unmarked)' = kills + unmarked + 1 /\ p = "stuck"
            /\ Cardinality(S) <= BatchSize
  PROVE  QueueInv'
<1> USE DEF QueueInv, Q!Promise
<1>1. /\ Places' \in [Key -> Q!Place]
      /\ \A k \in S : Places'[k] = p
      /\ \A k \in Key \ S : Places'[k] = Places[k]
  BY Moved
<1>2. Q!QueueTypeOK'
  BY <1>1 DEF Q!QueueTypeOK
<1>3. Q!OneEffect'
  BY <1>1 DEF Q!OneEffect, Q!QueueTypeOK
<1>4. Q!AckedIsStored'
  BY <1>1, InboxAssumption DEF Q!AckedIsStored, Q!QueueTypeOK
<1>5. CASE UNCHANGED (kills + unmarked) /\ p # "stuck" /\ S \cap Q!At("stuck") = {}
  BY <1>2, <1>3, <1>4, <1>5, NothingStuck
<1>6. CASE /\ (kills + unmarked)' = kills + unmarked + 1 /\ p = "stuck"
           /\ Cardinality(S) <= BatchSize
  <2> DEFINE T == Q!At("stuck")
             b == BatchSize * (kills + unmarked)
  <2>1. T' = T \cup S
    BY <1>1, <1>6 DEF Q!At
  <2>2. IsFiniteSet(S) /\ IsFiniteSet(T)
    <3>1. T \in SUBSET Key
      BY DEF Q!At
    <3> QED BY <3>1, InboxAssumption, FS_Subset
  <2>3. Cardinality(T) <= b
    BY SameCardinality DEF Q!LossBounded
  <2>4. BatchSize \in Nat /\ kills + unmarked \in Nat
    BY InboxAssumption DEF Q!QueueTypeOK
  <2>5. b \in Nat /\ BatchSize * (kills + unmarked + 1) = b + BatchSize
    <3> DEFINE m == kills + unmarked
    <3>1. m \in Nat
      BY <2>4
    <3> HIDE DEF m
    <3> QED BY <2>4, <3>1
  <2> HIDE DEF T, b
  <2>6. Cardinality(T \cup S) <= b + BatchSize
    <3>1. /\ Cardinality(T \cup S) = Cardinality(T) + Cardinality(S) - Cardinality(T \cap S)
          /\ Cardinality(T) \in Nat /\ Cardinality(S) \in Nat /\ Cardinality(T \cap S) \in Nat
      BY <2>2, FS_Union, FS_Intersection, FS_CardinalityType
    <3>2. Cardinality(S) <= BatchSize
      BY <1>6
    <3> QED BY <2>3, <2>4, <2>5, <3>1, <3>2
  <2>7. Cardinality(T') <= BatchSize * (kills + unmarked)'
    BY <1>6, <2>1, <2>5, <2>6
  <2>8. Q!LossBounded'
    BY <2>7, SameCardinality DEF Q!LossBounded, T
  <2> QED BY <1>2, <1>3, <1>4, <2>8
<1> QED BY <1>5, <1>6

LEMMA QueueStep == ASSUME QueueInv, [Q!QueueNext]_(Q!queueVars) PROVE QueueInv'
<1> USE DEF QueueInv, Q!Promise
<1>1. ASSUME NEW e \in Event, Q!Accept(e) PROVE QueueInv'
  <2> DEFINE S == {KeyOf[e]} \cap Q!At("absent")
  <2>1. /\ S \in SUBSET Key /\ KeyOf[e] \in Key /\ "queued" \in Q!Place \ {"stuck"}
        /\ Q!MoveTo(S, "queued") /\ S \cap Q!At("stuck") = {}
        /\ \A k \in S : Places[k] = "absent"
        /\ KeyOf[e] \notin S => Places[KeyOf[e]] # "absent"
    BY <1>1, InboxAssumption DEF Q!Accept, Q!At, Q!Place
  <2>2. /\ acked' \in {acked, acked \cup {e}}
        /\ UNCHANGED <<oks, kills + unmarked>>
    BY <1>1 DEF Q!Accept
  <2> HIDE DEF S
  <2>3. /\ Places' \in [Key -> Q!Place]
        /\ \A k \in S : Places'[k] = "queued"
        /\ \A k \in Key \ S : Places'[k] = Places[k]
    BY <2>1, Moved
  <2>4. Q!QueueTypeOK' /\ Q!OneEffect'
    BY <2>1, <2>2, <2>3 DEF Q!QueueTypeOK, Q!OneEffect
  <2>5. Q!AckedIsStored'
    BY <1>1, <2>1, <2>2, <2>3, InboxAssumption DEF Q!QueueTypeOK, Q!AckedIsStored
  <2>6. Q!LossBounded'
    BY <2>1, <2>2, NothingStuck
  <2> QED BY <2>4, <2>5, <2>6
<1>2. \A k \in Key : /\ Places[k] \in {"queued", "taken", "dead"} => oks[k] = 0
                     /\ Places[k] = "applied" => oks[k] = 1
                     /\ oks[k] <= 1 /\ oks[k] \in Nat
  BY DEF Q!OneEffect, Q!QueueTypeOK
<1>3. ASSUME NEW S \in SUBSET Key, Q!Take(S) PROVE QueueInv'
  <2>1. /\ \A k \in S : Places[k] = "queued"
        /\ Q!MoveTo(S, "taken") /\ UNCHANGED <<oks, acked, kills + unmarked>>
    BY <1>3 DEF Q!Take, Q!At
  <2>2. "taken" \in Q!Place \ {"absent"} /\ S \cap Q!At("stuck") = {}
    BY <2>1 DEF Q!Place, Q!At
  <2> QED BY <1>2, <2>1, <2>2, MoveKeeps DEF Q!QueueTypeOK
<1>4. ASSUME NEW S \in SUBSET Key, Q!Lose(S) PROVE QueueInv'
  <2>1. /\ Q!MoveTo(S, "stuck") /\ UNCHANGED <<oks, acked>>
        /\ (kills + unmarked)' = kills + unmarked + 1 /\ Cardinality(S) <= BatchSize
    BY <1>4, SameCardinality DEF Q!Lose
  <2>2. "stuck" \in Q!Place \ {"absent"}
    BY DEF Q!Place
  <2> QED BY <1>2, <2>1, <2>2, MoveKeeps DEF Q!QueueTypeOK
<1>5. ASSUME NEW k \in Key, Q!Apply(k) PROVE QueueInv'
  <2>1. /\ Places[k] = "taken" /\ Q!MoveTo({k}, "applied") /\ UNCHANGED <<acked, kills + unmarked>>
        /\ oks' = [oks EXCEPT ![k] = @ + 1]
    BY <1>5 DEF Q!Apply
  <2>2. "applied" \in Q!Place \ {"absent"} /\ {k} \cap Q!At("stuck") = {}
    BY <2>1 DEF Q!Place, Q!At
  <2>3. oks' \in [Key -> Nat] /\ oks'[k] = 1 /\ \A x \in Key \ {k} : oks'[x] = oks[x]
    BY <1>2, <2>1 DEF Q!QueueTypeOK
  <2> QED BY <2>1, <2>2, <2>3, MoveKeeps
<1>6. ASSUME NEW k \in Key, NEW p \in Q!Place \ {"absent", "stuck"},
             Q!MoveTo({k}, p), UNCHANGED <<oks, acked, kills + unmarked>>,
             \/ Places[k] = "applied" /\ p = "done"
             \/ Places[k] \in {"taken", "dead"} /\ p \in {"queued", "dead"}
      PROVE  QueueInv'
  <2>1. {k} \cap Q!At("stuck") = {}
    BY <1>6 DEF Q!At
  <2>2. oks' \in [Key -> Nat]
    BY <1>6 DEF Q!QueueTypeOK
  <2> QED BY <1>2, <1>6, <2>1, <2>2, MoveKeeps
<1>7. ASSUME NEW k \in Key, Q!Settle(k) \/ Q!Fail(k) \/ Q!Replay(k) PROVE QueueInv'
  BY <1>6, <1>7 DEF Q!Settle, Q!Fail, Q!Replay, Q!Place
<1>9. CASE UNCHANGED Q!queueVars
  BY <1>9 DEF Q!queueVars, Q!QueueTypeOK, Q!AckedIsStored, Q!OneEffect, Q!LossBounded, Q!At
<1> QED
  BY <1>1, <1>3, <1>4, <1>5, <1>7, <1>9 DEF Q!QueueNext

(* The abstract queue keeps its promise. *)
THEOREM QueueKeepsPromise == Q!QueueSpec => []Q!Promise
<1>1. QueueInv => Q!Promise
  BY DEF QueueInv
<1> QED
  BY <1>1, InitQueue, QueueStep, PTL DEF Q!QueueSpec

-----------------------------------------------------------------------------
(* The inbox implements the queue.                                         *)

LEMMA MovesBy ==
  ASSUME NEW S, NEW p, \A k \in Key : PlaceOf(k)' = IF k \in S THEN p ELSE PlaceOf(k)
  PROVE  Q!MoveTo(S, p)
  BY DEF Q!MoveTo, Places

(* A row whose status and hands stay has not moved. *)
LEMMA PlaceStays ==
  ASSUME NEW k \in Key, status'[k] = status[k], InHands(k)' <=> InHands(k),
         Applied(k)' <=> Applied(k)
  PROVE  PlaceOf(k)' = PlaceOf(k)
  BY DEF PlaceOf

LEMMA AllStay ==
  ASSUME \A k \in Key : PlaceOf(k)' = PlaceOf(k)
  PROVE  Places' = Places
  BY DEF Places

LEMMA PlaceByStatus ==
  ASSUME NEW k \in Key
  PROVE  /\ status[k] = "none" => PlaceOf(k) = "absent"
         /\ status[k] = "pending" => PlaceOf(k) = "queued"
         /\ status[k] = "completed" => PlaceOf(k) = "done"
         /\ status[k] = "dead_letter" => PlaceOf(k) = "dead"
         /\ status[k] = "processing" /\ InHands(k) /\ ~Applied(k) => PlaceOf(k) = "taken"
         /\ status[k] = "processing" /\ InHands(k) /\ Applied(k) => PlaceOf(k) = "applied"
         /\ status[k] = "processing" /\ ~InHands(k) => PlaceOf(k) = "stuck"
         /\ status'[k] = "pending" => PlaceOf(k)' = "queued"
         /\ status'[k] = "completed" => PlaceOf(k)' = "done"
         /\ status'[k] = "dead_letter" => PlaceOf(k)' = "dead"
         /\ status'[k] = "processing" /\ InHands(k)' /\ ~Applied(k)' => PlaceOf(k)' = "taken"
         /\ status'[k] = "processing" /\ InHands(k)' /\ Applied(k)' => PlaceOf(k)' = "applied"
         /\ status'[k] = "processing" /\ ~InHands(k)' => PlaceOf(k)' = "stuck"
         /\ Places[k] = PlaceOf(k)
  BY DEF PlaceOf, Places

LEMMA InitImplements == ASSUME Init PROVE Q!QueueInit
<1>1. \A k \in Key : PlaceOf(k) = "absent"
  BY DEF Init, PlaceOf
<1> QED
  BY <1>1 DEF Init, Q!QueueInit, Places

LEMMA DeliverImplements == ASSUME InboxInv, NEW e \in Event, Deliver(e) PROVE Q!Accept(e)
<1> DEFINE k0 == KeyOf[e]
           S == {k0} \cap Q!At("absent")
<1>1. k0 \in Key /\ UNCHANGED <<held, job, result, kills, unmarked, oks>>
  BY InboxAssumption DEF Deliver, work, hist
<1>2. \A k \in Key : (InHands(k)' <=> InHands(k)) /\ (Applied(k)' <=> Applied(k))
  BY <1>1 DEF InHands, Applied
<1>3. CASE id[k0] # 0
  <2>1. S = {}
    <3>1. status[k0] # "none" /\ status[k0] \in RowStatus
      BY <1>1, <1>3 DEF InboxInv, Fresh, TypeOK
    <3>2. Places[k0] # "absent"
      BY <1>1, <3>1, PlaceByStatus DEF RowStatus
    <3> QED BY <3>2 DEF Q!At
  <2>2. UNCHANGED status
    BY <1>3 DEF Deliver, Enqueue, row
  <2>3. Q!MoveTo(S, "queued")
    BY <1>2, <2>1, <2>2, PlaceStays, MovesBy
  <2> QED BY <1>1, <2>3 DEF Deliver, Q!Accept
<1>4. CASE id[k0] = 0
  <2>1. status[k0] = "none" /\ status' = [status EXCEPT ![k0] = "pending"]
    BY <1>1, <1>4 DEF InboxInv, Fresh, Deliver, Enqueue
  <2>2. S = {k0}
    BY <1>1, <2>1, PlaceByStatus DEF Q!At
  <2>3. status'[k0] = "pending" /\ \A k \in Key \ {k0} : status'[k] = status[k]
    BY <1>1, <2>1 DEF InboxInv, TypeOK
  <2>4. PlaceOf(k0)' = "queued"
    BY <1>1, <2>3, PlaceByStatus
  <2>5. \A k \in Key : PlaceOf(k)' = IF k \in S THEN "queued" ELSE PlaceOf(k)
    BY <1>2, <2>2, <2>3, <2>4, PlaceStays
  <2>6. Q!MoveTo(S, "queued")
    BY <2>5, MovesBy
  <2> QED BY <1>1, <2>6 DEF Deliver, Q!Accept
<1> QED
  BY <1>3, <1>4

LEMMA ClaimImplements ==
  ASSUME InboxInv, NEW w \in Worker, ClaimBatch(w)
  PROVE  \E S \in SUBSET Key : Q!Take(S)
<1>1. PICK S \in SUBSET Key : /\ Batch(w, S)
                              /\ MarkProcessing(S)
                              /\ held' = [held EXCEPT ![w] = S]
  BY DEF ClaimBatch
<1>2. \A k \in S : status[k] = "pending" /\ \A v \in Worker : k \notin held[v] /\ k # job[v]
  BY <1>1, BatchPending
<1>3. /\ UNCHANGED <<job, result, kills, unmarked, oks, acked>>
      /\ held[w] = {} /\ Cardinality(S) <= BatchSize
      /\ \A k \in Key : status'[k] = IF k \in S THEN "processing" ELSE status[k]
  BY <1>1 DEF ClaimBatch, hist, Resting, Batch, MarkProcessing
<1>4. \A v \in Worker : held'[v] = IF v = w THEN S ELSE held[v]
  BY <1>1 DEF InboxInv, TypeOK
<1>5. ASSUME NEW k \in Key PROVE PlaceOf(k)' = IF k \in S THEN "taken" ELSE PlaceOf(k)
  <2>1. CASE k \in S
    <3>1. InHands(k)' /\ ~Applied(k)'
      BY <1>2, <1>3, <1>4, <2>1 DEF InHands, Applied
    <3> QED BY <1>3, <2>1, <3>1, PlaceByStatus
  <2>2. CASE k \notin S
    <3>1. (InHands(k)' <=> InHands(k)) /\ (Applied(k)' <=> Applied(k))
      BY <1>3, <1>4, <2>2 DEF InHands, Applied
    <3> QED BY <1>3, <2>2, <3>1, PlaceStays
  <2> QED BY <2>1, <2>2
<1>6. Q!MoveTo(S, "taken")
  BY <1>5, MovesBy
<1>7. S \subseteq Q!At("queued")
  BY <1>2, PlaceByStatus DEF Q!At
<1> QED
  BY <1>3, <1>6, <1>7, SameCardinality DEF Q!Take

LEMMA ClaimLostImplements ==
  ASSUME InboxInv, NEW w \in Worker, ClaimLost(w)
  PROVE  \E S \in SUBSET Key : Q!Lose(S)
<1>1. PICK S \in SUBSET Key : Batch(w, S) /\ MarkProcessing(S)
  BY DEF ClaimLost
<1>2. \A k \in S : status[k] = "pending" /\ \A v \in Worker : k \notin held[v] /\ k # job[v]
  BY <1>1, BatchPending
<1>3. /\ UNCHANGED <<held, job, result, unmarked, oks, acked>> /\ kills' = kills + 1
      /\ Cardinality(S) <= BatchSize
      /\ \A k \in Key : status'[k] = IF k \in S THEN "processing" ELSE status[k]
  BY <1>1 DEF ClaimLost, work, Batch, MarkProcessing
<1>4. ASSUME NEW k \in Key PROVE PlaceOf(k)' = IF k \in S THEN "stuck" ELSE PlaceOf(k)
  <2>1. (InHands(k)' <=> InHands(k)) /\ (Applied(k)' <=> Applied(k))
    BY <1>3 DEF InHands, Applied
  <2>2. k \in S => ~InHands(k)'
    BY <1>2, <1>3 DEF InHands
  <2> QED BY <1>3, <2>1, <2>2, PlaceStays, PlaceByStatus
<1>5. Q!MoveTo(S, "stuck")
  BY <1>4, MovesBy
<1>6. S \subseteq Q!At("queued")
  BY <1>2, PlaceByStatus DEF Q!At
<1>7. (kills + unmarked)' = kills + unmarked + 1
  BY <1>3 DEF InboxInv, TypeOK
<1> QED
  BY <1>3, <1>5, <1>6, <1>7, SameCardinality DEF Q!Lose

(* A row in hand has been applied if the result of its run, not yet written, is "ok". *)
LEMMA JobPlace ==
  ASSUME InboxInv, NEW w \in Worker, job[w] # NoJob
  PROVE  /\ job[w] \in Key /\ status[job[w]] = "processing"
         /\ Places[job[w]] = IF result[w] = "ok" THEN "applied" ELSE "taken"
<1>1. /\ job[w] \in Key /\ status[job[w]] = "processing"
      /\ \A v \in Worker \ {w} : job[w] # job[v]
  BY DEF InboxInv, TypeOK, Hands
<1>2. InHands(job[w]) /\ (Applied(job[w]) <=> result[w] = "ok")
  BY <1>1 DEF InHands, Applied
<1> QED
  BY <1>1, <1>2, PlaceByStatus

LEMMA ProcessImplements ==
  ASSUME InboxInv, NEW w \in Worker, NEW k \in Key, Process(w, k)
  PROVE  Q!Apply(k) \/ UNCHANGED Q!queueVars
<1>1. PICK r \in {"ok", "error"} :
        /\ result' = [result EXCEPT ![w] = r]
        /\ oks' = IF r = "ok" THEN [oks EXCEPT ![k] = @ + 1] ELSE oks
  BY DEF Process
<1>2. /\ \A v \in Worker : /\ held'[v] = IF v = w THEN held[w] \ {k} ELSE held[v]
                           /\ job'[v] = IF v = w THEN k ELSE job[v]
                           /\ result'[v] = IF v = w THEN r ELSE result[v]
      /\ UNCHANGED <<status, acked, kills, unmarked>>
  BY <1>1 DEF Process, row, InboxInv, TypeOK
<1>3. /\ job[w] = NoJob /\ k \in held[w] /\ k # NoJob /\ status[k] = "processing"
      /\ \A v \in Worker \ {w} : k \notin held[v] /\ k # job[v]
  BY InboxAssumption DEF Process, InboxInv, TypeOK, Hands
<1>4. Places[k] = "taken"
  <2>1. InHands(k) /\ ~Applied(k)
    BY <1>3 DEF InHands, Applied
  <2> QED BY <1>3, <2>1, PlaceByStatus
<1>5. PlaceOf(k)' = IF r = "ok" THEN "applied" ELSE "taken"
  <2>1. InHands(k)'
    BY <1>2 DEF InHands
  <2>2. Applied(k)' <=> r = "ok"
    BY <1>2, <1>3 DEF Applied
  <2> QED BY <1>2, <1>3, <2>1, <2>2, PlaceByStatus
<1>6. ASSUME NEW x \in Key \ {k} PROVE PlaceOf(x)' = PlaceOf(x)
  <2>1. x # NoJob
    BY InboxAssumption
  <2>2. InHands(x)' <=> InHands(x)
    BY <1>2, <1>3, <2>1 DEF InHands
  <2>3. Applied(x)' <=> Applied(x)
    BY <1>2, <1>3, <2>1 DEF Applied
  <2> QED BY <1>2, <2>2, <2>3, PlaceStays
<1>7. CASE r = "ok"
  <2>1. Q!MoveTo({k}, "applied")
    BY <1>5, <1>6, <1>7, MovesBy
  <2> QED BY <1>1, <1>2, <1>4, <1>7, <2>1 DEF Q!Apply
<1>8. CASE r = "error"
  <2>1. Places' = Places
    BY <1>4, <1>5, <1>6, <1>8, AllStay, PlaceByStatus
  <2> QED BY <1>1, <1>2, <1>8, <2>1 DEF Q!queueVars
<1> QED
  BY <1>7, <1>8

(* What a worker puts out of its hands is in nobody's. *)
LEMMA Released ==
  ASSUME InboxInv, NEW w \in Worker, NEW S, S \subseteq InHand(w), NoJob \notin S,
         \A v \in Worker \ {w} : held'[v] = held[v] /\ job'[v] = job[v] /\ result'[v] = result[v],
         held'[w] = held[w] \ S, job'[w] = NoJob, job[w] \in S \cup {NoJob}
  PROVE  /\ \A k \in S : ~InHands(k)'
         /\ \A k \in Key \ S : (InHands(k)' <=> InHands(k)) /\ (Applied(k)' <=> Applied(k))
<1>1. ASSUME NEW k \in S PROVE ~InHands(k)'
  <2>1. \A v \in Worker \ {w} : k \notin held[v] /\ k # job[v]
    BY DEF InHand, InboxInv, Hands
  <2> QED BY <2>1 DEF InHands
<1>2. ASSUME NEW k \in Key \ S
      PROVE  (InHands(k)' <=> InHands(k)) /\ (Applied(k)' <=> Applied(k))
  <2>1. k # NoJob /\ k # job[w] /\ k # job'[w] /\ (k \in held'[w] <=> k \in held[w])
    BY InboxAssumption
  <2>2. InHands(k)' <=> InHands(k)
    BY <2>1 DEF InHands
  <2>3. Applied(k)' <=> Applied(k)
    BY <2>1 DEF Applied
  <2> QED BY <2>2, <2>3
<1> QED
  BY <1>1, <1>2

LEMMA FinishImplements ==
  ASSUME InboxInv, NEW w \in Worker, Finish(w)
  PROVE  \E k \in Key : Q!Settle(k) \/ Q!Fail(k)
<1>1. PICK k \in Key :
        /\ k = job[w] /\ k # NoJob
        /\ Places[k] = IF result[w] = "ok" THEN "applied" ELSE "taken"
  BY JobPlace DEF Finish
<1>2. /\ \A v \in Worker \ {w} : held'[v] = held[v] /\ job'[v] = job[v] /\ result'[v] = result[v]
      /\ held'[w] = held[w] /\ job'[w] = NoJob /\ k \notin held[w]
      /\ UNCHANGED <<acked, kills, unmarked, oks>>
  BY <1>1 DEF Finish, Done, hist, InboxInv, TypeOK, Hands
<1>3. \A x \in Key \ {k} : (InHands(x)' <=> InHands(x)) /\ (Applied(x)' <=> Applied(x))
  <2>1. /\ {k} \subseteq InHand(w) /\ NoJob \notin {k} /\ held'[w] = held[w] \ {k}
        /\ job[w] \in {k} \cup {NoJob}
    BY <1>1, <1>2 DEF InHand
  <2> QED BY <1>2, <2>1, Released
<1>4. PICK s \in {"completed", "dead_letter", "pending"} :
        status' = [status EXCEPT ![k] = s] /\ (s = "completed" <=> result[w] = "ok")
  <2>1. Mark(w, k)
    BY <1>1 DEF Finish
  <2> QED BY <2>1 DEF Mark
<1>5. status'[k] = s /\ \A x \in Key \ {k} : status'[x] = status[x]
  BY <1>1, <1>4 DEF InboxInv, TypeOK
<1>6. \A x \in Key \ {k} : PlaceOf(x)' = PlaceOf(x)
  BY <1>3, <1>5, PlaceStays
<1>7. CASE s = "completed"
  <2>1. PlaceOf(k)' = "done"
    BY <1>1, <1>5, <1>7, PlaceByStatus
  <2>2. Q!MoveTo({k}, "done")
    BY <1>6, <2>1, MovesBy
  <2>3. Q!Settle(k)
    BY <1>1, <1>2, <1>4, <1>7, <2>2 DEF Q!Settle
  <2> QED BY <1>1, <2>3
<1>8. CASE s # "completed"
  <2>1. PICK p \in {"queued", "dead"} : PlaceOf(k)' = p
    BY <1>1, <1>5, <1>8, PlaceByStatus
  <2>2. Q!MoveTo({k}, p)
    BY <1>6, <2>1, MovesBy
  <2>3. Q!Fail(k)
    BY <1>1, <1>2, <1>4, <1>8, <2>2 DEF Q!Fail
  <2> QED BY <1>1, <2>3
<1> QED
  BY <1>7, <1>8

(* Rows that a worker loses, all or one of them, are stuck. *)
LEMMA LostIsStuck ==
  ASSUME InboxInv, NEW w \in Worker, NEW S \in SUBSET Key, S \subseteq InHand(w),
         Cardinality(S) <= BatchSize, (kills + unmarked)' = kills + unmarked + 1,
         UNCHANGED <<status, acked, oks>>,
         \A v \in Worker \ {w} : held'[v] = held[v] /\ job'[v] = job[v] /\ result'[v] = result[v],
         held'[w] = held[w] \ S, job'[w] = NoJob, job[w] \in S \cup {NoJob}
  PROVE  Q!Lose(S)
<1>1. /\ NoJob \notin S /\ \A k \in S : status[k] = "processing" /\ InHands(k)
  BY InboxAssumption DEF InHand, InHands, InboxInv, Hands
<1>2. /\ \A k \in S : ~InHands(k)'
      /\ \A k \in Key \ S : (InHands(k)' <=> InHands(k)) /\ (Applied(k)' <=> Applied(k))
  BY <1>1, Released
<1>3. ASSUME NEW k \in Key PROVE PlaceOf(k)' = IF k \in S THEN "stuck" ELSE PlaceOf(k)
  <2>1. CASE k \in S
    BY <1>1, <1>2, <2>1, PlaceByStatus
  <2>2. CASE k \notin S
    BY <1>2, <2>2, PlaceStays
  <2> QED BY <2>1, <2>2
<1>4. Q!MoveTo(S, "stuck")
  BY <1>3, MovesBy
<1>5. ASSUME NEW k \in S PROVE k \in Q!At("taken") \cup Q!At("applied")
  <2>1. Places[k] \in {"taken", "applied"}
    BY <1>1, PlaceByStatus
  <2> QED BY <2>1 DEF Q!At
<1> QED
  BY <1>4, <1>5, SameCardinality DEF Q!Lose

LEMMA FinishUnmarkedImplements ==
  ASSUME InboxInv, NEW w \in Worker, FinishUnmarked(w)
  PROVE  \E S \in SUBSET Key : Q!Lose(S)
<1> DEFINE S == {job[w]}
<1>1. job[w] # NoJob /\ job[w] \in Key
  BY JobPlace DEF FinishUnmarked
<1>2. /\ S \in SUBSET Key /\ S \subseteq InHand(w) /\ job[w] \in S \cup {NoJob}
      /\ Cardinality(S) <= BatchSize
  <2>1. Cardinality(S) = 1
    BY FS_Singleton
  <2>2. 1 <= BatchSize
    BY InboxAssumption
  <2>3. /\ S \in SUBSET Key /\ S \subseteq InHand(w) /\ job[w] \in S \cup {NoJob}
    BY <1>1 DEF InHand
  <2> HIDE DEF S
  <2> QED BY <2>1, <2>2, <2>3
<1>3. /\ (kills + unmarked)' = kills + unmarked + 1 /\ UNCHANGED <<status, acked, oks>>
  BY DEF FinishUnmarked, row, InboxInv, TypeOK
<1>4. /\ \A v \in Worker \ {w} : held'[v] = held[v] /\ job'[v] = job[v] /\ result'[v] = result[v]
      /\ held'[w] = held[w] \ S /\ job'[w] = NoJob
  BY DEF FinishUnmarked, Done, InboxInv, TypeOK, Hands
<1> HIDE DEF S
<1> QED
  BY <1>2, <1>3, <1>4, LostIsStuck

LEMMA CrashImplements ==
  ASSUME InboxInv, OneBatch, NEW w \in Worker, Crash(w)
  PROVE  \E S \in SUBSET Key : Q!Lose(S)
<1> DEFINE S == InHand(w)
<1>1. /\ S \in SUBSET Key /\ job[w] \in S \cup {NoJob} /\ Cardinality(S) <= BatchSize
  BY DEF InHand, InboxInv, TypeOK, OneBatch
<1>2. /\ (kills + unmarked)' = kills + unmarked + 1 /\ UNCHANGED <<status, acked, oks>>
  BY DEF Crash, row, InboxInv, TypeOK
<1>3. /\ \A v \in Worker \ {w} : held'[v] = held[v] /\ job'[v] = job[v] /\ result'[v] = result[v]
      /\ held'[w] = held[w] \ S /\ job'[w] = NoJob
  BY DEF Crash, InHand, InboxInv, TypeOK
<1> HIDE DEF S
<1>4. S \subseteq InHand(w)
  BY DEF S
<1> QED
  BY <1>1, <1>2, <1>3, <1>4, LostIsStuck

LEMMA ReplayImplements == ASSUME InboxInv, NEW k \in Key, Replay(k) PROVE Q!Replay(k)
<1>1. /\ status[k] = "dead_letter" /\ status'[k] = "pending"
      /\ \A x \in Key \ {k} : status'[x] = status[x]
      /\ UNCHANGED <<acked, held, job, result, kills, unmarked, oks>>
  BY DEF Replay, work, InboxInv, TypeOK
<1>2. \A x \in Key : (InHands(x)' <=> InHands(x)) /\ (Applied(x)' <=> Applied(x))
  BY <1>1 DEF InHands, Applied
<1>3. \A x \in Key \ {k} : PlaceOf(x)' = PlaceOf(x)
  BY <1>1, <1>2, PlaceStays
<1>4. PlaceOf(k)' = "queued" /\ Places[k] = "dead"
  BY <1>1, PlaceByStatus
<1>5. Q!MoveTo({k}, "queued")
  BY <1>3, <1>4, MovesBy
<1> QED
  BY <1>1, <1>4, <1>5 DEF Q!Replay

LEMMA NothingMoves ==
  ASSUME UNCHANGED <<status, acked, held, job, result, kills, unmarked, oks>>
  PROVE  UNCHANGED Q!queueVars
<1>1. \A k \in Key : (InHands(k)' <=> InHands(k)) /\ (Applied(k)' <=> Applied(k))
  BY DEF InHands, Applied
<1>2. Places' = Places
  BY <1>1, PlaceStays, AllStay
<1> QED
  BY <1>2 DEF Q!queueVars

(* Every step of the inbox is a step of the queue or none. *)
LEMMA StepImplements ==
  ASSUME InboxInv, OneBatch, [Next]_vars
  PROVE  [Q!QueueNext]_(Q!queueVars)
<1>1. CASE UNCHANGED vars
  BY <1>1, NothingMoves DEF vars
<1>2. ASSUME NEW e \in Event, Deliver(e) PROVE Q!QueueNext
  BY <1>2, DeliverImplements DEF Q!QueueNext
<1>3. ASSUME NEW w \in Worker, ClaimBatch(w) PROVE Q!QueueNext
  BY <1>3, ClaimImplements DEF Q!QueueNext
<1>4. ASSUME NEW w \in Worker, ClaimLost(w) \/ FinishUnmarked(w) \/ Crash(w) PROVE Q!QueueNext
  <2>1. \E S \in SUBSET Key : Q!Lose(S)
    BY <1>4, ClaimLostImplements, FinishUnmarkedImplements, CrashImplements
  <2> QED BY <2>1 DEF Q!QueueNext
<1>5. ASSUME NEW w \in Worker, Finish(w) PROVE Q!QueueNext
  <2>1. PICK k \in Key : Q!Settle(k) \/ Q!Fail(k)
    BY <1>5, FinishImplements
  <2> QED BY <2>1 DEF Q!QueueNext
<1>6. ASSUME NEW w \in Worker, NEW k \in Key, Process(w, k)
      PROVE  Q!QueueNext \/ UNCHANGED Q!queueVars
  BY <1>6, ProcessImplements DEF Q!QueueNext
<1>7. ASSUME NEW k \in Key, Replay(k) PROVE Q!QueueNext
  BY <1>7, ReplayImplements DEF Q!QueueNext
<1>8. ASSUME NEW k \in Key, Ripen(k) PROVE UNCHANGED Q!queueVars
  BY <1>8, NothingMoves DEF Ripen, work, hist
<1> QED
  BY <1>1, <1>2, <1>3, <1>4, <1>5, <1>6, <1>7, <1>8 DEF Next

(* A worker holds at most one batch. *)
LEMMA OneBatchStep == ASSUME InboxInv, OneBatch, [Next]_vars PROVE OneBatch'
<1> SUFFICES ASSUME NEW w \in Worker PROVE Cardinality(InHand(w)') <= BatchSize
  BY DEF OneBatch
<1>1. IsFiniteSet(InHand(w)) /\ Cardinality(InHand(w)) \in Nat /\ BatchSize \in Nat
      /\ Cardinality(InHand(w)) <= BatchSize
  <2>1. InHand(w) \in SUBSET Key
    BY DEF InHand, InboxInv, TypeOK
  <2> QED BY <2>1, InboxAssumption, FS_Subset, FS_CardinalityType DEF OneBatch
<1>2. ASSUME InHand(w)' \subseteq InHand(w) PROVE Cardinality(InHand(w)') <= BatchSize
  <2>1. Cardinality(InHand(w)') <= Cardinality(InHand(w)) /\ Cardinality(InHand(w)') \in Nat
    BY <1>1, <1>2, FS_Subset, FS_CardinalityType
  <2> QED BY <1>1, <2>1
<1>3. ASSUME held'[w] = held[w], job'[w] = job[w] PROVE InHand(w)' \subseteq InHand(w)
  BY <1>3 DEF InHand
<1>4. CASE ClaimBatch(w)
  <2>1. PICK S \in SUBSET Key : Batch(w, S) /\ held' = [held EXCEPT ![w] = S]
    BY <1>4 DEF ClaimBatch
  <2>2. held'[w] = S /\ job'[w] = NoJob
    BY <1>4, <2>1 DEF ClaimBatch, Resting, InboxInv, TypeOK
  <2>3. InHand(w)' = S
    BY <2>2 DEF InHand
  <2> QED BY <2>1, <2>3 DEF Batch
<1>5. CASE \E k \in Key : Process(w, k)
  <2>1. InHand(w)' \subseteq InHand(w)
    BY <1>5 DEF Process, InHand, InboxInv, TypeOK
  <2> QED BY <1>2, <2>1
<1>6. CASE Finish(w) \/ FinishUnmarked(w) \/ Crash(w)
  <2>1. held'[w] \subseteq held[w] /\ job'[w] = NoJob
    BY <1>6 DEF Finish, FinishUnmarked, Crash, Done, InboxInv, TypeOK
  <2>2. InHand(w)' \subseteq InHand(w)
    BY <2>1 DEF InHand
  <2> QED BY <1>2, <2>2
<1>7. ASSUME NEW v \in Worker \ {w},
             \/ ClaimBatch(v) \/ Finish(v) \/ FinishUnmarked(v) \/ Crash(v)
             \/ \E k \in Key : Process(v, k)
      PROVE  held'[w] = held[w] /\ job'[w] = job[w]
  BY <1>7 DEF ClaimBatch, Finish, FinishUnmarked, Crash, Process, Done, InboxInv, TypeOK
<1>8. ASSUME \/ \E e \in Event : Deliver(e)
             \/ \E v \in Worker : ClaimLost(v)
             \/ \E k \in Key : Ripen(k) \/ Replay(k)
             \/ UNCHANGED vars
      PROVE  held'[w] = held[w] /\ job'[w] = job[w]
  BY <1>8 DEF Deliver, ClaimLost, Ripen, Replay, work, vars
<1> QED
  BY <1>2, <1>3, <1>4, <1>5, <1>6, <1>7, <1>8 DEF Next

THEOREM OneBatchAlways == Spec => []OneBatch
<1>1. ASSUME Init PROVE OneBatch
  <2>1. \A w \in Worker : InHand(w) = {}
    BY <1>1 DEF Init, InHand
  <2>2. Cardinality({}) = 0 /\ BatchSize \in Nat
    BY FS_EmptySet, InboxAssumption
  <2> QED BY <2>1, <2>2 DEF OneBatch
<1>2. InboxInv /\ OneBatch /\ [Next]_vars => OneBatch'
  BY OneBatchStep
<1> QED
  BY <1>1, <1>2, InboxInvariant, PTL DEF Spec

(* The table and its workers implement the durable queue, for any events, keys, workers,
   batches and bounds. *)
THEOREM QueueImplemented == Spec => ImplementsQueue
<1>1. Init => Q!QueueInit
  BY InitImplements
<1>2. InboxInv /\ OneBatch /\ [Next]_vars => [Q!QueueNext]_(Q!queueVars)
  BY StepImplements
<1> QED
  BY <1>1, <1>2, InboxInvariant, OneBatchAlways, PTL DEF Spec, ImplementsQueue, Q!QueueSpec

(* Hence the inbox keeps the promise of the queue: what is acknowledged has a row, effects
   are never repeated, and each death or lost mark costs at most one batch. *)
THEOREM PromiseKept == Spec => []Q!Promise
  BY QueueImplemented, QueueKeepsPromise, PTL DEF ImplementsQueue
=============================================================================
