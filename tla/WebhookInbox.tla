----------------------------- MODULE WebhookInbox -----------------------------
(***************************************************************************)
(* The queue of MoySklad webhooks: handlers/webhook.go stores a verified   *)
(* event in the table webhook_inbox (db/webhook_inbox.go) and answers, the *)
(* worker of every service instance (services/webhook_inbox_worker.go)     *)
(* claims stored events in batches, processes them, and completes, retries *)
(* or gives them up. What processing an event does is ProductStock's       *)
(* matter; here it succeeds or fails.                                      *)
(***************************************************************************)
EXTENDS Integers, FiniteSets

CONSTANTS Event,        \* events MoySklad reports, each any number of times
          Key,          \* idempotency keys
          KeyOf,        \* KeyOf[e]: kind with X-Request-Id or with the hash of the body
          Worker,       \* one goroutine per service instance
          BatchSize,    \* LIMIT of one claim
          MaxAttempts,  \* max_attempts of every row
          MaxKills,     \* bound: killed workers and lost acknowledgements of a claim
          MaxUnmarked,  \* bound: results that could not be written
          MaxReplays,   \* bound: replays by an admin
          NoJob         \* "no job": what a worker between two jobs processes

ASSUME InboxAssumption ==
  /\ IsFiniteSet(Key)
  /\ KeyOf \in [Event -> Key]
  /\ BatchSize \in Nat \ {0}
  /\ MaxAttempts \in Nat \ {0}
  /\ MaxKills \in Nat /\ MaxUnmarked \in Nat /\ MaxReplays \in Nat
  /\ NoJob \notin Key

VARIABLES
  id,        \* primary key of the row of an idempotency key, 0: no row
  status,    \* its status
  attempts,  \* failed attempts counted so far
  ripe,      \* next_attempt_at <= now()
  acked,     \* events answered 204: MoySklad does not send them again
  held,      \* rows a worker has claimed and not begun
  job,       \* the row it processes
  result,    \* what processing it returned
  lost,      \* rows whose worker died or could not write the result (history)
  kills,     \* workers that died, claims whose acknowledgement was lost
  unmarked,  \* results that could not be written
  replays,   \* replays of a row (history)
  runs,      \* how often a row was processed (history)
  oks        \* ... and how often that succeeded (history)

row  == <<id, status, attempts, ripe>>
work == <<held, job, result>>
hist == <<lost, kills, unmarked, replays, runs, oks>>
vars == <<id, status, attempts, ripe, acked, held, job, result, lost, kills,
          unmarked, replays, runs, oks>>

RowStatus == {"none", "pending", "processing", "completed", "dead_letter"}

TypeOK ==
  /\ id \in [Key -> Nat]
  /\ status \in [Key -> RowStatus]
  /\ attempts \in [Key -> 0..(MaxAttempts - 1)]
  /\ ripe \in [Key -> BOOLEAN]
  /\ acked \subseteq Event
  /\ held \in [Worker -> SUBSET Key]
  /\ job \in [Worker -> Key \cup {NoJob}]
  /\ result \in [Worker -> {"ok", "error"}]
  /\ lost \subseteq Key
  /\ kills \in Nat /\ unmarked \in Nat
  /\ replays \in [Key -> Nat]
  /\ runs \in [Key -> Nat]
  /\ oks \in [Key -> Nat]

Init ==
  /\ id = [k \in Key |-> 0]
  /\ status = [k \in Key |-> "none"]
  /\ attempts = [k \in Key |-> 0]
  /\ ripe = [k \in Key |-> FALSE]
  /\ acked = {}
  /\ held = [w \in Worker |-> {}]
  /\ job = [w \in Worker |-> NoJob]
  /\ result = [w \in Worker |-> "error"]
  /\ lost = {}
  /\ kills = 0 /\ unmarked = 0
  /\ replays = [k \in Key |-> 0]
  /\ runs = [k \in Key |-> 0]
  /\ oks = [k \in Key |-> 0]

-----------------------------------------------------------------------------
(* handlers/webhook.go: an event arrives, perhaps not for the first time.  *)

NextId == Cardinality({k \in Key : id[k] # 0}) + 1

(* Faulty variant: ON CONFLICT DO UPDATE queues the row again. *)
Enqueue_Upsert(k) ==
  /\ id' = [id EXCEPT ![k] = IF @ = 0 THEN NextId ELSE @]
  /\ status' = [status EXCEPT ![k] = "pending"]
  /\ ripe' = [ripe EXCEPT ![k] = TRUE]
  /\ UNCHANGED attempts

(* INSERT ... ON CONFLICT (idempotency_key) DO NOTHING. *)
Enqueue(k) ==
  IF id[k] # 0 THEN UNCHANGED row
  ELSE /\ id' = [id EXCEPT ![k] = NextId]
       /\ status' = [status EXCEPT ![k] = "pending"]
       /\ ripe' = [ripe EXCEPT ![k] = TRUE]
       /\ UNCHANGED attempts

(* HandleWebhook, HandleStockWebhook: the event is stored; the 204 may get lost, and
   then MoySklad will send the event again. A failed INSERT (503) changes nothing. *)
Deliver(e) ==
  /\ Enqueue(KeyOf[e])
  /\ acked' \in {acked, acked \cup {e}}
  /\ UNCHANGED <<work, hist>>

-----------------------------------------------------------------------------
(* services/webhook_inbox_worker.go.                                       *)

Resting(w)  == held[w] = {} /\ job[w] = NoJob
Claimable(k) == status[k] = "pending" /\ ripe[k]

(* Faulty variant: a row being processed is claimable as well. *)
Claimable_Processing(k) == status[k] \in {"pending", "processing"} /\ ripe[k]

(* The rows that one ClaimBatch picks: the first ones by id, at most BatchSize. SKIP
   LOCKED leaves out a set L that a claim of another worker has locked; if that claim
   commits, it comes first in the order of claims and L is {}; if not, L is pending. *)
Batch(w, S) ==
  \E L \in SUBSET {k \in Key : Claimable(k)} :
    /\ L = {} \/ \E v \in Worker \ {w} : Resting(v)
    /\ Cardinality(L) <= BatchSize
    /\ S \subseteq {k \in Key \ L : Claimable(k)}
    /\ S # {}
    /\ Cardinality(S) <= BatchSize
    /\ \A k \in Key \ (S \cup L) : Claimable(k) =>
         Cardinality(S) = BatchSize /\ \A s \in S : id[s] < id[k]

MarkProcessing(S) ==
  /\ status' = [k \in Key |-> IF k \in S THEN "processing" ELSE status[k]]
  /\ UNCHANGED <<id, attempts, ripe>>

ClaimBatch(w) ==
  /\ Resting(w)
  /\ \E S \in SUBSET Key : /\ Batch(w, S)
                           /\ MarkProcessing(S)
                           /\ held' = [held EXCEPT ![w] = S]
  /\ UNCHANGED <<acked, job, result, hist>>

(* The claim commits, but its acknowledgement or its worker is lost. *)
ClaimLost(w) ==
  /\ Resting(w)
  /\ kills < MaxKills
  /\ kills' = kills + 1
  /\ \E S \in SUBSET Key : /\ Batch(w, S)
                           /\ MarkProcessing(S)
                           /\ lost' = lost \cup S
  /\ UNCHANGED <<acked, work, unmarked, replays, runs, oks>>

(* handleOne up to the result of the processor. *)
Process(w, k) ==
  /\ job[w] = NoJob
  /\ k \in held[w]
  /\ held' = [held EXCEPT ![w] = @ \ {k}]
  /\ job' = [job EXCEPT ![w] = k]
  /\ runs' = [runs EXCEPT ![k] = @ + 1]
  /\ \E r \in {"ok", "error"} :
       /\ result' = [result EXCEPT ![w] = r]
       /\ oks' = IF r = "ok" THEN [oks EXCEPT ![k] = @ + 1] ELSE oks
  /\ UNCHANGED <<row, acked, lost, kills, unmarked, replays>>

Done(w) == /\ job' = [job EXCEPT ![w] = NoJob]
           /\ result' = [result EXCEPT ![w] = "error"]
           /\ UNCHANGED held

(* Faulty variant: the comparison is > instead of >=. *)
Mark_OneMore(w, k) ==
  IF result[w] = "ok"
  THEN status' = [status EXCEPT ![k] = "completed"] /\ UNCHANGED <<attempts, ripe>>
  ELSE IF attempts[k] + 1 > MaxAttempts
  THEN status' = [status EXCEPT ![k] = "dead_letter"] /\ UNCHANGED <<attempts, ripe>>
  ELSE /\ status' = [status EXCEPT ![k] = "pending"]
       /\ attempts' = [attempts EXCEPT ![k] = @ + 1]
       /\ ripe' = [ripe EXCEPT ![k] = FALSE]

(* Faulty variant: MarkRetry forgets to reset the status. *)
Mark_RetryKeepsStatus(w, k) ==
  IF result[w] = "ok"
  THEN status' = [status EXCEPT ![k] = "completed"] /\ UNCHANGED <<attempts, ripe>>
  ELSE IF attempts[k] + 1 >= MaxAttempts
  THEN status' = [status EXCEPT ![k] = "dead_letter"] /\ UNCHANGED <<attempts, ripe>>
  ELSE /\ UNCHANGED status
       /\ attempts' = [attempts EXCEPT ![k] = @ + 1]
       /\ ripe' = [ripe EXCEPT ![k] = FALSE]

(* MarkCompleted, MarkDeadLetter or MarkRetry; attempts counts retries only. *)
Mark(w, k) ==
  \/ /\ result[w] = "ok"
     /\ status' = [status EXCEPT ![k] = "completed"]
     /\ UNCHANGED <<attempts, ripe>>
  \/ /\ result[w] = "error"
     /\ attempts[k] + 1 >= MaxAttempts
     /\ status' = [status EXCEPT ![k] = "dead_letter"]
     /\ UNCHANGED <<attempts, ripe>>
  \/ /\ result[w] = "error"
     /\ attempts[k] + 1 < MaxAttempts
     /\ status' = [status EXCEPT ![k] = "pending"]
     /\ attempts' = [attempts EXCEPT ![k] = @ + 1]
     /\ ripe' = [ripe EXCEPT ![k] = FALSE]

Finish(w) ==
  /\ job[w] # NoJob
  /\ Mark(w, job[w])
  /\ Done(w)
  /\ UNCHANGED <<id, acked, hist>>

(* The mark fails, for one because the three minutes of the job are over and its
   context is the mark's, too: logged, and nobody looks at the row again. *)
FinishUnmarked(w) ==
  /\ job[w] # NoJob
  /\ unmarked < MaxUnmarked
  /\ unmarked' = unmarked + 1
  /\ lost' = lost \cup {job[w]}
  /\ Done(w)
  /\ UNCHANGED <<row, acked, kills, replays, runs, oks>>

(* The process dies: its claimed rows stay in 'processing'. *)
Crash(w) ==
  /\ ~Resting(w)
  /\ kills < MaxKills
  /\ kills' = kills + 1
  /\ lost' = lost \cup held[w] \cup ({job[w]} \ {NoJob})
  /\ held' = [held EXCEPT ![w] = {}]
  /\ job' = [job EXCEPT ![w] = NoJob]
  /\ result' = [result EXCEPT ![w] = "error"]
  /\ UNCHANGED <<row, acked, unmarked, replays, runs, oks>>

(* The backoff of WebhookRetryDelay is over. *)
Ripen(k) ==
  /\ status[k] = "pending"
  /\ ~ripe[k]
  /\ ripe' = [ripe EXCEPT ![k] = TRUE]
  /\ UNCHANGED <<id, status, attempts, acked, work, hist>>

(* ReplayDeadLetter: attempts keeps its value, so one attempt follows. *)
Replay(k) ==
  /\ status[k] = "dead_letter"
  /\ replays[k] < MaxReplays
  /\ status' = [status EXCEPT ![k] = "pending"]
  /\ ripe' = [ripe EXCEPT ![k] = TRUE]
  /\ replays' = [replays EXCEPT ![k] = @ + 1]
  /\ UNCHANGED <<id, attempts, acked, work, lost, kills, unmarked, runs, oks>>

Next ==
  \/ \E e \in Event : Deliver(e)
  \/ \E w \in Worker : \/ ClaimBatch(w) \/ ClaimLost(w)
                       \/ Finish(w) \/ FinishUnmarked(w) \/ Crash(w)
                       \/ \E k \in Key : Process(w, k)
  \/ \E k \in Key : Ripen(k) \/ Replay(k)

(* The ticker claims again and again, a worker goes on with its batch, time passes. *)
Fairness ==
  /\ \A w \in Worker : WF_vars(ClaimBatch(w)) /\ WF_vars(Finish(w))
  /\ \A w \in Worker, k \in Key : WF_vars(Process(w, k))
  /\ \A k \in Key : WF_vars(Ripen(k))

Spec     == Init /\ [][Next]_vars
FairSpec == Spec /\ Fairness

-----------------------------------------------------------------------------
(* Properties.                                                             *)

(* A webhook succeeds at most once, whatever is redelivered, retried, replayed or
   claimed by several instances at a time (UNIQUE key, SKIP LOCKED, 'processing'). *)
AppliedOnce == \A k \in Key : oks[k] <= 1

(* What is marked completed has succeeded: no error path ends in MarkCompleted, and
   no later delivery or replay disturbs it. *)
CompletedWasApplied == \A k \in Key : status[k] = "completed" => oks[k] = 1

(* A poisonous webhook is processed at most max_attempts times, and once more for
   each replay, although attempts is only written by MarkRetry. *)
BoundedRuns == \A k \in Key : runs[k] <= MaxAttempts + replays[k]

(* A row in 'processing' is in some worker's hands unless that worker died or failed
   to mark it: no path through handleOne drops a job. *)
InHands(k) == \E w \in Worker : k \in held[w] \cup {job[w]}
NoneForgotten ==
  \A k \in Key : status[k] = "processing" => InHands(k) \/ k \in lost

(* Where a row has got to in DurableQueue: a row in nobody's hands is stuck. *)
Applied(k) == \E w \in Worker : job[w] = k /\ result[w] = "ok"
PlaceOf(k) ==
  CASE status[k] = "none"        -> "absent"
    [] status[k] = "pending"     -> "queued"
    [] status[k] = "completed"   -> "done"
    [] status[k] = "dead_letter" -> "dead"
    [] status[k] = "processing"  ->
         IF ~InHands(k) THEN "stuck" ELSE IF Applied(k) THEN "applied" ELSE "taken"

Places == [k \in Key |-> PlaceOf(k)]

Q == INSTANCE DurableQueue WITH place   <- Places,
                                effects <- oks,
                                mishaps <- kills + unmarked

(* The queue keeps its promise: every step of a handler, a worker or an admin is a step of
   DurableQueue or none.  An accepted event keeps its row, no row leaves its path but by a
   counted death or lost mark, which costs one batch at most, and a success is final
   (webhook_inbox.go:48-142, webhook_inbox_worker.go:52-101). *)
ImplementsQueue == Q!QueueSpec

(* What webhook_inbox_worker.go:14 says: with backoff and DLQ, an accepted event ends
   processed or in the dead letters. *)
RetriedOrDead ==
  \A e \in Event : e \in acked ~> status[KeyOf[e]] \in {"completed", "dead_letter"}

(* An acknowledged event is not lost: its row is completed or given up in the end,
   unless a worker's death or failed mark left it in 'processing'. *)
AckedSettles ==
  \A e \in Event :
    e \in acked ~> \/ status[KeyOf[e]] \in {"completed", "dead_letter"}
                   \/ KeyOf[e] \in lost

-----------------------------------------------------------------------------
(* The inductive invariant behind the safety properties.                   *)

(* A row in a worker's hands is in 'processing', in no other hands, and not lost. *)
Hands ==
  \A w \in Worker :
    /\ job[w] \notin held[w]
    /\ \A k \in held[w] \cup ({job[w]} \ {NoJob}) :
         /\ status[k] = "processing" /\ k \notin lost
         /\ \A v \in Worker \ {w} : k \notin held[v] /\ k # job[v]
LostStuck == \A k \in lost : status[k] = "processing"

(* No row, no history; a row to be processed has not succeeded; the result of the
   running attempt tells whether it did. *)
Fresh    == \A k \in Key : id[k] = 0 <=> status[k] = "none"
Untried  == \A k \in Key : status[k] \in {"none", "pending", "dead_letter"} => oks[k] = 0
HeldFresh ==
  \A w \in Worker :
    /\ \A k \in held[w] : oks[k] = 0
    /\ job[w] # NoJob => oks[job[w]] = (IF result[w] = "ok" THEN 1 ELSE 0)

(* Runs against attempts and replays: equal before a run, one more after it. *)
Counted ==
  /\ \A k \in Key :
       /\ runs[k] <= attempts[k] + replays[k] + 1
       /\ status[k] \in {"none", "pending"} => runs[k] <= attempts[k] + replays[k]
  /\ \A w \in Worker : \A k \in held[w] : runs[k] <= attempts[k] + replays[k]

(* A worker claims again only when it has finished its batch. *)
InHand(w) == held[w] \cup ({job[w]} \ {NoJob})
OneBatch == \A w \in Worker : Cardinality(InHand(w)) <= BatchSize

InboxInv ==
  /\ TypeOK
  /\ Hands
  /\ LostStuck
  /\ Fresh
  /\ Untried
  /\ HeldFresh
  /\ Counted
  /\ AppliedOnce
  /\ CompletedWasApplied
  /\ NoneForgotten
=============================================================================
