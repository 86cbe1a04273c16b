---------------------------- MODULE MoyskladClient ----------------------------
(***************************************************************************)
(* The HTTP client all parts of the shop share towards MoySklad:           *)
(* doRequestWithRetry of moysklad/client.go with its rate limiter and its  *)
(* semaphore, and the breaker of resilience/circuitbreaker.go. A caller is *)
(* a goroutine that makes one logical request after another; a request is  *)
(* its outcome.                                                            *)
(***************************************************************************)
EXTENDS Integers, FiniteSets

CONSTANTS Caller,
          Slots,          \* WithOutboundConcurrency
          MaxRetries,     \* an attempt and MaxRetries more
          FailThreshold,  \* failThreshold of the breaker
          OpenTimeout,    \* openTimeout, in ticks
          MinInterval,    \* minInterval of the limiter, in ticks
          MaxFaults       \* bound: attempts that fail and callers that give up

ASSUME ClientAssumption ==
  /\ IsFiniteSet(Caller)
  /\ Slots \in Nat \ {0}
  /\ MaxRetries \in Nat
  /\ FailThreshold \in Nat \ {0}
  /\ OpenTimeout \in Nat \ {0}
  /\ MinInterval \in Nat /\ MaxFaults \in Nat

VARIABLES
  pc,         \* where a caller is in doRequestWithRetry
  attempt,    \* its loop variable
  outcome,    \* what its last request returned, "none" until it does
  cancelled,  \* callers whose context is done
  verdicts,   \* OnSuccess and OnFailure calls of its request (history)
  gap,        \* ticks since lastRequest of the limiter, at most MinInterval
  slots,      \* tokens in outboundSem
  state,      \* the breaker
  failures,
  successes,
  openLeft,   \* ticks until openedAt + openTimeout
  streak,     \* failures reported since the last success (history)
  faults      \* MaxFaults counter

call    == <<pc, attempt, outcome, cancelled, verdicts>>
breaker == <<state, failures, successes, openLeft>>
vars == <<pc, attempt, outcome, cancelled, verdicts, gap, slots, state, failures,
          successes, openLeft, streak, faults>>

SuccessHalfOpen == 1

TypeOK ==
  /\ pc \in [Caller -> {"idle", "ask", "limit", "queue", "send", "backoff"}]
  /\ attempt \in [Caller -> 0..MaxRetries]
  /\ outcome \in [Caller -> {"none", "answer", "failed", "refused"}]
  /\ cancelled \subseteq Caller
  /\ verdicts \in [Caller -> Nat]
  /\ gap \in 0..MinInterval
  /\ slots \in 0..Slots
  /\ state \in {"closed", "open", "half-open"}
  /\ failures \in 0..FailThreshold
  /\ successes \in 0..SuccessHalfOpen
  /\ openLeft \in 0..OpenTimeout
  /\ streak \in Nat
  /\ faults \in Nat

Init ==
  /\ pc = [c \in Caller |-> "idle"]
  /\ attempt = [c \in Caller |-> 0]
  /\ outcome = [c \in Caller |-> "none"]
  /\ cancelled = {}
  /\ verdicts = [c \in Caller |-> 0]
  /\ gap = MinInterval
  /\ slots = 0
  /\ state = "closed"
  /\ failures = 0
  /\ successes = 0
  /\ openLeft = 0
  /\ streak = 0
  /\ faults = 0

-----------------------------------------------------------------------------
(* resilience/circuitbreaker.go. Each method holds the mutex: one step.    *)

(* Faulty variant: an open breaker never tries again. *)
MayPass_Never == state # "open"

MayPass == state = "open" => openLeft = 0

Allow ==
  /\ MayPass
  /\ \/ state # "open" /\ UNCHANGED breaker
     \/ /\ state = "open"
        /\ state' = "half-open"
        /\ successes' = 0
        /\ UNCHANGED <<failures, openLeft>>

Refuse == ~MayPass /\ UNCHANGED breaker

(* Faulty variant: a success does not end a row of failures. *)
OnSuccess_Keeps ==
  \/ /\ state = "half-open"
     /\ successes' = successes + 1
     /\ state' = "closed"
     /\ failures' = 0
     /\ UNCHANGED openLeft
  \/ /\ state # "half-open"
     /\ UNCHANGED breaker

OnSuccess ==
  \/ /\ state = "half-open"
     /\ successes' = successes + 1
     /\ IF successes' >= SuccessHalfOpen
        THEN state' = "closed" /\ failures' = 0
        ELSE UNCHANGED <<state, failures>>
     /\ UNCHANGED openLeft
  \/ /\ state = "closed"
     /\ failures' = 0
     /\ UNCHANGED <<state, successes, openLeft>>
  \/ state = "open" /\ UNCHANGED breaker

(* Faulty variant: failures are counted while the breaker is open, too. *)
OnFailure_CountsOpen ==
  \/ /\ state = "half-open"
     /\ state' = "open"
     /\ openLeft' = OpenTimeout
     /\ failures' = FailThreshold
     /\ UNCHANGED successes
  \/ /\ state # "half-open"
     /\ failures' = failures + 1
     /\ IF failures' >= FailThreshold
        THEN state' = "open" /\ openLeft' = OpenTimeout
        ELSE UNCHANGED <<state, openLeft>>
     /\ UNCHANGED successes

OnFailure ==
  \/ /\ state = "half-open"
     /\ state' = "open"
     /\ openLeft' = OpenTimeout
     /\ failures' = FailThreshold
     /\ UNCHANGED successes
  \/ /\ state = "closed"
     /\ failures' = failures + 1
     /\ IF failures' >= FailThreshold
        THEN state' = "open" /\ openLeft' = OpenTimeout
        ELSE UNCHANGED <<state, openLeft>>
     /\ UNCHANGED successes
  \/ state = "open" /\ UNCHANGED breaker

-----------------------------------------------------------------------------
(* moysklad/client.go, doRequestWithRetry.                                 *)

Move(c, from, to) == pc[c] = from /\ pc' = [pc EXCEPT ![c] = to]

(* The call returns. *)
Return(c, from, o) ==
  /\ Move(c, from, "idle")
  /\ outcome' = [outcome EXCEPT ![c] = o]
  /\ cancelled' = cancelled \ {c}

(* A request is made; its attempt is the first. *)
Start(c) ==
  /\ Move(c, "idle", "ask")
  /\ attempt' = [attempt EXCEPT ![c] = 0]
  /\ outcome' = [outcome EXCEPT ![c] = "none"]
  /\ verdicts' = [verdicts EXCEPT ![c] = 0]
  /\ UNCHANGED <<cancelled, gap, slots, breaker, streak, faults>>

(* breaker.Allow() before every attempt: ErrCircuitOpen, or go on. *)
Ask(c) ==
  /\ \/ Allow /\ Move(c, "ask", "limit") /\ UNCHANGED <<outcome, cancelled>>
     \/ Refuse /\ Return(c, "ask", "refused")
  /\ UNCHANGED <<attempt, verdicts, gap, slots, streak, faults>>

(* rateLimiter.wait(): the mutex is held while sleeping, so callers pass one at a
   time, each MinInterval after the one before. *)
Pass(c) ==
  /\ gap = MinInterval
  /\ gap' = 0
  /\ Move(c, "limit", "queue")
  /\ UNCHANGED <<attempt, outcome, cancelled, verdicts, slots, breaker, streak, faults>>

(* acquireOutbound(), and the request is on its way. *)
Send(c) ==
  /\ slots < Slots
  /\ slots' = slots + 1
  /\ Move(c, "queue", "send")
  /\ UNCHANGED <<attempt, outcome, cancelled, verdicts, gap, breaker, streak, faults>>

(* releaseOutbound() *)
Release == slots' = slots - 1

(* OnSuccess or OnFailure for the request of c. *)
Report(c, good) ==
  /\ IF good THEN OnSuccess ELSE OnFailure
  /\ streak' = IF good THEN 0 ELSE streak + 1
  /\ verdicts' = [verdicts EXCEPT ![c] = @ + 1]

Fault == faults < MaxFaults /\ faults' = faults + 1

(* An attempt fails for its caller's sake, or for MoySklad's. *)
FaultOf(c) == IF c \in cancelled THEN UNCHANGED faults ELSE Fault

(* Status below 500, or 500 and the other statuses that are not retried. *)
Answered(c) ==
  /\ c \notin cancelled
  /\ Release
  /\ Return(c, "send", "answer")
  /\ \/ Report(c, TRUE) /\ UNCHANGED faults
     \/ Report(c, FALSE) /\ Fault
  /\ UNCHANGED <<attempt, gap>>

(* Faulty variant: every failed attempt is reported, not only the last. *)
Failed_ReportsAll(c) ==
  /\ FaultOf(c)
  /\ Release
  /\ Report(c, FALSE)
  /\ \/ attempt[c] = MaxRetries /\ Return(c, "send", "failed")
     \/ attempt[c] < MaxRetries /\ Move(c, "send", "backoff") /\ UNCHANGED <<outcome, cancelled>>
  /\ UNCHANGED <<attempt, gap>>

(* Faulty variant: the branch that retries keeps its slot. *)
Failed_KeepsSlot(c) ==
  /\ FaultOf(c)
  /\ \/ /\ attempt[c] = MaxRetries
        /\ Release
        /\ Return(c, "send", "failed")
        /\ Report(c, FALSE)
     \/ /\ attempt[c] < MaxRetries
        /\ UNCHANGED slots
        /\ Move(c, "send", "backoff")
        /\ UNCHANGED <<outcome, cancelled, verdicts, breaker, streak>>
  /\ UNCHANGED <<attempt, gap>>

(* A transport error (a done context is one), 429, 502, 503 or 504. *)
Failed(c) ==
  /\ FaultOf(c)
  /\ Release
  /\ \/ /\ attempt[c] = MaxRetries
        /\ Return(c, "send", "failed")
        /\ Report(c, FALSE)
     \/ /\ attempt[c] < MaxRetries
        /\ Move(c, "send", "backoff")
        /\ UNCHANGED <<outcome, cancelled, verdicts, breaker, streak>>
  /\ UNCHANGED <<attempt, gap>>

(* The backoff or Retry-After is over, or the context is done: the next attempt. *)
Wake(c) ==
  /\ Move(c, "backoff", "ask")
  /\ attempt' = [attempt EXCEPT ![c] = @ + 1]
  /\ UNCHANGED <<outcome, cancelled, verdicts, gap, slots, breaker, streak, faults>>

(* The context of the caller is cancelled or its deadline passes. *)
Cancel(c) ==
  /\ pc[c] # "idle"
  /\ c \notin cancelled
  /\ Fault
  /\ cancelled' = cancelled \cup {c}
  /\ UNCHANGED <<pc, attempt, outcome, verdicts, gap, slots, breaker, streak>>

Later(t, max) == IF t < max THEN t + 1 ELSE t

Tick ==
  /\ gap < MinInterval \/ openLeft > 0
  /\ gap' = Later(gap, MinInterval)
  /\ openLeft' = IF openLeft > 0 THEN openLeft - 1 ELSE 0
  /\ UNCHANGED <<call, slots, state, failures, successes, streak, faults>>

Next ==
  \/ \E c \in Caller :
       \/ Start(c) \/ Ask(c) \/ Pass(c) \/ Send(c)
       \/ Answered(c) \/ Failed(c) \/ Wake(c) \/ Cancel(c)
  \/ Tick

(* The scheduler and the workers call again and again; time passes; a request ends
   (120 s timeout); the mutex and the channel serve the callers that wait in turn. *)
Fairness ==
  /\ WF_vars(Tick)
  /\ \A c \in Caller :
       /\ WF_vars(Start(c)) /\ WF_vars(Ask(c)) /\ WF_vars(Wake(c))
       /\ WF_vars(Answered(c) \/ Failed(c))
       /\ SF_vars(Pass(c)) /\ SF_vars(Send(c))

Spec     == Init /\ [][Next]_vars
FairSpec == Spec /\ Fairness

-----------------------------------------------------------------------------
(* Properties.                                                             *)

(* A token in outboundSem stands for a request on its way, on each of the branches of
   doRequestWithRetry: none is kept over a backoff or an error. *)
SlotsBalanced == slots = Cardinality({c \in Caller : pc[c] = "send"})

(* A logical request tells the breaker its result once, after its last attempt; one
   that ErrCircuitOpen ended, even between two attempts, tells it nothing. *)
OneVerdict ==
  \A c \in Caller :
    verdicts[c] = IF outcome[c] \in {"answer", "failed"} THEN 1 ELSE 0

(* The closed breaker opens only after FailThreshold failed requests in a row, with no
   success of any caller in between. *)
OpensAfterStreak ==
  [][state = "closed" /\ state' = "open" => streak' >= FailThreshold]_vars

(* While the breaker is open, no caller, new or between two attempts, gets past it:
   only the attempts begun before go on. *)
Past == {c \in Caller : pc[c] \in {"limit", "queue", "send"}}
QuietWhileOpen == [][state = "open" /\ state' = "open" => Past' \subseteq Past]_vars

(* Every request returns: no slot leaks, nobody starves, retries are bounded. *)
CallsReturn == \A c \in Caller : pc[c] # "idle" ~> pc[c] = "idle"

(* Once MoySklad stops failing (faults are finite), the breaker closes for good. *)
Recovers == <>[](state = "closed")

-----------------------------------------------------------------------------
(* The inductive invariant.                                                *)

Counters ==
  /\ state = "closed" => failures < FailThreshold /\ failures = streak /\ openLeft = 0
  /\ state = "half-open" => successes = 0 /\ openLeft = 0
Unfinished ==
  \A c \in Caller : /\ pc[c] # "idle" => outcome[c] = "none"
                    /\ pc[c] = "backoff" => attempt[c] < MaxRetries

ClientInv ==
  /\ TypeOK
  /\ SlotsBalanced
  /\ OneVerdict
  /\ Counters
  /\ Unfinished
=============================================================================
