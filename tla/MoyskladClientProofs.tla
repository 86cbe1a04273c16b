------------------------- MODULE MoyskladClientProofs -------------------------
(***************************************************************************)
(* Proofs about MoyskladClient, for any callers, slots, retries, threshold *)
(* and times: ClientInv is inductive; the breaker's promises follow.       *)
(***************************************************************************)
EXTENDS MoyskladClient, FiniteSetTheorems, TLAPS

Sending == {c \in Caller : pc[c] = "send"}

LEMMA InitClient == ASSUME Init PROVE ClientInv
<1>1. {c \in Caller : pc[c] = "send"} = {}
  BY DEF Init
<1>2. SlotsBalanced
  BY <1>1, FS_EmptySet DEF Init, SlotsBalanced
<1> QED
  BY <1>2, ClientAssumption
  DEF Init, ClientInv, TypeOK, OneVerdict, Counters, Unfinished, SuccessHalfOpen

(* A step that moves no caller to or from "send" keeps the tokens balanced. *)
LEMMA SameSending ==
  ASSUME SlotsBalanced, slots' = slots,
         {c \in Caller : pc'[c] = "send"} = {c \in Caller : pc[c] = "send"}
  PROVE  SlotsBalanced'
  BY DEF SlotsBalanced

LEMMA SendingFinite == IsFiniteSet(Sending) /\ Cardinality(Sending) \in Nat
  BY ClientAssumption, FS_Subset, FS_CardinalityType DEF Sending

(* Acquiring a slot: one caller more on its way, one token more. *)
LEMMA OneMoreSending ==
  ASSUME ClientInv, NEW c \in Caller, Move(c, "queue", "send"), slots' = slots + 1
  PROVE  SlotsBalanced'
<1>1. Sending' = Sending \cup {c} /\ c \notin Sending
  BY DEF Move, Sending, ClientInv, TypeOK
<1>2. Cardinality(Sending') = Cardinality(Sending) + 1
  BY <1>1, SendingFinite, FS_AddElement
<1> QED
  BY <1>2 DEF SlotsBalanced, Sending, ClientInv

(* Releasing it: one less, and there was one. *)
LEMMA OneLessSending ==
  ASSUME ClientInv, NEW c \in Caller, NEW to, to # "send", Move(c, "send", to), Release
  PROVE  SlotsBalanced' /\ slots > 0
<1>1. Sending' = Sending \ {c} /\ c \in Sending
  BY DEF Move, Sending, ClientInv, TypeOK
<1>2. Cardinality(Sending') = Cardinality(Sending) - 1
  BY <1>1, SendingFinite, FS_RemoveElement
<1>3. Cardinality(Sending) # 0
  BY <1>1, SendingFinite, FS_EmptySet
<1> QED
  BY <1>2, <1>3, SendingFinite DEF SlotsBalanced, Sending, Release, ClientInv

-----------------------------------------------------------------------------
(* The breaker on its own.                                                 *)

BreakerOK ==
  /\ state \in {"closed", "open", "half-open"}
  /\ failures \in 0..FailThreshold
  /\ successes \in 0..SuccessHalfOpen
  /\ openLeft \in 0..OpenTimeout
  /\ streak \in Nat
  /\ Counters

LEMMA SuccessKeeps == ASSUME BreakerOK, OnSuccess, streak' = 0 PROVE BreakerOK'
  BY ClientAssumption DEF BreakerOK, OnSuccess, Counters, SuccessHalfOpen, breaker

LEMMA FailureKeeps == ASSUME BreakerOK, OnFailure, streak' = streak + 1 PROVE BreakerOK'
  BY ClientAssumption DEF BreakerOK, OnFailure, Counters, SuccessHalfOpen, breaker

LEMMA ReportKeeps ==
  ASSUME BreakerOK, NEW c \in Caller, NEW good \in BOOLEAN, Report(c, good)
  PROVE  BreakerOK'
<1>1. CASE good
  BY <1>1, SuccessKeeps DEF Report
<1>2. CASE ~good
  BY <1>2, FailureKeeps DEF Report
<1> QED
  BY <1>1, <1>2

LEMMA AllowKeeps ==
  ASSUME BreakerOK, Allow \/ Refuse, UNCHANGED streak PROVE BreakerOK'
  BY ClientAssumption DEF BreakerOK, Allow, Refuse, MayPass, Counters, SuccessHalfOpen, breaker

LEMMA SameBreaker == ASSUME BreakerOK, UNCHANGED <<breaker, streak>> PROVE BreakerOK'
  BY DEF BreakerOK, Counters, breaker

(* The invariant, split into the breaker and what concerns the callers. *)
CallerTypes ==
  /\ pc \in [Caller -> {"idle", "ask", "limit", "queue", "send", "backoff"}]
  /\ attempt \in [Caller -> 0..MaxRetries]
  /\ outcome \in [Caller -> {"none", "answer", "failed", "refused"}]
  /\ cancelled \subseteq Caller
  /\ verdicts \in [Caller -> Nat]
SharedTypes ==
  /\ gap \in 0..MinInterval
  /\ slots \in 0..Slots
  /\ faults \in Nat

LEMMA Parts ==
  ClientInv <=> /\ CallerTypes /\ SharedTypes /\ BreakerOK
                /\ SlotsBalanced /\ OneVerdict /\ Unfinished
  BY DEF ClientInv, TypeOK, CallerTypes, SharedTypes, BreakerOK

LEMMA PartsNext ==
  /\ CallerTypes' /\ SharedTypes' /\ BreakerOK'
  /\ SlotsBalanced' /\ OneVerdict' /\ Unfinished'
  => ClientInv'
  BY DEF ClientInv, TypeOK, CallerTypes, SharedTypes, BreakerOK

-----------------------------------------------------------------------------
(* One lemma per action.                                                   *)

LEMMA StartKeeps == ASSUME ClientInv, NEW c \in Caller, Start(c) PROVE ClientInv'
<1> USE DEF Start, Move
<1>1. CallerTypes' /\ SharedTypes'
  BY Parts, ClientAssumption DEF CallerTypes, SharedTypes
<1>2. BreakerOK'
  BY Parts, SameBreaker
<1>3. SlotsBalanced'
  BY Parts, SameSending DEF CallerTypes
<1>4. OneVerdict' /\ Unfinished'
  BY Parts DEF CallerTypes, OneVerdict, Unfinished
<1> QED
  BY <1>1, <1>2, <1>3, <1>4, PartsNext

LEMMA AskKeeps == ASSUME ClientInv, NEW c \in Caller, Ask(c) PROVE ClientInv'
<1> USE DEF Ask, Return, Move
<1>1. CallerTypes' /\ SharedTypes'
  BY Parts DEF CallerTypes, SharedTypes
<1>2. BreakerOK'
  BY Parts, AllowKeeps
<1>3. SlotsBalanced'
  BY Parts, SameSending DEF CallerTypes
<1>4. OneVerdict' /\ Unfinished'
  BY Parts DEF CallerTypes, OneVerdict, Unfinished
<1> QED
  BY <1>1, <1>2, <1>3, <1>4, PartsNext

LEMMA PassKeeps == ASSUME ClientInv, NEW c \in Caller, Pass(c) PROVE ClientInv'
<1> USE DEF Pass, Move
<1>1. CallerTypes' /\ SharedTypes'
  BY Parts, ClientAssumption DEF CallerTypes, SharedTypes
<1>2. BreakerOK'
  BY Parts, SameBreaker
<1>3. SlotsBalanced'
  BY Parts, SameSending DEF CallerTypes
<1>4. OneVerdict' /\ Unfinished'
  BY Parts DEF CallerTypes, OneVerdict, Unfinished
<1> QED
  BY <1>1, <1>2, <1>3, <1>4, PartsNext

LEMMA SendKeeps == ASSUME ClientInv, NEW c \in Caller, Send(c) PROVE ClientInv'
<1>1. CallerTypes' /\ SharedTypes'
  BY Parts, ClientAssumption DEF Send, Move, CallerTypes, SharedTypes
<1>2. BreakerOK'
  BY Parts, SameBreaker DEF Send
<1>3. SlotsBalanced'
  BY OneMoreSending DEF Send
<1>4. OneVerdict' /\ Unfinished'
  BY Parts DEF Send, Move, CallerTypes, OneVerdict, Unfinished
<1> QED
  BY <1>1, <1>2, <1>3, <1>4, PartsNext

LEMMA AnsweredKeeps == ASSUME ClientInv, NEW c \in Caller, Answered(c) PROVE ClientInv'
<1>1. PICK good \in BOOLEAN : Report(c, good) /\ (UNCHANGED faults \/ Fault)
  BY DEF Answered
<1>2. /\ Move(c, "send", "idle") /\ Release
      /\ outcome' = [outcome EXCEPT ![c] = "answer"]
      /\ cancelled' = cancelled \ {c}
      /\ verdicts' = [verdicts EXCEPT ![c] = @ + 1]
      /\ UNCHANGED <<attempt, gap>>
  BY <1>1 DEF Answered, Return, Report
<1>3. SlotsBalanced' /\ slots > 0
  BY <1>2, OneLessSending
<1>4. CallerTypes' /\ SharedTypes'
  <2>1. CallerTypes'
    BY <1>2, Parts DEF CallerTypes, Move
  <2>2. SharedTypes'
    BY <1>1, <1>2, <1>3, Parts, ClientAssumption DEF SharedTypes, Release, Fault
  <2> QED
    BY <2>1, <2>2
<1>5. BreakerOK'
  BY <1>1, Parts, ReportKeeps
<1>6. OneVerdict' /\ Unfinished'
  BY <1>2, Parts DEF CallerTypes, OneVerdict, Unfinished, Move
<1> QED
  BY <1>3, <1>4, <1>5, <1>6, PartsNext

LEMMA FailedKeeps == ASSUME ClientInv, NEW c \in Caller, Failed(c) PROVE ClientInv'
<1>1. Release /\ (UNCHANGED faults \/ Fault) /\ UNCHANGED <<attempt, gap>>
  BY DEF Failed, FaultOf
<1>2. CASE attempt[c] = MaxRetries /\ Return(c, "send", "failed") /\ Report(c, FALSE)
  <2>1. SlotsBalanced' /\ slots > 0
    BY <1>1, <1>2, OneLessSending DEF Return
  <2>2. CallerTypes' /\ SharedTypes'
    <3>1. CallerTypes'
      BY <1>1, <1>2, Parts DEF CallerTypes, Return, Report, Move
    <3>2. SharedTypes'
      BY <1>1, <2>1, Parts, ClientAssumption DEF SharedTypes, Release, Fault
    <3> QED
      BY <3>1, <3>2
  <2>3. BreakerOK'
    BY <1>2, Parts, ReportKeeps
  <2>4. OneVerdict' /\ Unfinished'
    <3>1. /\ pc' = [pc EXCEPT ![c] = "idle"] /\ pc[c] = "send"
          /\ outcome' = [outcome EXCEPT ![c] = "failed"]
          /\ verdicts' = [verdicts EXCEPT ![c] = @ + 1]
          /\ UNCHANGED attempt
      BY <1>1, <1>2 DEF Return, Report, Move
    <3> QED
      BY <3>1, Parts DEF CallerTypes, OneVerdict, Unfinished
  <2> QED
    BY <2>1, <2>2, <2>3, <2>4, PartsNext
<1>3. CASE /\ attempt[c] < MaxRetries /\ Move(c, "send", "backoff")
           /\ UNCHANGED <<outcome, cancelled, verdicts, breaker, streak>>
  <2>1. SlotsBalanced' /\ slots > 0
    BY <1>1, <1>3, OneLessSending
  <2>2. CallerTypes' /\ SharedTypes'
    <3>1. CallerTypes'
      BY <1>1, <1>3, Parts DEF CallerTypes, Move
    <3>2. SharedTypes'
      BY <1>1, <2>1, Parts, ClientAssumption DEF SharedTypes, Release, Fault
    <3> QED
      BY <3>1, <3>2
  <2>3. BreakerOK'
    BY <1>3, Parts, SameBreaker
  <2>4. OneVerdict' /\ Unfinished'
    BY <1>1, <1>3, Parts DEF CallerTypes, OneVerdict, Unfinished, Move
  <2> QED
    BY <2>1, <2>2, <2>3, <2>4, PartsNext
<1> QED
  BY <1>2, <1>3 DEF Failed

LEMMA WakeKeeps == ASSUME ClientInv, NEW c \in Caller, Wake(c) PROVE ClientInv'
<1>1. attempt[c] < MaxRetries
  BY Parts DEF Wake, Move, Unfinished
<1>2. CallerTypes' /\ SharedTypes'
  BY <1>1, Parts, ClientAssumption DEF Wake, Move, CallerTypes, SharedTypes
<1>3. BreakerOK'
  BY Parts, SameBreaker DEF Wake
<1>4. SlotsBalanced'
  BY Parts, SameSending DEF Wake, Move, CallerTypes
<1>5. OneVerdict' /\ Unfinished'
  BY Parts DEF Wake, Move, CallerTypes, OneVerdict, Unfinished
<1> QED
  BY <1>2, <1>3, <1>4, <1>5, PartsNext

LEMMA CancelKeeps == ASSUME ClientInv, NEW c \in Caller, Cancel(c) PROVE ClientInv'
<1>1. CallerTypes' /\ SharedTypes'
  BY Parts DEF Cancel, Fault, CallerTypes, SharedTypes
<1>2. BreakerOK'
  BY Parts, SameBreaker DEF Cancel
<1>3. SlotsBalanced' /\ OneVerdict' /\ Unfinished'
  BY Parts DEF Cancel, SlotsBalanced, OneVerdict, Unfinished
<1> QED
  BY <1>1, <1>2, <1>3, PartsNext

LEMMA TickKeeps == ASSUME ClientInv, Tick PROVE ClientInv'
<1> USE DEF Tick, call
<1>1. CallerTypes' /\ SharedTypes'
  BY Parts, ClientAssumption DEF Later, CallerTypes, SharedTypes
<1>2. BreakerOK'
  BY Parts, ClientAssumption DEF BreakerOK, Counters, SuccessHalfOpen
<1>3. SlotsBalanced' /\ OneVerdict' /\ Unfinished'
  BY Parts DEF SlotsBalanced, OneVerdict, Unfinished
<1> QED
  BY <1>1, <1>2, <1>3, PartsNext

LEMMA NextClient == ASSUME ClientInv, [Next]_vars PROVE ClientInv'
<1>1. CASE UNCHANGED vars
  BY <1>1 DEF vars, ClientInv, TypeOK, SlotsBalanced, OneVerdict, Counters, Unfinished
<1>2. CASE Next
  BY <1>2, StartKeeps, AskKeeps, PassKeeps, SendKeeps, AnsweredKeeps, FailedKeeps,
     WakeKeeps, CancelKeeps, TickKeeps
  DEF Next
<1> QED
  BY <1>1, <1>2

-----------------------------------------------------------------------------

(* The inductive invariant of the client holds in every reachable state. *)
THEOREM ClientInvariant == Spec => []ClientInv
  BY InitClient, NextClient, PTL DEF Spec

(* All variables keep their types: no more slots than there are, failures at most the
   threshold, attempts at most MaxRetries beyond the first. *)
THEOREM ClientTyped == Spec => []TypeOK
<1>1. ClientInv => TypeOK
  BY DEF ClientInv
<1> QED
  BY <1>1, ClientInvariant, PTL

(* A token in outboundSem stands for a request on its way: no branch leaks one. *)
THEOREM SlotsBalancedAlways == Spec => []SlotsBalanced
<1>1. ClientInv => SlotsBalanced
  BY DEF ClientInv
<1> QED
  BY <1>1, ClientInvariant, PTL

(* A logical request tells the breaker its result once, or was refused. *)
THEOREM OneVerdictAlways == Spec => []OneVerdict
<1>1. ClientInv => OneVerdict
  BY DEF ClientInv
<1> QED
  BY <1>1, ClientInvariant, PTL

(* The breaker opens only after FailThreshold failed requests in a row. *)
LEMMA OpeningStep ==
  ASSUME ClientInv, [Next]_vars, state = "closed", state' = "open"
  PROVE  streak' >= FailThreshold
<1>1. PICK c \in Caller, good \in BOOLEAN : Report(c, good)
  BY DEF Next, vars, Start, Ask, Allow, Refuse, Pass, Send, Answered, Failed, Wake, Cancel,
         Tick, breaker
<1>2. ~good /\ OnFailure /\ streak' = streak + 1
  BY <1>1 DEF Report, OnSuccess, breaker
<1>3. failures = streak /\ failures + 1 >= FailThreshold
  BY <1>2 DEF OnFailure, ClientInv, Counters, breaker
<1> QED
  BY <1>2, <1>3

THEOREM OpensAfterStreakAlways == Spec => OpensAfterStreak
<1>1. ClientInv /\ [Next]_vars => [state = "closed" /\ state' = "open" => streak' >= FailThreshold]_vars
  BY OpeningStep
<1> QED
  BY <1>1, ClientInvariant, PTL DEF Spec, OpensAfterStreak

(* While the breaker stays open, nobody gets past it: not even between two attempts. *)
LEMMA QuietStep ==
  ASSUME ClientInv, [Next]_vars, state = "open", state' = "open"
  PROVE  Past' \subseteq Past
<1>1. CASE UNCHANGED vars
  BY <1>1 DEF vars, Past
<1>2. ASSUME NEW c \in Caller, Start(c) PROVE Past' \subseteq Past
  BY <1>2 DEF Start, Move, Past, ClientInv, TypeOK
<1>3. ASSUME NEW c \in Caller, Ask(c) PROVE Past' \subseteq Past
  BY <1>3 DEF Ask, Allow, Return, Move, Past, ClientInv, TypeOK
<1>4. ASSUME NEW c \in Caller, Pass(c) \/ Send(c) PROVE Past' \subseteq Past
  BY <1>4 DEF Pass, Send, Move, Past, ClientInv, TypeOK
<1>5. ASSUME NEW c \in Caller, Answered(c) \/ Failed(c) PROVE Past' \subseteq Past
  BY <1>5 DEF Answered, Failed, Return, Move, Past, ClientInv, TypeOK
<1>6. ASSUME NEW c \in Caller, Wake(c) \/ Cancel(c) PROVE Past' \subseteq Past
  BY <1>6 DEF Wake, Cancel, Move, Past, ClientInv, TypeOK
<1>7. CASE Tick
  BY <1>7 DEF Tick, call, Past
<1> QED
  BY <1>1, <1>2, <1>3, <1>4, <1>5, <1>6, <1>7 DEF Next

THEOREM QuietWhileOpenAlways == Spec => QuietWhileOpen
<1>1. ClientInv /\ [Next]_vars => [state = "open" /\ state' = "open" => Past' \subseteq Past]_vars
  BY QuietStep
<1> QED
  BY <1>1, ClientInvariant, PTL DEF Spec, QuietWhileOpen
=============================================================================
