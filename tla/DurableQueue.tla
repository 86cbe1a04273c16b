----------------------------- MODULE DurableQueue -----------------------------
(***************************************************************************)
(* What the webhook queue promises, without saying how: an event is stored *)
(* before it is acknowledged, under a key it shares with its               *)
(* redeliveries; what is stored is tried until it has had its effect, once, *)
(* or is given up; and nothing leaves this path but by a mishap, which     *)
(* costs no more than one batch.  WebhookInbox implements this             *)
(* specification.                                                          *)
(***************************************************************************)
EXTENDS Naturals, FiniteSets

CONSTANTS Event,      \* events that are delivered, each any number of times
          Key,        \* what is stored
          KeyOf,      \* KeyOf[e]: the key under which e is stored
          BatchSize   \* how much a worker takes at a time

(* What the constants have to be. *)
QueueAssumption ==
  /\ IsFiniteSet(Key)
  /\ KeyOf \in [Event -> Key]
  /\ BatchSize \in Nat \ {0}

VARIABLES place,     \* where what is stored under a key has got to
          effects,   \* how often it has had its effect
          acked,     \* acknowledged events
          mishaps    \* workers that died, claims and marks that were lost

queueVars == <<place, effects, acked, mishaps>>

Place == {"absent", "queued", "taken", "applied", "done", "dead", "stuck"}
At(p) == {k \in Key : place[k] = p}

QueueTypeOK ==
  /\ place \in [Key -> Place]
  /\ effects \in [Key -> Nat]
  /\ acked \subseteq Event
  /\ mishaps \in Nat

QueueInit ==
  /\ place = [k \in Key |-> "absent"]
  /\ effects = [k \in Key |-> 0]
  /\ acked = {}
  /\ mishaps = 0

MoveTo(S, p) == place' = [k \in Key |-> IF k \in S THEN p ELSE place[k]]

(* An event is delivered; it may be acknowledged, once it is stored. *)
Accept(e) ==
  /\ MoveTo({KeyOf[e]} \cap At("absent"), "queued")
  /\ acked' \in {acked, acked \cup {e}}
  /\ UNCHANGED <<effects, mishaps>>

(* A worker takes a batch. *)
Take(S) ==
  /\ S \subseteq At("queued") /\ Cardinality(S) <= BatchSize
  /\ MoveTo(S, "taken")
  /\ UNCHANGED <<effects, acked, mishaps>>

(* It has its effect, and then is marked as done. *)
Apply(k) ==
  /\ place[k] = "taken"
  /\ MoveTo({k}, "applied")
  /\ effects' = [effects EXCEPT ![k] = @ + 1]
  /\ UNCHANGED <<acked, mishaps>>

Settle(k) ==
  /\ place[k] = "applied"
  /\ MoveTo({k}, "done")
  /\ UNCHANGED <<effects, acked, mishaps>>

(* It fails without effect: it is tried again or given up. *)
Fail(k) ==
  /\ place[k] = "taken"
  /\ \E p \in {"queued", "dead"} : MoveTo({k}, p)
  /\ UNCHANGED <<effects, acked, mishaps>>

(* What was given up is tried again. *)
Replay(k) ==
  /\ place[k] = "dead"
  /\ MoveTo({k}, "queued")
  /\ UNCHANGED <<effects, acked, mishaps>>

(* A mishap: a batch that is being taken or has been taken goes nowhere from here. *)
Lose(S) ==
  /\ S \subseteq At("queued") \cup At("taken") \cup At("applied")
  /\ Cardinality(S) <= BatchSize
  /\ MoveTo(S, "stuck")
  /\ mishaps' = mishaps + 1
  /\ UNCHANGED <<effects, acked>>

QueueNext ==
  \/ \E e \in Event : Accept(e)
  \/ \E S \in SUBSET Key : Take(S) \/ Lose(S)
  \/ \E k \in Key : Apply(k) \/ Settle(k) \/ Fail(k) \/ Replay(k)

QueueSpec == QueueInit /\ [][QueueNext]_queueVars

-----------------------------------------------------------------------------
(* What is acknowledged is stored; what waits or was given up has had no effect, what
   is done has had it once; and only mishaps cost something, a batch each. *)
AckedIsStored == \A e \in acked : place[KeyOf[e]] # "absent"
OneEffect ==
  \A k \in Key : /\ effects[k] <= 1
                 /\ place[k] \in {"absent", "queued", "taken", "dead"} => effects[k] = 0
                 /\ place[k] \in {"applied", "done"} => effects[k] = 1
LossBounded == Cardinality(At("stuck")) <= BatchSize * mishaps

Promise == AckedIsStored /\ OneEffect /\ LossBounded
=============================================================================
