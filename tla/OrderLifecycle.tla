---------------------------- MODULE OrderLifecycle ----------------------------
(***************************************************************************)
(* Orders from placement to their end: usecase/order.go (CreateOrder,      *)
(* cancelOrder, CompleteOrder), the transactions of db/orders.go and the   *)
(* cron of services/reservation_expiry.go, against an external MoySklad.   *)
(*                                                                         *)
(* A placement and a cancellation are sequences of steps in different      *)
(* systems; requests, cron instances and crashes interleave between the    *)
(* steps. Each Postgres transaction of CreateOrderAtomic is one step; the  *)
(* cancelling transaction is two (lock taken, commit), because another     *)
(* caller's SKIP LOCKED observes the lock.                                 *)
(***************************************************************************)
EXTENDS Integers, Sequences, FiniteSets

CONSTANTS Product,      \* products
          Order,        \* order requests, each of which becomes at most one row
          Basket,       \* Basket[o]: the order lines, [product, quantity] records
          InitStock,    \* stock before the first order
          Handler,      \* goroutines serving cancel, expire and ship requests
          Cron,         \* reservation-expiry goroutines, one per service instance
          Holds,        \* lengths of a reservation, in clock steps
          BatchSize,    \* LIMIT of one cron batch
          MaxNow,       \* bound: last clock value
          MaxCrashes,   \* bound: number of goroutines killed
          NoOrder       \* "no order": what an idle actor works on

Actor   == Handler \cup Cron
Line    == [product : Product, quantity : Nat \ {0}]

ASSUME OrderAssumption ==
  /\ IsFiniteSet(Order) /\ IsFiniteSet(Handler) /\ IsFiniteSet(Cron)
  /\ Handler \cap Cron = {}
  /\ Basket \in [Order -> Seq(Line)]
  /\ InitStock \in [Product -> Nat]
  /\ Holds \subseteq Nat
  /\ BatchSize \in Nat \ {0}
  /\ MaxNow \in Nat
  /\ MaxCrashes \in Nat
  /\ NoOrder \notin Order

VARIABLES
  stock,          \* products_stock
  status,         \* orders_status; "none": no such row
  reservedUntil,  \* orders_reserved_until, computed when the request is read
  req,            \* where the CreateOrder handler of a request stands
  ms,             \* the CustomerOrder in MoySklad: "none", "live" or "deleted"
  audit,          \* order_events rows of an order
  pc,             \* where an actor stands
  target,         \* the order an actor works on
  goal,           \* the status it wants to give that order
  batch,          \* ids a cron instance has listed and not yet visited
  now,            \* the clock
  crashes,        \* goroutines killed so far
  mishap          \* orders one of whose best-effort steps went wrong (history)

shop == <<stock, status, reservedUntil>>
acts == <<pc, target, goal, batch>>
hist == <<crashes, mishap>>
vars == <<stock, status, reservedUntil, req, ms, audit, pc, target, goal, batch,
          now, crashes, mishap>>

Status   == {"none", "pending", "completed", "cancelled", "expired"}
Terminal == {"completed", "cancelled", "expired"}
Event    == {"created", "shipped", "cancelled", "expired"}
ReqState == {"new", "priced", "booked", "unbooking", "saved", "answered", "failed"}
PcState  == {"idle", "locked", "recording", "unbooking"}

TypeOK ==
  /\ stock \in [Product -> Nat]
  /\ status \in [Order -> Status]
  /\ reservedUntil \in [Order -> Nat]
  /\ req \in [Order -> ReqState]
  /\ ms \in [Order -> {"none", "live", "deleted"}]
  /\ audit \in [Order -> SUBSET Event]
  /\ pc \in [Actor -> PcState]
  /\ target \in [Actor -> Order \cup {NoOrder}]
  /\ goal \in [Actor -> Terminal]
  /\ batch \in [Cron -> SUBSET Order]
  /\ now \in Nat
  /\ crashes \in Nat
  /\ mishap \subseteq Order

-----------------------------------------------------------------------------
(* Lines of an order for one product, and the units of it those lines ask for. *)
LinesFor(o, p) == {l \in 1 .. Len(Basket[o]) : Basket[o][l].product = p}
Unit(o, p)     == UNION {{l} \X (1 .. Basket[o][l].quantity) : l \in LinesFor(o, p)}
OrderedQty     == [o \in Order |-> [p \in Product |-> Cardinality(Unit(o, p))]]

(* No two lines of one order name the same product: what the shop's own cart
   sends, since a cart has one row per product. *)
DistinctLines ==
  \A o \in Order : \A l, k \in 1 .. Len(Basket[o]) :
    Basket[o][l].product = Basket[o][k].product => l = k

Locked(o) == \E a \in Actor : pc[a] = "locked" /\ target[a] = o

Init ==
  /\ stock = InitStock
  /\ status = [o \in Order |-> "none"]
  /\ reservedUntil = [o \in Order |-> 0]
  /\ req = [o \in Order |-> "new"]
  /\ ms = [o \in Order |-> "none"]
  /\ audit = [o \in Order |-> {}]
  /\ pc = [a \in Actor |-> "idle"]
  /\ target = [a \in Actor |-> NoOrder]
  /\ goal = [a \in Actor |-> "expired"]
  /\ batch = [c \in Cron |-> {}]
  /\ now = 0
  /\ crashes = 0
  /\ mishap = {}

-----------------------------------------------------------------------------
(* CreateOrder, one step per system it talks to.                           *)

(* The request is read and checked, prices and the end of the reservation are
   fixed; a product that cannot be read or sold ends the request. *)
Price(o) ==
  /\ req[o] = "new"
  /\ Basket[o] # <<>>
  /\ \/ \E h \in Holds : /\ reservedUntil' = [reservedUntil EXCEPT ![o] = now + h]
                         /\ req' = [req EXCEPT ![o] = "priced"]
     \/ /\ req' = [req EXCEPT ![o] = "failed"]
        /\ UNCHANGED reservedUntil
  /\ UNCHANGED <<stock, status, ms, audit, acts, now, hist>>

Book(o) ==
  /\ req[o] = "priced"
  /\ req' = [req EXCEPT ![o] = "booked"]
  /\ ms' = [ms EXCEPT ![o] = "live"]
  /\ UNCHANGED <<shop, audit, acts, now, hist>>

(* Faulty variant: the error of the POST is ignored and the order saved anyway. *)
BookError_Ignored(o) ==
  /\ req[o] = "priced"
  /\ req' = [req EXCEPT ![o] = "booked"]
  /\ UNCHANGED <<shop, ms, audit, acts, now, hist>>

(* The POST failed, or it was carried out and its answer was lost: the handler
   sees an error in both cases and has no id to delete by. *)
BookError(o) ==
  /\ req[o] = "priced"
  /\ req' = [req EXCEPT ![o] = "failed"]
  /\ \/ UNCHANGED <<ms, mishap>>
     \/ /\ ms' = [ms EXCEPT ![o] = "live"]
        /\ mishap' = mishap \cup {o}
  /\ UNCHANGED <<shop, audit, acts, now, crashes>>

(* Faulty variant: the decrement without AND stock >= quantity. *)
TakeStock_Unchecked(o) ==
  /\ stock' = [p \in Product |-> stock[p] - OrderedQty[o][p]]
  /\ status' = [status EXCEPT ![o] = "pending"]

(* CreateOrderAtomic up to its commit: each line decrements its product under
   stock >= quantity, so all lines of a product fit or none does. *)
TakeStock(o) ==
  /\ \A p \in Product : OrderedQty[o][p] <= stock[p]
  /\ stock' = [p \in Product |-> stock[p] - OrderedQty[o][p]]
  /\ status' = [status EXCEPT ![o] = "pending"]

Save(o) ==
  /\ req[o] = "booked"
  /\ TakeStock(o)
  /\ req' = [req EXCEPT ![o] = "saved"]
  /\ UNCHANGED <<reservedUntil, ms, audit, acts, now, hist>>

(* The commit went through and its acknowledgement was lost. *)
SaveUnknown(o) ==
  /\ req[o] = "booked"
  /\ TakeStock(o)
  /\ req' = [req EXCEPT ![o] = "unbooking"]
  /\ mishap' = mishap \cup {o}
  /\ UNCHANGED <<reservedUntil, ms, audit, acts, now, crashes>>

(* ErrInsufficientStock or a database error: nothing was saved. *)
SaveRejected(o) ==
  /\ req[o] = "booked"
  /\ req' = [req EXCEPT ![o] = "unbooking"]
  /\ UNCHANGED <<shop, ms, audit, acts, now, hist>>

(* DeleteCustomerOrder, best effort: a failed call may or may not have reached
   MoySklad, and 404 for an order deleted before counts as success. *)
DeleteInMoysklad(o) ==
  \/ /\ ms' = [ms EXCEPT ![o] = "deleted"]
     /\ UNCHANGED mishap
  \/ /\ UNCHANGED ms
     /\ mishap' = mishap \cup {o}

Unbook(o) ==
  /\ req[o] = "unbooking"
  /\ req' = [req EXCEPT ![o] = "failed"]
  /\ DeleteInMoysklad(o)
  /\ UNCHANGED <<shop, audit, acts, now, crashes>>

(* The audit row is best effort; the customer gets the order either way. *)
Answer(o) ==
  /\ req[o] = "saved"
  /\ req' = [req EXCEPT ![o] = "answered"]
  /\ \/ audit' = [audit EXCEPT ![o] = @ \cup {"created"}]
     \/ UNCHANGED audit
  /\ UNCHANGED <<shop, ms, acts, now, hist>>

KillRequest(o) ==
  /\ crashes < MaxCrashes
  /\ req[o] \in {"priced", "booked", "unbooking", "saved"}
  /\ req' = [req EXCEPT ![o] = "failed"]
  /\ crashes' = crashes + 1
  /\ mishap' = mishap \cup {o}
  /\ UNCHANGED <<shop, ms, audit, acts, now>>

-----------------------------------------------------------------------------
(* cancelOrder, expireOne and CompleteOrder, run by an actor.              *)

Idle(a) ==
  /\ pc' = [pc EXCEPT ![a] = "idle"]
  /\ target' = [target EXCEPT ![a] = NoOrder]
  /\ goal' = [goal EXCEPT ![a] = "expired"]

Engage(a, o, g, where) ==
  /\ pc' = [pc EXCEPT ![a] = where]
  /\ target' = [target EXCEPT ![a] = o]
  /\ goal' = [goal EXCEPT ![a] = g]

(* Faulty variant: a plain SELECT, without FOR UPDATE SKIP LOCKED. *)
LockPending_Unlocked(a, o, g) ==
  /\ pc[a] = "idle"
  /\ status[o] = "pending"
  /\ Engage(a, o, g, "locked")

(* SELECT ... FOR UPDATE SKIP LOCKED finds the row, free and pending. *)
LockPending(a, o, g) ==
  /\ pc[a] = "idle"
  /\ ~Locked(o)
  /\ status[o] = "pending"
  /\ Engage(a, o, g, "locked")

(* It finds no row, a row locked by someone else or one that is not pending:
   the caller is told alreadyHandled. *)
SkipOrder(a, o) ==
  /\ pc[a] = "idle"
  /\ Locked(o) \/ status[o] # "pending"
  /\ UNCHANGED <<pc, target, goal>>

BeginCancel(h, o, g) ==
  /\ LockPending(h, o, g) \/ SkipOrder(h, o)
  /\ UNCHANGED <<shop, req, ms, audit, batch, now, crashes, mishap>>

(* The restoring UPDATE ... FROM order_items joins a product with every line of
   the order that names it and applies one of the joined rows. *)
RestoreStock(o) ==
  LET back == {p \in Product : LinesFor(o, p) # {}}
  IN \E pick \in [back -> 1 .. Len(Basket[o])] :
       /\ \A p \in back : pick[p] \in LinesFor(o, p)
       /\ stock' = [p \in Product |->
                      IF p \in back THEN stock[p] + Basket[o][pick[p]].quantity
                                    ELSE stock[p]]

(* The cancelling transaction commits; if the acknowledgement is lost the caller
   returns an error and leaves the CustomerOrder alone. *)
CommitCancel(a) ==
  /\ pc[a] = "locked"
  /\ RestoreStock(target[a])
  /\ status' = [status EXCEPT ![target[a]] = goal[a]]
  /\ pc' = [pc EXCEPT ![a] = "recording"]
  /\ UNCHANGED <<reservedUntil, req, ms, audit, target, goal, batch, now, hist>>

CommitCancelUnknown(a) ==
  /\ pc[a] = "locked"
  /\ RestoreStock(target[a])
  /\ status' = [status EXCEPT ![target[a]] = goal[a]]
  /\ mishap' = mishap \cup {target[a]}
  /\ Idle(a)
  /\ UNCHANGED <<reservedUntil, req, ms, audit, batch, now, crashes>>

(* Faulty variant: the error of the transaction is not looked at. *)
AbortCancel_Unchecked(a) ==
  /\ pc[a] = "locked"
  /\ pc' = [pc EXCEPT ![a] = "recording"]
  /\ UNCHANGED <<shop, req, ms, audit, target, goal, batch, now, hist>>

(* A database error or the 10 s deadline rolls the transaction back. *)
AbortCancel(a) ==
  /\ pc[a] = "locked"
  /\ Idle(a)
  /\ UNCHANGED <<shop, req, ms, audit, batch, now, hist>>

EventOf(g) == IF g = "completed" THEN "shipped" ELSE g

(* Faulty variant: the handler returns after the audit row, as for a shipped order. *)
RecordEvent_NoDelete(a) ==
  /\ pc[a] = "recording"
  /\ audit' = [audit EXCEPT ![target[a]] = @ \cup {EventOf(goal[a])}]
  /\ Idle(a)
  /\ UNCHANGED <<shop, req, ms, batch, now, hist>>

(* The audit row, best effort; a shipped order needs nothing more. *)
RecordEvent(a) ==
  /\ pc[a] = "recording"
  /\ \/ audit' = [audit EXCEPT ![target[a]] = @ \cup {EventOf(goal[a])}]
     \/ UNCHANGED audit
  /\ IF goal[a] = "completed" THEN Idle(a)
                              ELSE Engage(a, target[a], goal[a], "unbooking")
  /\ UNCHANGED <<shop, req, ms, batch, now, hist>>

DeleteBooking(a) ==
  /\ pc[a] = "unbooking"
  /\ DeleteInMoysklad(target[a])
  /\ Idle(a)
  /\ UNCHANGED <<shop, req, audit, batch, now, crashes>>

(* Faulty variant: without AND status = 'pending'. *)
Complete_AnyStatus(h, o) ==
  /\ pc[h] = "idle"
  /\ ~Locked(o)
  /\ status[o] # "none"
  /\ status' = [status EXCEPT ![o] = "completed"]
  /\ Engage(h, o, "completed", "recording")
  /\ UNCHANGED <<stock, reservedUntil, req, ms, audit, batch, now, hist>>

(* CompleteOrder: one UPDATE ... WHERE status = 'pending', which waits for a row
   lock instead of skipping it. *)
Complete(h, o) ==
  /\ pc[h] = "idle"
  /\ ~Locked(o)
  /\ status[o] = "pending"
  /\ status' = [status EXCEPT ![o] = "completed"]
  /\ Engage(h, o, "completed", "recording")
  /\ UNCHANGED <<stock, reservedUntil, req, ms, audit, batch, now, hist>>

-----------------------------------------------------------------------------
(* The cron: ListExpiredPendingIDs, then the ids one by one.               *)

Overdue(o) == status[o] = "pending" /\ reservedUntil[o] < now

(* Faulty variants: the cron lists every pending order; the comparison is inverted. *)
ListExpired_AllPending(c) ==
  /\ pc[c] = "idle" /\ batch[c] = {}
  /\ \E o \in Order : status[o] = "pending" /\ batch' = [batch EXCEPT ![c] = {o}]
  /\ UNCHANGED <<shop, req, ms, audit, pc, target, goal, now, hist>>
ListExpired_Inverted(c) ==
  /\ pc[c] = "idle" /\ batch[c] = {}
  /\ \E o \in Order : /\ status[o] = "pending" /\ reservedUntil[o] >= now
                      /\ batch' = [batch EXCEPT ![c] = {o}]
  /\ UNCHANGED <<shop, req, ms, audit, pc, target, goal, now, hist>>

ListExpired(c) ==
  /\ pc[c] = "idle" /\ batch[c] = {}
  /\ \E S \in SUBSET {o \in Order : Overdue(o)} :
       /\ S # {}
       /\ Cardinality(S) <= BatchSize
       /\ \A o \in Order \ S : Overdue(o) =>
            /\ Cardinality(S) = BatchSize
            /\ \A s \in S : reservedUntil[s] <= reservedUntil[o]
       /\ batch' = [batch EXCEPT ![c] = S]
  /\ UNCHANGED <<shop, req, ms, audit, pc, target, goal, now, hist>>

Visit(c, o) ==
  /\ o \in batch[c]
  /\ batch' = [batch EXCEPT ![c] = @ \ {o}]
  /\ LockPending(c, o, "expired") \/ SkipOrder(c, o)
  /\ UNCHANGED <<shop, req, ms, audit, now, crashes, mishap>>

(* The goroutine dies with its process, or panics; Postgres rolls back. *)
KillActor(a) ==
  /\ crashes < MaxCrashes
  /\ pc[a] # "idle"
  /\ crashes' = crashes + 1
  /\ mishap' = IF pc[a] = "locked" THEN mishap ELSE mishap \cup {target[a]}
  /\ Idle(a)
  /\ batch' = IF a \in Cron THEN [batch EXCEPT ![a] = {}] ELSE batch
  /\ UNCHANGED <<shop, req, ms, audit, now>>

Tick ==
  /\ now < MaxNow
  /\ now' = now + 1
  /\ UNCHANGED <<shop, req, ms, audit, acts, hist>>

RequestStep(o) ==
  \/ Price(o) \/ Book(o) \/ BookError(o)
  \/ Save(o) \/ SaveUnknown(o) \/ SaveRejected(o)
  \/ Unbook(o) \/ Answer(o)

ActorStep(a) ==
  \/ CommitCancel(a) \/ CommitCancelUnknown(a) \/ AbortCancel(a)
  \/ RecordEvent(a) \/ DeleteBooking(a)

Next ==
  \/ \E o \in Order : RequestStep(o) \/ KillRequest(o)
  \/ \E h \in Handler, o \in Order :
        Complete(h, o) \/ \E g \in {"cancelled", "expired"} : BeginCancel(h, o, g)
  \/ \E c \in Cron : ListExpired(c) \/ \E o \in Order : Visit(c, o)
  \/ \E a \in Actor : ActorStep(a) \/ KillActor(a)
  \/ Tick

(* Cancelling goroutines run on and a transaction ends within its deadline. Commits do
   not fail for ever: a transaction on an order that is attempted again and again
   goes through in the end. *)
Fairness ==
  /\ \A a \in Actor : WF_vars(ActorStep(a))
  /\ \A a \in Actor, o \in Order : SF_vars(CommitCancel(a) /\ target[a] = o)
  /\ \A c \in Cron : WF_vars(ListExpired(c))
  /\ \A c \in Cron, o \in Order : WF_vars(Visit(c, o))

Spec     == Init /\ [][Next]_vars
FairSpec == Spec /\ Fairness

-----------------------------------------------------------------------------
(* Properties.                                                             *)

L == INSTANCE ReservationLedger WITH Demand <- OrderedQty

(* Whatever the interleaving of placements, cancellations, the cron, lost
   acknowledgements and crashes, every unit of a product is on the shelf, held by
   one pending order or sold with a completed one (CreateOrderAtomic and
   CancelPendingOrderAtomic take and give back the same goods exactly once). *)
StockConserved == L!Conserved

(* The steps of both transactions, seen through stock and status alone, are the
   ledger's: one reservation, then one release of exactly those goods or one
   collection; an order that has ended never changes again. *)
ImplementsLedger == L!LedgerSpec

(* An order the customer has in hand (CreateOrder got past its save) and that is
   still pending is backed by a live CustomerOrder, i.e. by a MoySklad reserve:
   the reason CreateOrder books in MoySklad before it saves. *)
PendingBacked ==
  \A o \in Order : status[o] = "pending" /\ req[o] \in {"saved", "answered"}
                     => ms[o] = "live"

(* A CustomerOrder outlives its order only if something went wrong on the way (a
   failed call, a lost answer, a killed goroutine): no path of the handlers and no
   interleaving of them forgets to delete it. *)
AtRest(o) ==
  /\ req[o] \notin {"booked", "unbooking"}
  /\ \A a \in Actor : target[a] # o
StrayOnlyAfterMishap ==
  \A o \in Order :
    AtRest(o) /\ ms[o] = "live" /\ status[o] \in {"none", "cancelled", "expired"}
      => o \in mishap

(* The audit log never contradicts the order: the ending it records is the one the
   order has, though the row is written after the commit and by any actor. *)
AuditAgrees ==
  \A o \in Order :
    audit[o] \ {"created"} \subseteq
      (IF status[o] \in Terminal THEN {EventOf(status[o])} ELSE {})

(* The cron ends no reservation before its time, however long ago it listed it. *)
NoEarlyExpiry ==
  [][\A c \in Cron, o \in Order :
       target[c] = o /\ status[o] = "pending" /\ status'[o] # "pending"
         => reservedUntil[o] < now]_vars

(* A reservation that has lapsed is given back or ended otherwise, in spite of
   failing transactions, callers that hold the row and killed cron instances. *)
LapsedReservationEnds ==
  \A o \in Order : Overdue(o) ~> status[o] # "pending"

-----------------------------------------------------------------------------
(* The inductive invariant behind StockConserved, PendingBacked, AuditAgrees and
   StrayOnlyAfterMishap: what each step of a handler knows about its order. *)

(* No row exists before CreateOrderAtomic has run. *)
RowAfterSave ==
  \A o \in Order : req[o] \in {"new", "priced", "booked"} => status[o] = "none"

(* An actor that works has an order; while it holds the row lock that order is
   pending and it is alone; afterwards the order has the status it was given. *)
Knows(a) ==
  /\ pc[a] # "idle" => target[a] \in Order
  /\ pc[a] = "locked" =>
       status[target[a]] = "pending" /\ goal[a] \in {"cancelled", "expired"}
  /\ pc[a] = "recording" => goal[a] = status[target[a]]
  /\ pc[a] = "unbooking" =>
       status[target[a]] = goal[a] /\ goal[a] \in {"cancelled", "expired"}
ActorKnows == \A a \in Actor : Knows(a)
LockExclusive ==
  \A a, b \in Actor :
    pc[a] = "locked" /\ pc[b] = "locked" /\ target[a] = target[b] => a = b

(* A booking is live from the POST to the deletion that someone owes it. *)
BookedLive == \A o \in Order : req[o] = "booked" => ms[o] = "live"
NoBookingYet == \A o \in Order : req[o] \in {"new", "priced"} => ms[o] = "none"
DeletionOwed ==
  \A o \in Order : ms[o] = "live" /\ o \notin mishap =>
    \/ status[o] \in {"pending", "completed"}
    \/ status[o] = "none" /\ req[o] \in {"booked", "unbooking"}
    \/ \E a \in Actor : target[a] = o /\ pc[a] \in {"recording", "unbooking"}

(* Behind NoEarlyExpiry: what a cron instance has listed or works on lapsed before,
   and its deadline does not move any more. *)
CronLapsed ==
  \A c \in Cron : \A o \in batch[c] \cup ({target[c]} \ {NoOrder}) :
    req[o] # "new" /\ reservedUntil[o] < now

OrderInv ==
  /\ TypeOK
  /\ RowAfterSave
  /\ ActorKnows
  /\ LockExclusive
  /\ BookedLive
  /\ NoBookingYet
  /\ PendingBacked
  /\ DeletionOwed
  /\ AuditAgrees
=============================================================================
