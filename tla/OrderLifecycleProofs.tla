------------------------- MODULE OrderLifecycleProofs -------------------------
(* Proofs about OrderLifecycle for any products, orders, baskets, stock, handlers
   and cron instances. The theorems on stock assume DistinctLines. *)
EXTENDS OrderLifecycle, FiniteSetTheorems, TLAPS

-----------------------------------------------------------------------------
(* Order lines.                                                            *)

LEMMA LineType ==
  ASSUME NEW o \in Order, NEW l \in 1 .. Len(Basket[o])
  PROVE  Basket[o][l].product \in Product /\ Basket[o][l].quantity \in Nat \ {0}
<1>1. Basket[o] \in Seq(Line)
  BY OrderAssumption
<1>2. Basket[o][l] \in Line
  BY <1>1
<1>3. QED
  BY <1>2 DEF Line

(* The units of one line. *)
LEMMA LineUnits ==
  ASSUME NEW l, NEW q \in Nat
  PROVE  IsFiniteSet({l} \X (1 .. q)) /\ Cardinality({l} \X (1 .. q)) = q
<1>1. IsFiniteSet(1 .. q) /\ Cardinality(1 .. q) = IF 1 > q THEN 0 ELSE q - 1 + 1
  BY FS_Interval
<1>2. Cardinality(1 .. q) = q
  BY <1>1
<1>3. IsFiniteSet({l}) /\ Cardinality({l}) = 1
  BY FS_Singleton
<1>4. /\ IsFiniteSet({l} \X (1 .. q))
      /\ Cardinality({l} \X (1 .. q)) = Cardinality({l}) * Cardinality(1 .. q)
  BY <1>1, <1>3, FS_Product
<1>5. QED
  BY <1>2, <1>3, <1>4

(* An order asks for a natural number of units of each product. *)
LEMMA QtyType ==
  ASSUME NEW o \in Order, NEW p \in Product
  PROVE  OrderedQty[o][p] \in Nat
<1> DEFINE S == LinesFor(o, p)
           f == [l \in S |-> {l} \X (1 .. Basket[o][l].quantity)]
           T == {f[l] : l \in S}
<1>1. IsFiniteSet(S)
  <2>1. Len(Basket[o]) \in Nat
    BY OrderAssumption
  <2>2. IsFiniteSet(1 .. Len(Basket[o]))
    BY <2>1, FS_Interval
  <2>3. QED
    BY <2>2, FS_Subset DEF LinesFor
<1>2. f \in Surjection(S, T)
  BY DEF Surjection
<1>3. IsFiniteSet(T)
  <2> HIDE DEF S, T, f
  <2> QED  BY <1>1, <1>2, FS_Surjection
<1>4. \A l \in S : IsFiniteSet({l} \X (1 .. Basket[o][l].quantity))
  BY LineType, LineUnits DEF LinesFor
<1>5. \A U \in T : IsFiniteSet(U)
  BY <1>4
<1>6. IsFiniteSet(UNION T)
  <2> HIDE DEF T
  <2> QED  BY <1>3, <1>5, FS_UNION
<1>7. Unit(o, p) = UNION T
  BY DEF Unit
<1>8. Cardinality(Unit(o, p)) \in Nat
  BY <1>6, <1>7, FS_CardinalityType
<1>9. QED
  BY <1>8 DEF OrderedQty

(* With distinct lines, the units of a product are those of its one line. *)
LEMMA QtyOfLine ==
  ASSUME DistinctLines, NEW o \in Order, NEW p \in Product, NEW l \in LinesFor(o, p)
  PROVE  OrderedQty[o][p] = Basket[o][l].quantity
<1>1. LinesFor(o, p) = {l}
  BY DEF DistinctLines, LinesFor
<1>2. Unit(o, p) = {l} \X (1 .. Basket[o][l].quantity)
  BY <1>1 DEF Unit
<1>3. Basket[o][l].quantity \in Nat
  BY LineType DEF LinesFor
<1>4. QED
  BY <1>2, <1>3, LineUnits DEF OrderedQty

LEMMA QtyOfNoLine ==
  ASSUME NEW o \in Order, NEW p \in Product, LinesFor(o, p) = {}
  PROVE  OrderedQty[o][p] = 0
<1>1. Unit(o, p) = {}
  BY DEF Unit
<1>2. QED
  BY <1>1, FS_EmptySet DEF OrderedQty

(* Both transactions keep every stock a natural number, and with distinct lines the
   cancelling one returns exactly what the order took. *)
LEMMA TakeStockType ==
  ASSUME NEW o \in Order, stock \in [Product -> Nat], TakeStock(o)
  PROVE  stock' \in [Product -> Nat]
<1>1. \A p \in Product : stock[p] - OrderedQty[o][p] \in Nat
  BY QtyType DEF TakeStock
<1>2. QED
  BY <1>1 DEF TakeStock

LEMMA RestoreStockType ==
  ASSUME NEW o \in Order, stock \in [Product -> Nat], RestoreStock(o)
  PROVE  stock' \in [Product -> Nat]
<1> DEFINE back == {p \in Product : LinesFor(o, p) # {}}
<1>1. PICK pick \in [back -> 1 .. Len(Basket[o])] :
        /\ \A p \in back : pick[p] \in LinesFor(o, p)
        /\ stock' = [p \in Product |->
                       IF p \in back THEN stock[p] + Basket[o][pick[p]].quantity
                                     ELSE stock[p]]
  BY DEF RestoreStock
<1>2. \A p \in back : Basket[o][pick[p]].quantity \in Nat
  BY <1>1, LineType
<1>3. QED
  BY <1>1, <1>2

LEMMA RestoreStockExact ==
  ASSUME DistinctLines, NEW o \in Order, stock \in [Product -> Nat], RestoreStock(o)
  PROVE  stock' = [p \in Product |-> stock[p] + OrderedQty[o][p]]
<1> DEFINE back == {p \in Product : LinesFor(o, p) # {}}
<1>1. PICK pick \in [back -> 1 .. Len(Basket[o])] :
        /\ \A p \in back : pick[p] \in LinesFor(o, p)
        /\ stock' = [p \in Product |->
                       IF p \in back THEN stock[p] + Basket[o][pick[p]].quantity
                                     ELSE stock[p]]
  BY DEF RestoreStock
<1>2. \A p \in back : Basket[o][pick[p]].quantity = OrderedQty[o][p]
  BY <1>1, QtyOfLine
<1>3. \A p \in Product \ back : OrderedQty[o][p] = 0
  BY QtyOfNoLine
<1>4. QED
  BY <1>1, <1>2, <1>3
-----------------------------------------------------------------------------
(* The inductive step, one lemma for each part of the invariant and in it one step
   for each action. *)

(* Types, from the types of the two transactions and a working actor's order. *)
LEMMA TypeStep == OrderInv /\ [Next]_vars => TypeOK'
<1> SUFFICES ASSUME OrderInv, [Next]_vars
             PROVE  TypeOK'
  OBVIOUS
<1> USE DEF OrderInv, TypeOK, Actor, Status, Terminal, ReqState, PcState
<1>1. ASSUME NEW o \in Order, Price(o) PROVE TypeOK'
  <2>1. \A h \in Holds : now + h \in Nat
    BY OrderAssumption
  <2>2. reservedUntil' \in [Order -> Nat]
    BY <1>1, <2>1 DEF Price
  <2>3. req' \in [Order -> ReqState]
    BY <1>1 DEF Price
  <2>4. QED
    BY <1>1, <2>2, <2>3 DEF Price, acts, hist
<1>2. ASSUME NEW o \in Order, Book(o) PROVE TypeOK'
  BY <1>2 DEF Book, shop, acts, hist
<1>3. ASSUME NEW o \in Order, BookError(o) PROVE TypeOK'
  BY <1>3 DEF BookError, shop, acts, hist
<1>4. ASSUME NEW o \in Order, Save(o) PROVE TypeOK'
  BY <1>4, TakeStockType DEF Save, TakeStock, acts, hist
<1>5. ASSUME NEW o \in Order, SaveUnknown(o) PROVE TypeOK'
  BY <1>5, TakeStockType DEF SaveUnknown, TakeStock, acts
<1>6. ASSUME NEW o \in Order, SaveRejected(o) PROVE TypeOK'
  BY <1>6 DEF SaveRejected, shop, acts, hist
<1>7. ASSUME NEW o \in Order, Unbook(o) PROVE TypeOK'
  BY <1>7 DEF Unbook, DeleteInMoysklad, shop, acts, hist
<1>8. ASSUME NEW o \in Order, Answer(o) PROVE TypeOK'
  BY <1>8 DEF Answer, Event, shop, acts, hist
<1>9. ASSUME NEW o \in Order, KillRequest(o) PROVE TypeOK'
  BY <1>9 DEF KillRequest, shop, acts, hist
<1>10. ASSUME NEW a \in Actor, CommitCancel(a) PROVE TypeOK'
  <2>1. target[a] \in Order
    BY <1>10 DEF CommitCancel, OrderInv, ActorKnows, Knows
  <2>2. stock' \in [Product -> Nat]
    BY <1>10, <2>1, RestoreStockType DEF CommitCancel
  <2>3. QED
    BY <1>10, <2>2 DEF CommitCancel, hist
<1>11. ASSUME NEW a \in Actor, CommitCancelUnknown(a) PROVE TypeOK'
  <2>1. target[a] \in Order
    BY <1>11 DEF CommitCancelUnknown, OrderInv, ActorKnows, Knows
  <2>2. stock' \in [Product -> Nat]
    BY <1>11, <2>1, RestoreStockType DEF CommitCancelUnknown
  <2>3. QED
    BY <1>11, <2>1, <2>2 DEF CommitCancelUnknown, Idle
<1>12. ASSUME NEW a \in Actor, AbortCancel(a) PROVE TypeOK'
  BY <1>12 DEF AbortCancel, Idle, shop, acts, hist
<1>13. ASSUME NEW a \in Actor, RecordEvent(a) PROVE TypeOK'
  <2>1. target[a] \in Order
    BY <1>13 DEF RecordEvent, OrderInv, ActorKnows, Knows
  <2>2. EventOf(goal[a]) \in Event
    BY DEF EventOf, Event
  <2>3. QED
    BY <1>13, <2>1, <2>2 DEF RecordEvent, Idle, Engage, shop, hist
<1>14. ASSUME NEW a \in Actor, DeleteBooking(a) PROVE TypeOK'
  <2>1. target[a] \in Order
    BY <1>14 DEF DeleteBooking, OrderInv, ActorKnows, Knows
  <2>2. QED
    BY <1>14, <2>1 DEF DeleteBooking, DeleteInMoysklad, Idle, shop
<1>15. ASSUME NEW a \in Actor, KillActor(a) PROVE TypeOK'
  <2>1. target[a] \in Order
    BY <1>15 DEF KillActor, OrderInv, ActorKnows, Knows
  <2>2. QED
    BY <1>15, <2>1, OrderAssumption DEF KillActor, Idle, shop
<1>16. ASSUME NEW h \in Handler, NEW o \in Order, Complete(h, o) PROVE TypeOK'
  BY <1>16 DEF Complete, Engage, shop, acts, hist
<1>17. ASSUME NEW h \in Handler, NEW o \in Order, NEW g \in {"cancelled", "expired"},
            BeginCancel(h, o, g) PROVE TypeOK'
  BY <1>17 DEF BeginCancel, LockPending, SkipOrder, Engage, shop, acts, hist
<1>18. ASSUME NEW c \in Cron, ListExpired(c) PROVE TypeOK'
  BY <1>18 DEF ListExpired, shop, acts, hist
<1>19. ASSUME NEW c \in Cron, NEW o \in Order, Visit(c, o) PROVE TypeOK'
  BY <1>19 DEF Visit, LockPending, SkipOrder, Engage, shop, acts, hist
<1>20. CASE Tick
  BY <1>20 DEF Tick, shop, acts, hist
<1>21. CASE UNCHANGED vars
  BY <1>21 DEF vars, shop, acts, hist
<1>22. QED
  BY <1>1, <1>2, <1>3, <1>4, <1>5, <1>6, <1>7, <1>8, <1>9, <1>10, <1>11, <1>12, <1>13, <1>14, <1>15, <1>16, <1>17, <1>18, <1>19, <1>20, <1>21 DEF Next, RequestStep, ActorStep

(* No row before the save: only TakeStock makes a row, and it moves the request on. *)
LEMMA RowStep == OrderInv /\ [Next]_vars => RowAfterSave'
<1> SUFFICES ASSUME OrderInv, [Next]_vars
             PROVE  RowAfterSave'
  OBVIOUS
<1> USE DEF OrderInv, TypeOK, RowAfterSave, ActorKnows, Knows
<1>1. ASSUME NEW o \in Order, Price(o) PROVE RowAfterSave'
  BY <1>1 DEF Price, shop, acts, hist
<1>2. ASSUME NEW o \in Order, Book(o) PROVE RowAfterSave'
  BY <1>2 DEF Book, shop, acts, hist
<1>3. ASSUME NEW o \in Order, BookError(o) PROVE RowAfterSave'
  BY <1>3 DEF BookError, shop, acts, hist
<1>4. ASSUME NEW o \in Order, Save(o) PROVE RowAfterSave'
  BY <1>4 DEF Save, TakeStock, shop, acts, hist
<1>5. ASSUME NEW o \in Order, SaveUnknown(o) PROVE RowAfterSave'
  BY <1>5 DEF SaveUnknown, TakeStock, shop, acts, hist
<1>6. ASSUME NEW o \in Order, SaveRejected(o) PROVE RowAfterSave'
  BY <1>6 DEF SaveRejected, shop, acts, hist
<1>7. ASSUME NEW o \in Order, Unbook(o) PROVE RowAfterSave'
  BY <1>7 DEF Unbook, DeleteInMoysklad, shop, acts, hist
<1>8. ASSUME NEW o \in Order, Answer(o) PROVE RowAfterSave'
  BY <1>8 DEF Answer, shop, acts, hist
<1>9. ASSUME NEW o \in Order, KillRequest(o) PROVE RowAfterSave'
  BY <1>9 DEF KillRequest, shop, acts, hist
<1>10. ASSUME NEW a \in Actor, CommitCancel(a) PROVE RowAfterSave'
  BY <1>10 DEF CommitCancel, shop, acts, hist
<1>11. ASSUME NEW a \in Actor, CommitCancelUnknown(a) PROVE RowAfterSave'
  BY <1>11 DEF CommitCancelUnknown, Idle, shop, acts, hist
<1>12. ASSUME NEW a \in Actor, AbortCancel(a) PROVE RowAfterSave'
  BY <1>12 DEF AbortCancel, Idle, shop, acts, hist
<1>13. ASSUME NEW a \in Actor, RecordEvent(a) PROVE RowAfterSave'
  BY <1>13 DEF RecordEvent, Idle, Engage, shop, acts, hist
<1>14. ASSUME NEW a \in Actor, DeleteBooking(a) PROVE RowAfterSave'
  BY <1>14 DEF DeleteBooking, DeleteInMoysklad, Idle, shop, acts, hist
<1>15. ASSUME NEW a \in Actor, KillActor(a) PROVE RowAfterSave'
  BY <1>15 DEF KillActor, Idle, shop, acts, hist
<1>16. ASSUME NEW h \in Handler, NEW o \in Order, Complete(h, o) PROVE RowAfterSave'
  BY <1>16 DEF Complete, Engage, shop, acts, hist
<1>17. ASSUME NEW h \in Handler, NEW o \in Order, NEW g \in {"cancelled", "expired"},
            BeginCancel(h, o, g) PROVE RowAfterSave'
  BY <1>17 DEF BeginCancel, LockPending, SkipOrder, Engage, shop, acts, hist
<1>18. ASSUME NEW c \in Cron, ListExpired(c) PROVE RowAfterSave'
  BY <1>18 DEF ListExpired, shop, acts, hist
<1>19. ASSUME NEW c \in Cron, NEW o \in Order, Visit(c, o) PROVE RowAfterSave'
  BY <1>19 DEF Visit, LockPending, SkipOrder, Engage, shop, acts, hist
<1>20. CASE Tick
  BY <1>20 DEF Tick, shop, acts, hist
<1>21. CASE UNCHANGED vars
  BY <1>21 DEF vars, shop, acts, hist
<1>22. QED
  BY <1>1, <1>2, <1>3, <1>4, <1>5, <1>6, <1>7, <1>8, <1>9, <1>10, <1>11, <1>12, <1>13, <1>14, <1>15, <1>16, <1>17, <1>18, <1>19, <1>20, <1>21 DEF Next, RequestStep, ActorStep

(* The row lock is exclusive: LockPending is the only way in, and it asks for ~Locked. *)
LEMMA LockStep == OrderInv /\ [Next]_vars => LockExclusive'
<1> SUFFICES ASSUME OrderInv, [Next]_vars
             PROVE  LockExclusive'
  OBVIOUS
<1> USE DEF OrderInv, TypeOK, LockExclusive, ActorKnows, Knows
<1>1. ASSUME NEW o \in Order, Price(o) PROVE LockExclusive'
  BY <1>1 DEF Price, shop, acts, hist, Locked
<1>2. ASSUME NEW o \in Order, Book(o) PROVE LockExclusive'
  BY <1>2 DEF Book, shop, acts, hist, Locked
<1>3. ASSUME NEW o \in Order, BookError(o) PROVE LockExclusive'
  BY <1>3 DEF BookError, shop, acts, hist, Locked
<1>4. ASSUME NEW o \in Order, Save(o) PROVE LockExclusive'
  BY <1>4 DEF Save, TakeStock, shop, acts, hist, Locked
<1>5. ASSUME NEW o \in Order, SaveUnknown(o) PROVE LockExclusive'
  BY <1>5 DEF SaveUnknown, TakeStock, shop, acts, hist, Locked
<1>6. ASSUME NEW o \in Order, SaveRejected(o) PROVE LockExclusive'
  BY <1>6 DEF SaveRejected, shop, acts, hist, Locked
<1>7. ASSUME NEW o \in Order, Unbook(o) PROVE LockExclusive'
  BY <1>7 DEF Unbook, DeleteInMoysklad, shop, acts, hist, Locked
<1>8. ASSUME NEW o \in Order, Answer(o) PROVE LockExclusive'
  BY <1>8 DEF Answer, shop, acts, hist, Locked
<1>9. ASSUME NEW o \in Order, KillRequest(o) PROVE LockExclusive'
  BY <1>9 DEF KillRequest, shop, acts, hist, Locked
<1>10. ASSUME NEW a \in Actor, CommitCancel(a) PROVE LockExclusive'
  BY <1>10 DEF CommitCancel, shop, acts, hist, Locked
<1>11. ASSUME NEW a \in Actor, CommitCancelUnknown(a) PROVE LockExclusive'
  BY <1>11 DEF CommitCancelUnknown, Idle, shop, acts, hist, Locked
<1>12. ASSUME NEW a \in Actor, AbortCancel(a) PROVE LockExclusive'
  BY <1>12 DEF AbortCancel, Idle, shop, acts, hist, Locked
<1>13. ASSUME NEW a \in Actor, RecordEvent(a) PROVE LockExclusive'
  BY <1>13 DEF RecordEvent, Idle, Engage, shop, acts, hist, Locked
<1>14. ASSUME NEW a \in Actor, DeleteBooking(a) PROVE LockExclusive'
  BY <1>14 DEF DeleteBooking, DeleteInMoysklad, Idle, shop, acts, hist, Locked
<1>15. ASSUME NEW a \in Actor, KillActor(a) PROVE LockExclusive'
  BY <1>15 DEF KillActor, Idle, shop, acts, hist, Locked
<1>16. ASSUME NEW h \in Handler, NEW o \in Order, Complete(h, o) PROVE LockExclusive'
  BY <1>16 DEF Complete, Engage, shop, acts, hist, Locked
<1>17. ASSUME NEW h \in Handler, NEW o \in Order, NEW g \in {"cancelled", "expired"},
            BeginCancel(h, o, g) PROVE LockExclusive'
  BY <1>17 DEF BeginCancel, LockPending, SkipOrder, Engage, shop, acts, hist, Locked
<1>18. ASSUME NEW c \in Cron, ListExpired(c) PROVE LockExclusive'
  BY <1>18 DEF ListExpired, shop, acts, hist, Locked
<1>19. ASSUME NEW c \in Cron, NEW o \in Order, Visit(c, o) PROVE LockExclusive'
  BY <1>19 DEF Visit, LockPending, SkipOrder, Engage, shop, acts, hist, Locked
<1>20. CASE Tick
  BY <1>20 DEF Tick, shop, acts, hist, Locked
<1>21. CASE UNCHANGED vars
  BY <1>21 DEF vars, shop, acts, hist, Locked
<1>22. QED
  BY <1>1, <1>2, <1>3, <1>4, <1>5, <1>6, <1>7, <1>8, <1>9, <1>10, <1>11, <1>12, <1>13, <1>14, <1>15, <1>16, <1>17, <1>18, <1>19, <1>20, <1>21 DEF Next, RequestStep, ActorStep

(* A booking is live while its request is about to save. *)
LEMMA BookedStep == OrderInv /\ [Next]_vars => BookedLive'
<1> SUFFICES ASSUME OrderInv, [Next]_vars
             PROVE  BookedLive'
  OBVIOUS
<1> USE DEF OrderInv, TypeOK, BookedLive, RowAfterSave, ActorKnows, Knows
<1>1. ASSUME NEW o \in Order, Price(o) PROVE BookedLive'
  BY <1>1 DEF Price, shop, acts, hist
<1>2. ASSUME NEW o \in Order, Book(o) PROVE BookedLive'
  BY <1>2 DEF Book, shop, acts, hist
<1>3. ASSUME NEW o \in Order, BookError(o) PROVE BookedLive'
  BY <1>3 DEF BookError, shop, acts, hist
<1>4. ASSUME NEW o \in Order, Save(o) PROVE BookedLive'
  BY <1>4 DEF Save, TakeStock, shop, acts, hist
<1>5. ASSUME NEW o \in Order, SaveUnknown(o) PROVE BookedLive'
  BY <1>5 DEF SaveUnknown, TakeStock, shop, acts, hist
<1>6. ASSUME NEW o \in Order, SaveRejected(o) PROVE BookedLive'
  BY <1>6 DEF SaveRejected, shop, acts, hist
<1>7. ASSUME NEW o \in Order, Unbook(o) PROVE BookedLive'
  BY <1>7 DEF Unbook, DeleteInMoysklad, shop, acts, hist
<1>8. ASSUME NEW o \in Order, Answer(o) PROVE BookedLive'
  BY <1>8 DEF Answer, shop, acts, hist
<1>9. ASSUME NEW o \in Order, KillRequest(o) PROVE BookedLive'
  BY <1>9 DEF KillRequest, shop, acts, hist
<1>10. ASSUME NEW a \in Actor, CommitCancel(a) PROVE BookedLive'
  BY <1>10 DEF CommitCancel, shop, acts, hist
<1>11. ASSUME NEW a \in Actor, CommitCancelUnknown(a) PROVE BookedLive'
  BY <1>11 DEF CommitCancelUnknown, Idle, shop, acts, hist
<1>12. ASSUME NEW a \in Actor, AbortCancel(a) PROVE BookedLive'
  BY <1>12 DEF AbortCancel, Idle, shop, acts, hist
<1>13. ASSUME NEW a \in Actor, RecordEvent(a) PROVE BookedLive'
  BY <1>13 DEF RecordEvent, Idle, Engage, shop, acts, hist
<1>14. ASSUME NEW a \in Actor, DeleteBooking(a) PROVE BookedLive'
  BY <1>14 DEF DeleteBooking, DeleteInMoysklad, Idle, shop, acts, hist
<1>15. ASSUME NEW a \in Actor, KillActor(a) PROVE BookedLive'
  BY <1>15 DEF KillActor, Idle, shop, acts, hist
<1>16. ASSUME NEW h \in Handler, NEW o \in Order, Complete(h, o) PROVE BookedLive'
  BY <1>16 DEF Complete, Engage, shop, acts, hist
<1>17. ASSUME NEW h \in Handler, NEW o \in Order, NEW g \in {"cancelled", "expired"},
            BeginCancel(h, o, g) PROVE BookedLive'
  BY <1>17 DEF BeginCancel, LockPending, SkipOrder, Engage, shop, acts, hist
<1>18. ASSUME NEW c \in Cron, ListExpired(c) PROVE BookedLive'
  BY <1>18 DEF ListExpired, shop, acts, hist
<1>19. ASSUME NEW c \in Cron, NEW o \in Order, Visit(c, o) PROVE BookedLive'
  BY <1>19 DEF Visit, LockPending, SkipOrder, Engage, shop, acts, hist
<1>20. CASE Tick
  BY <1>20 DEF Tick, shop, acts, hist
<1>21. CASE UNCHANGED vars
  BY <1>21 DEF vars, shop, acts, hist
<1>22. QED
  BY <1>1, <1>2, <1>3, <1>4, <1>5, <1>6, <1>7, <1>8, <1>9, <1>10, <1>11, <1>12, <1>13, <1>14, <1>15, <1>16, <1>17, <1>18, <1>19, <1>20, <1>21 DEF Next, RequestStep, ActorStep

(* No booking before the POST. *)
LEMMA NoBookingStep == OrderInv /\ [Next]_vars => NoBookingYet'
<1> SUFFICES ASSUME OrderInv, [Next]_vars
             PROVE  NoBookingYet'
  OBVIOUS
<1> USE DEF OrderInv, TypeOK, NoBookingYet, RowAfterSave, ActorKnows, Knows
<1>1. ASSUME NEW o \in Order, Price(o) PROVE NoBookingYet'
  BY <1>1 DEF Price, shop, acts, hist
<1>2. ASSUME NEW o \in Order, Book(o) PROVE NoBookingYet'
  BY <1>2 DEF Book, shop, acts, hist
<1>3. ASSUME NEW o \in Order, BookError(o) PROVE NoBookingYet'
  BY <1>3 DEF BookError, shop, acts, hist
<1>4. ASSUME NEW o \in Order, Save(o) PROVE NoBookingYet'
  BY <1>4 DEF Save, TakeStock, shop, acts, hist
<1>5. ASSUME NEW o \in Order, SaveUnknown(o) PROVE NoBookingYet'
  BY <1>5 DEF SaveUnknown, TakeStock, shop, acts, hist
<1>6. ASSUME NEW o \in Order, SaveRejected(o) PROVE NoBookingYet'
  BY <1>6 DEF SaveRejected, shop, acts, hist
<1>7. ASSUME NEW o \in Order, Unbook(o) PROVE NoBookingYet'
  BY <1>7 DEF Unbook, DeleteInMoysklad, shop, acts, hist
<1>8. ASSUME NEW o \in Order, Answer(o) PROVE NoBookingYet'
  BY <1>8 DEF Answer, shop, acts, hist
<1>9. ASSUME NEW o \in Order, KillRequest(o) PROVE NoBookingYet'
  BY <1>9 DEF KillRequest, shop, acts, hist
<1>10. ASSUME NEW a \in Actor, CommitCancel(a) PROVE NoBookingYet'
  BY <1>10 DEF CommitCancel, shop, acts, hist
<1>11. ASSUME NEW a \in Actor, CommitCancelUnknown(a) PROVE NoBookingYet'
  BY <1>11 DEF CommitCancelUnknown, Idle, shop, acts, hist
<1>12. ASSUME NEW a \in Actor, AbortCancel(a) PROVE NoBookingYet'
  BY <1>12 DEF AbortCancel, Idle, shop, acts, hist
<1>13. ASSUME NEW a \in Actor, RecordEvent(a) PROVE NoBookingYet'
  BY <1>13 DEF RecordEvent, Idle, Engage, shop, acts, hist
<1>14. ASSUME NEW a \in Actor, DeleteBooking(a) PROVE NoBookingYet'
  BY <1>14 DEF DeleteBooking, DeleteInMoysklad, Idle, shop, acts, hist
<1>15. ASSUME NEW a \in Actor, KillActor(a) PROVE NoBookingYet'
  BY <1>15 DEF KillActor, Idle, shop, acts, hist
<1>16. ASSUME NEW h \in Handler, NEW o \in Order, Complete(h, o) PROVE NoBookingYet'
  BY <1>16 DEF Complete, Engage, shop, acts, hist
<1>17. ASSUME NEW h \in Handler, NEW o \in Order, NEW g \in {"cancelled", "expired"},
            BeginCancel(h, o, g) PROVE NoBookingYet'
  BY <1>17 DEF BeginCancel, LockPending, SkipOrder, Engage, shop, acts, hist
<1>18. ASSUME NEW c \in Cron, ListExpired(c) PROVE NoBookingYet'
  BY <1>18 DEF ListExpired, shop, acts, hist
<1>19. ASSUME NEW c \in Cron, NEW o \in Order, Visit(c, o) PROVE NoBookingYet'
  BY <1>19 DEF Visit, LockPending, SkipOrder, Engage, shop, acts, hist
<1>20. CASE Tick
  BY <1>20 DEF Tick, shop, acts, hist
<1>21. CASE UNCHANGED vars
  BY <1>21 DEF vars, shop, acts, hist
<1>22. QED
  BY <1>1, <1>2, <1>3, <1>4, <1>5, <1>6, <1>7, <1>8, <1>9, <1>10, <1>11, <1>12, <1>13, <1>14, <1>15, <1>16, <1>17, <1>18, <1>19, <1>20, <1>21 DEF Next, RequestStep, ActorStep

(* What an actor knows stays true while others act. *)
LEMMA KnowsStep == OrderInv /\ [Next]_vars => ActorKnows'
<1> SUFFICES ASSUME OrderInv, [Next]_vars
             PROVE  ActorKnows'
  OBVIOUS
<1> USE DEF OrderInv, TypeOK, ActorKnows, Knows, LockExclusive, RowAfterSave, Actor
<1>1. ASSUME NEW o \in Order, Price(o) PROVE ActorKnows'
  BY <1>1 DEF Price, shop, acts, hist, Locked
<1>2. ASSUME NEW o \in Order, Book(o) PROVE ActorKnows'
  BY <1>2 DEF Book, shop, acts, hist, Locked
<1>3. ASSUME NEW o \in Order, BookError(o) PROVE ActorKnows'
  BY <1>3 DEF BookError, shop, acts, hist, Locked
<1>4. ASSUME NEW o \in Order, Save(o) PROVE ActorKnows'
  <2>1. status[o] = "none"
    BY <1>4 DEF Save
  <2>2. \A b \in Actor : pc[b] # "idle" => target[b] # o
    BY <2>1 DEF Terminal, PcState
  <2>3. \A b \in Actor : pc[b] # "idle" => status'[target[b]] = status[target[b]]
    BY <1>4, <2>2 DEF Save, TakeStock
  <2>4. QED
    BY <1>4, <2>3 DEF Save, acts
<1>5. ASSUME NEW o \in Order, SaveUnknown(o) PROVE ActorKnows'
  <2>1. status[o] = "none"
    BY <1>5 DEF SaveUnknown
  <2>2. \A b \in Actor : pc[b] # "idle" => target[b] # o
    BY <2>1 DEF Terminal, PcState
  <2>3. \A b \in Actor : pc[b] # "idle" => status'[target[b]] = status[target[b]]
    BY <1>5, <2>2 DEF SaveUnknown, TakeStock
  <2>4. QED
    BY <1>5, <2>3 DEF SaveUnknown, acts
<1>6. ASSUME NEW o \in Order, SaveRejected(o) PROVE ActorKnows'
  BY <1>6 DEF SaveRejected, shop, acts, hist, Locked
<1>7. ASSUME NEW o \in Order, Unbook(o) PROVE ActorKnows'
  BY <1>7 DEF Unbook, DeleteInMoysklad, shop, acts, hist, Locked
<1>8. ASSUME NEW o \in Order, Answer(o) PROVE ActorKnows'
  BY <1>8 DEF Answer, shop, acts, hist, Locked
<1>9. ASSUME NEW o \in Order, KillRequest(o) PROVE ActorKnows'
  BY <1>9 DEF KillRequest, shop, acts, hist, Locked
<1>10. ASSUME NEW a \in Actor, CommitCancel(a) PROVE ActorKnows'
  <2>1. target[a] \in Order /\ status[target[a]] = "pending"
    BY <1>10 DEF CommitCancel
  <2>2. \A b \in Actor \ {a} : pc[b] # "idle" => target[b] # target[a]
    BY <1>10, <2>1 DEF CommitCancel, Terminal, PcState
  <2>3. \A b \in Actor \ {a} : pc[b] # "idle" => status'[target[b]] = status[target[b]]
    BY <1>10, <2>1, <2>2 DEF CommitCancel
  <2>4. \A b \in Actor \ {a} : Knows(b)'
    BY <1>10, <2>3 DEF CommitCancel
  <2>5. Knows(a)'
    BY <1>10, <2>1 DEF CommitCancel
  <2>6. QED
    BY <2>4, <2>5
<1>11. ASSUME NEW a \in Actor, CommitCancelUnknown(a) PROVE ActorKnows'
  <2>1. target[a] \in Order /\ status[target[a]] = "pending"
    BY <1>11 DEF CommitCancelUnknown
  <2>2. \A b \in Actor \ {a} : pc[b] # "idle" => target[b] # target[a]
    BY <1>11, <2>1 DEF CommitCancelUnknown, Terminal, PcState
  <2>3. \A b \in Actor \ {a} : pc[b] # "idle" => status'[target[b]] = status[target[b]]
    BY <1>11, <2>1, <2>2 DEF CommitCancelUnknown
  <2>4. \A b \in Actor \ {a} : Knows(b)'
    BY <1>11, <2>3 DEF CommitCancelUnknown, Idle
  <2>5. Knows(a)'
    BY <1>11, <2>1 DEF CommitCancelUnknown, Idle
  <2>6. QED
    BY <2>4, <2>5
<1>12. ASSUME NEW a \in Actor, AbortCancel(a) PROVE ActorKnows'
  BY <1>12 DEF AbortCancel, Idle, shop, acts, hist, Locked
<1>13. ASSUME NEW a \in Actor, RecordEvent(a) PROVE ActorKnows'
  <2>1. target[a] \in Order
    BY <1>13 DEF RecordEvent
  <2>2. \A b \in Actor \ {a} : Knows(b)'
    BY <1>13 DEF RecordEvent, Idle, Engage, shop
  <2>3. Knows(a)'
    BY <1>13, <2>1 DEF RecordEvent, Idle, Engage, shop, Terminal
  <2>4. QED
    BY <2>2, <2>3
<1>14. ASSUME NEW a \in Actor, DeleteBooking(a) PROVE ActorKnows'
  BY <1>14 DEF DeleteBooking, DeleteInMoysklad, Idle, shop, acts, hist, Locked
<1>15. ASSUME NEW a \in Actor, KillActor(a) PROVE ActorKnows'
  BY <1>15 DEF KillActor, Idle, shop, acts, hist, Locked
<1>16. ASSUME NEW h \in Handler, NEW o \in Order, Complete(h, o) PROVE ActorKnows'
  <2>1. h \in Actor
    OBVIOUS
  <2>2. \A b \in Actor \ {h} : pc[b] # "idle" => target[b] # o
    BY <1>16 DEF Complete, Locked, Terminal, PcState
  <2>3. \A b \in Actor \ {h} : pc[b] # "idle" => status'[target[b]] = status[target[b]]
    BY <1>16, <2>2 DEF Complete
  <2>4. \A b \in Actor \ {h} : Knows(b)'
    BY <1>16, <2>1, <2>3 DEF Complete, Engage
  <2>5. Knows(h)'
    BY <1>16, <2>1 DEF Complete, Engage
  <2>6. QED
    BY <2>4, <2>5
<1>17. ASSUME NEW h \in Handler, NEW o \in Order, NEW g \in {"cancelled", "expired"},
            BeginCancel(h, o, g) PROVE ActorKnows'
  BY <1>17 DEF BeginCancel, LockPending, SkipOrder, Engage, shop, acts, hist, Locked
<1>18. ASSUME NEW c \in Cron, ListExpired(c) PROVE ActorKnows'
  BY <1>18 DEF ListExpired, shop, acts, hist, Locked
<1>19. ASSUME NEW c \in Cron, NEW o \in Order, Visit(c, o) PROVE ActorKnows'
  BY <1>19 DEF Visit, LockPending, SkipOrder, Engage, shop, acts, hist, Locked
<1>20. CASE Tick
  BY <1>20 DEF Tick, shop, acts, hist, Locked
<1>21. CASE UNCHANGED vars
  BY <1>21 DEF vars, shop, acts, hist, Locked
<1>22. QED
  BY <1>1, <1>2, <1>3, <1>4, <1>5, <1>6, <1>7, <1>8, <1>9, <1>10, <1>11, <1>12, <1>13, <1>14, <1>15, <1>16, <1>17, <1>18, <1>19, <1>20, <1>21 DEF Next, RequestStep, ActorStep

(* A pending order in the customer's hands keeps its booking. *)
LEMMA BackedStep == OrderInv /\ [Next]_vars => PendingBacked'
<1> SUFFICES ASSUME OrderInv, [Next]_vars
             PROVE  PendingBacked'
  OBVIOUS
<1> USE DEF OrderInv, TypeOK, PendingBacked, BookedLive, ActorKnows, Knows
<1>1. ASSUME NEW o \in Order, Price(o) PROVE PendingBacked'
  BY <1>1 DEF Price, shop, acts, hist
<1>2. ASSUME NEW o \in Order, Book(o) PROVE PendingBacked'
  BY <1>2 DEF Book, shop, acts, hist
<1>3. ASSUME NEW o \in Order, BookError(o) PROVE PendingBacked'
  BY <1>3 DEF BookError, shop, acts, hist
<1>4. ASSUME NEW o \in Order, Save(o) PROVE PendingBacked'
  BY <1>4 DEF Save, TakeStock, shop, acts, hist
<1>5. ASSUME NEW o \in Order, SaveUnknown(o) PROVE PendingBacked'
  BY <1>5 DEF SaveUnknown, TakeStock, shop, acts, hist
<1>6. ASSUME NEW o \in Order, SaveRejected(o) PROVE PendingBacked'
  BY <1>6 DEF SaveRejected, shop, acts, hist
<1>7. ASSUME NEW o \in Order, Unbook(o) PROVE PendingBacked'
  BY <1>7 DEF Unbook, DeleteInMoysklad, shop, acts, hist
<1>8. ASSUME NEW o \in Order, Answer(o) PROVE PendingBacked'
  BY <1>8 DEF Answer, shop, acts, hist
<1>9. ASSUME NEW o \in Order, KillRequest(o) PROVE PendingBacked'
  BY <1>9 DEF KillRequest, shop, acts, hist
<1>10. ASSUME NEW a \in Actor, CommitCancel(a) PROVE PendingBacked'
  BY <1>10 DEF CommitCancel, shop, acts, hist
<1>11. ASSUME NEW a \in Actor, CommitCancelUnknown(a) PROVE PendingBacked'
  BY <1>11 DEF CommitCancelUnknown, Idle, shop, acts, hist
<1>12. ASSUME NEW a \in Actor, AbortCancel(a) PROVE PendingBacked'
  BY <1>12 DEF AbortCancel, Idle, shop, acts, hist
<1>13. ASSUME NEW a \in Actor, RecordEvent(a) PROVE PendingBacked'
  BY <1>13 DEF RecordEvent, Idle, Engage, shop, acts, hist
<1>14. ASSUME NEW a \in Actor, DeleteBooking(a) PROVE PendingBacked'
  BY <1>14 DEF DeleteBooking, DeleteInMoysklad, Idle, shop, acts, hist
<1>15. ASSUME NEW a \in Actor, KillActor(a) PROVE PendingBacked'
  BY <1>15 DEF KillActor, Idle, shop, acts, hist
<1>16. ASSUME NEW h \in Handler, NEW o \in Order, Complete(h, o) PROVE PendingBacked'
  BY <1>16 DEF Complete, Engage, shop, acts, hist
<1>17. ASSUME NEW h \in Handler, NEW o \in Order, NEW g \in {"cancelled", "expired"},
            BeginCancel(h, o, g) PROVE PendingBacked'
  BY <1>17 DEF BeginCancel, LockPending, SkipOrder, Engage, shop, acts, hist
<1>18. ASSUME NEW c \in Cron, ListExpired(c) PROVE PendingBacked'
  BY <1>18 DEF ListExpired, shop, acts, hist
<1>19. ASSUME NEW c \in Cron, NEW o \in Order, Visit(c, o) PROVE PendingBacked'
  BY <1>19 DEF Visit, LockPending, SkipOrder, Engage, shop, acts, hist
<1>20. CASE Tick
  BY <1>20 DEF Tick, shop, acts, hist
<1>21. CASE UNCHANGED vars
  BY <1>21 DEF vars, shop, acts, hist
<1>22. QED
  BY <1>1, <1>2, <1>3, <1>4, <1>5, <1>6, <1>7, <1>8, <1>9, <1>10, <1>11, <1>12, <1>13, <1>14, <1>15, <1>16, <1>17, <1>18, <1>19, <1>20, <1>21 DEF Next, RequestStep, ActorStep

(* A live booking of an order that is not held has someone who will delete it. *)
LEMMA OwedStep == OrderInv /\ [Next]_vars => DeletionOwed'
<1> SUFFICES ASSUME OrderInv, [Next]_vars
             PROVE  DeletionOwed'
  OBVIOUS
<1> USE DEF OrderInv, TypeOK, DeletionOwed, ActorKnows, Knows, RowAfterSave, NoBookingYet
<1>1. ASSUME NEW o \in Order, Price(o) PROVE DeletionOwed'
  BY <1>1 DEF Price, shop, acts, hist
<1>2. ASSUME NEW o \in Order, Book(o) PROVE DeletionOwed'
  BY <1>2 DEF Book, shop, acts, hist
<1>3. ASSUME NEW o \in Order, BookError(o) PROVE DeletionOwed'
  BY <1>3 DEF BookError, shop, acts, hist
<1>4. ASSUME NEW o \in Order, Save(o) PROVE DeletionOwed'
  BY <1>4 DEF Save, TakeStock, shop, acts, hist
<1>5. ASSUME NEW o \in Order, SaveUnknown(o) PROVE DeletionOwed'
  BY <1>5 DEF SaveUnknown, TakeStock, shop, acts, hist
<1>6. ASSUME NEW o \in Order, SaveRejected(o) PROVE DeletionOwed'
  BY <1>6 DEF SaveRejected, shop, acts, hist
<1>7. ASSUME NEW o \in Order, Unbook(o) PROVE DeletionOwed'
  BY <1>7 DEF Unbook, DeleteInMoysklad, shop, acts, hist
<1>8. ASSUME NEW o \in Order, Answer(o) PROVE DeletionOwed'
  BY <1>8 DEF Answer, shop, acts, hist
<1>9. ASSUME NEW o \in Order, KillRequest(o) PROVE DeletionOwed'
  BY <1>9 DEF KillRequest, shop, acts, hist
<1>10. ASSUME NEW a \in Actor, CommitCancel(a) PROVE DeletionOwed'
  BY <1>10 DEF CommitCancel, shop, acts, hist
<1>11. ASSUME NEW a \in Actor, CommitCancelUnknown(a) PROVE DeletionOwed'
  BY <1>11 DEF CommitCancelUnknown, Idle, shop, acts, hist
<1>12. ASSUME NEW a \in Actor, AbortCancel(a) PROVE DeletionOwed'
  BY <1>12 DEF AbortCancel, Idle, shop, acts, hist
<1>13. ASSUME NEW a \in Actor, RecordEvent(a) PROVE DeletionOwed'
  BY <1>13 DEF RecordEvent, Idle, Engage, shop, acts, hist
<1>14. ASSUME NEW a \in Actor, DeleteBooking(a) PROVE DeletionOwed'
  BY <1>14 DEF DeleteBooking, DeleteInMoysklad, Idle, shop, acts, hist
<1>15. ASSUME NEW a \in Actor, KillActor(a) PROVE DeletionOwed'
  BY <1>15 DEF KillActor, Idle, shop, acts, hist
<1>16. ASSUME NEW h \in Handler, NEW o \in Order, Complete(h, o) PROVE DeletionOwed'
  BY <1>16 DEF Complete, Engage, shop, acts, hist
<1>17. ASSUME NEW h \in Handler, NEW o \in Order, NEW g \in {"cancelled", "expired"},
            BeginCancel(h, o, g) PROVE DeletionOwed'
  BY <1>17 DEF BeginCancel, LockPending, SkipOrder, Engage, shop, acts, hist
<1>18. ASSUME NEW c \in Cron, ListExpired(c) PROVE DeletionOwed'
  BY <1>18 DEF ListExpired, shop, acts, hist
<1>19. ASSUME NEW c \in Cron, NEW o \in Order, Visit(c, o) PROVE DeletionOwed'
  BY <1>19 DEF Visit, LockPending, SkipOrder, Engage, shop, acts, hist
<1>20. CASE Tick
  BY <1>20 DEF Tick, shop, acts, hist
<1>21. CASE UNCHANGED vars
  BY <1>21 DEF vars, shop, acts, hist
<1>22. QED
  BY <1>1, <1>2, <1>3, <1>4, <1>5, <1>6, <1>7, <1>8, <1>9, <1>10, <1>11, <1>12, <1>13, <1>14, <1>15, <1>16, <1>17, <1>18, <1>19, <1>20, <1>21 DEF Next, RequestStep, ActorStep

(* An ending is written by the actor that caused it, when the order has it. *)
LEMMA AuditStep == OrderInv /\ [Next]_vars => AuditAgrees'
<1> SUFFICES ASSUME OrderInv, [Next]_vars
             PROVE  AuditAgrees'
  OBVIOUS
<1> USE DEF OrderInv, TypeOK, AuditAgrees, ActorKnows, Knows, RowAfterSave, EventOf, Terminal
<1>1. ASSUME NEW o \in Order, Price(o) PROVE AuditAgrees'
  BY <1>1 DEF Price, shop, acts, hist
<1>2. ASSUME NEW o \in Order, Book(o) PROVE AuditAgrees'
  BY <1>2 DEF Book, shop, acts, hist
<1>3. ASSUME NEW o \in Order, BookError(o) PROVE AuditAgrees'
  BY <1>3 DEF BookError, shop, acts, hist
<1>4. ASSUME NEW o \in Order, Save(o) PROVE AuditAgrees'
  BY <1>4 DEF Save, TakeStock, shop, acts, hist
<1>5. ASSUME NEW o \in Order, SaveUnknown(o) PROVE AuditAgrees'
  BY <1>5 DEF SaveUnknown, TakeStock, shop, acts, hist
<1>6. ASSUME NEW o \in Order, SaveRejected(o) PROVE AuditAgrees'
  BY <1>6 DEF SaveRejected, shop, acts, hist
<1>7. ASSUME NEW o \in Order, Unbook(o) PROVE AuditAgrees'
  BY <1>7 DEF Unbook, DeleteInMoysklad, shop, acts, hist
<1>8. ASSUME NEW o \in Order, Answer(o) PROVE AuditAgrees'
  BY <1>8 DEF Answer, shop, acts, hist
<1>9. ASSUME NEW o \in Order, KillRequest(o) PROVE AuditAgrees'
  BY <1>9 DEF KillRequest, shop, acts, hist
<1>10. ASSUME NEW a \in Actor, CommitCancel(a) PROVE AuditAgrees'
  BY <1>10 DEF CommitCancel, shop, acts, hist
<1>11. ASSUME NEW a \in Actor, CommitCancelUnknown(a) PROVE AuditAgrees'
  BY <1>11 DEF CommitCancelUnknown, Idle, shop, acts, hist
<1>12. ASSUME NEW a \in Actor, AbortCancel(a) PROVE AuditAgrees'
  BY <1>12 DEF AbortCancel, Idle, shop, acts, hist
<1>13. ASSUME NEW a \in Actor, RecordEvent(a) PROVE AuditAgrees'
  BY <1>13 DEF RecordEvent, Idle, Engage, shop, acts, hist
<1>14. ASSUME NEW a \in Actor, DeleteBooking(a) PROVE AuditAgrees'
  BY <1>14 DEF DeleteBooking, DeleteInMoysklad, Idle, shop, acts, hist
<1>15. ASSUME NEW a \in Actor, KillActor(a) PROVE AuditAgrees'
  BY <1>15 DEF KillActor, Idle, shop, acts, hist
<1>16. ASSUME NEW h \in Handler, NEW o \in Order, Complete(h, o) PROVE AuditAgrees'
  BY <1>16 DEF Complete, Engage, shop, acts, hist
<1>17. ASSUME NEW h \in Handler, NEW o \in Order, NEW g \in {"cancelled", "expired"},
            BeginCancel(h, o, g) PROVE AuditAgrees'
  BY <1>17 DEF BeginCancel, LockPending, SkipOrder, Engage, shop, acts, hist
<1>18. ASSUME NEW c \in Cron, ListExpired(c) PROVE AuditAgrees'
  BY <1>18 DEF ListExpired, shop, acts, hist
<1>19. ASSUME NEW c \in Cron, NEW o \in Order, Visit(c, o) PROVE AuditAgrees'
  BY <1>19 DEF Visit, LockPending, SkipOrder, Engage, shop, acts, hist
<1>20. CASE Tick
  BY <1>20 DEF Tick, shop, acts, hist
<1>21. CASE UNCHANGED vars
  BY <1>21 DEF vars, shop, acts, hist
<1>22. QED
  BY <1>1, <1>2, <1>3, <1>4, <1>5, <1>6, <1>7, <1>8, <1>9, <1>10, <1>11, <1>12, <1>13, <1>14, <1>15, <1>16, <1>17, <1>18, <1>19, <1>20, <1>21 DEF Next, RequestStep, ActorStep

-----------------------------------------------------------------------------
(* The invariant and what follows from it.                                 *)

LEMMA OrderInvInit == Init => OrderInv
<1> SUFFICES ASSUME Init
             PROVE  OrderInv
  OBVIOUS
<1> USE DEF Init
<1>1. TypeOK
  BY OrderAssumption DEF TypeOK, Status, Terminal, ReqState, PcState
<1>2. RowAfterSave /\ ActorKnows /\ LockExclusive
  BY DEF RowAfterSave, ActorKnows, Knows, LockExclusive
<1>3. BookedLive /\ NoBookingYet /\ PendingBacked /\ DeletionOwed /\ AuditAgrees
  BY DEF BookedLive, NoBookingYet, PendingBacked, DeletionOwed, AuditAgrees
<1>4. QED
  BY <1>1, <1>2, <1>3 DEF OrderInv

(* In every reachable state: the inductive invariant. *)
THEOREM OrderInvariant == Spec => []OrderInv
<1>1. OrderInv /\ [Next]_vars => OrderInv'
  BY TypeStep, RowStep, KnowsStep, LockStep, BookedStep, NoBookingStep, BackedStep,
     OwedStep, AuditStep DEF OrderInv
<1>2. QED
  BY OrderInvInit, <1>1, PTL DEF Spec

(* Every variable keeps its type; above all no stock gets below zero. *)
THEOREM TypeCorrect == Spec => []TypeOK
<1>1. OrderInv => TypeOK
  BY DEF OrderInv
<1>2. QED
  BY OrderInvariant, <1>1, PTL

(* A pending order that the customer has in hand has a live CustomerOrder. *)
THEOREM PendingBackedAlways == Spec => []PendingBacked
<1>1. OrderInv => PendingBacked
  BY DEF OrderInv
<1>2. QED
  BY OrderInvariant, <1>1, PTL

(* The audit log records no ending but the one the order has. *)
THEOREM AuditAgreesAlways == Spec => []AuditAgrees
<1>1. OrderInv => AuditAgrees
  BY DEF OrderInv
<1>2. QED
  BY OrderInvariant, <1>1, PTL

(* No CustomerOrder outlives its order unless one of the best-effort steps failed. *)
THEOREM StrayOnlyAfterMishapAlways == Spec => []StrayOnlyAfterMishap
<1>1. OrderInv => StrayOnlyAfterMishap
  BY DEF OrderInv, DeletionOwed, StrayOnlyAfterMishap, AtRest
<1>2. QED
  BY OrderInvariant, <1>1, PTL

-----------------------------------------------------------------------------
(* The ledger.                                                             *)

(* The instance has its own copies of the operators of FiniteSets. *)
LEMMA SameSets ==
  \A S : L!Cardinality(S) = Cardinality(S) /\ (L!IsFiniteSet(S) <=> IsFiniteSet(S))
BY DEF L!Cardinality, Cardinality, L!IsFiniteSet, IsFiniteSet

(* What orders demand of the ledger is what their lines ask for. *)
LEMMA LedgerConstants == L!LedgerAssumption
<1>1. \A o \in Order : OrderedQty[o] \in [Product -> Nat]
  <2>1. \A o \in Order : OrderedQty[o] = [p \in Product |-> OrderedQty[o][p]]
    BY DEF OrderedQty
  <2>2. QED
    BY <2>1, QtyType
<1>2. OrderedQty \in [Order -> [Product -> Nat]]
  BY <1>1 DEF OrderedQty
<1>3. QED
  BY <1>2, OrderAssumption, SameSets DEF L!LedgerAssumption

LEMMA LedgerNumbers ==
  /\ \A o \in Order, p \in Product : OrderedQty[o][p] \in Nat /\ InitStock[p] \in Nat
  /\ IsFiniteSet(Order) /\ InitStock \in [Product -> Nat]
BY LedgerConstants, SameSets DEF L!LedgerAssumption

(* An order's units of a product are finitely many, and as many as it demands. *)
LEMMA UnitsCardinality ==
  ASSUME NEW o \in Order, NEW p \in Product
  PROVE  /\ IsFiniteSet(L!UnitsOf(o, p))
         /\ Cardinality(L!UnitsOf(o, p)) = OrderedQty[o][p]
<1>1. OrderedQty[o][p] \in Nat
  BY LedgerNumbers
<1>2. /\ IsFiniteSet(1 .. OrderedQty[o][p])
      /\ Cardinality(1 .. OrderedQty[o][p]) = OrderedQty[o][p]
  <2> DEFINE d == OrderedQty[o][p]
  <2>1. d \in Int /\ 1 \in Int /\ d >= 0
    BY <1>1
  <2> HIDE DEF d
  <2>2. IsFiniteSet(1 .. d) /\ Cardinality(1 .. d) = IF 1 > d THEN 0 ELSE d - 1 + 1
    BY <2>1, FS_Interval
  <2>3. Cardinality(1 .. d) = d
    BY <2>1, <2>2
  <2> QED
    BY <2>2, <2>3 DEF d
<1>3. IsFiniteSet({o}) /\ Cardinality({o}) = 1
  BY FS_Singleton
<1>4. /\ IsFiniteSet({o} \X (1 .. OrderedQty[o][p]))
      /\ Cardinality({o} \X (1 .. OrderedQty[o][p])) = Cardinality({o}) * Cardinality(1 .. OrderedQty[o][p])
  BY <1>2, <1>3, FS_Product
<1>5. QED
  BY <1>1, <1>2, <1>3, <1>4 DEF L!UnitsOf

(* What is taken is finite, whatever the statuses. *)
LEMMA TakenFinite ==
  ASSUME NEW p \in Product
  PROVE  IsFiniteSet(L!Taken(p))
<1> DEFINE S == {x \in Order : status[x] \in {"pending", "completed"}}
           T == {L!UnitsOf(o, p) : o \in S}
           f == [o \in S |-> L!UnitsOf(o, p)]
<1>1. IsFiniteSet(S)
  BY FS_Subset, S \subseteq Order, LedgerNumbers
<1>2. f \in Surjection(S, T)
  BY DEF Surjection
<1>3. IsFiniteSet(T)
  <2> HIDE DEF S, T, f
  <2> QED  BY <1>1, <1>2, FS_Surjection
<1>4. \A U \in T : IsFiniteSet(U)
  BY UnitsCardinality
<1>5. IsFiniteSet(UNION T)
  <2> HIDE DEF T
  <2> QED  BY <1>3, <1>4, FS_UNION
<1>6. QED
  BY <1>5 DEF L!Taken

(* Units of different orders are different units. *)
LEMMA UnitsDisjoint ==
  ASSUME NEW o \in Order, NEW x \in Order, NEW p, x # o
  PROVE  L!UnitsOf(o, p) \cap L!UnitsOf(x, p) = {}
BY DEF L!UnitsOf

THEOREM LedgerTypes ==
  L!LedgerSpec => []L!LedgerTypeOK
<1>1. L!LedgerInit => L!LedgerTypeOK
  BY LedgerNumbers DEF L!LedgerInit, L!LedgerTypeOK, L!Status
<1>2. L!LedgerTypeOK /\ [L!LedgerNext]_<<stock, status>> => L!LedgerTypeOK'
  <2> SUFFICES ASSUME L!LedgerTypeOK, [L!LedgerNext]_<<stock, status>>
               PROVE  L!LedgerTypeOK'
    OBVIOUS
  <2> USE LedgerNumbers DEF L!LedgerTypeOK, L!Status
  <2>1. ASSUME NEW o \in Order, L!Reserve(o) PROVE L!LedgerTypeOK'
    BY <2>1 DEF L!Reserve
  <2>2. ASSUME NEW o \in Order, L!Release(o) PROVE L!LedgerTypeOK'
    BY <2>2 DEF L!Release
  <2>3. ASSUME NEW o \in Order, L!Collect(o) PROVE L!LedgerTypeOK'
    BY <2>3 DEF L!Collect
  <2>4. CASE UNCHANGED <<stock, status>>
    BY <2>4
  <2>5. QED
    BY <2>1, <2>2, <2>3, <2>4 DEF L!LedgerNext
<1>3. QED
  BY <1>1, <1>2, PTL DEF L!LedgerSpec, L!ledgerVars

(* Placing an order takes exactly its units. *)
LEMMA ReserveTakes ==
  ASSUME L!LedgerTypeOK, NEW o \in Order, L!Reserve(o), NEW p \in Product
  PROVE  /\ L!Taken(p)' = L!Taken(p) \cup L!UnitsOf(o, p)
         /\ L!Taken(p) \cap L!UnitsOf(o, p) = {}
<1>1. \A x \in Order : status'[x] \in {"pending", "completed"}
                         <=> x = o \/ status[x] \in {"pending", "completed"}
  BY DEF L!Reserve, L!LedgerTypeOK
<1>2. status[o] = "none"
  BY DEF L!Reserve
<1>3. L!Taken(p)' = L!Taken(p) \cup L!UnitsOf(o, p)
  BY <1>1 DEF L!Taken, L!UnitsOf
<1>4. \A x \in Order : status[x] \in {"pending", "completed"} =>
        L!UnitsOf(o, p) \cap L!UnitsOf(x, p) = {}
  BY <1>2, UnitsDisjoint
<1>5. QED
  BY <1>3, <1>4 DEF L!Taken

(* Giving an order up frees exactly its units. *)
LEMMA ReleaseFrees ==
  ASSUME L!LedgerTypeOK, NEW o \in Order, L!Release(o), NEW p \in Product
  PROVE  /\ L!Taken(p)' = L!Taken(p) \ L!UnitsOf(o, p)
         /\ L!UnitsOf(o, p) \subseteq L!Taken(p)
<1>1. \A x \in Order : status'[x] \in {"pending", "completed"}
                         <=> x # o /\ status[x] \in {"pending", "completed"}
  BY DEF L!Release, L!LedgerTypeOK
<1>2. status[o] = "pending"
  BY DEF L!Release
<1>3. L!UnitsOf(o, p) \subseteq L!Taken(p)
  BY <1>2 DEF L!Taken
<1>4. \A x \in Order : x # o => L!UnitsOf(o, p) \cap L!UnitsOf(x, p) = {}
  BY UnitsDisjoint
<1>5. L!Taken(p)' = L!Taken(p) \ L!UnitsOf(o, p)
  <2>1. ASSUME NEW u, u \in L!Taken(p)' PROVE u \in L!Taken(p) /\ u \notin L!UnitsOf(o, p)
    <3>1. PICK x \in Order : status'[x] \in {"pending", "completed"} /\ u \in L!UnitsOf(x, p)
      BY <2>1 DEF L!Taken, L!UnitsOf
    <3>2. QED
      BY <1>1, <1>4, <3>1 DEF L!Taken
  <2>2. ASSUME NEW u, u \in L!Taken(p), u \notin L!UnitsOf(o, p) PROVE u \in L!Taken(p)'
    <3>1. PICK x \in Order : status[x] \in {"pending", "completed"} /\ u \in L!UnitsOf(x, p)
      BY <2>2 DEF L!Taken
    <3>2. status'[x] \in {"pending", "completed"}
      BY <1>1, <2>2, <3>1
    <3>3. QED
      BY <3>1, <3>2 DEF L!Taken, L!UnitsOf
  <2>3. QED
    BY <2>1, <2>2
<1>6. QED
  BY <1>3, <1>5

(* Collecting an order moves none. *)
LEMMA CollectKeeps ==
  ASSUME L!LedgerTypeOK, NEW o \in Order, L!Collect(o), NEW p \in Product
  PROVE  L!Taken(p)' = L!Taken(p)
<1>1. \A x \in Order : status'[x] \in {"pending", "completed"}
                         <=> status[x] \in {"pending", "completed"}
  BY DEF L!Collect, L!LedgerTypeOK
<1>2. QED
  BY <1>1 DEF L!Taken, L!UnitsOf

(* Stock plus what is held or sold is the initial stock, in every reachable state. *)
THEOREM LedgerConserves ==
  L!LedgerSpec => []L!Conserved
<1>1. L!LedgerInit => L!Conserved
  <2> SUFFICES ASSUME L!LedgerInit, NEW p \in Product
               PROVE  stock[p] + Cardinality(L!Taken(p)) = InitStock[p]
    BY SameSets DEF L!Conserved
  <2>1. L!Taken(p) = {}
    BY DEF L!LedgerInit, L!Taken
  <2>2. Cardinality(L!Taken(p)) = 0
    BY <2>1, FS_EmptySet
  <2>3. QED
    BY <2>2, LedgerNumbers DEF L!LedgerInit
<1>2. L!LedgerTypeOK /\ L!Conserved /\ [L!LedgerNext]_<<stock, status>> => L!Conserved'
  <2> SUFFICES ASSUME L!LedgerTypeOK, L!Conserved, [L!LedgerNext]_<<stock, status>>, NEW p \in Product
               PROVE  stock'[p] + Cardinality(L!Taken(p)') = InitStock[p]
    BY SameSets DEF L!Conserved
  <2>1. stock[p] + Cardinality(L!Taken(p)) = InitStock[p]
    BY SameSets DEF L!Conserved
  <2>2. /\ IsFiniteSet(L!Taken(p))
        /\ Cardinality(L!Taken(p)) \in Nat /\ stock[p] \in Nat /\ InitStock[p] \in Nat
    BY TakenFinite, LedgerNumbers, FS_CardinalityType DEF L!LedgerTypeOK
  <2>3. ASSUME NEW o \in Order, L!Reserve(o)
        PROVE  stock'[p] + Cardinality(L!Taken(p)') = InitStock[p]
    <3>1. /\ L!Taken(p)' = L!Taken(p) \cup L!UnitsOf(o, p)
          /\ L!Taken(p) \cap L!UnitsOf(o, p) = {}
      BY <2>3, ReserveTakes
    <3>2. /\ IsFiniteSet(L!UnitsOf(o, p))
          /\ Cardinality(L!UnitsOf(o, p)) = OrderedQty[o][p]
      BY UnitsCardinality
    <3>3. Cardinality(L!Taken(p) \cup L!UnitsOf(o, p))
            = Cardinality(L!Taken(p)) + Cardinality(L!UnitsOf(o, p))
                - Cardinality(L!Taken(p) \cap L!UnitsOf(o, p))
      BY <2>2, <3>2, FS_Union
    <3>4. Cardinality(L!Taken(p) \cap L!UnitsOf(o, p)) = 0
      BY <3>1, FS_EmptySet
    <3>5. stock'[p] = stock[p] - OrderedQty[o][p] /\ OrderedQty[o][p] \in Nat
      BY <2>3, LedgerNumbers DEF L!Reserve
    <3>6. Cardinality(L!Taken(p)') = Cardinality(L!Taken(p)) + OrderedQty[o][p]
      BY <2>2, <3>1, <3>2, <3>3, <3>4, <3>5
    <3>7. QED
      BY <2>1, <2>2, <3>5, <3>6
  <2>4. ASSUME NEW o \in Order, L!Release(o)
        PROVE  stock'[p] + Cardinality(L!Taken(p)') = InitStock[p]
    <3>1. /\ L!Taken(p)' = L!Taken(p) \ L!UnitsOf(o, p)
          /\ L!UnitsOf(o, p) \subseteq L!Taken(p)
      BY <2>4, ReleaseFrees
    <3>2. L!Taken(p) \cap L!UnitsOf(o, p) = L!UnitsOf(o, p)
      BY <3>1
    <3>3. Cardinality(L!UnitsOf(o, p)) = OrderedQty[o][p]
      BY UnitsCardinality
    <3>4. Cardinality(L!Taken(p) \ L!UnitsOf(o, p))
            = Cardinality(L!Taken(p)) - Cardinality(L!Taken(p) \cap L!UnitsOf(o, p))
      BY <2>2, FS_Difference
    <3>5. stock'[p] = stock[p] + OrderedQty[o][p] /\ OrderedQty[o][p] \in Nat
      BY <2>4, LedgerNumbers DEF L!Release
    <3>6. Cardinality(L!Taken(p)') = Cardinality(L!Taken(p)) - OrderedQty[o][p]
      BY <3>1, <3>2, <3>3, <3>4
    <3>7. QED
      BY <2>1, <2>2, <3>5, <3>6
  <2>5. ASSUME NEW o \in Order, L!Collect(o)
        PROVE  stock'[p] + Cardinality(L!Taken(p)') = InitStock[p]
    BY <2>1, <2>5, CollectKeeps DEF L!Collect
  <2>6. CASE UNCHANGED <<stock, status>>
    <3>1. L!Taken(p)' = L!Taken(p)
      BY <2>6 DEF L!Taken, L!UnitsOf
    <3>2. QED
      BY <2>1, <2>6, <3>1
  <2>7. QED
    BY <2>3, <2>4, <2>5, <2>6 DEF L!LedgerNext
<1>3. QED
  BY <1>1, <1>2, LedgerTypes, PTL DEF L!LedgerSpec, L!ledgerVars

(* A saved order is a reservation, a committed cancellation a release, a completed
   order a collection; every other step leaves stock and status alone. *)
LEMMA LedgerStep ==
  ASSUME DistinctLines, OrderInv, [Next]_vars
  PROVE  [L!LedgerNext]_<<stock, status>>
<1> USE DEF OrderInv, TypeOK, ActorKnows, Knows, L!LedgerNext
<1>1. ASSUME NEW o \in Order, TakeStock(o), req[o] = "booked" PROVE L!Reserve(o)
  BY <1>1 DEF TakeStock, RowAfterSave, L!Reserve
<1>2. ASSUME NEW a \in Actor, pc[a] = "locked", RestoreStock(target[a]),
             status' = [status EXCEPT ![target[a]] = goal[a]]
      PROVE  target[a] \in Order /\ L!Release(target[a])
  <2>1. /\ target[a] \in Order /\ status[target[a]] = "pending"
        /\ goal[a] \in {"cancelled", "expired"}
    BY <1>2
  <2>2. stock' = [p \in Product |-> stock[p] + OrderedQty[target[a]][p]]
    BY <1>2, <2>1, RestoreStockExact
  <2>3. QED
    BY <1>2, <2>1, <2>2 DEF L!Release
<1>3. ASSUME NEW o \in Order, RequestStep(o) PROVE [L!LedgerNext]_<<stock, status>>
  BY <1>1, <1>3 DEF RequestStep, Price, Book, BookError, Save, SaveUnknown, SaveRejected,
     Unbook, Answer, shop
<1>4. ASSUME NEW a \in Actor, ActorStep(a) PROVE [L!LedgerNext]_<<stock, status>>
  BY <1>2, <1>4 DEF ActorStep, CommitCancel, CommitCancelUnknown, AbortCancel,
     RecordEvent, DeleteBooking, shop
<1>5. ASSUME NEW h \in Handler, NEW o \in Order, Complete(h, o)
      PROVE  L!Collect(o)
  BY <1>5 DEF Complete, L!Collect
<1>6. ASSUME NEW h \in Handler, NEW o \in Order, NEW g \in {"cancelled", "expired"},
             BeginCancel(h, o, g)
      PROVE  UNCHANGED <<stock, status>>
  BY <1>6 DEF BeginCancel, shop
<1>7. ASSUME NEW c \in Cron, ListExpired(c) PROVE UNCHANGED <<stock, status>>
  BY <1>7 DEF ListExpired, shop
<1>8. ASSUME NEW c \in Cron, NEW o \in Order, Visit(c, o)
      PROVE  UNCHANGED <<stock, status>>
  BY <1>8 DEF Visit, shop
<1>9. ASSUME NEW o \in Order, KillRequest(o) PROVE UNCHANGED <<stock, status>>
  BY <1>9 DEF KillRequest, shop
<1>10. ASSUME NEW a \in Actor, KillActor(a) PROVE UNCHANGED <<stock, status>>
  BY <1>10 DEF KillActor, shop
<1>11. CASE Tick \/ UNCHANGED vars
  BY <1>11 DEF Tick, vars, shop
<1>12. QED
  BY <1>3, <1>4, <1>5, <1>6, <1>7, <1>8, <1>9, <1>10, <1>11 DEF Next

(* With distinct lines in every basket, placements, cancellations, expiries and
   completions, in any interleaving and with any crashes, implement the ledger. *)
THEOREM LedgerImplemented == DistinctLines => (Spec => ImplementsLedger)
<1> SUFFICES ASSUME DistinctLines
             PROVE  Spec => ImplementsLedger
  OBVIOUS
<1>1. Init => L!LedgerInit
  BY DEF Init, L!LedgerInit
<1>2. OrderInv /\ [Next]_vars => [L!LedgerNext]_<<stock, status>>
  BY LedgerStep
<1>3. QED
  BY <1>1, <1>2, OrderInvariant, PTL DEF Spec, ImplementsLedger, L!LedgerSpec, L!ledgerVars

(* ... so no unit is lost or sold twice. *)
THEOREM StockConservedAlways == DistinctLines => (Spec => []StockConserved)
<1> SUFFICES ASSUME DistinctLines
             PROVE  Spec => []StockConserved
  OBVIOUS
<1>1. Spec => L!LedgerSpec
  BY LedgerImplemented DEF ImplementsLedger
<1>2. QED
  BY <1>1, LedgerConserves, PTL DEF StockConserved

-----------------------------------------------------------------------------
(* Reservations and the cron.                                              *)

(* A deadline is fixed when the request is priced, and the clock moves forward. *)
LEMMA DeadlineFixed ==
  ASSUME OrderInv, [Next]_vars
  PROVE  /\ now' >= now
         /\ \A o \in Order : req[o] # "new" =>
              req'[o] # "new" /\ reservedUntil'[o] = reservedUntil[o]
<1> USE DEF OrderInv, TypeOK
<1>1. ASSUME NEW x \in Order, RequestStep(x) \/ KillRequest(x)
      PROVE  /\ now' = now
             /\ \A o \in Order : req[o] # "new" =>
                  req'[o] # "new" /\ reservedUntil'[o] = reservedUntil[o]
  BY <1>1 DEF RequestStep, Price, Book, BookError, Save, SaveUnknown, SaveRejected,
     Unbook, Answer, KillRequest, shop
<1>2. ASSUME NEW a \in Actor, ActorStep(a) \/ KillActor(a)
      PROVE  UNCHANGED <<now, req, reservedUntil>>
  BY <1>2 DEF ActorStep, CommitCancel, CommitCancelUnknown, AbortCancel, RecordEvent,
     DeleteBooking, KillActor, shop
<1>3. ASSUME NEW h \in Handler, NEW o \in Order,
             Complete(h, o) \/ \E g \in {"cancelled", "expired"} : BeginCancel(h, o, g)
      PROVE  UNCHANGED <<now, req, reservedUntil>>
  BY <1>3 DEF Complete, BeginCancel, shop
<1>4. ASSUME NEW c \in Cron, ListExpired(c) \/ \E o \in Order : Visit(c, o)
      PROVE  UNCHANGED <<now, req, reservedUntil>>
  BY <1>4 DEF ListExpired, Visit, shop
<1>5. ASSUME Tick \/ UNCHANGED vars
      PROVE  now' >= now /\ UNCHANGED <<req, reservedUntil>>
  BY <1>5 DEF Tick, vars, shop
<1>6. QED
  BY <1>1, <1>2, <1>3, <1>4, <1>5 DEF Next

(* A cron instance gets its work from its batch and its batch from the overdue rows. *)
LEMMA CronWork ==
  ASSUME OrderInv, [Next]_vars, NEW c \in Cron
  PROVE  /\ target'[c] \in batch[c] \cup {target[c], NoOrder}
         /\ \A o \in batch'[c] : o \in batch[c] \/ (o \in Order /\ Overdue(o))
<1> USE DEF OrderInv, TypeOK, Actor
<1>1. ASSUME NEW x \in Order, RequestStep(x) \/ KillRequest(x)
      PROVE  UNCHANGED <<batch, target>>
  BY <1>1 DEF RequestStep, Price, Book, BookError, Save, SaveUnknown, SaveRejected,
     Unbook, Answer, KillRequest, acts
<1>2. ASSUME NEW a \in Actor, ActorStep(a)
      PROVE  batch' = batch /\ target'[c] \in {target[c], NoOrder}
  BY <1>2 DEF ActorStep, CommitCancel, CommitCancelUnknown, AbortCancel, RecordEvent,
     DeleteBooking, Idle, Engage, acts
<1>3. ASSUME NEW a \in Actor, KillActor(a)
      PROVE  batch'[c] \subseteq batch[c] /\ target'[c] \in {target[c], NoOrder}
  BY <1>3 DEF KillActor, Idle
<1>4. ASSUME NEW h \in Handler, NEW o \in Order,
             Complete(h, o) \/ \E g \in {"cancelled", "expired"} : BeginCancel(h, o, g)
      PROVE  batch' = batch /\ target'[c] = target[c]
  BY <1>4, OrderAssumption DEF Complete, BeginCancel, LockPending, SkipOrder, Engage
<1>5. ASSUME NEW d \in Cron, ListExpired(d)
      PROVE  /\ target' = target
             /\ \A o \in batch'[c] : o \in batch[c] \/ (o \in Order /\ Overdue(o))
  BY <1>5 DEF ListExpired
<1>6. ASSUME NEW d \in Cron, NEW o \in Order, Visit(d, o)
      PROVE  batch'[c] \subseteq batch[c] /\ target'[c] \in batch[c] \cup {target[c]}
  BY <1>6 DEF Visit, LockPending, SkipOrder, Engage
<1>7. ASSUME Tick \/ UNCHANGED vars
      PROVE  UNCHANGED <<batch, target>>
  BY <1>7 DEF Tick, vars, acts
<1>8. QED
  BY <1>1, <1>2, <1>3, <1>4, <1>5, <1>6, <1>7 DEF Next

LEMMA CronLapsedStep == OrderInv /\ CronLapsed /\ [Next]_vars => CronLapsed'
<1> SUFFICES ASSUME OrderInv, CronLapsed, [Next]_vars, NEW c \in Cron,
                    NEW o \in batch'[c] \cup ({target'[c]} \ {NoOrder})
             PROVE  req'[o] # "new" /\ reservedUntil'[o] < now'
  BY DEF CronLapsed
<1>1. o \in batch[c] \cup ({target[c]} \ {NoOrder}) \/ (o \in Order /\ Overdue(o))
  BY CronWork
<1>2. o \in Order
  BY <1>1 DEF OrderInv, TypeOK, Actor
<1>3. req[o] # "new" /\ reservedUntil[o] < now
  BY <1>1, <1>2 DEF CronLapsed, Overdue, OrderInv, RowAfterSave
<1>4. QED
  BY <1>2, <1>3, DeadlineFixed, TypeStep DEF OrderInv, TypeOK

(* No reservation is ended by the cron before its time. *)
THEOREM NoEarlyExpiryEver == Spec => NoEarlyExpiry
<1>1. Init => CronLapsed
  BY DEF Init, CronLapsed, Actor
<1>2. OrderInv /\ CronLapsed /\ [Next]_vars =>
        \A c \in Cron, o \in Order :
          target[c] = o /\ status[o] = "pending" /\ status'[o] # "pending"
            => reservedUntil[o] < now
  BY OrderAssumption DEF CronLapsed
<1>3. QED
  BY <1>1, <1>2, CronLapsedStep, OrderInvariant, PTL DEF Spec, NoEarlyExpiry
=============================================================================
