--------------------------- MODULE MCOrderLifecycle ---------------------------
(* Two orders that compete for one product, one of them with a second line;
   one request handler and one cron instance. *)
EXTENDS OrderLifecycle

CONSTANTS o1, o2, p1, p2

(* The stock covers either order alone; both together ask for one p1 too many. *)
McStock == [p \in Product |-> IF p = p1 THEN 2 ELSE 1]
McBasket == [o \in Order |->
  IF o = o1 THEN <<[product |-> p1, quantity |-> 2]>>
  ELSE <<[product |-> p2, quantity |-> 1], [product |-> p1, quantity |-> 1]>>]
(* One order with two lines for the same product. *)
McTwoLines == [o \in Order |->
  <<[product |-> p1, quantity |-> 1], [product |-> p1, quantity |-> 1]>>]
McHolds == {0}
=============================================================================
