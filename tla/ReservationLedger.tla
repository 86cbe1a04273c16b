-------------------------- MODULE ReservationLedger --------------------------
(***************************************************************************)
(* What the shop promises about reserved goods, without saying how: an     *)
(* order takes its goods off the shelf when it is placed, and either gives *)
(* exactly those goods back or is collected, once.                         *)
(* OrderLifecycle implements this specification.                           *)
(***************************************************************************)
EXTENDS Integers, FiniteSets

CONSTANTS Product,    \* products of the catalogue
          Order,      \* orders that may be placed
          Demand,     \* Demand[o][p]: units of p that o takes
          InitStock   \* InitStock[p]: units of p on the shelf at the start

(* What the constants have to be. *)
LedgerAssumption ==
  /\ IsFiniteSet(Order)
  /\ Demand \in [Order -> [Product -> Nat]]
  /\ InitStock \in [Product -> Nat]

VARIABLES stock,   \* products_stock: units that can still be ordered
          status   \* orders_status, "none" while the row does not exist

ledgerVars == <<stock, status>>

Status   == {"none", "pending", "completed", "cancelled", "expired"}
Terminal == {"completed", "cancelled", "expired"}

LedgerTypeOK ==
  /\ stock \in [Product -> Nat]
  /\ status \in [Order -> Status]

LedgerInit ==
  /\ stock = InitStock
  /\ status = [o \in Order |-> "none"]

(* An order is placed: all its goods are there and leave the shelf.        *)
Reserve(o) ==
  /\ status[o] = "none"
  /\ \A p \in Product : Demand[o][p] <= stock[p]
  /\ stock' = [p \in Product |-> stock[p] - Demand[o][p]]
  /\ status' = [status EXCEPT ![o] = "pending"]

(* A pending order is given up: all its goods return to the shelf.         *)
Release(o) ==
  /\ status[o] = "pending"
  /\ stock' = [p \in Product |-> stock[p] + Demand[o][p]]
  /\ \E t \in {"cancelled", "expired"} : status' = [status EXCEPT ![o] = t]

(* A pending order is collected in the shop.                               *)
Collect(o) ==
  /\ status[o] = "pending"
  /\ status' = [status EXCEPT ![o] = "completed"]
  /\ UNCHANGED stock

LedgerNext == \E o \in Order : Reserve(o) \/ Release(o) \/ Collect(o)

LedgerSpec == LedgerInit /\ [][LedgerNext]_ledgerVars

-----------------------------------------------------------------------------
(* Units held for order o of product p, and all the units of p held or sold. *)
UnitsOf(o, p) == {o} \X (1 .. Demand[o][p])
Taken(p) ==
  UNION {UnitsOf(o, p) : o \in {x \in Order : status[x] \in {"pending", "completed"}}}

(* Every unit is on the shelf, reserved by one pending order or collected with
   a completed one: nothing is lost and nothing is sold twice. *)
Conserved == \A p \in Product : stock[p] + Cardinality(Taken(p)) = InitStock[p]
=============================================================================
