--------------------------------- MODULE Cart ---------------------------------
(***************************************************************************)
(* The cart a customer keeps on the server (usecase/cart.go, db/cart.go),  *)
(* changed by several requests at a time: two tabs, or a tab and a         *)
(* checkout.  Adding and changing read the line first and write an         *)
(* absolute quantity later, without a transaction; removing, clearing and  *)
(* the checkout's purge are one DELETE each.  Carts of different customers *)
(* share nothing, so one is modelled.                                      *)
(***************************************************************************)
EXTENDS Naturals

CONSTANTS
  Product,      \* the products customers ask for
  Request,      \* goroutines that serve POST and PUT /api/cart
  Amount,       \* quantities in their bodies (binding: min=1)
  MaxQuantity,  \* the largest value of the INTEGER column
  NoJob,        \* a goroutine that serves no request
  Unknown       \* no quantity at all

ASSUME CartAssumption ==
  /\ Amount \subseteq Nat \ {0}
  /\ MaxQuantity \in Nat
  /\ Unknown \notin Nat
  /\ NoJob \notin [step: {"checked", "found"}, kind: {"add", "set"},
                   product: Product, amount: Amount, found: 0..MaxQuantity]

VARIABLES
  lines,        \* cart_items of this customer: product -> quantity, 0 for no row
  shelf,        \* what productQuery.GetByID finds: "absent", "hidden", "sold"
  job,          \* what a goroutine serves, and the quantity it has read
  overtaken,    \* history: goroutines whose line was written after they read it
  wanted        \* history: what the requests whose statement took effect (its reply may
                \* be lost) make of a line, one after another; Unknown once two of them
                \* have met on it

vars == <<lines, shelf, job, overtaken, wanted>>

Job == [step: {"checked", "found"}, kind: {"add", "set"},
        product: Product, amount: Amount, found: 0..MaxQuantity]

TypeOK ==
  /\ lines \in [Product -> 0..MaxQuantity]
  /\ shelf \in [Product -> {"absent", "hidden", "sold"}]
  /\ job \in [Request -> Job \cup {NoJob}]
  /\ overtaken \subseteq Request
  /\ wanted \in [Product -> 0..MaxQuantity \cup {Unknown}]

(* An empty cart; a product may be unknown, withdrawn or out of stock, or on sale. *)
Init ==
  /\ lines = [p \in Product |-> 0]
  /\ shelf \in [Product -> {"absent", "hidden", "sold"}]
  /\ job = [r \in Request |-> NoJob]
  /\ overtaken = {}
  /\ wanted = lines

At(r, step) == job[r] # NoJob /\ job[r].step = step

(* Who has read the line of one of these products and is about to write to it. *)
Reading(S) == {r \in Request : At(r, "found") /\ job[r].product \in S}

End(r) ==
  /\ job' = [job EXCEPT ![r] = NoJob]
  /\ UNCHANGED shelf

-----------------------------------------------------------------------------
(* The two requests that read before they write.                           *)

(* The product checks of AddToCart (there, active, in stock) and of UpdateCart (there). *)
Accepts(kind, p) == IF kind = "add" THEN shelf[p] = "sold" ELSE shelf[p] # "absent"

(* The product is read and found fit; a request that is refused changes nothing. *)
Check(r) ==
  /\ job[r] = NoJob
  /\ \E kind \in {"add", "set"}, p \in Product, q \in Amount :
       /\ Accepts(kind, p)
       /\ job' = [job EXCEPT ![r] = [step |-> "checked", kind |-> kind,
                                     product |-> p, amount |-> q, found |-> 0]]
  /\ UNCHANGED <<lines, shelf, overtaken, wanted>>

(* GetByUserIDAndProductID. *)
ReadLine(r) ==
  /\ At(r, "checked")
  /\ job[r].kind = "set" => lines[job[r].product] > 0
  /\ job' = [job EXCEPT ![r].step = "found", ![r].found = lines[job[r].product]]
  /\ UNCHANGED <<lines, shelf, overtaken, wanted>>

(* UpdateCart finds no line; or a query fails or times out without effect. A statement
   that took effect and lost its reply is UpdateQuantity or Create. *)
GiveUp(r) ==
  /\ job[r] # NoJob
  /\ End(r)
  /\ overtaken' = overtaken \ {r}
  /\ UNCHANGED <<lines, wanted>>

(* Mutant: adding replaces the quantity of the line. *)
NewQuantity_Replaces(r) == job[r].amount

(* The quantity the request writes: AddToCart adds to what it has read. *)
NewQuantity(r) ==
  IF job[r].kind = "add" THEN job[r].found + job[r].amount ELSE job[r].amount

(* Mutant: nothing bounds the sum. *)
UpdateQuantity_Unbounded(r) ==
  /\ At(r, "found") /\ job[r].found > 0
  /\ lines' = [lines EXCEPT ![job[r].product] = IF @ > 0 THEN NewQuantity(r) ELSE 0]
  /\ overtaken' = overtaken \ {r}
  /\ UNCHANGED wanted
  /\ End(r)

(* UPDATE of the row that was found.  If it is gone by now the statement changes nothing
   and reports no error, as if the request had come before the removal. *)
UpdateQuantity(r) ==
  /\ At(r, "found") /\ job[r].found > 0
  /\ NewQuantity(r) <= MaxQuantity
  /\ LET p == job[r].product IN
     /\ lines' = [lines EXCEPT ![p] = IF @ > 0 THEN NewQuantity(r) ELSE 0]
     /\ overtaken' = (IF lines[p] > 0 THEN overtaken \cup Reading({p}) ELSE overtaken) \ {r}
     /\ wanted' = [wanted EXCEPT ![p] =
          IF lines[p] = 0 THEN @
          ELSE IF job[r].kind = "set" THEN job[r].amount
          ELSE IF r \in overtaken \/ @ = Unknown THEN Unknown
          ELSE @ + job[r].amount]
  /\ End(r)

(* INSERT where no row was found; the unique index refuses it if there is one by now.
   It adds to an empty line, whatever has happened to the line in between. *)
Create(r) ==
  LET p == job[r].product IN
  /\ At(r, "found") /\ job[r].found = 0
  /\ lines[p] = 0
  /\ NewQuantity(r) <= MaxQuantity
  /\ lines' = [lines EXCEPT ![p] = NewQuantity(r)]
  /\ overtaken' = (overtaken \cup Reading({p})) \ {r}
  /\ wanted' = [wanted EXCEPT ![p] = IF @ = Unknown THEN Unknown ELSE @ + job[r].amount]
  /\ End(r)

-----------------------------------------------------------------------------
(* The requests that are one DELETE.                                       *)

(* DELETE of the lines of S: whoever has read one of them is overtaken. *)
DeleteLines(S) ==
  /\ lines' = [p \in Product |-> IF p \in S THEN 0 ELSE lines[p]]
  /\ overtaken' = overtaken \cup Reading({p \in S : lines[p] > 0})
  /\ wanted' = [p \in Product |-> IF p \in S THEN 0 ELSE wanted[p]]
  /\ UNCHANGED <<shelf, job>>

RemoveFromCart == \E p \in Product : DeleteLines({p})

ClearCart == DeleteLines(Product)

(* CreateOrderAtomic commits: it deletes the lines of the products the order names,
   whatever they hold by now.  The basket comes from the request, not from the cart. *)
CheckOut == \E S \in SUBSET Product : S # {} /\ DeleteLines(S)

(* A sync, a webhook or an order puts a product on sale or takes it off. *)
Stocktake(p) ==
  /\ \E s \in {"hidden", "sold"} : shelf' = [shelf EXCEPT ![p] = s]
  /\ UNCHANGED <<lines, job, overtaken, wanted>>

RequestStep(r) ==
  Check(r) \/ ReadLine(r) \/ GiveUp(r) \/ UpdateQuantity(r) \/ Create(r)

Next ==
  \/ \E r \in Request : RequestStep(r)
  \/ RemoveFromCart \/ ClearCart \/ CheckOut
  \/ \E p \in Product : Stocktake(p)

Spec == Init /\ [][Next]_vars

-----------------------------------------------------------------------------
(* Properties.                                                             *)

(* A line holds what the requests of the customer, one after another, make of it: an
   add adds to what is there, a change replaces it, a removal or a checkout leaves
   nothing.  Only an add that was overtaken between its SELECT and its UPDATE spoils a line
   (usecase/cart.go:73-79: it loses the pieces of the other request, or brings back pieces
   that were removed or ordered); the next change or removal puts the line right. *)
LinesAddUp == \A p \in Product : wanted[p] \in {lines[p], Unknown}
=============================================================================
