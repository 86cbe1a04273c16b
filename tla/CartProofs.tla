----------------------------- MODULE CartProofs -----------------------------
(***************************************************************************)
(* Proofs about Cart, for any products, number of requests at a time,      *)
(* amounts and width of the quantity column.                               *)
(***************************************************************************)
EXTENDS Cart, TLAPS

(* A request that nobody has overtaken still holds the quantity of the line. *)
ReadIsCurrent ==
  \A r \in Request : At(r, "found") /\ r \notin overtaken =>
    job[r].found = lines[job[r].product]

CartInv == TypeOK /\ LinesAddUp /\ ReadIsCurrent

(* What a goroutine holds while it serves a request. *)
LEMMA Serving ==
  ASSUME TypeOK, NEW r \in Request, job[r] # NoJob
  PROVE  /\ job[r] \in Job
         /\ job[r].product \in Product /\ job[r].amount \in Nat \ {0}
         /\ job[r].found \in 0..MaxQuantity /\ job[r].found \in Nat
         /\ job[r].kind \in {"add", "set"} /\ job[r].step \in {"checked", "found"}
         /\ NewQuantity(r) \in Nat
  <1>1. job[r] \in Job
    BY DEF TypeOK
  <1>2. /\ job[r].product \in Product /\ job[r].amount \in Nat \ {0}
        /\ job[r].found \in 0..MaxQuantity /\ job[r].found \in Nat
        /\ job[r].kind \in {"add", "set"} /\ job[r].step \in {"checked", "found"}
    <2>1. /\ job[r].product \in Product /\ job[r].amount \in Amount
          /\ job[r].found \in 0..MaxQuantity
          /\ job[r].kind \in {"add", "set"} /\ job[r].step \in {"checked", "found"}
      BY <1>1 DEF Job
    <2>2. Amount \subseteq Nat \ {0} /\ 0..MaxQuantity \subseteq Nat
      BY CartAssumption
    <2> QED BY <2>1, <2>2
  <1>3. NewQuantity(r) \in Nat
    <2>1. job[r].amount \in Nat /\ job[r].found + job[r].amount \in Nat
      BY <1>2
    <2> QED BY <2>1 DEF NewQuantity
  <1> QED BY <1>1, <1>2, <1>3

(* The quantities of a line, in the table and on paper. *)
LEMMA Quantities ==
  ASSUME CartInv, NEW p \in Product
  PROVE  /\ lines[p] \in 0..MaxQuantity /\ lines[p] \in Nat /\ MaxQuantity \in Nat
         /\ wanted[p] = lines[p] \/ wanted[p] = Unknown
         /\ wanted[p] \in (0..MaxQuantity) \cup {Unknown}
         /\ Unknown \notin Nat
  BY CartAssumption DEF CartInv, TypeOK, LinesAddUp

LEMMA InitCart == Init => CartInv
  <1> SUFFICES ASSUME Init PROVE CartInv
    OBVIOUS
  <1>1. TypeOK
    <2>1. 0 \in 0..MaxQuantity
      BY CartAssumption
    <2>2. wanted \in [Product -> (0..MaxQuantity) \cup {Unknown}]
      BY <2>1 DEF Init
    <2> QED BY <2>1, <2>2 DEF Init, TypeOK
  <1>2. LinesAddUp
    <2>1. ASSUME NEW p \in Product PROVE wanted[p] \in {lines[p], Unknown}
      <3>1. wanted = lines
        BY Zenon DEF Init
      <3> QED BY <3>1
    <2> QED BY <2>1, Zenon DEF LinesAddUp
  <1>3. ReadIsCurrent
    BY DEF Init, ReadIsCurrent, At
  <1> QED BY <1>1, <1>2, <1>3 DEF CartInv

-----------------------------------------------------------------------------
(* The steps that write no line.                                           *)

LEMMA CheckKeeps ==
  ASSUME CartInv, NEW r \in Request, Check(r)
  PROVE  CartInv'
  <1>1. PICK kind \in {"add", "set"}, p \in Product, q \in Amount :
          job' = [job EXCEPT ![r] = [step |-> "checked", kind |-> kind,
                                     product |-> p, amount |-> q, found |-> 0]]
    BY DEF Check
  <1>2. UNCHANGED <<lines, shelf, overtaken, wanted>>
    BY DEF Check
  <1> DEFINE j == [step |-> "checked", kind |-> kind, product |-> p, amount |-> q, found |-> 0]
  <1>3. j \in Job /\ j.step = "checked"
    BY CartAssumption DEF Job
  <1>4. TypeOK'
    BY <1>1, <1>2, <1>3 DEF CartInv, TypeOK
  <1>5. ReadIsCurrent'
    <2> SUFFICES ASSUME NEW x \in Request, At(x, "found")', x \notin overtaken'
                 PROVE  job'[x].found = lines'[job'[x].product]
      BY DEF ReadIsCurrent
    <2>1. x # r
      BY <1>1, <1>3 DEF CartInv, TypeOK, At
    <2>2. job'[x] = job[x]
      BY <1>1, <2>1 DEF CartInv, TypeOK
    <2> QED BY <1>2, <2>2 DEF CartInv, ReadIsCurrent, At
  <1> QED BY <1>2, <1>4, <1>5 DEF CartInv, LinesAddUp

(* What is read is what the line holds now. *)
LEMMA ReadLineKeeps ==
  ASSUME CartInv, NEW r \in Request, ReadLine(r)
  PROVE  CartInv'
  <1> DEFINE p == job[r].product
             j == [job[r] EXCEPT !.step = "found", !.found = lines[p]]
  <1>1. /\ job' = [job EXCEPT ![r] = j] /\ UNCHANGED <<lines, shelf, overtaken, wanted>>
        /\ job[r] # NoJob
    BY DEF ReadLine, At, CartInv, TypeOK
  <1>2. job[r] \in Job /\ p \in Product
    BY <1>1, Serving DEF CartInv
  <1>3. j \in Job /\ j.found = lines[p] /\ j.product = p
    BY <1>2, Quantities DEF Job
  <1>4. TypeOK'
    BY <1>1, <1>3 DEF CartInv, TypeOK
  <1>5. ReadIsCurrent'
    <2> SUFFICES ASSUME NEW x \in Request, At(x, "found")', x \notin overtaken'
                 PROVE  job'[x].found = lines'[job'[x].product]
      BY DEF ReadIsCurrent
    <2>1. CASE x = r
      BY <1>1, <1>3, <2>1 DEF CartInv, TypeOK
    <2>2. CASE x # r
      <3>1. job'[x] = job[x]
        BY <1>1, <2>2 DEF CartInv, TypeOK
      <3> QED BY <1>1, <3>1 DEF CartInv, ReadIsCurrent, At
    <2> QED BY <2>1, <2>2
  <1> QED BY <1>1, <1>4, <1>5 DEF CartInv, LinesAddUp

(* Whoever ends holds nothing; the others hold what they held. *)
LEMMA Ended ==
  ASSUME TypeOK, NEW r \in Request, End(r)
  PROVE  /\ job' \in [Request -> Job \cup {NoJob}] /\ shelf' = shelf
         /\ job'[r] = NoJob
         /\ \A x \in Request \ {r} : job'[x] = job[x]
  BY DEF End, TypeOK

LEMMA GiveUpKeeps ==
  ASSUME CartInv, NEW r \in Request, GiveUp(r)
  PROVE  CartInv'
  <1>1. /\ End(r) /\ UNCHANGED <<lines, wanted>> /\ overtaken' = overtaken \ {r}
    BY DEF GiveUp
  <1>2. TypeOK'
    BY <1>1, Ended DEF CartInv, TypeOK
  <1>3. ReadIsCurrent'
    <2> SUFFICES ASSUME NEW x \in Request, At(x, "found")', x \notin overtaken'
                 PROVE  job'[x].found = lines'[job'[x].product]
      BY DEF ReadIsCurrent
    <2>1. x # r /\ job'[x] = job[x]
      BY <1>1, Ended DEF CartInv, At
    <2> QED BY <1>1, <2>1 DEF CartInv, ReadIsCurrent, At
  <1> QED BY <1>1, <1>2, <1>3 DEF CartInv, LinesAddUp

LEMMA StocktakeKeeps ==
  ASSUME CartInv, NEW p \in Product, Stocktake(p)
  PROVE  CartInv'
  BY DEF CartInv, TypeOK, LinesAddUp, ReadIsCurrent, At, Stocktake

-----------------------------------------------------------------------------
(* The steps that write a line.                                            *)

(* One line is written by a request that ends; whoever has read it is overtaken. *)
LEMMA WriteKeepsReads ==
  ASSUME CartInv, NEW r \in Request, End(r), NEW p \in Product, NEW q,
         lines' = [lines EXCEPT ![p] = q],
         \/ overtaken' = (overtaken \cup Reading({p})) \ {r}
         \/ lines' = lines /\ overtaken' = overtaken \ {r}
  PROVE  ReadIsCurrent'
  <1> SUFFICES ASSUME NEW x \in Request, At(x, "found")', x \notin overtaken'
               PROVE  job'[x].found = lines'[job'[x].product]
    BY DEF ReadIsCurrent
  <1>1. x # r /\ job'[x] = job[x]
    BY Ended DEF CartInv, At
  <1>2. At(x, "found") /\ x \notin overtaken
    BY <1>1 DEF At
  <1>3. job[x].product \in Product /\ job[x].found = lines[job[x].product]
    BY <1>2, Serving DEF CartInv, ReadIsCurrent, At
  <1>4. CASE lines' = lines
    BY <1>1, <1>3, <1>4
  <1>5. CASE overtaken' = (overtaken \cup Reading({p})) \ {r}
    <2>1. job[x].product # p
      BY <1>1, <1>2, <1>5 DEF Reading
    <2>2. lines'[job[x].product] = lines[job[x].product]
      BY <1>3, <2>1 DEF CartInv, TypeOK
    <2> QED BY <1>1, <1>3, <2>2
  <1> QED BY <1>4, <1>5

LEMMA UpdateKeeps ==
  ASSUME CartInv, NEW r \in Request, UpdateQuantity(r)
  PROVE  CartInv'
  <1> DEFINE p == job[r].product
  <1>1. /\ At(r, "found") /\ job[r] # NoJob /\ End(r) /\ NewQuantity(r) <= MaxQuantity
        /\ lines' = [lines EXCEPT ![p] = IF lines[p] > 0 THEN NewQuantity(r) ELSE 0]
        /\ overtaken' = (IF lines[p] > 0 THEN overtaken \cup Reading({p}) ELSE overtaken) \ {r}
        /\ wanted' = [wanted EXCEPT ![p] =
             IF lines[p] = 0 THEN wanted[p]
             ELSE IF job[r].kind = "set" THEN job[r].amount
             ELSE IF r \in overtaken \/ wanted[p] = Unknown THEN Unknown
             ELSE wanted[p] + job[r].amount]
    BY DEF UpdateQuantity, At, CartInv, TypeOK
  <1>2. /\ p \in Product /\ job[r].amount \in Nat \ {0} /\ job[r].kind \in {"add", "set"}
        /\ NewQuantity(r) \in 0..MaxQuantity
    BY <1>1, Serving, CartAssumption DEF CartInv
  <1>3. lines' \in [Product -> 0..MaxQuantity] /\ \A x \in Product \ {p} : lines'[x] = lines[x]
    BY <1>1, <1>2, Quantities DEF CartInv, TypeOK
  <1>4. /\ wanted' = [wanted EXCEPT ![p] = wanted'[p]]
        /\ \A x \in Product \ {p} : wanted'[x] = wanted[x]
    BY <1>1, <1>2 DEF CartInv, TypeOK
  <1>5. wanted'[p] \in {lines'[p], Unknown}
    <2>1. lines'[p] = IF lines[p] > 0 THEN NewQuantity(r) ELSE 0
      BY <1>1, <1>2 DEF CartInv, TypeOK
    <2>2. wanted'[p] = IF lines[p] = 0 THEN wanted[p]
             ELSE IF job[r].kind = "set" THEN job[r].amount
             ELSE IF r \in overtaken \/ wanted[p] = Unknown THEN Unknown
             ELSE wanted[p] + job[r].amount
      BY <1>1, <1>2 DEF CartInv, TypeOK
    <2>3. CASE lines[p] = 0
      BY <1>2, <2>1, <2>2, <2>3, Quantities
    <2>4. CASE lines[p] # 0 /\ job[r].kind = "set"
      BY <1>2, <2>1, <2>2, <2>4, Quantities DEF NewQuantity
    <2>5. CASE lines[p] # 0 /\ job[r].kind = "add"
      <3>1. r \notin overtaken => job[r].found = lines[p]
        BY <1>1 DEF CartInv, ReadIsCurrent
      <3> QED BY <1>2, <2>1, <2>2, <2>5, <3>1, Quantities DEF NewQuantity
    <2> QED BY <1>2, <2>3, <2>4, <2>5
  <1>6. wanted' \in [Product -> 0..MaxQuantity \cup {Unknown}]
    <2>1. wanted'[p] \in 0..MaxQuantity \cup {Unknown}
      BY <1>2, <1>3, <1>5
    <2> QED BY <1>2, <1>4, <2>1 DEF CartInv, TypeOK
  <1>7. LinesAddUp'
    BY <1>3, <1>4, <1>5 DEF CartInv, LinesAddUp
  <1>8. TypeOK'
    <2>1. overtaken' \subseteq Request
      BY <1>1 DEF CartInv, TypeOK, Reading
    <2> QED BY <1>1, <1>3, <1>6, <2>1, Ended DEF CartInv, TypeOK
  <1>9. ReadIsCurrent'
    <2>1. CASE lines[p] > 0
      BY <1>1, <1>2, <2>1, WriteKeepsReads
    <2>2. CASE lines[p] = 0
      <3>1. lines' = lines /\ overtaken' = overtaken \ {r}
        BY <1>1, <1>2, <2>2 DEF CartInv, TypeOK
      <3> QED BY <1>1, <1>2, <3>1, WriteKeepsReads
    <2> QED BY <1>2, <2>1, <2>2, Quantities
  <1> QED BY <1>7, <1>8, <1>9 DEF CartInv

LEMMA CreateKeeps ==
  ASSUME CartInv, NEW r \in Request, Create(r)
  PROVE  CartInv'
  <1> DEFINE p == job[r].product
  <1>1. /\ At(r, "found") /\ job[r] # NoJob /\ End(r) /\ NewQuantity(r) <= MaxQuantity
        /\ job[r].found = 0 /\ lines[p] = 0
        /\ lines' = [lines EXCEPT ![p] = NewQuantity(r)]
        /\ overtaken' = (overtaken \cup Reading({p})) \ {r}
        /\ wanted' = [wanted EXCEPT ![p] = IF wanted[p] = Unknown THEN Unknown
                                           ELSE wanted[p] + job[r].amount]
    BY DEF Create, At, CartInv, TypeOK
  <1>2. /\ p \in Product /\ job[r].amount \in Nat \ {0}
        /\ NewQuantity(r) \in 0..MaxQuantity
    BY <1>1, Serving, CartAssumption DEF CartInv
  <1>3. lines' \in [Product -> 0..MaxQuantity] /\ \A x \in Product \ {p} : lines'[x] = lines[x]
    BY <1>1, <1>2 DEF CartInv, TypeOK
  <1>4. /\ wanted' = [wanted EXCEPT ![p] = wanted'[p]]
        /\ \A x \in Product \ {p} : wanted'[x] = wanted[x]
    BY <1>1, <1>2 DEF CartInv, TypeOK
  <1>5. wanted'[p] \in {lines'[p], Unknown}
    <2>1. /\ lines'[p] = NewQuantity(r)
          /\ wanted'[p] = IF wanted[p] = Unknown THEN Unknown ELSE wanted[p] + job[r].amount
      BY <1>1, <1>2 DEF CartInv, TypeOK
    <2>2. NewQuantity(r) = job[r].amount
      BY <1>1, <1>2 DEF NewQuantity
    <2> QED BY <1>1, <1>2, <2>1, <2>2, Quantities
  <1>6. wanted' \in [Product -> 0..MaxQuantity \cup {Unknown}]
    <2>1. wanted'[p] \in 0..MaxQuantity \cup {Unknown}
      BY <1>2, <1>3, <1>5
    <2> QED BY <1>2, <1>4, <2>1 DEF CartInv, TypeOK
  <1>7. LinesAddUp'
    BY <1>3, <1>4, <1>5 DEF CartInv, LinesAddUp
  <1>8. TypeOK'
    <2>1. overtaken' \subseteq Request
      BY <1>1 DEF CartInv, TypeOK, Reading
    <2> QED BY <1>1, <1>3, <1>6, <2>1, Ended DEF CartInv, TypeOK
  <1>9. ReadIsCurrent'
    BY <1>1, <1>2, WriteKeepsReads
  <1> QED BY <1>7, <1>8, <1>9 DEF CartInv

(* A deletion overtakes whoever has read one of the lines that were there. *)
LEMMA DeleteKeeps ==
  ASSUME CartInv, NEW S \in SUBSET Product, DeleteLines(S)
  PROVE  CartInv'
  <1>1. /\ lines' = [p \in Product |-> IF p \in S THEN 0 ELSE lines[p]]
        /\ overtaken' = overtaken \cup Reading({p \in S : lines[p] > 0})
        /\ wanted' = [p \in Product |-> IF p \in S THEN 0 ELSE wanted[p]]
        /\ UNCHANGED <<shelf, job>>
    BY DEF DeleteLines
  <1>2. TypeOK'
    BY <1>1, CartAssumption DEF CartInv, TypeOK, Reading
  <1>3. LinesAddUp'
    BY <1>1 DEF CartInv, LinesAddUp
  <1>4. ReadIsCurrent'
    <2> SUFFICES ASSUME NEW x \in Request, At(x, "found")', x \notin overtaken'
                 PROVE  job'[x].found = lines'[job'[x].product]
      BY DEF ReadIsCurrent
    <2>1. job'[x] = job[x] /\ At(x, "found") /\ x \notin overtaken
      BY <1>1 DEF At
    <2> DEFINE p == job[x].product
    <2>2. p \in Product /\ job[x].found = lines[p]
      BY <2>1, Serving DEF CartInv, ReadIsCurrent, At
    <2>3. p \in S => lines[p] = 0
      BY <1>1, <2>1, <2>2, Quantities DEF Reading
    <2>4. lines'[p] = lines[p]
      BY <1>1, <2>2, <2>3
    <2> QED BY <2>1, <2>2, <2>4
  <1> QED BY <1>2, <1>3, <1>4 DEF CartInv

-----------------------------------------------------------------------------
(* Theorems.                                                               *)

LEMMA StepKeeps == CartInv /\ [Next]_vars => CartInv'
  <1> SUFFICES ASSUME CartInv, [Next]_vars PROVE CartInv'
    OBVIOUS
  <1>1. ASSUME NEW r \in Request, RequestStep(r) PROVE CartInv'
    BY <1>1, CheckKeeps, ReadLineKeeps, GiveUpKeeps, UpdateKeeps, CreateKeeps DEF RequestStep
  <1>2. CASE RemoveFromCart
    BY <1>2, DeleteKeeps DEF RemoveFromCart
  <1>3. CASE ClearCart
    BY <1>3, DeleteKeeps DEF ClearCart
  <1>4. CASE CheckOut
    BY <1>4, DeleteKeeps DEF CheckOut
  <1>5. ASSUME NEW p \in Product, Stocktake(p) PROVE CartInv'
    BY <1>5, StocktakeKeeps
  <1>6. CASE UNCHANGED vars
    BY <1>6 DEF vars, CartInv, TypeOK, LinesAddUp, ReadIsCurrent, At
  <1> QED BY <1>1, <1>2, <1>3, <1>4, <1>5, <1>6 DEF Next

(* The invariant of the cart: types, lines that add up, and readings that are current
   until somebody overtakes them. *)
THEOREM CartInvariant == Spec => []CartInv
  BY InitCart, StepKeeps, PTL DEF Spec

(* Every variable keeps its type: a quantity never leaves its column. *)
THEOREM CartTyped == Spec => []TypeOK
  <1>1. CartInv => TypeOK
    BY DEF CartInv
  <1> QED BY <1>1, CartInvariant, PTL

(* For any number of tabs and checkouts at a time: a line holds what the requests make of
   it one after another, unless an add was overtaken since it read the line. *)
THEOREM LinesAddUpAlways == Spec => []LinesAddUp
  <1>1. CartInv => LinesAddUp
    BY DEF CartInv
  <1> QED BY <1>1, CartInvariant, PTL
=============================================================================
