--------------------------- MODULE DayPromotions ---------------------------
(***************************************************************************)
(* Promotions from MoySklad to the checkout: the import of special-price   *)
(* discounts (services/moysklad_promotions_sync.go), started by a ten-     *)
(* minute loop and after every full sync (services/scheduler.go), the      *)
(* import of the folder tree (services/moysklad_sync.go), edits by admins  *)
(* (handlers/promotions.go) and the reservation window of an order         *)
(* (usecase/promotion_pricing.go, usecase/order.go).                       *)
(* Every category comes from one folder, and names of folders are unique.  *)
(***************************************************************************)
EXTENDS PromotionCatalog

CONSTANTS Syncs,      \* goroutines that import promotions
          Loop,       \* the one of runPromotionsSyncLoop; it runs for ever
          Offers,     \* what MoySklad may say of each discount
          Absent,     \* "not among the discounts MoySklad lists"
          Tree,       \* parents of the folders in MoySklad
          OldTrees,   \* parents earlier imports may have left in the table
          Baskets,    \* sets of products ordered together
          MaxEvents   \* bound: edits, failures, closing times, full syncs

Offer == [active  : BOOLEAN,
          percent : Percents,
          goods   : SUBSET Goods,   \* assortment
          cats    : SUBSET Cats]    \* productFolders

ASSUME DayPromotionsAssumption ==
  /\ Loop \in Syncs
  /\ Offers \in [Discounts -> SUBSET Offer]
  /\ Absent \notin Offer
  /\ Tree \in [Cats -> Cats \cup {NoCat}]
  /\ OldTrees \subseteq [Cats -> Cats \cup {NoCat}]
  /\ Baskets \subseteq (SUBSET Goods) \ {{}}
  /\ MaxEvents \in Nat

VARIABLES
  offer,    \* the discounts MoySklad lists
  gone,     \* history: cut-offs since a discount was last listed, at most 2
  row,      \* promotions with their links, by id
  parent,   \* categories_parent_id_fk
  known,    \* folders in folderDBIDByUUID
  job,      \* what each importing goroutine is doing
  req,      \* an order on its way through CreateOrder
  events    \* edits, failures, closing times and full syncs so far

vars == <<offer, gone, row, parent, known, job, req, events>>

(* A job keeps the discounts still to be handled, the one in hand (at) with
   the id of its row (0: none found), and the cut-offs since it fetched the
   list (age) and since it read the clock for this discount (now). *)
Job == [pc   : {"idle", "next", "write", "goods", "cats"},
        todo : [Discounts -> Offer \cup {Absent}],
        at   : Discounts \cup {NoDiscount},
        id   : 0..MaxRow,
        age  : 0..1,
        now  : 0..1]
Between(pc, list, age) ==
  [pc |-> pc, todo |-> list, at |-> NoDiscount, id |-> 0, age |-> age, now |-> 0]
IdleJob == Between("idle", [d \in Discounts |-> Absent], 0)

(* An order between the window check and the deadline: its products (none:
   nothing under way), the cut-offs since its now, and the end of the
   reservation of the order saved last. *)
Request == [goods : SUBSET Goods, age : 0..1, until : {"closing", "days"}]
NoRequest == [goods |-> {}, age |-> 0, until |-> "days"]

TypeOK ==
  /\ offer \in [Discounts -> Offer \cup {Absent}]
  /\ gone \in [Discounts -> 0..2]
  /\ row \in [Id -> Promotion \cup {NoRow, Deleted}]
  /\ parent \in [Cats -> Cats \cup {NoCat}]
  /\ known \subseteq Cats
  /\ job \in [Syncs -> Job]
  /\ req \in Request
  /\ events \in 0..MaxEvents

(* No promotion imported yet; the categories may come from earlier imports. *)
Init ==
  /\ offer \in {o \in [Discounts -> Offer \cup {Absent}] :
                  \A d \in Discounts : o[d] \in Offers[d] \cup {Absent}}
  /\ gone = [d \in Discounts |-> IF offer[d] = Absent THEN 2 ELSE 0]
  /\ row = [i \in Id |-> NoRow]
  /\ parent \in OldTrees
  /\ known = {}
  /\ job = [s \in Syncs |-> IdleJob]
  /\ req = NoRequest
  /\ events = 0

Counted == events < MaxEvents /\ events' = events + 1
Fault   == Counted
NoFault == events' = events

(***************************************************************************)
(* MoySklad and the calendar                                               *)
(***************************************************************************)
Reoffer(d) ==
  /\ Counted
  /\ \E o \in (Offers[d] \cup {Absent}) \ {offer[d]} :
       /\ offer' = [offer EXCEPT ![d] = o]
       /\ gone' = [gone EXCEPT ![d] = IF o = Absent THEN @ ELSE 0]
  /\ UNCHANGED <<row, parent, known, job, req>>

(* Faulty variant: counts on. *)
Later_Uncapped(n) == n + 1

Later(n) == IF n < 2 THEN n + 1 ELSE 2

Older(j) ==
  [pc |-> j.pc, todo |-> j.todo, at |-> j.at, id |-> j.id, age |-> 1, now |-> 1]

(* The shop closes. An import ends within five minutes, a request sooner:
   none of them sees two closing times. *)
Cutoff ==
  /\ Counted
  /\ \A s \in Syncs : job[s].pc # "idle" => job[s].age = 0
  /\ req.age = 0
  /\ row' = [i \in Id |-> IF i \in Stored(row) THEN [row[i] EXCEPT !.ago = Later(@)] ELSE row[i]]
  /\ gone' = [d \in Discounts |-> IF offer[d] = Absent THEN Later(gone[d]) ELSE 0]
  /\ job' = [s \in Syncs |-> IF job[s].pc = "idle" THEN job[s] ELSE Older(job[s])]
  /\ req' = IF req.goods = {} THEN req ELSE [req EXCEPT !.age = 1]
  /\ UNCHANGED <<offer, parent, known>>

(***************************************************************************)
(* The folder tree                                                         *)
(***************************************************************************)
(* syncCategoriesFromMoysklad: the folders whose upsert succeeds (ok) get
   their category and are known; those of them whose SetParent succeeds too
   (set) get their parent, if it is known. A parent is only ever set, never
   cleared. *)
ImportTree(ok, set) ==
  /\ parent' = [c \in Cats |-> IF c \in set /\ Tree[c] \in ok
                               THEN Tree[c] ELSE parent[c]]
  /\ known' = ok
  /\ UNCHANGED <<offer, gone, row, job, req>>

RefreshCategories == ImportTree(Cats, Cats) /\ NoFault
RefreshPartly == \E ok \in SUBSET Cats : \E set \in SUBSET ok : ImportTree(ok, set) /\ Fault

(***************************************************************************)
(* SyncPromotions                                                          *)
(***************************************************************************)
Idle(s) == job[s].pc = "idle"

Fetch(s) ==
  /\ Idle(s)
  /\ job' = [job EXCEPT ![s] = Between("next", offer, 0)]
  /\ IF s = Loop THEN UNCHANGED events ELSE Counted
  /\ UNCHANGED <<offer, gone, row, parent, known, req>>

RowsOf(d) == {i \in Stored(row) : row[i].mid = d}

(* continue: on to the next discount. *)
NextDiscount(s) ==
  job' = [job EXCEPT ![s] = Between("next", [@.todo EXCEPT ![job[s].at] = Absent], @.age)]

(* Discount d in hand, with the id of its row and the time read for it. *)
Holding(s, pc, d, id, now) ==
  [pc |-> pc, todo |-> job[s].todo, at |-> d, id |-> id, age |-> job[s].age, now |-> now]

(* GetByMoyskladID, then now := time.Now(). *)
Lookup(s, d) ==
  /\ job[s].pc = "next" /\ job[s].todo[d] # Absent
  /\ \E i \in IF RowsOf(d) = {} THEN {0} ELSE RowsOf(d) :
       job' = [job EXCEPT ![s] = Holding(s, "write", d, i, 0)]
  /\ UNCHANGED <<offer, gone, row, parent, known, req, events>>

LookupFails(s, d) ==
  /\ job[s].pc = "next" /\ job[s].todo[d] # Absent
  /\ job' = [job EXCEPT ![s].todo[d] = Absent]
  /\ Fault
  /\ UNCHANGED <<offer, gone, row, parent, known, req>>

InHand(s) == job[s].todo[job[s].at]

(* Faulty variant: an update leaves valid_from as it is. *)
Imported_KeepsWindow(s, old) ==
  [mid |-> job[s].at, active |-> InHand(s).active, percent |-> InHand(s).percent,
   kind |-> "day", ago |-> IF old.mid = NoDiscount THEN job[s].now ELSE old.ago,
   goods |-> old.goods, cats |-> old.cats]

(* The columns upsertPromotion sets; links stay. *)
Imported(s, old) ==
  [mid |-> job[s].at, active |-> InHand(s).active, percent |-> InHand(s).percent,
   kind |-> "day", ago |-> job[s].now, goods |-> old.goods, cats |-> old.cats]
NoLinks == [mid |-> NoDiscount, goods |-> {}, cats |-> {}]

IsNext(i) == row[i] = NoRow /\ \A j \in Id : j < i => row[j] # NoRow

(* promotions_moysklad_id_uniq *)
Unique(s) == RowsOf(job[s].at) \subseteq {job[s].id}

Insert(s) ==
  /\ job[s].pc = "write" /\ job[s].id = 0 /\ Unique(s)
  /\ \E i \in Id : /\ IsNext(i)
                   /\ row' = [row EXCEPT ![i] = Imported(s, NoLinks)]
                   /\ job' = [job EXCEPT ![s] = Holding(s, "goods", @.at, i, @.now)]
  /\ UNCHANGED <<offer, gone, parent, known, req, events>>

Update(s) ==
  /\ job[s].pc = "write" /\ job[s].id \in Stored(row) /\ Unique(s)
  /\ row' = [row EXCEPT ![job[s].id] = Imported(s, row[job[s].id])]
  /\ job' = [job EXCEPT ![s].pc = "goods"]
  /\ UNCHANGED <<offer, gone, parent, known, req, events>>

(* The index refuses the row, the row was deleted meanwhile, or the query
   fails: logged, and on to the next discount. *)
UpsertFails(s) ==
  /\ job[s].pc = "write"
  /\ \/ /\ NoFault
        /\ ~Unique(s) \/ (job[s].id # 0 /\ job[s].id \notin Stored(row))
     \/ Fault
  /\ NextDiscount(s)
  /\ UNCHANGED <<offer, gone, row, parent, known, req>>

(* ReplaceProductLinks. A product that cannot be looked up is left out; a
   failed transaction or a deleted row leaves the old links. *)
LinkGoods(s) ==
  /\ job[s].pc = "goods"
  /\ \/ /\ NoFault
        /\ row' = IF job[s].id \in Stored(row)
                  THEN [row EXCEPT ![job[s].id].goods = InHand(s).goods] ELSE row
     \/ /\ Fault
        /\ \/ row' = row
           \/ /\ job[s].id \in Stored(row)
              /\ \E found \in SUBSET InHand(s).goods :
                   row' = [row EXCEPT ![job[s].id].goods = found]
  /\ job' = [job EXCEPT ![s].pc = "cats"]
  /\ UNCHANGED <<offer, gone, parent, known, req>>

(* ReplaceCategoryLinks with the folders the last import of the tree knew. *)
LinkCats(s) ==
  /\ job[s].pc = "cats"
  /\ \/ /\ NoFault
        /\ row' = IF job[s].id \in Stored(row)
                  THEN [row EXCEPT ![job[s].id].cats = InHand(s).cats \cap known] ELSE row
     \/ Fault /\ row' = row
  /\ NextDiscount(s)
  /\ UNCHANGED <<offer, gone, parent, known, req>>

Finish(s) ==
  /\ job[s].pc = "next" /\ \A d \in Discounts : job[s].todo[d] = Absent
  /\ job' = [job EXCEPT ![s] = IdleJob]
  /\ UNCHANGED <<offer, gone, row, parent, known, req, events>>

SyncStep(s) ==
  \/ \E d \in Discounts : Lookup(s, d) \/ LookupFails(s, d)
  \/ Insert(s) \/ Update(s) \/ UpsertFails(s) \/ LinkGoods(s) \/ LinkCats(s) \/ Finish(s)

(***************************************************************************)
(* Admins, the process                                                     *)
(***************************************************************************)
(* Bound MaxRow: ids must be left for the discounts without a row. *)
SpareId == Cardinality({d \in Discounts : RowsOf(d) = {}})
             < Cardinality({i \in Id : row[i] = NoRow})

DeletePromotion(i) ==
  /\ i \in Stored(row) /\ SpareId /\ Counted
  /\ row' = [row EXCEPT ![i] = Deleted]
  /\ UNCHANGED <<offer, gone, parent, known, job, req>>

Edited(r, d, a, p, k) ==
  [mid |-> d, active |-> a, percent |-> p, kind |-> k, ago |-> r.ago,
   goods |-> r.goods, cats |-> r.cats]

(* UpdatePromotion writes every column from the request, the kind among them.
   A request sends the MoySklad columns of the row back as they are, valid_from
   included, or leaves them out, and then the id is lost. *)
UpdatePromotion(i) ==
  /\ i \in Stored(row) /\ Counted
  /\ \E a \in BOOLEAN, p \in Percents :
       \/ \E k \in {"day", "manual"} :
            row' = [row EXCEPT ![i] = Edited(row[i], row[i].mid, a, p, k)]
       \/ SpareId /\ row' = [row EXCEPT ![i] = Edited(row[i], NoDiscount, a, p, "manual")]
  /\ UNCHANGED <<offer, gone, parent, known, job, req>>

Restart ==
  /\ Fault
  /\ known' = {}
  /\ job' = [s \in Syncs |-> IdleJob] /\ req' = NoRequest
  /\ UNCHANGED <<offer, gone, row, parent>>

(***************************************************************************)
(* CreateOrder                                                             *)
(***************************************************************************)

(* The promotions Postgres may return as the best of each product. *)
Bests(gs) == {BestOnGood(row, g) : g \in gs} \ {{}}

(* Faulty variant: takes the next reservation day for this one. *)
ForDay_Tomorrow(age) ==
  {i \in Stored(row) : row[i].kind = "day" /\ Applies(row[i], age + 1)}

(* Day promotions in their window, and out of it, for a reader whose now is
   age cut-offs ago. *)
ForDay(age) == {i \in Stored(row) : row[i].kind = "day" /\ Applies(row[i], age)}
Lapsed(age) == {i \in Stored(row) : row[i].kind = "day" /\ ~Applies(row[i], age)}

(* now, and CheckDayPromotionWindow: a lapsed day promotion that is still the
   best of its product refuses the order; a failed query does not. *)
CheckDayPromotionWindow(gs) ==
  /\ req.goods = {}
  /\ \/ NoFault /\ \A best \in Bests(gs) : ~(best \subseteq Lapsed(0))
     \/ Fault
  /\ req' = [NoRequest EXCEPT !.goods = gs]
  /\ UNCHANGED <<offer, gone, row, parent, known, job>>

Reserve(until) == req' = [NoRequest EXCEPT !.until = until]

(* DayPromotionDeadline and the order with its reservation: to the closing
   time of the window of now, or three days, also when the query failed. *)
DayPromotionDeadline ==
  /\ req.goods # {}
  /\ \/ /\ NoFault /\ Reserve("closing")
        /\ \E best \in Bests(req.goods) : best \cap ForDay(req.age) # {}
     \/ /\ NoFault /\ Reserve("days")
        /\ \A best \in Bests(req.goods) : ~(best \subseteq ForDay(req.age))
     \/ Fault /\ Reserve("days")
  /\ UNCHANGED <<offer, gone, row, parent, known, job>>

Next ==
  \/ \E d \in Discounts : Reoffer(d)
  \/ Cutoff
  \/ RefreshCategories \/ RefreshPartly
  \/ \E s \in Syncs : Fetch(s) \/ SyncStep(s)
  \/ \E i \in Id : DeletePromotion(i) \/ UpdatePromotion(i)
  \/ Restart
  \/ \E gs \in Baskets : CheckDayPromotionWindow(gs)
  \/ DayPromotionDeadline

Spec == Init /\ [][Next]_vars

(* The loop comes back every ten minutes, a delta or full sync imports the
   tree again and again, a started import goes on. *)
Fairness ==
  /\ WF_vars(Fetch(Loop))
  /\ \A s \in Syncs : WF_vars(SyncStep(s))
  /\ WF_vars(RefreshCategories)

FairSpec == Spec /\ Fairness

(***************************************************************************)
(* Properties                                                              *)
(***************************************************************************)
Acyclic == \A c \in Cats : ~Endless(parent, {c})

(* With current ancestors, or none at all, and a folder tree without a cycle,
   the promotions page lists every product that any page sells at a reduced
   price: walking up with a depth limit, as the price does, and down in SQL,
   as the list does, find the same promotions (promotion_catalog.go:77-156
   against promotion_pricing.go:52-146). *)
ListingComplete ==
  Acyclic => \A anc \in {NoMap, AncestorMap(parent)}, g \in Goods :
               Discounted(row, anc, g) => g \in Listing(row, parent, anc)

(* Ancestors are cached for five minutes and nobody calls
   InvalidateCategoryCache: they may be those of any earlier tree. *)
CachedMaps == {NoMap} \cup {AncestorMap(p) : p \in [Cats -> Cats \cup {NoCat}]}

(* Every listed product of some category is found under one of the category
   filters the page offers, also while the ancestors it is priced with are
   out of date (promotion_catalog.go:115-124, 161-197). *)
FiltersCover ==
  Acyclic => \A anc \in CachedMaps : \A g \in Listing(row, parent, anc) :
    CatOf[g] # NoCat => \E c \in OfferedFilters(row) : InFilter(parent, c, g)

(* A discount withdrawn in MoySklad is in force for at most one more
   reservation day, whichever imports were under way and whatever failed,
   although nothing ever deactivates its row: an import holds a list from
   before at most one cut-off (moysklad_promotions_sync.go:39-152,
   promotionwindow.go:99-109). A row to which an admin
   gives another kind has no day; one whose valid_from an admin moves is not followed. *)
WithdrawnFades ==
  \A i \in Live(row) : row[i].kind = "day" /\ row[i].mid # NoDiscount => gone[row[i].mid] <= 1

(* Why withdrawn discounts fade: a list in the hands of an import is older
   than no more cut-offs than the import itself, and a row's window at most
   one cut-off older than its discount's withdrawal. *)
ListedNotGone == \A d \in Discounts : offer[d] # Absent => gone[d] = 0
ListsRecent == \A s \in Syncs, d \in Discounts :
  job[s].todo[d] # Absent => gone[d] <= job[s].age
HasInHand == \A s \in Syncs : job[s].pc \in {"write", "goods", "cats"} =>
  job[s].at \in Discounts /\ InHand(s) # Absent
IdleEmpty == \A s \in Syncs : Idle(s) => job[s] = IdleJob
RowsFade == \A i \in Stored(row) :
  row[i].mid # NoDiscount => gone[row[i].mid] <= row[i].ago + 1

FadeInv == TypeOK /\ ListedNotGone /\ ListsRecent /\ HasInHand /\ IdleEmpty /\ RowsFade

(* The price the catalogue shows, with up-to-date ancestors: of either level,
   or certainly of a day promotion of the product itself. *)
DayPriced(g) == \E i \in Outcomes(row, AncestorMap(parent), g) : row[i].kind = "day"
DayDirect(g) == /\ DirectOutcomes(row, g) # {}
                /\ \A i \in BestOnGood(row, g) : Usable(row, i) /\ row[i].kind = "day"

Reserves == req.goods # {} /\ req'.goods = {} /\ req.age = 0 /\ events' = events

(* An order for a product that a day promotion of its own prices, taken while
   the shop is open, ends at the closing time unless the query failed: price
   and reservation, computed by different queries and filters, agree on the
   product level (promotion_pricing.go:117-121, 224-242, order.go:113-162). *)
DayOrderBounded ==
  [][Reserves /\ (\E g \in req.goods : DayDirect(g)) => req'.until = "closing"]_vars

(* promotion_pricing.go:222: the reservation of an order with a day promotion
   must not outlive the day. Stated for what the customer is shown: a day
   price of either level. *)
DayPricedOrderBounded ==
  [][Reserves /\ (\E g \in req.goods : DayPriced(g)) => req'.until = "closing"]_vars

Mirrored(d) ==
  \E i \in Stored(row) : row[i] = [mid   |-> d, active |-> offer[d].active,
                                   percent |-> offer[d].percent, kind |-> "day", ago |-> 0,
                                   goods |-> offer[d].goods, cats |-> offer[d].cats]

(* Once edits, faults and closing times pause, every discount MoySklad lists
   gets its row, with its links, in force for the current day, and keeps it:
   whatever overlapping imports with old lists, half-done links, restarts
   that forget the folders or edits by admins left behind is repaired
   (moysklad_promotions_sync.go, scheduler.go:94-136, 365-378). *)
EventuallyMirrored ==
  <>[](\A d \in Discounts : offer[d] # Absent => Mirrored(d))
=============================================================================
