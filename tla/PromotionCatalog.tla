-------------------------- MODULE PromotionCatalog --------------------------
(***************************************************************************)
(* Which promotion prices a product and which products the promotions page *)
(* lists: usecase/promotion_pricing.go, usecase/promotion_catalog.go,      *)
(* services/promotionwindow.go and the queries of db/promotion_links.go,   *)
(* db/categories.go and db/products.go they are built from. Operators over *)
(* the table promotions (rows), the parents of the categories (parent) and *)
(* the cached ancestors (anc); no state of its own.                        *)
(*                                                                         *)
(* ReservationDate is constant between two closing times ("cut-offs": 18:00*)
(* or 16:00 in Moscow) and grows by a day at each, so the calendar is a    *)
(* number of cut-offs: a row knows how many have passed since valid_from   *)
(* (ago, at most 2: "long ago"), a reader how many since its own now (age).*)
(* Products are active; start_date and end_date are never set by the sync. *)
(***************************************************************************)
EXTENDS Integers, FiniteSets

CONSTANTS Goods,      \* products
          Cats,       \* categories
          NoCat,      \* NULL: of products without category, parent of roots
          CatOf,      \* category of each product
          PriceOf,    \* base price of each product, in kopecks
          Percents,   \* discounts that occur
          Discounts,  \* ids of special-price discounts in MoySklad
          NoDiscount, \* NULL promotions_moysklad_id
          Depth,      \* maxDepth of AncestorMap (32)
          MaxRow,     \* bound: rows ever inserted into promotions
          NoRow,      \* an id not used yet
          Deleted,    \* an id whose row was deleted
          NoMap       \* no ancestor map (the query failed)

ASSUME CatalogAssumption ==
  /\ IsFiniteSet(Cats) /\ IsFiniteSet(Goods)
  /\ NoCat \notin Cats
  /\ CatOf \in [Goods -> Cats \cup {NoCat}]
  /\ PriceOf \in [Goods -> Nat]
  /\ Percents \subseteq Nat
  /\ NoDiscount \notin Discounts
  /\ Depth \in Nat /\ MaxRow \in Nat

Id == 1..MaxRow
Promotion == [mid     : Discounts \cup {NoDiscount},
              active  : BOOLEAN,
              percent : Percents,
              kind    : {"day", "manual"},
              ago     : 0..2,
              goods   : SUBSET Goods,   \* promotion_products
              cats    : SUBSET Cats]    \* promotion_categories

ASSUME NoRowAssumption == NoRow \notin Promotion /\ Deleted \notin Promotion /\ NoRow # Deleted

Stored(rows) == {i \in Id : rows[i] \notin {NoRow, Deleted}}

(***************************************************************************)
(* The reservation window                                                  *)
(***************************************************************************)
(* Faulty variant: not before its day, instead of on it. *)
Applies_NotAfter(r, age) == r.active /\ (r.kind = "day" => r.ago >= age)

(* PromotionAppliesForReservation: a day promotion counts on the
   reservation day of its valid_from only. *)
Applies(r, age) == r.active /\ (r.kind = "day" => r.ago = age)

(* What GetActive and FilterPromotionsForReservation leave. *)
Live(rows) == {i \in Stored(rows) : Applies(rows[i], 0)}

(***************************************************************************)
(* Categories                                                              *)
(***************************************************************************)
(* c and its ancestors, at most n steps up. *)
Above(parent, c, n) ==
  LET up[k \in 0..n] ==
        IF k = 0 THEN {c}
                 ELSE up[k - 1] \cup ({parent[x] : x \in up[k - 1]} \ {NoCat})
  IN up[n]

AncestorMap(parent) == [c \in Cats |-> Above(parent, c, Depth)]

(* The recursive query of the category trees below some roots: it walks down
   without a depth limit, and for ever once a root lies on a cycle. *)
Subtree(parent, roots) ==
  {c \in Cats : Above(parent, c, Cardinality(Cats)) \cap roots # {}}
Endless(parent, roots) ==
  \E c \in roots : /\ parent[c] # NoCat
                   /\ c \in Above(parent, parent[c], Cardinality(Cats))

(***************************************************************************)
(* The price of a product                                                  *)
(***************************************************************************)
(* bestActivePromotionsByLink: active rows of the largest discount, whatever
   their window. Of several, the one Postgres returns first. *)
BestOf(rows, linked) ==
  {i \in linked : /\ rows[i].active
                  /\ \A j \in linked : rows[j].active => rows[j].percent <= rows[i].percent}
BestOnGood(rows, g) == BestOf(rows, {i \in Stored(rows) : g \in rows[i].goods})
BestOnCat(rows, c)  == BestOf(rows, {i \in Stored(rows) : c \in rows[i].cats})

Usable(rows, i) == Applies(rows[i], 0) /\ rows[i].percent > 0

Chain(anc, g) ==
  IF CatOf[g] = NoCat THEN {}
  ELSE IF anc = NoMap THEN {CatOf[g]} ELSE anc[CatOf[g]]

(* The second level: the largest usable discount along the chain; of a
   category whose best promotions tie, any one may have been drawn. *)
CategoryOutcomes(rows, anc, g) ==
  LET chain == Chain(anc, g)
      drawn == UNION {BestOnCat(rows, c) : c \in chain}
      Skippable(c, p) == BestOnCat(rows, c) # {} =>
        \E j \in BestOnCat(rows, c) : ~Usable(rows, j) \/ rows[j].percent <= p
  IN {i \in drawn : /\ Usable(rows, i)
                    /\ \A c \in chain : Skippable(c, rows[i].percent)}

(* applyToProduct: the promotions that may price g, "product" before
   "category". The empty set: the base price. *)
DirectOutcomes(rows, g) == {i \in BestOnGood(rows, g) : Usable(rows, i)}
Outcomes(rows, anc, g) ==
  IF DirectOutcomes(rows, g) # {} /\ DirectOutcomes(rows, g) = BestOnGood(rows, g)
  THEN DirectOutcomes(rows, g)
  ELSE DirectOutcomes(rows, g) \cup CategoryOutcomes(rows, anc, g)

(* setEffective: capped at 100 percent, rounded to a kopeck. *)
EffectivePrice(price, percent) ==
  IF percent >= 100 THEN 0 ELSE (price * (100 - percent) + 50) \div 100

(* filterProductsWithPromotion *)
Discounted(rows, anc, g) ==
  \E i \in Outcomes(rows, anc, g) : EffectivePrice(PriceOf[g], rows[i].percent) < PriceOf[g]

(***************************************************************************)
(* The promotions page                                                     *)
(***************************************************************************)
LinkedCats(rows)  == UNION {rows[i].cats : i \in Live(rows)}
LinkedGoods(rows) == UNION {rows[i].goods : i \in Live(rows)}

(* Faulty variant: products in the linked categories only. *)
Candidates_NoSubfolders(rows, parent) ==
  LinkedGoods(rows) \cup {g \in Goods : CatOf[g] \in LinkedCats(rows)}

(* resolveCandidateIDs; with a linked category on a cycle the query runs
   into its deadline and the page answers with an error. *)
ListingFails(rows, parent) == Endless(parent, LinkedCats(rows))
Candidates(rows, parent) ==
  LinkedGoods(rows) \cup {g \in Goods : CatOf[g] \in Subtree(parent, LinkedCats(rows))}

Listing(rows, parent, anc) == {g \in Candidates(rows, parent) : Discounted(rows, anc, g)}

(* Faulty variant: forgets the categories of linked products. *)
OfferedFilters_LinkedOnly(rows) == LinkedCats(rows)

(* buildCategoriesFromPromos: the categories the page offers as a filter when its
   queries succeed; one that fails is logged or skipped, and its filters are missing. *)
OfferedFilters(rows) ==
  LinkedCats(rows) \cup ({CatOf[g] : g \in LinkedGoods(rows)} \ {NoCat})

(* FilterPromotionalIDs *)
InFilter(parent, c, g) == CatOf[g] \in Subtree(parent, {c})
=============================================================================
