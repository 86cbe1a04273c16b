------------------------ MODULE DayPromotionsProofs ------------------------
(***************************************************************************)
(* Proofs about DayPromotions, for any discounts, products, categories,    *)
(* trees, importing goroutines and bounds: FadeInv is inductive, withdrawn *)
(* discounts fade, orders with a day promotion end with the day, and the   *)
(* page lists exactly what is sold at a reduced price.                     *)
(***************************************************************************)
EXTENDS DayPromotions, FiniteSetTheorems, WellFoundedInduction, TLAPS

(* A stored id holds a promotion. *)
LEMMA StoredTyped == ASSUME TypeOK, NEW i \in Stored(row) PROVE i \in Id /\ row[i] \in Promotion
  BY DEF TypeOK, Stored

(* Nothing is imported or in hand at the start. *)
LEMMA InitFade == ASSUME Init PROVE FadeInv
<1>1. IdleJob \in Job
  BY CatalogAssumption DEF IdleJob, Between, Job
<1>2. TypeOK
  BY <1>1, DayPromotionsAssumption
  DEF Init, TypeOK, NoRequest, Request
<1>3. ListedNotGone
  BY DEF Init, ListedNotGone
<1>4. ListsRecent /\ HasInHand /\ IdleEmpty
  BY DEF Init, ListsRecent, HasInHand, IdleEmpty, InHand, Idle, IdleJob, Between
<1>5. RowsFade
  BY DEF Init, RowsFade, Stored
<1> QED
  BY <1>2, <1>3, <1>4, <1>5 DEF FadeInv

(* A counted event stays within its bound. *)
LEMMA CountedTyped == ASSUME TypeOK, Counted \/ NoFault PROVE events' \in 0..MaxEvents
  BY DayPromotionsAssumption DEF TypeOK, Counted, NoFault

(* A discount that is listed again, or withdrawn just now, is not gone. *)
LEMMA ReofferKeeps == ASSUME FadeInv, NEW d \in Discounts, Reoffer(d) PROVE FadeInv'
<1>1. PICK o \in (Offers[d] \cup {Absent}) \ {offer[d]} :
        /\ offer' = [offer EXCEPT ![d] = o]
        /\ gone' = [gone EXCEPT ![d] = IF o = Absent THEN @ ELSE 0]
  BY DEF Reoffer
<1>2. UNCHANGED <<row, parent, known, job, req>> /\ events' \in 0..MaxEvents
  BY CountedTyped DEF Reoffer, FadeInv
<1>3. o \in Offer \cup {Absent}
  BY DayPromotionsAssumption
<1>4. TypeOK'
  BY <1>1, <1>2, <1>3 DEF FadeInv, TypeOK
<1>5. ListedNotGone'
  BY <1>1 DEF FadeInv, TypeOK, ListedNotGone
<1>6. \A e \in Discounts : gone'[e] <= gone[e]
  BY <1>1 DEF FadeInv, TypeOK
<1>7. ListsRecent'
  BY <1>1, <1>2, <1>6 DEF FadeInv, TypeOK, ListsRecent, Job
<1>8. HasInHand' /\ IdleEmpty'
  BY <1>2 DEF FadeInv, HasInHand, IdleEmpty, InHand, Idle
<1>9. RowsFade'
  <2> SUFFICES ASSUME NEW i \in Stored(row), row[i].mid # NoDiscount
               PROVE  gone'[row[i].mid] <= row[i].ago + 1
    BY <1>2 DEF RowsFade, Stored
  <2>1. row[i] \in Promotion
    BY StoredTyped DEF FadeInv
  <2>2. row[i].mid \in Discounts /\ row[i].ago \in 0..2
    BY <2>1 DEF Promotion
  <2>3. gone[row[i].mid] <= row[i].ago + 1
    BY DEF FadeInv, RowsFade
  <2>4. gone[row[i].mid] \in 0..2 /\ gone'[row[i].mid] \in 0..2
    BY <2>2, <1>4 DEF FadeInv, TypeOK
  <2> QED
    BY <2>2, <2>3, <2>4, <1>6
<1> QED
  BY <1>4, <1>5, <1>7, <1>8, <1>9 DEF FadeInv

(* A row a cut-off later. *)
LEMMA AgedRow ==
  ASSUME NEW r \in Promotion
  PROVE  LET aged == [r EXCEPT !.ago = Later(@)]
         IN  /\ aged \in Promotion
             /\ aged.mid = r.mid /\ aged.kind = r.kind /\ aged.ago = Later(r.ago)
<1>1. r.ago \in 0..2 /\ Later(r.ago) \in 0..2
  BY DEF Promotion, Later
<1> QED
  BY <1>1 DEF Promotion

(* A running import a cut-off later. *)
LEMMA AgedJob ==
  ASSUME NEW j \in Job
  PROVE  /\ Older(j) \in Job /\ Older(j).age = 1
         /\ Older(j).pc = j.pc /\ Older(j).at = j.at /\ Older(j).todo = j.todo
  BY DEF Job, Older

(* A cut-off ages discounts and rows alike, and jobs at most once. *)
LEMMA CutoffKeeps == ASSUME FadeInv, Cutoff PROVE FadeInv'
<1>1. \A i \in Id : row'[i] = IF i \in Stored(row) THEN [row[i] EXCEPT !.ago = Later(@)]
                              ELSE row[i]
  BY DEF Cutoff
<1>2. row' = [i \in Id |-> row'[i]]
  BY DEF Cutoff
<1>3. gone' = [d \in Discounts |-> IF offer[d] = Absent THEN Later(gone[d]) ELSE 0]
  BY DEF Cutoff
<1>4. job' = [s \in Syncs |-> IF job[s].pc = "idle" THEN job[s] ELSE Older(job[s])]
  BY DEF Cutoff
<1>5. \A s \in Syncs : /\ job'[s] \in Job
                       /\ job'[s].pc = job[s].pc /\ job'[s].at = job[s].at
                       /\ job'[s].todo = job[s].todo
                       /\ job[s].pc # "idle" => job'[s].age = 1
                       /\ job[s].pc = "idle" => job'[s] = job[s]
  <2> TAKE s \in Syncs
  <2>1. job[s] \in Job
    BY DEF FadeInv, TypeOK
  <2>2. job'[s] = IF job[s].pc = "idle" THEN job[s] ELSE Older(job[s])
    BY <1>4
  <2> QED
    BY <2>1, <2>2, AgedJob, Zenon
<1>6. req' = IF req.goods = {} THEN req ELSE [req EXCEPT !.age = 1]
  BY DEF Cutoff
<1>7. UNCHANGED <<offer, parent, known>> /\ events' \in 0..MaxEvents
  BY CountedTyped DEF Cutoff, FadeInv
<1>8. \A i \in Stored(row) : /\ row[i] \in Promotion /\ row'[i] \in Promotion
                            /\ row'[i].mid = row[i].mid /\ row'[i].kind = row[i].kind
                            /\ row'[i].ago = Later(row[i].ago)
  <2> TAKE i \in Stored(row)
  <2>1. i \in Id /\ row[i] \in Promotion
    BY StoredTyped DEF FadeInv
  <2>2. row'[i] = [row[i] EXCEPT !.ago = Later(@)]
    BY <1>1, <2>1
  <2> QED
    BY <2>1, <2>2, AgedRow, Zenon
<1>9. \A i \in Id \ Stored(row) : row'[i] = row[i] /\ row'[i] \in {NoRow, Deleted}
  BY <1>1, Zenon DEF Stored
<1>10. row' \in [Id -> Promotion \cup {NoRow, Deleted}]
  BY <1>2, <1>8, <1>9, Zenon
<1>11. Stored(row') \subseteq Stored(row)
  BY <1>9 DEF Stored
<1>12. TypeOK'
  <2>1. job' \in [Syncs -> Job]
    <3>1. job' = [s \in Syncs |-> job'[s]]
      BY <1>4
    <3>2. \A s \in Syncs : job'[s] \in Job
      BY <1>5
    <3> QED
      BY <3>1, <3>2
  <2>2. req' \in Request
    BY <1>6 DEF FadeInv, TypeOK, Request
  <2>3. gone' \in [Discounts -> 0..2]
    BY <1>3 DEF FadeInv, TypeOK, Later
  <2> QED
    BY <1>7, <1>10, <2>1, <2>2, <2>3 DEF FadeInv, TypeOK
<1>13. ListedNotGone'
  BY <1>3, <1>7 DEF ListedNotGone
<1>14. ListsRecent'
  <2> SUFFICES ASSUME NEW s \in Syncs, NEW d \in Discounts, job'[s].todo[d] # Absent
               PROVE  gone'[d] <= job'[s].age
    BY DEF ListsRecent
  <2>1. job[s].pc # "idle"
    <3> SUFFICES ASSUME job[s].pc = "idle" PROVE FALSE
      OBVIOUS
    <3>1. job'[s] = IdleJob
      BY <1>5 DEF FadeInv, IdleEmpty, Idle
    <3> QED
      BY <3>1 DEF IdleJob, Between
  <2>2. job[s].age = 0 /\ job'[s].age = 1 /\ job'[s].todo = job[s].todo
    <3>1. job[s].age = 0
      BY <2>1 DEF Cutoff
    <3> QED
      BY <1>5, <2>1, <3>1
  <2>3. gone[d] = 0
    BY <2>2 DEF FadeInv, TypeOK, ListsRecent
  <2> QED
    BY <1>3, <2>2, <2>3 DEF Later
<1>15. HasInHand'
  <2> SUFFICES ASSUME NEW s \in Syncs, job'[s].pc \in {"write", "goods", "cats"}
               PROVE  job'[s].at \in Discounts /\ job'[s].todo[job'[s].at] # Absent
    BY DEF HasInHand, InHand
  <2>1. job'[s].pc = job[s].pc /\ job'[s].at = job[s].at /\ job'[s].todo = job[s].todo
    BY <1>5
  <2> QED
    BY <2>1 DEF FadeInv, HasInHand, InHand
<1>16. IdleEmpty'
  <2> SUFFICES ASSUME NEW s \in Syncs, job'[s].pc = "idle" PROVE job'[s] = IdleJob
    BY DEF IdleEmpty, Idle
  <2>1. job[s].pc = "idle" /\ job'[s] = job[s]
    BY <1>5
  <2> QED
    BY <2>1 DEF FadeInv, IdleEmpty, Idle
<1>17. RowsFade'
  <2> SUFFICES ASSUME NEW i \in Stored(row'), row'[i].mid # NoDiscount
               PROVE  gone'[row'[i].mid] <= row'[i].ago + 1
    BY DEF RowsFade
  <2>1. /\ i \in Stored(row) /\ row[i] \in Promotion
        /\ row'[i].mid = row[i].mid /\ row'[i].kind = row[i].kind
        /\ row'[i].ago = Later(row[i].ago)
    BY <1>8, <1>11
  <2>2. row[i].mid \in Discounts /\ row[i].ago \in 0..2
    BY <2>1 DEF Promotion
  <2>3. gone[row[i].mid] <= row[i].ago + 1 /\ gone[row[i].mid] \in 0..2
    BY <2>1, <2>2 DEF FadeInv, TypeOK, RowsFade
  <2>4. Later(gone[row[i].mid]) <= Later(row[i].ago) + 1 /\ 0 <= Later(row[i].ago) + 1
    BY <2>2, <2>3 DEF Later
  <2> QED
    BY <1>3, <2>1, <2>2, <2>4
<1> QED
  BY <1>12, <1>13, <1>14, <1>15, <1>16, <1>17 DEF FadeInv

(* The folder tree touches parents and known folders only. *)
LEMMA TreeKeeps == ASSUME FadeInv, RefreshCategories \/ RefreshPartly PROVE FadeInv'
<1>1. PICK ok \in SUBSET Cats, set \in SUBSET Cats : ImportTree(ok, set)
  BY DEF RefreshCategories, RefreshPartly
<1>2. events' \in 0..MaxEvents
  BY CountedTyped DEF RefreshCategories, RefreshPartly, Fault, FadeInv
<1>3. parent' \in [Cats -> Cats \cup {NoCat}] /\ known' \subseteq Cats
  BY <1>1, DayPromotionsAssumption DEF ImportTree, FadeInv, TypeOK
<1>4. UNCHANGED <<offer, gone, row, job, req>>
  BY <1>1 DEF ImportTree
<1> QED
  BY <1>2, <1>3, <1>4
  DEF FadeInv, TypeOK, ListedNotGone, ListsRecent, HasInHand, InHand, IdleEmpty, Idle, RowsFade

(* An import starts with the list of this moment. *)
LEMMA FetchKeeps == ASSUME FadeInv, NEW s \in Syncs, Fetch(s) PROVE FadeInv'
<1>1. job' = [job EXCEPT ![s] = Between("next", offer, 0)]
  BY DEF Fetch
<1>2. UNCHANGED <<offer, gone, row, parent, known, req>>
  BY DEF Fetch
<1>3. events' \in 0..MaxEvents
  BY CountedTyped DEF Fetch, FadeInv, NoFault
<1>4. job'[s] = Between("next", offer, 0) /\ \A t \in Syncs \ {s} : job'[t] = job[t]
  BY <1>1 DEF FadeInv, TypeOK
<1>5. job'[s] \in Job
  BY <1>4, CatalogAssumption DEF FadeInv, TypeOK, Between, Job
<1>6. TypeOK'
  BY <1>1, <1>2, <1>3, <1>4, <1>5 DEF FadeInv, TypeOK
<1>7. job'[s].todo = offer /\ job'[s].age = 0 /\ job'[s].pc = "next"
  BY <1>4 DEF Between
<1>8. ListsRecent'
  <2> SUFFICES ASSUME NEW t \in Syncs, NEW d \in Discounts, job'[t].todo[d] # Absent
               PROVE  gone[d] <= job'[t].age
    BY <1>2 DEF ListsRecent
  <2>1. CASE t = s
    BY <1>7, <2>1 DEF FadeInv, TypeOK, ListedNotGone
  <2>2. CASE t # s
    BY <1>4, <2>2 DEF FadeInv, ListsRecent
  <2> QED
    BY <2>1, <2>2
<1>9. HasInHand' /\ IdleEmpty'
  BY <1>4, <1>7 DEF FadeInv, HasInHand, IdleEmpty, InHand, Idle
<1>10. ListedNotGone' /\ RowsFade'
  BY <1>2 DEF FadeInv, ListedNotGone, RowsFade, Stored
<1> QED
  BY <1>6, <1>8, <1>9, <1>10 DEF FadeInv

(***************************************************************************)
(* The steps of an import                                                  *)
(***************************************************************************)
(* What a step of an import must see to for its own job. *)
LEMMA JobMoves ==
  ASSUME FadeInv, NEW s \in Syncs, gone' = gone, job' \in [Syncs -> Job],
         \A t \in Syncs \ {s} : job'[t] = job[t],
         job'[s].age = job[s].age,
         \A d \in Discounts : job'[s].todo[d] # Absent => job[s].todo[d] # Absent,
         job'[s].pc \in {"next", "write", "goods", "cats"},
         job'[s].pc # "next" => job'[s].at \in Discounts /\ job'[s].todo[job'[s].at] # Absent
  PROVE  ListsRecent' /\ HasInHand' /\ IdleEmpty'
<1>1. ListsRecent'
  BY DEF FadeInv, ListsRecent
<1>2. HasInHand'
  <2> SUFFICES ASSUME NEW t \in Syncs, job'[t].pc \in {"write", "goods", "cats"}
               PROVE  job'[t].at \in Discounts /\ job'[t].todo[job'[t].at] # Absent
    BY DEF HasInHand, InHand
  <2>1. CASE t = s
    BY <2>1
  <2>2. CASE t # s
    BY <2>2 DEF FadeInv, HasInHand, InHand
  <2> QED
    BY <2>1, <2>2
<1>3. IdleEmpty'
  BY DEF FadeInv, IdleEmpty, Idle
<1> QED
  BY <1>1, <1>2, <1>3

(* What a step that writes one row must see to for that row. *)
LEMMA RowWritten ==
  ASSUME FadeInv, NEW i \in Id, NEW r \in Promotion, row' = [row EXCEPT ![i] = r],
         gone' = gone, r.mid # NoDiscount => gone[r.mid] <= r.ago + 1
  PROVE  row' \in [Id -> Promotion \cup {NoRow, Deleted}] /\ RowsFade'
<1>1. row \in [Id -> Promotion \cup {NoRow, Deleted}]
  BY DEF FadeInv, TypeOK
<1>2. row'[i] = r /\ \A k \in Id \ {i} : row'[k] = row[k]
  BY <1>1
<1>3. row' \in [Id -> Promotion \cup {NoRow, Deleted}]
  BY <1>1
<1>4. RowsFade'
  <2> SUFFICES ASSUME NEW k \in Stored(row'), row'[k].mid # NoDiscount
               PROVE  gone[row'[k].mid] <= row'[k].ago + 1
    BY DEF RowsFade
  <2>1. CASE k = i
    BY <1>2, <2>1
  <2>2. CASE k # i
    BY <1>2, <2>2 DEF FadeInv, RowsFade, Stored
  <2> QED
    BY <2>1, <2>2
<1> QED
  BY <1>3, <1>4

(* A step that leaves the rows alone. *)
LEMMA RowsStay == ASSUME FadeInv, row' = row, gone' = gone PROVE RowsFade'
  BY DEF FadeInv, RowsFade, Stored

(* The next discount is taken up, or skipped. *)
LEMMA LookupKeeps ==
  ASSUME FadeInv, NEW s \in Syncs, NEW d \in Discounts, Lookup(s, d) \/ LookupFails(s, d)
  PROVE  FadeInv'
<1>1. job[s] \in Job /\ job \in [Syncs -> Job]
  BY DEF FadeInv, TypeOK
<1>2. UNCHANGED <<offer, gone, row, parent, known, req>> /\ events' \in 0..MaxEvents
  BY CountedTyped DEF Lookup, LookupFails, Fault, NoFault, FadeInv
<1>3. CASE Lookup(s, d)
  <2>1. PICK i \in 0..MaxRow :
          job' = [job EXCEPT ![s] = Holding(s, "write", d, i, 0)]
    <3>1. RowsOf(d) \subseteq 0..MaxRow /\ 0 \in 0..MaxRow
      BY CatalogAssumption DEF RowsOf, Stored, Id
    <3> QED
      BY <1>3, <3>1 DEF Lookup
  <2>2. job' \in [Syncs -> Job] /\ \A t \in Syncs \ {s} : job'[t] = job[t]
    BY <1>1, <2>1 DEF Job, Holding
  <2>3. /\ job'[s].pc = "write" /\ job'[s].at = d
        /\ job'[s].age = job[s].age /\ job'[s].todo = job[s].todo
    BY <1>1, <2>1 DEF Holding
  <2>4. job[s].todo[d] # Absent
    BY <1>3 DEF Lookup
  <2>5. ListsRecent' /\ HasInHand' /\ IdleEmpty'
    BY <1>2, <2>2, <2>3, <2>4, JobMoves
  <2> QED
    BY <1>2, <2>2, <2>5, RowsStay DEF FadeInv, TypeOK, ListedNotGone
<1>4. CASE LookupFails(s, d)
  <2>1. job' = [job EXCEPT ![s].todo[d] = Absent] /\ job[s].pc = "next"
    BY <1>4 DEF LookupFails
  <2>2. job' \in [Syncs -> Job] /\ \A t \in Syncs \ {s} : job'[t] = job[t]
    BY <1>1, <2>1 DEF Job
  <2>3. /\ job'[s].pc = "next" /\ job'[s].age = job[s].age
        /\ \A e \in Discounts : job'[s].todo[e] # Absent => job[s].todo[e] # Absent
    BY <1>1, <2>1 DEF Job
  <2>4. ListsRecent' /\ HasInHand' /\ IdleEmpty'
    BY <1>2, <2>2, <2>3, JobMoves
  <2> QED
    BY <1>2, <2>2, <2>4, RowsStay DEF FadeInv, TypeOK, ListedNotGone
<1> QED
  BY <1>3, <1>4

(* What an import writes is a row of the discount in hand. *)
LEMMA ImportedTyped ==
  ASSUME FadeInv, NEW s \in Syncs, job[s].pc = "write", NEW old,
         old.goods \in SUBSET Goods, old.cats \in SUBSET Cats
  PROVE  /\ Imported(s, old) \in Promotion
         /\ Imported(s, old).mid = job[s].at /\ Imported(s, old).ago = job[s].now
<1>1. job[s] \in Job /\ job[s].at \in Discounts /\ InHand(s) # Absent
  BY DEF FadeInv, TypeOK, HasInHand
<1>2. InHand(s) \in Offer
  BY <1>1 DEF InHand, Job
<1>3. job[s].now \in 0..1
  BY <1>1 DEF Job
<1> QED
  BY <1>1, <1>2, <1>3 DEF Imported, Promotion, Offer

(* The discount in hand was withdrawn at most one cut-off ago. *)
LEMMA InHandRecent ==
  ASSUME FadeInv, NEW s \in Syncs, job[s].pc = "write"
  PROVE  job[s].at \in Discounts /\ gone[job[s].at] <= job[s].now + 1
<1>1. job[s] \in Job /\ job[s].at \in Discounts /\ job[s].todo[job[s].at] # Absent
  BY DEF FadeInv, TypeOK, HasInHand, InHand
<1>2. gone[job[s].at] <= job[s].age /\ gone[job[s].at] \in 0..2
  BY <1>1 DEF FadeInv, ListsRecent, TypeOK
<1>3. job[s].age \in 0..1 /\ job[s].now \in 0..1
  BY <1>1 DEF Job
<1> QED
  BY <1>1, <1>2, <1>3

(* A new row is as recent as the list it comes from. *)
LEMMA InsertKeeps == ASSUME FadeInv, NEW s \in Syncs, Insert(s) PROVE FadeInv'
<1>1. PICK i \in Id : /\ row' = [row EXCEPT ![i] = Imported(s, NoLinks)]
                      /\ job' = [job EXCEPT ![s] = Holding(s, "goods", @.at, i, @.now)]
  BY DEF Insert
<1>2. UNCHANGED <<offer, gone, parent, known, req, events>> /\ job[s].pc = "write"
  BY DEF Insert
<1>3. Imported(s, NoLinks) \in Promotion /\ Imported(s, NoLinks).mid = job[s].at
      /\ Imported(s, NoLinks).ago = job[s].now
  <2>1. NoLinks.goods \in SUBSET Goods /\ NoLinks.cats \in SUBSET Cats
    BY DEF NoLinks
  <2> QED
    BY <1>2, <2>1, ImportedTyped
<1>4. job[s] \in Job /\ job \in [Syncs -> Job] /\ i \in 0..MaxRow
  BY CatalogAssumption DEF FadeInv, TypeOK, Id
<1>5. job' \in [Syncs -> Job] /\ \A t \in Syncs \ {s} : job'[t] = job[t]
  BY <1>1, <1>4 DEF Job, Holding
<1>6. /\ job'[s].pc = "goods" /\ job'[s].at = job[s].at
      /\ job'[s].age = job[s].age /\ job'[s].todo = job[s].todo
  BY <1>1, <1>4 DEF Holding
<1>7. job[s].at \in Discounts /\ job[s].todo[job[s].at] # Absent
  BY <1>2 DEF FadeInv, HasInHand, InHand
<1>8. ListsRecent' /\ HasInHand' /\ IdleEmpty'
  BY <1>2, <1>5, <1>6, <1>7, JobMoves
<1>9. row' \in [Id -> Promotion \cup {NoRow, Deleted}] /\ RowsFade'
  BY <1>1, <1>2, <1>3, InHandRecent, RowWritten
<1> QED
  BY <1>2, <1>5, <1>8, <1>9 DEF FadeInv, TypeOK, ListedNotGone

(* One record field of a job changes: where it stands. *)
LEMMA PcMoves ==
  ASSUME FadeInv, NEW s \in Syncs, NEW p \in {"goods", "cats"}, gone' = gone,
         job[s].pc \in {"write", "goods"}, job' = [job EXCEPT ![s].pc = p]
  PROVE  job' \in [Syncs -> Job] /\ ListsRecent' /\ HasInHand' /\ IdleEmpty'
<1>1. job[s] \in Job /\ job \in [Syncs -> Job]
  BY DEF FadeInv, TypeOK
<1>2. job' \in [Syncs -> Job] /\ \A t \in Syncs \ {s} : job'[t] = job[t]
  BY <1>1 DEF Job
<1>3. /\ job'[s].pc = p /\ job'[s].at = job[s].at
      /\ job'[s].age = job[s].age /\ job'[s].todo = job[s].todo
  BY <1>1 DEF Job
<1>4. job[s].at \in Discounts /\ job[s].todo[job[s].at] # Absent
  BY DEF FadeInv, HasInHand, InHand
<1> QED
  BY <1>2, <1>3, <1>4, JobMoves

(* An updated row is as recent as the list it comes from. *)
LEMMA UpdateKeeps == ASSUME FadeInv, NEW s \in Syncs, Update(s) PROVE FadeInv'
<1> DEFINE i == job[s].id
           r == Imported(s, row[i])
<1>1. row' = [row EXCEPT ![i] = r] /\ job' = [job EXCEPT ![s].pc = "goods"]
  BY DEF Update
<1>2. /\ UNCHANGED <<offer, gone, parent, known, req, events>>
      /\ job[s].pc = "write" /\ i \in Stored(row)
  BY DEF Update
<1>3. i \in Id /\ row[i] \in Promotion
  BY <1>2, StoredTyped DEF FadeInv
<1>4. r \in Promotion /\ r.mid = job[s].at /\ r.ago = job[s].now
  <2>1. row[i].goods \in SUBSET Goods /\ row[i].cats \in SUBSET Cats
    BY <1>3 DEF Promotion
  <2> QED
    BY <1>2, <2>1, ImportedTyped
<1>5. job' \in [Syncs -> Job] /\ ListsRecent' /\ HasInHand' /\ IdleEmpty'
  BY <1>1, <1>2, PcMoves
<1>6. gone[r.mid] <= r.ago + 1
  BY <1>2, <1>4, InHandRecent
<1>7. row' \in [Id -> Promotion \cup {NoRow, Deleted}] /\ RowsFade'
  <2> HIDE DEF r, i
  <2> QED
    BY <1>1, <1>2, <1>3, <1>4, <1>6, RowWritten
<1> QED
  BY <1>2, <1>5, <1>7 DEF FadeInv, TypeOK, ListedNotGone

(* The discount in hand is done with. *)
LEMMA NextDiscountMoves ==
  ASSUME FadeInv, NEW s \in Syncs, gone' = gone, NextDiscount(s)
  PROVE  job' \in [Syncs -> Job] /\ ListsRecent' /\ HasInHand' /\ IdleEmpty'
<1>1. job[s] \in Job /\ job \in [Syncs -> Job]
  BY DEF FadeInv, TypeOK
<1> DEFINE left == [job[s].todo EXCEPT ![job[s].at] = Absent]
<1>2. left \in [Discounts -> Offer \cup {Absent}]
      /\ \A d \in Discounts : left[d] # Absent => job[s].todo[d] # Absent
  BY <1>1 DEF Job
<1>3. job' = [job EXCEPT ![s] = Between("next", left, job[s].age)]
  BY DEF NextDiscount
<1> HIDE DEF left
<1>4. Between("next", left, job[s].age) \in Job
  BY <1>1, <1>2, CatalogAssumption DEF Between, Job
<1>5. job' \in [Syncs -> Job] /\ \A t \in Syncs \ {s} : job'[t] = job[t]
  BY <1>1, <1>3, <1>4
<1>6. job'[s].pc = "next" /\ job'[s].age = job[s].age /\ job'[s].todo = left
  BY <1>1, <1>3 DEF Between
<1> QED
  BY <1>2, <1>5, <1>6, JobMoves

(* A refused row changes nothing but the job. *)
LEMMA UpsertFailsKeeps == ASSUME FadeInv, NEW s \in Syncs, UpsertFails(s) PROVE FadeInv'
<1>1. UNCHANGED <<offer, gone, row, parent, known, req>> /\ NextDiscount(s)
  BY DEF UpsertFails
<1>2. events' \in 0..MaxEvents
  BY CountedTyped DEF UpsertFails, Fault, FadeInv
<1>3. job' \in [Syncs -> Job] /\ ListsRecent' /\ HasInHand' /\ IdleEmpty'
  BY <1>1, NextDiscountMoves
<1> QED
  BY <1>1, <1>2, <1>3, RowsStay DEF FadeInv, TypeOK, ListedNotGone

(* Replacing the links of a row. *)
LEMMA Linked ==
  ASSUME NEW r \in Promotion, NEW G \in SUBSET Goods, NEW C \in SUBSET Cats
  PROVE  /\ [r EXCEPT !.goods = G] \in Promotion /\ [r EXCEPT !.cats = C] \in Promotion
         /\ [r EXCEPT !.goods = G].mid = r.mid /\ [r EXCEPT !.cats = C].mid = r.mid
         /\ [r EXCEPT !.goods = G].kind = r.kind /\ [r EXCEPT !.cats = C].kind = r.kind
         /\ [r EXCEPT !.goods = G].ago = r.ago /\ [r EXCEPT !.cats = C].ago = r.ago
  BY DEF Promotion

(* Links have no part in the invariant but for their types. *)
LEMMA RowLinked ==
  ASSUME FadeInv, gone' = gone, NEW i \in Stored(row), NEW r \in Promotion,
         row' = [row EXCEPT ![i] = r],
         r.mid = row[i].mid, r.kind = row[i].kind, r.ago = row[i].ago
  PROVE  row' \in [Id -> Promotion \cup {NoRow, Deleted}] /\ RowsFade'
<1>1. i \in Id
  BY DEF Stored
<1>2. r.mid # NoDiscount => gone[r.mid] <= r.ago + 1
  BY DEF FadeInv, RowsFade
<1> QED
  BY <1>1, <1>2, RowWritten

(* The discount in hand links products and categories there are. *)
LEMMA InHandTyped ==
  ASSUME FadeInv, NEW s \in Syncs, job[s].pc \in {"goods", "cats"}
  PROVE  InHand(s).goods \in SUBSET Goods /\ InHand(s).cats \in SUBSET Cats
<1>1. job[s] \in Job /\ job[s].at \in Discounts /\ InHand(s) # Absent
  BY DEF FadeInv, TypeOK, HasInHand
<1>2. InHand(s) \in Offer
  BY <1>1 DEF InHand, Job
<1> QED
  BY <1>2 DEF Offer

(* Products are linked, all of them, some of them or none. *)
LEMMA LinkGoodsKeeps == ASSUME FadeInv, NEW s \in Syncs, LinkGoods(s) PROVE FadeInv'
<1>1. UNCHANGED <<offer, gone, parent, known, req>>
  BY DEF LinkGoods
<1>2. events' \in 0..MaxEvents
  BY CountedTyped DEF LinkGoods, Fault, FadeInv
<1>3. job[s].pc = "goods" /\ job' = [job EXCEPT ![s].pc = "cats"]
  BY DEF LinkGoods
<1>4. job' \in [Syncs -> Job] /\ ListsRecent' /\ HasInHand' /\ IdleEmpty'
  BY <1>1, <1>3, PcMoves
<1>5. \/ row' = row
      \/ /\ job[s].id \in Stored(row)
         /\ \E G \in SUBSET Goods : row' = [row EXCEPT ![job[s].id].goods = G]
  BY <1>3, InHandTyped, Zenon DEF LinkGoods
<1>6. row' \in [Id -> Promotion \cup {NoRow, Deleted}] /\ RowsFade'
  <2>1. CASE row' = row
    BY <1>1, <2>1, RowsStay DEF FadeInv, TypeOK
  <2>2. ASSUME job[s].id \in Stored(row),
               NEW G \in SUBSET Goods, row' = [row EXCEPT ![job[s].id].goods = G]
        PROVE  row' \in [Id -> Promotion \cup {NoRow, Deleted}] /\ RowsFade'
    <3> DEFINE i == job[s].id
               r == [row[i] EXCEPT !.goods = G]
    <3>1. row[i] \in Promotion
      BY <2>2, StoredTyped DEF FadeInv
    <3>2. r \in Promotion /\ r.mid = row[i].mid /\ r.kind = row[i].kind /\ r.ago = row[i].ago
      BY <3>1, Linked, Zenon
    <3>3. row' = [row EXCEPT ![i] = r]
      BY <2>2, Zenon
    <3> HIDE DEF r
    <3> QED
      BY <1>1, <2>2, <3>2, <3>3, RowLinked
  <2> QED
    BY <1>5, <2>1, <2>2
<1> QED
  BY <1>1, <1>2, <1>4, <1>6 DEF FadeInv, TypeOK, ListedNotGone

(* Categories are linked, or the old links stay. *)
LEMMA LinkCatsKeeps == ASSUME FadeInv, NEW s \in Syncs, LinkCats(s) PROVE FadeInv'
<1>1. UNCHANGED <<offer, gone, parent, known, req>> /\ NextDiscount(s)
  BY DEF LinkCats
<1>2. events' \in 0..MaxEvents
  BY CountedTyped DEF LinkCats, Fault, FadeInv
<1>3. job[s].pc = "cats"
  BY DEF LinkCats
<1>4. job' \in [Syncs -> Job] /\ ListsRecent' /\ HasInHand' /\ IdleEmpty'
  BY <1>1, NextDiscountMoves
<1> DEFINE C == InHand(s).cats \cap known
           i == job[s].id
           r == [row[i] EXCEPT !.cats = C]
<1>5. row' = row \/ (i \in Stored(row) /\ row' = [row EXCEPT ![i] = r])
  BY Zenon DEF LinkCats
<1>6. C \in SUBSET Cats
  BY <1>3, InHandTyped
<1> HIDE DEF C
<1>7. row' \in [Id -> Promotion \cup {NoRow, Deleted}] /\ RowsFade'
  <2>1. CASE row' = row
    BY <1>1, <2>1, RowsStay DEF FadeInv, TypeOK
  <2>2. CASE i \in Stored(row) /\ row' = [row EXCEPT ![i] = r]
    <3>1. row[i] \in Promotion
      BY <2>2, StoredTyped DEF FadeInv
    <3>2. r \in Promotion /\ r.mid = row[i].mid /\ r.kind = row[i].kind /\ r.ago = row[i].ago
      BY <1>6, <3>1, Linked, Zenon
    <3> HIDE DEF r
    <3> QED
      BY <1>1, <2>2, <3>2, RowLinked
  <2> QED
    BY <1>5, <2>1, <2>2
<1> QED
  BY <1>1, <1>2, <1>4, <1>7 DEF FadeInv, TypeOK, ListedNotGone

(* An import ends with nothing left to do. *)
LEMMA FinishKeeps == ASSUME FadeInv, NEW s \in Syncs, Finish(s) PROVE FadeInv'
<1>1. /\ UNCHANGED <<offer, gone, row, parent, known, req, events>>
      /\ job' = [job EXCEPT ![s] = IdleJob]
  BY DEF Finish
<1>2. IdleJob \in Job /\ \A d \in Discounts : IdleJob.todo[d] = Absent
  BY CatalogAssumption DEF IdleJob, Between, Job
<1>3. IdleJob.pc = "idle"
  BY DEF IdleJob, Between
<1>4. job'[s] = IdleJob /\ \A t \in Syncs \ {s} : job'[t] = job[t]
  BY <1>1 DEF FadeInv, TypeOK
<1>5. TypeOK'
  BY <1>1, <1>2 DEF FadeInv, TypeOK
<1>6. ListsRecent'
  BY <1>1, <1>2, <1>4 DEF FadeInv, ListsRecent
<1>7. HasInHand'
  <2> SUFFICES ASSUME NEW t \in Syncs, job'[t].pc \in {"write", "goods", "cats"}
               PROVE  job'[t].at \in Discounts /\ job'[t].todo[job'[t].at] # Absent
    BY DEF HasInHand, InHand
  <2>1. t # s
    BY <1>3, <1>4
  <2> QED
    BY <1>4, <2>1 DEF FadeInv, HasInHand, InHand
<1>8. IdleEmpty'
  BY <1>4 DEF FadeInv, IdleEmpty, Idle
<1> QED
  BY <1>1, <1>5, <1>6, <1>7, <1>8, RowsStay DEF FadeInv, ListedNotGone

(* Every step of an import keeps the invariant. *)
LEMMA SyncStepKeeps == ASSUME FadeInv, NEW s \in Syncs, SyncStep(s) PROVE FadeInv'
  BY LookupKeeps, InsertKeeps, UpdateKeeps, UpsertFailsKeeps, LinkGoodsKeeps, LinkCatsKeeps,
     FinishKeeps, Zenon DEF SyncStep

(***************************************************************************)
(* Admins, the process, orders                                             *)
(***************************************************************************)
(* A deleted row is out of sight. *)
LEMMA DeleteKeeps == ASSUME FadeInv, NEW i \in Id, DeletePromotion(i) PROVE FadeInv'
<1>1. row' = [row EXCEPT ![i] = Deleted] /\ UNCHANGED <<offer, gone, parent, known, job, req>>
  BY DEF DeletePromotion
<1>2. events' \in 0..MaxEvents
  BY CountedTyped DEF DeletePromotion, FadeInv
<1>3. row \in [Id -> Promotion \cup {NoRow, Deleted}]
  BY DEF FadeInv, TypeOK
<1>4. row' \in [Id -> Promotion \cup {NoRow, Deleted}]
  BY <1>1, <1>3
<1>5. \A k \in Stored(row') : k \in Stored(row) /\ row'[k] = row[k]
  BY <1>1, <1>3 DEF Stored
<1>6. RowsFade'
  <2> SUFFICES ASSUME NEW k \in Stored(row'), row'[k].mid # NoDiscount
               PROVE  gone[row'[k].mid] <= row'[k].ago + 1
    BY <1>1 DEF RowsFade
  <2> QED
    BY <1>5 DEF FadeInv, RowsFade
<1> QED
  BY <1>1, <1>2, <1>4, <1>6
  DEF FadeInv, TypeOK, ListedNotGone, ListsRecent, HasInHand, InHand, IdleEmpty, Idle

(* An edit keeps valid_from; the id in MoySklad stays or goes. *)
LEMMA EditKeeps == ASSUME FadeInv, NEW i \in Id, UpdatePromotion(i) PROVE FadeInv'
<1>1. /\ i \in Stored(row) /\ UNCHANGED <<offer, gone, parent, known, job, req>>
      /\ events' \in 0..MaxEvents
  BY CountedTyped DEF UpdatePromotion, FadeInv
<1>2. row[i] \in Promotion
  BY <1>1, StoredTyped DEF FadeInv
<1>3. PICK a \in BOOLEAN, p \in Percents, d \in {row[i].mid, NoDiscount},
           k \in {"day", "manual"} :
        row' = [row EXCEPT ![i] = Edited(row[i], d, a, p, k)]
  BY DEF UpdatePromotion
<1>4. /\ Edited(row[i], d, a, p, k) \in Promotion
      /\ Edited(row[i], d, a, p, k).mid = d /\ Edited(row[i], d, a, p, k).ago = row[i].ago
  BY <1>2, <1>3 DEF Edited, Promotion
<1>a. d # NoDiscount => gone[d] <= row[i].ago + 1
  BY <1>1, <1>3 DEF FadeInv, RowsFade
<1>5. row' \in [Id -> Promotion \cup {NoRow, Deleted}] /\ RowsFade'
  BY <1>1, <1>3, <1>4, <1>a, RowWritten
<1> QED
  BY <1>1, <1>5
  DEF FadeInv, TypeOK, ListedNotGone, ListsRecent, HasInHand, InHand, IdleEmpty, Idle

(* A restart forgets lists and folders, and no row. *)
LEMMA RestartKeeps == ASSUME FadeInv, Restart PROVE FadeInv'
<1>1. /\ UNCHANGED <<offer, gone, row, parent>>
      /\ known' = {} /\ job' = [s \in Syncs |-> IdleJob] /\ req' = NoRequest
  BY DEF Restart
<1>2. events' \in 0..MaxEvents
  BY CountedTyped DEF Restart, Fault, FadeInv
<1>3. /\ IdleJob \in Job /\ NoRequest \in Request /\ IdleJob.pc = "idle"
      /\ \A d \in Discounts : IdleJob.todo[d] = Absent
  BY CatalogAssumption DEF IdleJob, Between, Job, NoRequest, Request
<1>4. TypeOK'
  BY <1>1, <1>2, <1>3 DEF FadeInv, TypeOK
<1>5. ListsRecent' /\ HasInHand' /\ IdleEmpty'
  BY <1>1, <1>3 DEF ListsRecent, HasInHand, InHand, IdleEmpty, Idle
<1> QED
  BY <1>1, <1>4, <1>5, RowsStay DEF FadeInv, ListedNotGone

(* Orders read promotions and change none. *)
LEMMA OrderKeeps ==
  ASSUME FadeInv, (\E gs \in Baskets : CheckDayPromotionWindow(gs)) \/ DayPromotionDeadline
  PROVE  FadeInv'
<1>1. UNCHANGED <<offer, gone, row, parent, known, job>>
  BY DEF CheckDayPromotionWindow, DayPromotionDeadline
<1>2. events' \in 0..MaxEvents
  BY CountedTyped DEF CheckDayPromotionWindow, DayPromotionDeadline, Fault, FadeInv
<1>3. \/ \E gs \in SUBSET Goods : req' = [NoRequest EXCEPT !.goods = gs]
      \/ \E until \in {"closing", "days"} : req' = [NoRequest EXCEPT !.until = until]
  BY DayPromotionsAssumption DEF CheckDayPromotionWindow, DayPromotionDeadline, Reserve
<1>4. req' \in Request
  BY <1>3 DEF NoRequest, Request
<1> QED
  BY <1>1, <1>2, <1>4
  DEF FadeInv, TypeOK, ListedNotGone, ListsRecent, HasInHand, InHand, IdleEmpty, Idle, RowsFade

(***************************************************************************)
(* Walks up the category tree.  An induction is a set of naturals that has *)
(* 0 and every successor: without a least element, no natural is left out. *)
(***************************************************************************)
(* The order of the naturals, as a relation. *)
Less == {m \in Nat \X Nat : m[1] < m[2]}

LEMMA LeastElement ==
  ASSUME NEW S \in SUBSET Nat, S # {}
  PROVE  \E x \in S : \A y \in S : x <= y
  <1>1. IsWellFoundedOn(Less, Nat)
    BY NatLessThanWellFounded DEF OpToRel, Less
  <1>2. PICK x \in S : \A y \in S : <<y, x>> \notin Less
    BY <1>1, WFMin
  <1>3. ASSUME NEW y \in S PROVE x <= y
    <2>1. x \in Nat /\ y \in Nat
      OBVIOUS
    <2>2. ~(y < x)
      BY <1>2, <2>1 DEF Less
    <2> QED BY <2>1, <2>2
  <1> QED BY <1>3

LEMMA InductionOnSet ==
  ASSUME NEW S, 0 \in S, \A n \in Nat : n \in S => n + 1 \in S
  PROVE  Nat \subseteq S
  <1> DEFINE T == Nat \ S
  <1> SUFFICES ASSUME T # {} PROVE FALSE OBVIOUS
  <1>1. PICK x \in T : \A y \in T : x <= y
    BY LeastElement
  <1>2. x \in Nat /\ x # 0 /\ x - 1 \in Nat OBVIOUS
  <1>3. x - 1 \in S  BY <1>1, <1>2
  <1> QED BY <1>2, <1>3

(* One step up: a set of categories and their parents. *)
Raised(up, S) == S \cup ({up[x] : x \in S} \ {NoCat})

(* The equation of the local function of Above. *)
IsClimb(f, up, c, n) ==
  f = [k \in 0..n |-> IF k = 0 THEN {c} ELSE Raised(up, f[k - 1])]

LEMMA ClimbExists ==
  ASSUME NEW up, NEW c
  PROVE  \A n \in Nat : \E f : IsClimb(f, up, c, n)
  <1> DEFINE S == {n \in Nat : \E f : IsClimb(f, up, c, n)}
  <1>1. 0 \in S
    <2> DEFINE f == [k \in 0..0 |-> {c}]
    <2>1. IsClimb(f, up, c, 0)
      BY DEF IsClimb
    <2> QED BY <2>1
  <1>2. ASSUME NEW n \in Nat, n \in S PROVE n + 1 \in S
    <2>1. PICK f : IsClimb(f, up, c, n)
      BY <1>2
    <2> DEFINE g == [k \in 0..(n + 1) |-> IF k <= n THEN f[k] ELSE Raised(up, f[n])]
    <2>2. ASSUME NEW k \in 0..(n + 1)
          PROVE  g[k] = IF k = 0 THEN {c} ELSE Raised(up, g[k - 1])
      <3>1. CASE k = n + 1
        BY <3>1
      <3>2. CASE k # n + 1
        <4>1. k \in 0..n /\ (k # 0 => k - 1 \in 0..n)
          BY <3>2
        <4>2. f[k] = IF k = 0 THEN {c} ELSE Raised(up, f[k - 1])
          BY <2>1, <4>1 DEF IsClimb
        <4> QED BY <4>1, <4>2
      <3> QED BY <3>1, <3>2
    <2>3. IsClimb(g, up, c, n + 1)
      BY <2>2 DEF IsClimb
    <2> QED BY <2>3
  <1>3. Nat \subseteq S
    <2> HIDE DEF S
    <2> QED BY <1>1, <1>2, InductionOnSet
  <1> QED BY <1>3

LEMMA AboveClimbs ==
  ASSUME NEW up, NEW c, NEW n \in Nat
  PROVE  \E f : IsClimb(f, up, c, n) /\ Above(up, c, n) = f[n]
  <1> DEFINE climb == CHOOSE f : IsClimb(f, up, c, n)
  <1>1. IsClimb(climb, up, c, n)
    BY ClimbExists
  <1>2. Above(up, c, n) = climb[n]
    BY DEF Above, IsClimb, Raised
  <1> QED BY <1>1, <1>2

(* Two climbs agree as far as both go. *)
LEMMA ClimbUnique ==
  ASSUME NEW up, NEW c, NEW m \in Nat, NEW n \in Nat, NEW f, NEW g,
         IsClimb(f, up, c, m), IsClimb(g, up, c, n)
  PROVE  \A k \in Nat : k <= m /\ k <= n => f[k] = g[k]
  <1> DEFINE S == {k \in Nat : k <= m /\ k <= n => f[k] = g[k]}
  <1>1. 0 \in S
    BY DEF IsClimb
  <1>2. ASSUME NEW k \in Nat, k \in S PROVE k + 1 \in S
    <2> SUFFICES ASSUME k + 1 <= m, k + 1 <= n PROVE f[k + 1] = g[k + 1]
      OBVIOUS
    <2>1. f[k] = g[k]
      BY <1>2
    <2>2. k + 1 \in 0..m /\ k + 1 \in 0..n /\ k + 1 # 0 /\ (k + 1) - 1 = k
      OBVIOUS
    <2>3. f[k + 1] = Raised(up, f[k])
      BY <2>2 DEF IsClimb
    <2>4. g[k + 1] = Raised(up, g[k])
      BY <2>2 DEF IsClimb
    <2> QED BY <2>1, <2>3, <2>4
  <1>3. Nat \subseteq S
    <2> HIDE DEF S
    <2> QED BY <1>1, <1>2, InductionOnSet
  <1> QED BY <1>3

LEMMA AboveZero ==
  ASSUME NEW up, NEW c
  PROVE  Above(up, c, 0) = {c}
  <1>1. PICK f : IsClimb(f, up, c, 0) /\ Above(up, c, 0) = f[0]
    BY AboveClimbs
  <1> QED BY <1>1 DEF IsClimb

LEMMA AboveNext ==
  ASSUME NEW up, NEW c, NEW n \in Nat
  PROVE  Above(up, c, n + 1) = Raised(up, Above(up, c, n))
  <1>1. PICK f : IsClimb(f, up, c, n) /\ Above(up, c, n) = f[n]
    BY AboveClimbs
  <1>2. PICK g : IsClimb(g, up, c, n + 1) /\ Above(up, c, n + 1) = g[n + 1]
    BY AboveClimbs
  <1>3. f[n] = g[n]
    BY <1>1, <1>2, ClimbUnique
  <1>4. g[n + 1] = Raised(up, g[n])
    <2>1. n + 1 \in 0..(n + 1) /\ n + 1 # 0 /\ (n + 1) - 1 = n
      OBVIOUS
    <2> QED BY <1>2, <2>1 DEF IsClimb
  <1> QED BY <1>1, <1>2, <1>3, <1>4

LEMMA AboveGrows ==
  ASSUME NEW up, NEW c, NEW m \in Nat, NEW n \in Nat, m <= n
  PROVE  Above(up, c, m) \subseteq Above(up, c, n)
  <1> DEFINE S == {d \in Nat : Above(up, c, m) \subseteq Above(up, c, m + d)}
  <1>1. 0 \in S
    OBVIOUS
  <1>2. ASSUME NEW d \in Nat, d \in S PROVE d + 1 \in S
    <2>1. Above(up, c, m + d + 1) = Raised(up, Above(up, c, m + d))
      BY AboveNext
    <2>2. m + d + 1 = m + (d + 1)
      OBVIOUS
    <2> QED BY <1>2, <2>1, <2>2 DEF Raised
  <1>3. Nat \subseteq S
    <2> HIDE DEF S
    <2> QED BY <1>1, <1>2, InductionOnSet
  <1>4. n - m \in Nat /\ m + (n - m) = n
    OBVIOUS
  <1>5. n - m \in S
    BY <1>3, <1>4
  <1> QED BY <1>4, <1>5

LEMMA AboveInCats ==
  ASSUME NEW up \in [Cats -> Cats \cup {NoCat}], NEW c \in Cats, NEW n \in Nat
  PROVE  Above(up, c, n) \subseteq Cats
  <1> DEFINE S == {k \in Nat : Above(up, c, k) \subseteq Cats}
  <1>1. 0 \in S
    BY AboveZero
  <1>2. ASSUME NEW k \in Nat, k \in S PROVE k + 1 \in S
    BY <1>2, AboveNext DEF Raised
  <1>3. Nat \subseteq S
    <2> HIDE DEF S
    <2> QED BY <1>1, <1>2, InductionOnSet
  <1> QED BY <1>3

(* Once a step up adds nothing, none does. *)
LEMMA AboveSettles ==
  ASSUME NEW up, NEW c, NEW m \in Nat,
         Above(up, c, m + 1) = Above(up, c, m), NEW n \in Nat, m <= n
  PROVE  Above(up, c, n) = Above(up, c, m)
  <1> DEFINE S == {d \in Nat : Above(up, c, m + d) = Above(up, c, m)}
  <1>1. 0 \in S
    OBVIOUS
  <1>2. ASSUME NEW d \in Nat, d \in S PROVE d + 1 \in S
    <2>1. Above(up, c, m + d + 1) = Raised(up, Above(up, c, m + d))
      BY AboveNext
    <2>2. Raised(up, Above(up, c, m)) = Above(up, c, m)
      BY AboveNext
    <2>3. m + d + 1 = m + (d + 1)
      OBVIOUS
    <2> QED BY <1>2, <2>1, <2>2, <2>3
  <1>3. Nat \subseteq S
    <2> HIDE DEF S
    <2> QED BY <1>1, <1>2, InductionOnSet
  <1>4. n - m \in Nat /\ m + (n - m) = n
    OBVIOUS
  <1>5. n - m \in S
    BY <1>3, <1>4
  <1> QED BY <1>4, <1>5

(* As many steps as there are categories reach every ancestor. *)
LEMMA AboveComplete ==
  ASSUME NEW up \in [Cats -> Cats \cup {NoCat}], NEW c \in Cats, NEW n \in Nat
  PROVE  Above(up, c, n) \subseteq Above(up, c, Cardinality(Cats))
  <1> DEFINE A(k) == Above(up, c, k)
             N == Cardinality(Cats)
             S == {k \in Nat : k + 1 <= Cardinality(A(k)) \/ \E m \in 0..k : A(m + 1) = A(m)}
  <1>0. N \in Nat
    BY CatalogAssumption, FS_CardinalityType
  <1>1. \A k \in Nat : IsFiniteSet(A(k)) /\ Cardinality(A(k)) \in Nat /\ Cardinality(A(k)) <= N
    BY CatalogAssumption, AboveInCats, FS_Subset, FS_CardinalityType
  <1>2. \A k \in Nat : A(k) \subseteq A(k + 1)
    BY AboveGrows
  <1>3. 0 \in S
    <2>1. Cardinality(A(0)) = 1
      BY AboveZero, FS_Singleton
    <2> QED BY <2>1
  <1>4. ASSUME NEW k \in Nat, k \in S PROVE k + 1 \in S
    <2>1. CASE \E m \in 0..k : A(m + 1) = A(m)
      BY <2>1
    <2>2. CASE k + 1 <= Cardinality(A(k)) /\ A(k + 1) # A(k)
      <3>1. Cardinality(A(k)) < Cardinality(A(k + 1))
        <4> HIDE DEF A
        <4> QED BY <1>1, <1>2, <2>2, FS_Subset
      <3>2. (k + 1) + 1 <= Cardinality(A(k + 1))
        <4> HIDE DEF A
        <4> QED BY <1>1, <2>2, <3>1
      <3> QED BY <3>2
    <2>3. CASE A(k + 1) = A(k)
      BY <2>3
    <2> QED BY <1>4, <2>1, <2>2, <2>3
  <1>5. Nat \subseteq S
    <2> HIDE DEF S
    <2> QED BY <1>3, <1>4, InductionOnSet
  <1>6. \E m \in 0..N : A(m + 1) = A(m)
    <2>1. N \in S
      BY <1>0, <1>5
    <2>2. N + 1 <= Cardinality(A(N)) \/ \E m \in 0..N : A(m + 1) = A(m)
      BY <2>1
    <2> HIDE DEF A, N
    <2> QED BY <1>0, <1>1, <2>2
  <1>7. PICK m \in 0..N : A(m + 1) = A(m)
    BY <1>6
  <1>8. m \in Nat /\ m <= N
    BY <1>0, <1>7
  <1>9. A(N) = A(m)
    <2> HIDE DEF N
    <2> QED BY <1>0, <1>7, <1>8, AboveSettles
  <1>10. A(n) \subseteq A(m)
    <2>1. CASE n <= m
      BY <1>8, <2>1, AboveGrows
    <2>2. CASE m <= n
      <3>1. A(n) = A(m)
        <4> HIDE DEF N
        <4> QED BY <1>7, <1>8, <2>2, AboveSettles
      <3> QED BY <3>1
    <2> QED BY <1>8, <2>1, <2>2
  <1> QED BY <1>9, <1>10

(* Any ancestor, at any depth, is found by the walk of the SQL query. *)
LEMMA InSubtree ==
  ASSUME NEW up \in [Cats -> Cats \cup {NoCat}], NEW c \in Cats, NEW n \in Nat, NEW roots,
         Above(up, c, n) \cap roots # {}
  PROVE  c \in Subtree(up, roots)
  BY AboveComplete DEF Subtree

LEMMA NoChain == ASSUME NEW anc, NEW g, CatOf[g] = NoCat PROVE Chain(anc, g) = {}
  BY DEF Chain

(* What prices a product today is in force and linked to it or along its chain. *)
LEMMA PricedByLink ==
  ASSUME NEW rows, NEW anc, NEW g, NEW i \in Outcomes(rows, anc, g)
  PROVE  /\ i \in Live(rows)
         /\ \/ g \in rows[i].goods
            \/ \E c \in Chain(anc, g) : c \in rows[i].cats
  <1>1. CASE i \in DirectOutcomes(rows, g)
    BY <1>1 DEF DirectOutcomes, BestOnGood, BestOf, Usable, Live
  <1>2. CASE i \in CategoryOutcomes(rows, anc, g)
    <2>1. Usable(rows, i) /\ \E c \in Chain(anc, g) : i \in BestOnCat(rows, c)
      BY <1>2 DEF CategoryOutcomes
    <2> QED BY <2>1 DEF BestOnCat, BestOf, Usable, Live
  <1> QED BY <1>1, <1>2 DEF Outcomes

(***************************************************************************)
(* Theorems                                                                *)
(***************************************************************************)
(* The inductive invariant: types, and how old lists, rows and withdrawals
   are with respect to each other, in any interleaving of imports, edits,
   closing times, failures and restarts. *)
THEOREM FadeInvariant == Spec => []FadeInv
<1>1. Init => FadeInv
  BY InitFade
<1>2. FadeInv /\ [Next]_vars => FadeInv'
  <2> SUFFICES ASSUME FadeInv, [Next]_vars PROVE FadeInv'
    OBVIOUS
  <2>1. CASE \E d \in Discounts : Reoffer(d)
    BY <2>1, ReofferKeeps
  <2>2. CASE Cutoff
    BY <2>2, CutoffKeeps
  <2>3. CASE RefreshCategories \/ RefreshPartly
    BY <2>3, TreeKeeps
  <2>4. CASE \E s \in Syncs : Fetch(s) \/ SyncStep(s)
    BY <2>4, FetchKeeps, SyncStepKeeps
  <2>5. CASE \E i \in Id : DeletePromotion(i) \/ UpdatePromotion(i)
    BY <2>5, DeleteKeeps, EditKeeps
  <2>6. CASE Restart
    BY <2>6, RestartKeeps
  <2>7. CASE (\E gs \in Baskets : CheckDayPromotionWindow(gs)) \/ DayPromotionDeadline
    BY <2>7, OrderKeeps
  <2>8. CASE UNCHANGED vars
    BY <2>8
    DEF vars, FadeInv, TypeOK, ListedNotGone, ListsRecent, HasInHand, InHand, IdleEmpty, Idle,
        RowsFade, Stored
  <2> QED
    BY <2>1, <2>2, <2>3, <2>4, <2>5, <2>6, <2>7, <2>8, Zenon DEF Next
<1> QED
  BY <1>1, <1>2, PTL DEF Spec

(* Every variable keeps its type. *)
THEOREM PromotionsTyped == Spec => []TypeOK
<1>1. FadeInv => TypeOK
  BY DEF FadeInv
<1> QED
  BY <1>1, FadeInvariant, PTL

(* A discount withdrawn in MoySklad is in force for at most one more
   reservation day: a row that applies today was valid from today on, and its
   window is at most a cut-off younger than the withdrawal. *)
THEOREM WithdrawnFadesAlways == Spec => []WithdrawnFades
<1>1. FadeInv => WithdrawnFades
  <2> SUFFICES ASSUME FadeInv, NEW i \in Live(row), row[i].kind = "day", row[i].mid # NoDiscount
               PROVE  gone[row[i].mid] <= 1
    BY DEF WithdrawnFades
  <2>1. i \in Stored(row) /\ row[i].ago = 0
    BY DEF Live, Applies
  <2> QED
    BY <2>1 DEF FadeInv, RowsFade
<1> QED
  BY <1>1, FadeInvariant, PTL

(* The step that reserves is the deadline's, and its query did not fail. *)
LEMMA ReservesAtDeadline ==
  ASSUME TypeOK, [Next]_vars, Reserves
  PROVE  DayPromotionDeadline /\ NoFault
<1>1. events \in Nat /\ events' = events /\ req.goods # {} /\ req'.goods = {}
  BY DEF TypeOK, Reserves
<1>2. ~Counted
  BY <1>1 DEF Counted
<1>3. req' # req
  BY <1>1
<1>4. ~\E d \in Discounts : Reoffer(d)
  BY <1>2 DEF Reoffer
<1>5. ~Cutoff /\ ~Restart
  BY <1>2 DEF Cutoff, Restart, Fault
<1>6. ~(RefreshCategories \/ RefreshPartly)
  BY <1>3 DEF RefreshCategories, RefreshPartly, ImportTree
<1>7. \A s \in Syncs : ~Fetch(s) /\ ~SyncStep(s)
  BY <1>3
  DEF Fetch, SyncStep, Lookup, LookupFails, Insert, Update, UpsertFails, LinkGoods, LinkCats,
      Finish
<1>8. \A i \in Id : ~DeletePromotion(i) /\ ~UpdatePromotion(i)
  BY <1>2 DEF DeletePromotion, UpdatePromotion
<1>9. ~\E gs \in Baskets : CheckDayPromotionWindow(gs)
  BY <1>1 DEF CheckDayPromotionWindow
<1>10. ~UNCHANGED vars
  BY <1>3 DEF vars
<1>11. DayPromotionDeadline
  BY <1>4, <1>5, <1>6, <1>7, <1>8, <1>9, <1>10, Zenon DEF Next
<1> QED
  BY <1>1, <1>11 DEF NoFault

(* An order for a product that a day promotion of its own prices ends at the
   closing time: the query of the deadline cannot miss the promotion the
   price came from. *)
THEOREM DayOrderBoundedAlways == Spec => DayOrderBounded
<1> DEFINE A == Reserves /\ (\E g \in req.goods : DayDirect(g)) => req'.until = "closing"
<1>1. TypeOK /\ [Next]_vars => A
  <2> SUFFICES ASSUME TypeOK, [Next]_vars, Reserves, NEW g \in req.goods, DayDirect(g)
               PROVE  req'.until = "closing"
    OBVIOUS
  <2>1. DayPromotionDeadline /\ NoFault /\ ~Fault /\ req.age = 0
    <3>1. events \in Nat
      BY DEF TypeOK
    <3> QED
      BY <3>1, ReservesAtDeadline DEF NoFault, Fault, Counted, Reserves
  <2>2. BestOnGood(row, g) # {} /\ BestOnGood(row, g) \subseteq ForDay(req.age)
    <3>1. BestOnGood(row, g) # {}
      BY DEF DayDirect, DirectOutcomes
    <3>2. ASSUME NEW i \in BestOnGood(row, g) PROVE i \in ForDay(0)
      <4>1. i \in Stored(row)
        BY DEF BestOnGood, BestOf
      <4> QED
        BY <4>1 DEF DayDirect, Usable, ForDay
    <3> QED
      BY <2>1, <3>1, <3>2
  <2>3. BestOnGood(row, g) \in Bests(req.goods)
    BY <2>2 DEF Bests
  <2>4. Reserve("closing")
    BY <2>1, <2>2, <2>3, Zenon DEF DayPromotionDeadline
  <2> QED
    BY <2>4 DEF Reserve, NoRequest
<1> QED
  BY <1>1, PromotionsTyped, PTL DEF Spec, DayOrderBounded

(* Whatever was imported, edited or left half done, and however deep the tree: a product
   that a page sells at a reduced price is on the promotions page.  The depth limit of
   the cached ancestors cannot find a link the unlimited query misses, and cycles do not
   help it either. *)
THEOREM ListingCompleteAlways == Spec => []ListingComplete
<1>1. ASSUME TypeOK, NEW anc \in {NoMap, AncestorMap(parent)}, NEW g \in Goods,
             Discounted(row, anc, g)
      PROVE  g \in Candidates(row, parent)
  <2>1. PICK i \in Outcomes(row, anc, g) : TRUE
    BY <1>1 DEF Discounted
  <2>2. i \in Live(row)
    BY PricedByLink
  <2>3. CASE g \in row[i].goods
    BY <2>2, <2>3 DEF Candidates, LinkedGoods
  <2>4. ASSUME NEW c \in Chain(anc, g), c \in row[i].cats
        PROVE  g \in Candidates(row, parent)
    <3>1. c \in LinkedCats(row)
      BY <2>2, <2>4 DEF LinkedCats
    <3>2. CatOf[g] \in Cats
      <4>1. CatOf[g] # NoCat
        BY <2>4, NoChain
      <4> QED BY <4>1, CatalogAssumption
    <3>3. \E n \in Nat : c \in Above(parent, CatOf[g], n)
      <4>1. CASE anc = NoMap
        <5>1. c = CatOf[g]
          BY <3>2, <4>1, CatalogAssumption DEF Chain
        <5> QED BY <5>1, AboveZero
      <4>2. CASE anc = AncestorMap(parent) /\ anc # NoMap
        <5>1. c \in AncestorMap(parent)[CatOf[g]]
          BY <3>2, <4>2, CatalogAssumption DEF Chain
        <5>2. c \in Above(parent, CatOf[g], Depth)
          BY <3>2, <5>1 DEF AncestorMap
        <5> QED BY <5>2, CatalogAssumption
      <4> QED BY <4>1, <4>2
    <3>4. CatOf[g] \in Subtree(parent, LinkedCats(row))
      BY <1>1, <3>1, <3>2, <3>3, InSubtree DEF TypeOK
    <3> QED BY <3>4 DEF Candidates
  <2> QED BY <2>1, <2>3, <2>4, PricedByLink
<1>2. TypeOK => ListingComplete
  <2>1. ASSUME TypeOK, NEW anc \in {NoMap, AncestorMap(parent)}, NEW g \in Goods,
               Discounted(row, anc, g)
        PROVE  g \in Listing(row, parent, anc)
    <3>1. g \in Candidates(row, parent)
      BY <1>1, <2>1
    <3> QED BY <2>1, <3>1 DEF Listing
  <2> QED BY <2>1, Zenon DEF ListingComplete
<1> QED
  BY <1>2, PromotionsTyped, PTL

(* A listed product of some category is under one of the filters the page offers, for
   any tree and any ancestors it was priced with. *)
THEOREM FiltersCoverAlways == Spec => []FiltersCover
<1>1. ASSUME TypeOK, NEW g \in Goods, g \in Candidates(row, parent), CatOf[g] # NoCat
      PROVE  \E c \in OfferedFilters(row) : InFilter(parent, c, g)
  <2>1. CatOf[g] \in Cats
    BY <1>1, CatalogAssumption
  <2>2. CASE g \in LinkedGoods(row)
    <3>1. CatOf[g] \in OfferedFilters(row)
      BY <1>1, <2>2 DEF OfferedFilters
    <3>2. CatOf[g] \in Subtree(parent, {CatOf[g]})
      BY <1>1, <2>1, AboveZero, InSubtree DEF TypeOK
    <3> QED BY <3>1, <3>2 DEF InFilter
  <2>3. CASE CatOf[g] \in Subtree(parent, LinkedCats(row))
    <3>1. PICK c \in LinkedCats(row) : c \in Above(parent, CatOf[g], Cardinality(Cats))
      BY <2>3 DEF Subtree
    <3>2. c \in OfferedFilters(row) /\ InFilter(parent, c, g)
      BY <2>1, <3>1 DEF OfferedFilters, InFilter, Subtree
    <3> QED BY <3>2
  <2> QED BY <1>1, <2>2, <2>3 DEF Candidates
<1>2. TypeOK => FiltersCover
  <2>1. ASSUME TypeOK, NEW anc, NEW g \in Listing(row, parent, anc), CatOf[g] # NoCat
        PROVE  \E c \in OfferedFilters(row) : InFilter(parent, c, g)
    <3>1. \A i \in Live(row) : row[i].goods \subseteq Goods
      BY <2>1, StoredTyped DEF Live, Promotion
    <3>2. Candidates(row, parent) \subseteq Goods
      BY <3>1 DEF Candidates, LinkedGoods
    <3>3. g \in Candidates(row, parent)
      BY DEF Listing
    <3> QED BY <1>1, <2>1, <3>2, <3>3
  <2> QED BY <2>1, Zenon DEF FiltersCover
<1> QED
  BY <1>2, PromotionsTyped, PTL

-----------------------------------------------------------------------------
(* What the catalogue shows. *)

(* More than half a kopeck is saved. *)
Saves(price, percent) == price > 0 /\ (percent >= 100 \/ price * percent > 50)

(* In exact arithmetic, setEffective (promotion_pricing.go:148-166) never raises a price nor makes
   it negative, a larger discount never gives a higher price, and the price
   falls exactly if the discount is more than half a kopeck: a promotion that
   saves less prices the product, but no page lists it as reduced. *)
THEOREM PriceLaws ==
  ASSUME NEW price \in Nat, NEW p \in Nat, NEW q \in Nat, p <= q
  PROVE  /\ EffectivePrice(price, p) \in 0..price
         /\ EffectivePrice(price, q) <= EffectivePrice(price, p)
         /\ EffectivePrice(price, p) < price <=> Saves(price, p)
<1> USE DEF Saves
<1> DEFINE Left(d) == price * (100 - d)
<1>1. ASSUME NEW d \in Nat, d < 100
      PROVE  Left(d) \in Nat /\ price * d \in Nat /\ Left(d) = 100 * price - price * d
  BY <1>1
<1>2. ASSUME NEW d \in Nat, d < 100 PROVE EffectivePrice(price, d) = (Left(d) + 50) \div 100
  BY <1>2 DEF EffectivePrice
<1>3. ASSUME NEW d \in Nat, d < 100
      PROVE  EffectivePrice(price, d) \in 0..price
  <2> HIDE DEF Left
  <2> QED BY <1>1, <1>2, <1>3
<1>4. ASSUME NEW d \in Nat, d < 100
      PROVE  EffectivePrice(price, d) < price <=> price * d > 50
  <2> HIDE DEF Left
  <2> QED BY <1>1, <1>2, <1>4
<1>5. CASE q < 100
  <2>1. price * p <= price * q
    BY <1>5
  <2>2. EffectivePrice(price, q) <= EffectivePrice(price, p)
    <3>1. p < 100 /\ q < 100
      BY <1>5
    <3>2. Left(p) \in Nat /\ Left(q) \in Nat /\ Left(q) <= Left(p)
      <4> HIDE DEF Left
      <4> QED BY <1>1, <2>1, <3>1
    <3>3. /\ EffectivePrice(price, p) = (Left(p) + 50) \div 100
          /\ EffectivePrice(price, q) = (Left(q) + 50) \div 100
      BY <1>2, <3>1
    <3> HIDE DEF Left
    <3> QED BY <3>2, <3>3
  <2>3. price * p > 50 => price > 0
    BY <1>5
  <2> QED BY <1>3, <1>4, <1>5, <2>2, <2>3
<1>6. CASE q >= 100
  <2>1. EffectivePrice(price, q) = 0
    BY <1>6 DEF EffectivePrice
  <2>2. CASE p < 100
    <3>1. price * p > 50 => price > 0
      BY <2>2
    <3> QED BY <1>3, <1>4, <2>1, <2>2, <3>1
  <2>3. CASE p >= 100
    BY <2>1, <2>3 DEF EffectivePrice
  <2> QED BY <2>2, <2>3
<1> QED BY <1>5, <1>6

(* A product has a reduced price exactly if a promotion that may price it today is
   linked to it, or to a category it is in, and saves more than half a kopeck. *)
LEMMA DiscountedIffFelt ==
  ASSUME TypeOK, NEW anc, NEW g \in Goods
  PROVE  Discounted(row, anc, g) <=>
           \E i \in Outcomes(row, anc, g) : Saves(PriceOf[g], row[i].percent)
<1>1. ASSUME NEW i \in Outcomes(row, anc, g) PROVE row[i].percent \in Nat
  <2>1. row[i] \in Promotion
    BY <1>1, PricedByLink, StoredTyped DEF Live
  <2> QED BY <2>1, CatalogAssumption DEF Promotion
<1>2. PriceOf[g] \in Nat
  BY CatalogAssumption
<1>3. ASSUME NEW i \in Outcomes(row, anc, g)
      PROVE  EffectivePrice(PriceOf[g], row[i].percent) < PriceOf[g]
               <=> Saves(PriceOf[g], row[i].percent)
  <2> DEFINE price == PriceOf[g]
             percent == row[i].percent
  <2>1. price \in Nat /\ percent \in Nat /\ percent <= percent
    BY <1>1, <1>2
  <2>2. EffectivePrice(price, percent) < price
          <=> Saves(price, percent)
    <3> HIDE DEF price, percent
    <3> QED BY <2>1, PriceLaws
  <2> QED BY <2>2
<1> QED BY <1>3, Zenon DEF Discounted

(* Whatever ancestors a request is answered with, no price comes from a
   discount withdrawn in MoySklad more than one reservation day ago, unless an
   admin has taken its day away (promotion_pricing.go:52-146). *)
PricesFade ==
  \A anc \in CachedMaps, g \in Goods : \A i \in Outcomes(row, anc, g) :
    row[i].kind = "day" /\ row[i].mid # NoDiscount => gone[row[i].mid] <= 1
THEOREM PricesFadeAlways == Spec => []PricesFade
<1>1. WithdrawnFades => PricesFade
  BY PricedByLink, Zenon DEF WithdrawnFades, PricesFade
<1> QED
  BY <1>1, WithdrawnFadesAlways, PTL

(* With current ancestors, or none at all, the page lists exactly the products
   some promotion makes cheaper by more than half a kopeck: none too few and,
   what the walk down in SQL could do, none too many (promotion_catalog.go:77-156). *)
ListingExact ==
  Acyclic => \A anc \in {NoMap, AncestorMap(parent)} :
    Listing(row, parent, anc) =
      {g \in Goods : \E i \in Outcomes(row, anc, g) : Saves(PriceOf[g], row[i].percent)}
THEOREM ListingExactAlways == Spec => []ListingExact
<1>1. ASSUME TypeOK, ListingComplete, Acyclic, NEW anc \in {NoMap, AncestorMap(parent)}
      PROVE  Listing(row, parent, anc) =
               {g \in Goods : \E i \in Outcomes(row, anc, g) : Saves(PriceOf[g], row[i].percent)}
  <2>1. Listing(row, parent, anc) \subseteq Goods
    <3>1. \A i \in Live(row) : row[i].goods \subseteq Goods
      BY <1>1, StoredTyped DEF Live, Promotion
    <3> QED BY <3>1 DEF Listing, Candidates, LinkedGoods
  <2>2. \A g \in Goods : g \in Listing(row, parent, anc) <=> Discounted(row, anc, g)
    BY <1>1, Zenon DEF Listing, ListingComplete
  <2>3. \A g \in Goods : Discounted(row, anc, g) <=>
          \E i \in Outcomes(row, anc, g) : Saves(PriceOf[g], row[i].percent)
    BY <1>1, DiscountedIffFelt, Zenon
  <2> QED BY <2>1, <2>2, <2>3, Zenon
<1>2. TypeOK /\ ListingComplete => ListingExact
  BY <1>1, Zenon DEF ListingExact
<1> QED
  BY <1>2, PromotionsTyped, ListingCompleteAlways, PTL
=============================================================================
