---------------------------- MODULE ProductStock ----------------------------
(***************************************************************************)
(* Everything that writes one product's row of the table products, and the *)
(* Redis entry with its stock: the scheduler's delta sync and full sync    *)
(* with its worker pool, the admin's syncs (services/moysklad_sync.go,     *)
(* scheduler.go, sync_worker.go), the webhooks (webhook_processor.go), the *)
(* image sync (image_sync.go), orders (db/orders.go) and readers that warm *)
(* the cache (cache/redis.go). Every sync reads the row, computes a new    *)
(* one and writes all its columns back; nothing locks the row in between.  *)
(***************************************************************************)
EXTENDS Integers

CONSTANTS Stock,       \* stock MoySklad may report; it goes below zero
          MaxEvents,   \* bound: events of all kinds but the repeated full sync
          NoRow,       \* "the product is not in the table"
          NoEntry      \* "nothing cached"; also "not in the stock report"

ASSUME StockAssumption ==
  /\ Stock \subseteq Int /\ Stock # {}
  /\ MaxEvents \in Nat
  /\ NoRow \notin [stock : Int, active : BOOLEAN,
                   status : {"active", "out_of_stock", "deleted"}]
  /\ NoEntry \notin Int

VARIABLES
  ms,       \* MoySklad: is the product there, and its stock
  row,      \* the row of products
  cache,    \* the value of stock:<id> in Redis
  running,  \* Scheduler.syncRunning
  pc,       \* what each actor does next
  job,      \* the job an actor works on
  sold,     \* pieces in pending orders
  events    \* events so far

vars == <<ms, row, cache, running, pc, job, sold, events>>

(* Goroutines: the scheduler's ticker, the admin's request, FullSync, the  *)
(* pool worker with its batch, the inbox worker, the image sync, an order, *)
(* a catalogue request.                                                    *)
Actor == {"backup", "admin", "producer", "pool", "webhook", "image", "order", "reader"}
Kind  == {"none", "delta", "full", "batch", "entity", "delete", "report", "image",
          "order", "read"}
Step  == {"idle", "stock", "list", "push", "read", "write", "cache", "drop", "end"}

Row == [stock : Int, active : BOOLEAN, status : {"active", "out_of_stock", "deleted"}]
Job == [kind  : Kind,
        stock : Int \cup {NoEntry},   \* reported; from "cache" on: written
        held  : Row \cup {NoRow}]     \* the row as the job read it

NoJob == [kind |-> "none", stock |-> NoEntry, held |-> NoRow]

TypeOK ==
  /\ ms \in [there : BOOLEAN, stock : Int]
  /\ row \in Row \cup {NoRow}
  /\ cache \in Int \cup {NoEntry}
  /\ running \in BOOLEAN
  /\ pc \in [Actor -> Step]
  /\ job \in [Actor -> Job]
  /\ sold \in 0..MaxEvents /\ events \in 0..MaxEvents

StatusFor(s) == IF s > 0 THEN "active" ELSE "out_of_stock"
NotNegative(s) == IF s > 0 THEN s ELSE 0
Fresh(s) == [stock |-> s, active |-> TRUE, status |-> StatusFor(s)]

(* An empty database; the first full sync fills it. *)
Init ==
  /\ ms \in [there : {TRUE}, stock : Stock]
  /\ row = NoRow
  /\ cache = NoEntry
  /\ running = FALSE
  /\ pc = [a \in Actor |-> "idle"]
  /\ job = [a \in Actor |-> NoJob]
  /\ sold = 0 /\ events = 0

Counted == events < MaxEvents /\ events' = events + 1

(***************************************************************************)
(* MoySklad                                                                *)
(***************************************************************************)
Edit ==
  /\ Counted
  /\ ms.there
  /\ \/ \E s \in Stock \ {ms.stock} : ms' = [ms EXCEPT !.stock = s]
     \/ ms' = [ms EXCEPT !.there = FALSE]
  /\ UNCHANGED <<row, cache, running, pc, job, sold>>

Reported == IF ms.there THEN ms.stock ELSE NoEntry

(***************************************************************************)
(* How jobs begin and end                                                  *)
(***************************************************************************)
Go(a, step, j) == pc' = [pc EXCEPT ![a] = step] /\ job' = [job EXCEPT ![a] = j]

Begin(a, step, kind) ==
  /\ pc[a] = "idle"
  /\ Go(a, step, [NoJob EXCEPT !.kind = kind])

(* A full sync first fetches the stock report. Without the time of the last
   sync (Redis fails) a delta sync becomes a full one. *)
BeginSync(a) == \/ Begin(a, "list", "delta")
                \/ Begin(a, "stock", "full")

SyncOnce ==
  /\ ~running /\ running' = TRUE
  /\ BeginSync("backup") /\ Counted
  /\ UNCHANGED <<ms, row, cache, sold>>

(* handlers/moysklad_sync.go: no look at syncRunning. *)
AdminSync ==
  /\ BeginSync("admin") /\ Counted
  /\ UNCHANGED <<ms, row, cache, running, sold>>

(* Scheduler.FullSync, at the start and every reseedFullInterval. *)
Reseed ==
  /\ ~running /\ running' = TRUE
  /\ Begin("producer", "stock", "batch")
  /\ UNCHANGED <<ms, row, cache, sold, events>>

(* The event tells the kind; a DELETE comes after the deletion. *)
TakeWebhook ==
  /\ \/ Begin("webhook", "list", "entity")
     \/ ~ms.there /\ Begin("webhook", "read", "delete")
     \/ Begin("webhook", "stock", "report")
  /\ Counted
  /\ UNCHANGED <<ms, row, cache, running, sold>>

SyncImages ==
  /\ Begin("image", "read", "image") /\ Counted
  /\ UNCHANGED <<ms, row, cache, running, sold>>

(* The deferred StoreInt32 of syncOnce and FullSync. *)
Release(a) == running' = (running /\ a \notin {"backup", "producer"})

(* Mutant: the flag is not released. *)
Leave_KeepsFlag(a) == Go(a, "idle", NoJob) /\ UNCHANGED running

Leave(a) == Go(a, "idle", NoJob) /\ Release(a)

(* A delta or full sync goes on with other products and ends later. *)
Done(a) ==
  IF job[a].kind \in {"delta", "full"}
    THEN Go(a, "end", [NoJob EXCEPT !.kind = job[a].kind]) /\ UNCHANGED running
    ELSE Leave(a)

(***************************************************************************)
(* Fetching from MoySklad                                                  *)
(***************************************************************************)
FetchStock(a) ==
  /\ pc[a] = "stock"
  /\ CASE job[a].kind # "report" ->
            Go(a, "list", [job[a] EXCEPT !.stock = Reported]) /\ UNCHANGED running
       [] job[a].kind = "report" /\ ms.there ->
            Go(a, "read", [job[a] EXCEPT !.stock = Reported]) /\ UNCHANGED running
       [] OTHER -> Leave(a)
  /\ UNCHANGED <<ms, row, cache, sold, events>>

(* A full list has every product that is there; a delta only those changed
   since the last sync, so it may leave the product out. The webhook asks for
   one product and fails when it is gone. *)
List(a) ==
  /\ pc[a] = "list"
  /\ \/ /\ ms.there
        /\ Go(a, IF a = "producer" THEN "push" ELSE "read", job[a])
        /\ UNCHANGED running
     \/ /\ ~ms.there \/ job[a].kind = "delta"
        /\ Leave(a)
  /\ UNCHANGED <<ms, row, cache, sold, events>>

(* FullSync ends when its batches are queued, before they are processed. One
   batch waits or is processed at a time here: the pool has a queue of 4096. *)
PushTask ==
  /\ pc["producer"] = "push" /\ pc["pool"] = "idle"
  /\ pc' = [pc EXCEPT !["producer"] = "idle", !["pool"] = "read"]
  /\ job' = [job EXCEPT !["producer"] = NoJob, !["pool"] = job["producer"]]
  /\ Release("producer")
  /\ UNCHANGED <<ms, row, cache, sold, events>>

(***************************************************************************)
(* Reading and writing the row                                             *)
(***************************************************************************)
NeedsRow == {"delete", "report", "image", "read"}

ReadRow(a) ==
  /\ pc[a] = "read"
  /\ CASE row = NoRow /\ job[a].kind \in NeedsRow -> Done(a)
       [] row # NoRow /\ job[a].kind = "read" ->
            Go(a, "cache", [job[a] EXCEPT !.stock = row.stock]) /\ UNCHANGED running
       [] OTHER ->
            Go(a, "write", [job[a] EXCEPT !.held = row]) /\ UNCHANGED running
  /\ UNCHANGED <<ms, row, cache, sold, events>>

ReportedOrZero(j) == IF j.stock = NoEntry THEN 0 ELSE j.stock

(* Mutant: the full sync leaves the stock to the webhooks, like the delta. *)
StockFor_BatchKeeps(j) ==
  CASE j.kind \in {"delta", "batch"} -> IF j.held = NoRow THEN 0 ELSE j.held.stock
    [] j.kind = "full"              -> NotNegative(ReportedOrZero(j))
    [] j.kind = "report"            -> ReportedOrZero(j)
    [] OTHER                        -> 0

(* entity/product carries no stock, so an entity webhook writes zero. *)
StockFor(j) ==
  CASE j.kind = "delta"             -> IF j.held = NoRow THEN 0 ELSE j.held.stock
    [] j.kind = "full"              -> NotNegative(ReportedOrZero(j))
    [] j.kind \in {"batch", "report"} -> ReportedOrZero(j)
    [] OTHER                        -> 0

(* Mutant: a stock webhook changes the stock and not the status. *)
NewRow_ReportKeepsStatus(j) ==
  CASE j.kind = "image"  -> j.held
    [] j.kind = "delete" -> [stock |-> 0, active |-> FALSE, status |-> "deleted"]
    [] j.kind = "report" -> [j.held EXCEPT !.stock = StockFor(j)]
    [] OTHER             -> Fresh(StockFor(j))

(* The columns a job writes. *)
NewRow(j) ==
  CASE j.kind = "image"  -> j.held
    [] j.kind = "delete" -> [stock |-> 0, active |-> FALSE, status |-> "deleted"]
    [] j.kind = "report" -> [Fresh(StockFor(j)) EXCEPT !.active = j.held.active]
    [] OTHER             -> Fresh(StockFor(j))

(* Update replaces all columns; Insert fails if another job was faster. The
   image sync does not touch the cache. *)
WriteRow(a) ==
  /\ pc[a] = "write"
  /\ IF job[a].held = NoRow /\ row # NoRow
       THEN UNCHANGED row /\ Done(a)
       ELSE LET new == NewRow(job[a])
                updated == job[a].kind = "entity" /\ job[a].held # NoRow
            IN /\ row' = new
               /\ CASE job[a].kind = "image" -> Done(a)
                    [] job[a].kind = "delete" ->
                         Go(a, "drop", [NoJob EXCEPT !.kind = "delete"]) /\ UNCHANGED running
                    [] OTHER ->
                         /\ Go(a, "cache", [kind  |-> job[a].kind, stock |-> new.stock,
                                           held  |-> IF updated THEN job[a].held ELSE NoRow])
                         /\ UNCHANGED running
  /\ UNCHANGED <<ms, cache, sold, events>>

(***************************************************************************)
(* The cache                                                               *)
(***************************************************************************)
(* An entity webhook that has updated the row drops the entry it has set. *)
AfterSet(a) ==
  IF job[a].kind = "entity" /\ job[a].held # NoRow
    THEN Go(a, "drop", [NoJob EXCEPT !.kind = "entity"]) /\ UNCHANGED running
    ELSE Done(a)

(* StockCache.SetStock: the stock the job has written. *)
SetStock(a) ==
  /\ pc[a] = "cache"
  /\ cache' = job[a].stock
  /\ AfterSet(a)
  /\ UNCHANGED <<ms, row, sold, events>>

(* InvalidateStock, InvalidateByMoyskladID: the latter leaves an entry that a
   reader has cached without MoySklad's id. *)
DropEntry(a) ==
  /\ pc[a] = "drop"
  /\ \/ cache' = NoEntry
     \/ job[a].kind = "entity" /\ UNCHANGED cache
  /\ Done(a)
  /\ UNCHANGED <<ms, row, sold, events>>

Finish(a) ==
  /\ pc[a] = "end"
  /\ Leave(a)
  /\ UNCHANGED <<ms, row, cache, sold, events>>

(* Mutant: entries are stored without a TTL. *)
Expire_Never == FALSE /\ UNCHANGED vars

(* The TTL of 30 minutes. *)
Expire ==
  /\ cache # NoEntry /\ cache' = NoEntry
  /\ UNCHANGED <<ms, row, running, pc, job, sold, events>>

(* GetAvailableStock, BatchGetAvailableStocks: a miss reads the row and then
   warms the cache. *)
Miss ==
  /\ cache = NoEntry
  /\ Begin("reader", "read", "read") /\ Counted
  /\ UNCHANGED <<ms, row, cache, running, sold>>

(***************************************************************************)
(* Orders (one piece each): the row changes in a transaction, the cache    *)
(* after its commit                                                        *)
(***************************************************************************)
Take(n) ==
  LET new == [row EXCEPT !.stock = @ - n, !.status = StatusFor(row.stock - n)]
  IN  /\ pc["order"] = "idle"
      /\ row' = new
      /\ sold' = sold + n
      /\ Go("order", "cache", [kind |-> "order", stock |-> new.stock, held |-> NoRow])

CreateOrder ==
  /\ Counted
  /\ row # NoRow /\ row.active /\ row.stock >= 1
  /\ Take(1)
  /\ UNCHANGED <<ms, cache, running>>

(* Mutant: an order is restored although it has been restored before. *)
RestoreOrder_Again ==
  /\ row # NoRow
  /\ Take(-1)
  /\ UNCHANGED <<ms, cache, running, events>>

(* Cancelled or expired: the stock comes back, whatever the row says now. *)
RestoreOrder ==
  /\ sold > 0 /\ row # NoRow
  /\ Take(-1)
  /\ UNCHANGED <<ms, cache, running, events>>

(* Completed: the stock stays taken. *)
CompleteOrder ==
  /\ sold > 0 /\ sold' = sold - 1
  /\ UNCHANGED <<ms, row, cache, running, pc, job, events>>

(***************************************************************************)
(* Faults                                                                  *)
(***************************************************************************)
(* A call to MoySklad or Postgres fails or times out: the job ends, a failed
   call to Redis is only logged. *)
Fail(a) ==
  /\ Counted
  /\ \/ pc[a] \in {"stock", "list"} /\ Leave(a)
     \/ pc[a] \in {"read", "write"} /\ Done(a)
     \/ pc[a] = "cache" /\ AfterSet(a)
     \/ pc[a] = "drop" /\ Done(a)
  /\ UNCHANGED <<ms, row, cache, sold>>

Restart ==
  /\ Counted
  /\ pc' = [a \in Actor |-> "idle"] /\ job' = [a \in Actor |-> NoJob]
  /\ running' = FALSE
  /\ UNCHANGED <<ms, row, cache, sold>>

(***************************************************************************)
(* Specification                                                           *)
(***************************************************************************)
Continue(a) == \/ FetchStock(a) \/ List(a) \/ ReadRow(a) \/ WriteRow(a)
               \/ SetStock(a) \/ DropEntry(a) \/ Finish(a)

Next ==
  \/ Edit \/ Expire \/ Miss \/ Restart \/ PushTask
  \/ SyncOnce \/ AdminSync \/ Reseed \/ TakeWebhook \/ SyncImages
  \/ CreateOrder \/ RestoreOrder \/ CompleteOrder
  \/ \E a \in Actor : Continue(a) \/ Fail(a)

Spec == Init /\ [][Next]_vars

(* Goroutines run on, calls have timeouts, entries expire. *)
Fairness ==
  /\ \A a \in Actor : WF_vars(Continue(a))
  /\ WF_vars(PushTask) /\ WF_vars(Expire)

FairSpec == Spec /\ Fairness

(***************************************************************************)
(* Properties                                                              *)
(***************************************************************************)
Consistent(r) ==
  r # NoRow => /\ r.status = "active" <=> r.stock > 0
               /\ r.status = "deleted" => r.stock = 0 /\ ~r.active

(* The catalogue shows products by status and stock (GetActive), orders look at
   stock and active. Whatever writers overtake one another with rows they read
   long ago, the row's columns agree: "active" is in stock, "deleted" is out of
   stock and cannot be ordered. *)
RowConsistent == Consistent(row)

(* Scheduler.syncRunning is set exactly while the delta sync or the fetching
   half of the full sync runs, and never for both: no error path, restart or
   queued batch leaves it behind, which would stop every later sync. *)
FlagHeld ==
  /\ running <=> pc["backup"] # "idle" \/ pc["producer"] # "idle"
  /\ pc["backup"] = "idle" \/ pc["producer"] = "idle"

(* Writers set the cache after their write, in any order, and a reader may
   cache what was written before: the cache still ends with the row's stock, or
   without an entry. *)
CacheHeals == <>[](row = NoRow \/ cache \in {NoEntry, row.stock})

Agrees == row # NoRow /\ row.active /\ NotNegative(row.stock) = NotNegative(ms.stock)

(* As long as full syncs are repeated, a product that stays in MoySklad ends
   with MoySklad's stock: lost updates, failed calls and entity webhooks that
   write zero only last until then. *)
StockHeals == WF_vars(Reseed) => <>[](ms.there => Agrees)
=============================================================================
