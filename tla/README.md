# Verification of hozdacha

TLA+ models, TLC runs and TLAPS proofs about the online shop in `src/`: a Go service
(`src/internal`) on Postgres and Redis that sells the stock kept in MoySklad, an external
warehouse and accounting service reached over HTTP. Customers reserve goods and collect
them in the shop; nothing is paid online.

Line numbers are those of the sources in `src/`. `PROJECT.json` maps every definition of
the models to the lines it stands for.

## 1. Inventory of the system

| Component | State | Operations | Talks to |
|---|---|---|---|
| **Orders** (`usecase/order.go`, `db/orders.go`, `db/order_events.go`, `moysklad/order.go`) | `orders`, `order_items`, `products.stock`, `order_events`, the CustomerOrder in MoySklad | create, cancel, expire by hand, complete | Postgres transactions, MoySklad client, stock cache |
| **Reservation expiry** (`services/reservation_expiry.go`) | the ids of a batch | a tick lists lapsed orders and cancels them one by one | orders |
| **Webhook inbox** (`handlers/webhook.go`, `db/webhook_inbox.go`, `services/webhook_inbox_worker.go`) | table `webhook_inbox` | enqueue, claim, complete, retry, bury, replay | webhook processor |
| **Webhook processor** (`services/webhook_processor.go`) | none of its own | product created, changed, deleted; stock report | MoySklad client, `products`, cache |
| **Product sync and scheduler** (`services/moysklad_sync.go`, `scheduler.go`, `handlers/moysklad_sync.go`) | `syncRunning`, category map, time of the last sync | delta sync, full sync, the admin's syncs | MoySklad client, worker pool, `products`, cache |
| **Sync worker pool** (`services/sync_worker.go`) | a channel, goroutines, gauges | push, process, start and stop workers | product sync |
| **Image sync** (`services/image_sync.go`) | files, `products.image_url` | download, write the row | MoySklad client, `products` |
| **Stock cache** (`cache/redis.go`) | `stock:<id>` with a TTL, time of the last sync | set, drop, read through | all writers of a product |
| **MoySklad client** (`moysklad/client.go`, `resilience/*`) | limiter, semaphore, circuit breaker | one HTTP request with retries | everything that calls MoySklad |
| **Promotions** (`usecase/promotion_*.go`, `services/promotionwindow.go`, `services/moysklad_promotions_sync.go`, `db/promotion*.go`, `handlers/promotions.go`) | `promotions`, `promotion_products`, `promotion_categories`, cached ancestors | price, window of an order, list of the page, import, edit, delete | MoySklad client, catalogue, orders, categories |
| **Cart** (`usecase/cart.go`, `db/cart.go`) | `cart_items` | add, update, remove, clear, purge by an order | orders |
| **Users and tokens** (`usecase/user.go`, `handlers/user.go`, `services/auth.go`, `services/blacklist.go`, `cache/ratestore.go`, `middleware/*`) | `users`, codes, counters, revoked tokens | register, verify, log in, log out, reset | e-mail, Redis |
| **Categories** (`db/categories.go`, `syncCategoriesFromMoysklad`) | `categories`, map of folders in memory | import of the folder tree, ancestors, subtrees | product sync, promotions |
| **Catalogue**, **admin queries** | `products` | lists, search | product sync, promotions |
| Start and shutdown, configuration, metrics, e-mail, web pages, migrations | - | wiring, output | everything |

How the parts meet:

* The row of a product is the place where everything meets: orders decrement and restore
  its stock inside transactions with row locks, while four kinds of sync, two kinds of
  webhook and the image sync read it, compute a whole new row and write that back
  without a lock.
* An order lives in two systems without a common transaction: `CreateOrder` creates the
  CustomerOrder first and the local row second, and compensates; cancelling commits
  locally first and deletes in MoySklad second, best effort.
* The inbox is the only queue that survives a restart. All other background work
  (scheduler, pool, image sync, cron) starts again from the tables.
* Promotions cross three components: the import of the folder tree decides which category
  links the import of promotions can resolve, the catalogue walks the tree upwards from a
  cached copy, the promotions page downwards in SQL, and an order asks for promotions
  again, twice, with a time of its own.
* Every MoySklad call goes through one client per process, with a shared limiter,
  semaphore and breaker.

What is hard to test, in short (the full list, with lines, is `hazards` in
`PROJECT.json`): crashes and lost answers between the steps of an order; several cron
instances, users and admins ending one order; redelivered webhooks and dying workers;
syncs that overtake one another with rows read long before; a pool that starts and
stops its own workers through the queue they serve; imports of promotions that overlap, with
lists from different days and folders forgotten by a restart; a breaker moved by requests begun
before its state changed; carts and user rows read by one request and written back after
another has changed them; attempts counted in Redis against codes that live in Postgres.

What makes each component correct:

* Orders: goods are conserved; an order ends once; a pending order is booked in MoySklad;
  no booking is forgotten; the audit log agrees with the order.
* Expiry: never early; every lapsed reservation ends although transactions fail.
* Inbox: nothing accepted is lost or applied twice; attempts are bounded.
* Product row: stock, status and active agree; lost updates heal; the sync flag is
  neither leaked nor shared.
* Cache: a stale entry does not stay.
* Pool: no batch is lost, the gauges are exact, the queue drains.
* Client: slots balance, every call returns, the breaker opens for a reason and recovers.
* Promotions: what is sold at a reduced price is on the promotions page and under one of its
  filters; a withdrawn promotion goes out of force; the table comes to mirror MoySklad; a
  day promotion's reservation ends on its day.
* Cart: a line holds what the customer's requests make of it, one after another.
* Users: an accepted code does not come back, the tries of one code are bounded, edits of one
  column survive edits of another, exhausted attempts come to an end.

## 2. Plan

Done, most important behaviour first:

1. `ReservationLedger` (abstract) and `OrderLifecycle` (implements it), with proofs.
2. `WebhookInbox` with proofs; `DurableQueue` (abstract), which it implements.
3. `MoyskladClient` with proofs.
4. `ProductStock` with proofs.
5. `SyncWorkerPool` with proofs; `BatchBag` (abstract), which it implements.
6. `PromotionCatalog` (pure: best promotion, price, window, page, filters, category trees) and
   `DayPromotions` (imports, tree, admins, orders), with proofs.

7. `Cart`: read-modify-write of a line by several requests of one customer, removals, and the
   checkout that purges it.
8. `Accounts`: registration, codes with attempts and expiry, sign-in, password and profile, the
   rate store with its failures, with proofs.

To come:

9. `OrderLifecycle` with several positions per CustomerOrder (`moysklad/order.go:122`
    leaves out unreadable ones), and the price an order stores against the price shown.
10. Tokens: issue, revocation by id and by user, and an unreachable Redis
    (`services/blacklist.go`, `middleware/auth.go`).

Theorems intended: the invariants of 9 and 10, once they are modelled, and that the breaker of
`MoyskladClient`, as its callers see it, implements an abstract one.

## 3. Modules

| Module | Models | Runs | Proofs |
|---|---|---|---|
| `ReservationLedger` | what the stock promises: reserve, release, collect | through `OrderLifecycle` | `OrderLifecycleProofs` |
| `OrderLifecycle` | orders, expiry cron | `order_*` | `OrderLifecycleProofs` |
| `DurableQueue` | what the webhook queue promises: accept, take, apply, settle, give up, lose | through `WebhookInbox` | `WebhookInboxProofs` |
| `WebhookInbox` | webhook queue and its workers | `webhook_*` | `WebhookInboxProofs` |
| `MoyskladClient` | retries, limiter, semaphore, breaker | `moysklad_client` | `MoyskladClientProofs` |
| `ProductStock` | all writers of one product's row and cache entry | `product_stock` | `ProductStockProofs` |
| `BatchBag` | what the pool promises: a batch waits, is begun, ends once | through `SyncWorkerPool` | `SyncWorkerPoolProofs` |
| `SyncWorkerPool` | the pool of the full sync | `sync_pool*` | `SyncWorkerPoolProofs` |
| `PromotionCatalog` | prices, windows, page and filters as operators over the tables | through `DayPromotions` | `DayPromotionsProofs` |
| `DayPromotions` | imports of promotions and folders, admins, the window of an order | `day_*` | `DayPromotionsProofs` |
| `Cart` | one customer's cart | `cart` | `CartProofs` |
| `Accounts` | one address: its row, its codes, its attempts | `accounts` | `AccountsProofs` |

Each `MC...` module extends its specification and defines the values the `.cfg` files
assign to constants. Operators whose name contains an underscore, such as
`Send_Drops`, are mutants: the same operator with a plausible bug, not used by the
specification. For each property of a passing run there is one that breaks it.

### OrderLifecycle

A request (`req`) goes through `Price` (read the basket, fix the deadline), `Book` (POST
the CustomerOrder) or `BookError`, `Save` (the transaction `CreateOrderAtomic`) or one
of its two failures, `Unbook` (the compensation) and `Answer`. Actors are request
goroutines and one cron goroutine per instance; they `BeginCancel` or `Visit` an order,
take its row lock, commit or abort, record the event and delete the booking. The
cancelling transaction is two steps because `SKIP LOCKED` of another caller sees the lock;
`CreateOrderAtomic` is one, since its row is invisible before the commit. A commit may
succeed while its answer is lost (`SaveUnknown`, `CommitCancelUnknown`), goroutines
may be killed between any two steps. Stock changes line by line as in the SQL:
`TakeStock` subtracts every line, `RestoreStock` adds one line per product, as
`UPDATE ... FROM` does. Prices, names and texts are left out, so are the positions of a
CustomerOrder; the order of row locks in `CreateOrderAtomic` is not modelled.

`mishap` is a history variable for the properties.

### WebhookInbox

One row per idempotency key (`id`, `status`, `attempts`, `ripe` for `next_attempt_at`).
`Deliver` is the handler: it inserts with `ON CONFLICT DO NOTHING` and answers.
`ClaimBatch` takes the oldest ripe rows; `Process` runs one row with a nondeterministic
result; `Finish` writes the mark, `FinishUnmarked` fails to; `Crash` and `ClaimLost`
lose what a worker holds; `Ripen` is the backoff passing; `Replay` is the admin.

`DurableQueue` knows only where a key has got to: absent, queued, taken, applied, done, dead or
stuck. `PlaceOf` maps a row to it: "processing" is taken, or applied once its run has returned "ok",
while a worker has it, and stuck otherwise. An abstract step to stuck is a `Lose` of at most one batch and counts
a mishap, which is `kills + unmarked` here: a row dropped on an ordinary path would be no step of the queue.
So `ImplementsQueue` contains `NoneForgotten`, and more: no row returns from applied, done or stuck, and a
mishap does not cost more than the batch in hand.

### MoyskladClient

A caller runs `doRequestWithRetry`: ask the breaker, wait for the limiter, wait for a slot, send,
and then report, retry after a backoff, or return. Time is a few counters in ticks (`gap`,
`openLeft`) that stop at their bounds. `Failed` covers network errors, 429 and 502-504,
`Answered` every other status; cancelled contexts make the send fail and the backoff
return at once.

### ProductStock

One product. Eight actors run jobs, each a sequence of steps: fetch the stock report, fetch
the list, read the row, write the row, set or drop the cache entry. `job[a].held` is
the row as the job read it, possibly long ago. What is written (`NewRow`, `StockFor`)
is read off each writer: a delta keeps the held stock, a full sync takes the report,
an entity webhook writes zero, because `entity/product` carries no stock, the image sync
writes back the held row. An order or a report committed between the read and the write
is lost, in a delta too, although `moysklad_sync.go:216` says that a delta does not touch the stock:
`StockHeals` says that full syncs repair it. Any step may fail and end the job, and the process may restart
between two steps. MoySklad's stock changes by itself and may be negative. Orders take and
return one piece. One product is enough: no step relates the rows of two
products. Prices, categories, images and the time of the last sync are left out; a delta
may therefore list or omit the product at any time, which includes all the ways in which
that time can be wrong.

### SyncWorkerPool

The channel is a sequence of "batch" and "stop"; workers live in slots; `workers`,
`queued` and the totals are the atomics of the code, changed where the code changes them,
the deferred functions in their own steps. `Tick`, `Grow`, `Shrink` and `SendStop` are
the manager, which acts on values it has loaded before. `p.workers` is `workers` and
`stats.ActiveWorkers` is `active`: a worker takes itself off the one in `Exit` and off the other
in `Leave`, and the manager may look in between. The semaphore has a place for
every worker and never blocks. `Stop` ends the process and is left out.

`BatchBag` knows neither channel nor workers. A batch it counts as waiting is about to be put
into the channel or in it (`pushing + Cardinality(Batches)`), a busy one is in the hands of a
worker in "batch", and `processed` and `failed` are what has ended. Sending, stop tasks,
the manager and the deferred functions are steps that leave the bag alone.

### PromotionCatalog and DayPromotions

The calendar is abstracted to closing times. `ReservationDate` (`promotionwindow.go:57`) is constant
between two of them (18:00, at weekends 16:00, in Moscow) and grows by a day at each, so a
row only needs the number of closing times since its `valid_from` (`ago`, capped at 2) and a
reader the number since it called `time.Now` (`age`): `Applies` compares the two. Day
promotions and others (`manual`) are the two kinds the code distinguishes; `valid_until`
and `locked` are written and never read. Products are active, start and end dates, which the
import never sets, are absent, and a query with its `now` is one step. The queries behind the
filters succeed: one that fails only makes the filters fewer.

`Outcomes` is the set of promotions that may price a product, because Postgres returns
rows of equal discount in any order: the product's best if it is usable, otherwise the
best along the ancestors. `Chain` uses a map of ancestors that is a parameter: the
properties quantify over the current one, none (the query failed) or that of any earlier tree
(five-minute cache). `Listing` and `InFilter` walk the current tree downwards, as the recursive
queries do; `Endless` says when they do not return, and `Depth` is `maxDepth`.

A job goes through `Fetch` (the list of this moment), and for each discount `Lookup`, `Insert` or
`Update`, `LinkGoods`, `LinkCats`; each may fail, and the code goes on as in `SyncPromotions`.
`ImportTree(ok, set)` is one import of the folders in which those outside `ok` failed and only
those in `set` were given their parent (`RefreshPartly`); it is one
step, since promotions read the folder map only as a whole and the steps between would
only add parents one by one. For the same reason `LinkCats` reads the map and writes the links
in one step: the difference shows only when an import of the tree ends between the two.
`Restart` forgets map, jobs and requests.
`UpdatePromotion` writes every column from the request (`db/promotions.go:233`): the kind is the
one it names, `day` included if the request sends the columns of MoySklad back as they were, and without
them the row loses its MoySklad id. A request that names another `valid_from` is not followed. An order is two steps, the window check and the deadline, with
imports, edits and a closing time in between; the reservation is "closing" or "days".
`gone` is a history variable.

Bounds: `MaxRow` ids, with one left for each discount without a row (`SpareId`); `MaxEvents` for
edits, failures, closing times and the imports after a full sync. `Cutoff` waits for jobs and
requests that have already seen one: imports are cut off after five minutes, requests sooner.

### Cart

Carts of different customers share nothing, so there is one: `lines` maps products to
quantities, 0 where `cart_items` has no row. Adding and changing are three steps each, `Check` (the
product), `ReadLine` (the SELECT) and then `UpdateQuantity` or `Create`, because nothing holds
them together in the code; removing, clearing and the purge of a committed order are one DELETE
each. A comment (`db/orders.go:397-398`) says the purge names its goods so as not to delete what was added
meanwhile; of those goods it deletes the whole line, whatever it holds by now, and the model does the same.
`Create` needs the line to be still absent (unique index), `UpdateQuantity` of a row that is
gone changes nothing and succeeds. The quantity is bounded by the INTEGER column, which refuses more.
`shelf` is what the product checks see; stock changes are `Stocktake`. Reads of the cart and its
total are left out.

`wanted` and `overtaken` are history variables: what the requests whose statement took effect,
acknowledged or not, make of a line when taken one after another, and which goroutines hold a
quantity that was written over since. An
`add` that was overtaken writes a sum of an old quantity: the code then loses pieces, or brings
back pieces that were removed or already ordered. `LinesAddUp` says that this is the only
way to spoil a line and that the next absolute change repairs it.

### Accounts

One e-mail address: its row in `users`, its counter `code_attempts:<email>` with the ticks its key
has left, and goroutines that serve its owner's requests. Each SELECT, UPDATE and Redis call is a
step; `req` holds what the goroutine carries from one to the next (`code`, or the whole `row` it has
read). A tick is five minutes: a code lives two, the window of attempts three. `EnterCode` is the
GET of the counter, `GetByEmailAndCode` the comparison, `CountAttempt` the INCR with its EXPIRE, `block` is
`invalidateCode`, `confirm` the UPDATE that clears the code, `forgive` the DEL. A failed GET
counts as no attempts, a failed INCR as the first. An INCR that took effect may lose its reply: it
counts as the first too, and if it was, no EXPIRE follows and the key stays for ever (`Forever`), as it
does when EXPIRE itself is lost. Redis may lose its data (`LoseCounters`); each of these counts as one
of `MaxFaults`. The confirming UPDATE may take effect and lose its reply, too: the handler then counts
a wrong attempt. Retries that the Redis client makes by itself are left out, and `invalidateCode`'s
SELECT and UPDATE are one step, since the id of a row never changes.
`GiveUp` ends a request between any two steps. Where a wrong code would not be counted because the
request ended before the INCR, it counts as a fault too.

`ReadForPassword` and `UpdateProfile` read the row whole and edit it in memory; `UpdateUser`
writes the columns that carry the tag `update` (`db/users.go:39-59`), which do not include
the code. Of the columns, password and phone stand for all: name and user name behave like
the phone, and two edits of different columns are a password against a phone. The row starts with
the phone of its registration, `Stated`, and an edit sets one of `Phone`. Mails are left out: a code that was not delivered is never typed. Codes are drawn
from those that nobody holds, so a code may come again later, as among 900000. The limits per
IP only refuse a request, so do the checks of formats. Tokens are left out.

`tries`, `used` and `acked` are history variables: wrong codes compared with the living one, codes
that were accepted, last edit of each column.

What the model shows of the code without a property to contradict: exhausting the attempts marks
the address as confirmed, since `invalidateCode` uses the UPDATE that confirms it
(`handlers/user.go:296`, `usecase/user.go:448`), while its comment speaks of erasing the code; a new
code asked for while the attempts are exhausted is erased by the next try, until the window ends;
a late confirmation clears a newer code. The mails (`services/email.go:84`) and the
comment in migration 004 say that a code lives 30 minutes, the code says ten (`usecase/user.go:138`).

## 4. Runs

| Run | Instance | Shows |
|---|---|---|
| `order_lifecycle` | two orders competing for one of two products (stock for either, not for both), one handler, one cron that may be killed and restarted, one kill, one clock step | types, conservation, pending orders booked, no booking forgotten, audit log, no early expiry, refinement of the ledger, every lapsed reservation ends |
| `order_two_lines` (violation) | one order with two lines of one product | cancelling returns only one line (`db/orders.go:509`) |
| `webhook_inbox` | three deliveries of two keys, two workers, two attempts, one death, one failed mark, one replay | at most one success, refinement of the durable queue (nothing leaves its path but by a mishap, one batch each), every accepted event settles |
| `webhook_timeout` (violation) | no deaths, one failed mark | an event stays in "processing" for ever (`webhook_inbox_worker.go:96`) |
| `moysklad_client` | two callers, one slot, one retry, threshold two, five faults | slots, verdicts, breaker, every call returns, recovery |
| `product_stock` | stocks -1 and 1, three counted events, unbounded full syncs | columns agree, the flag, cache and stock heal |
| `sync_pool` | three workers, channel of four, seven batches, thresholds 3 and 2 | gauges, refinement of the bag of batches, the queue drains while a worker lives |
| `sync_pool_starved` (violation) | the same | queued stop tasks stop the last worker (`sync_worker.go:157`) |
| `day_promotions` | two products, two nested folders, a fresh table of categories, one discount with two versions, two importing goroutines, three counted events | page and filters complete, withdrawn discounts fade, orders end with the day, the table mirrors MoySklad |
| `day_priced` (violation) | the same, no failures | an order priced by a category's day promotion is reserved for three days (`promotion_pricing.go:228`) |
| `cart` | two products, two tabs with amounts 1 and 2, a column that holds 3 | a line holds what the requests make of it, unless an add was overtaken |
| `accounts` | two requests at a time, two codes, two attempts, one fault of Redis | accepted codes stay gone, tries per code are bounded, edits survive, exhausted attempts end |

A violation run checks one statement of a comment that the code does not keep; `findings`
in `PROJECT.json` quotes it. The other runs pass.

### Bounds and why they are enough

* Orders: the interesting conflicts are between two orders for the same goods and between
  two actors on one order. One kill suffices to leave a booking behind, one clock step to let
  a reservation lapse after it has been listed as not lapsed.
* Inbox: a row in hand, a redelivery of its key and a second row are what claims and marks can
  confuse; two attempts give a first, a last and, with a replay, one too many.
* Client: the threshold is reached by failures of different callers; five faults open the breaker, fail
  the half-open probe and cancel a caller in between.
* Product: the bound `MaxEvents` counts events from outside (edits in MoySklad, starts of
  jobs other than the repeated full sync, orders, failures, restarts). Three let a webhook,
  an order and an edit, or two jobs and a failure, overlap with the full sync, which is
  not counted. The two stocks are one that sells and one below zero.
* Pool: two surplus workers, thresholds one apart, and a channel that fills while batches are pushed.
  Thresholds of 10 and 5 with 4096 places only make the same situations longer.
* Promotions: one discount with two versions on different levels is what an old list, half-replaced links
  and a second row can mix up; two rows are one more than there should be. Two products in two
  nested folders separate "own category", "ancestor" and "none of its own"; `Depth` 1 is
  enough for them. Imports that fail halfway leave the folders without their parents. Three events let a withdrawal, two closing times and an uncounted
  import, or an edit, a restart and a second importer overlap.

* Cart: two requests on one line are enough to overtake one another, a removal or checkout comes between
  as a third; a second product shows that lines do not mix. With a column that holds 3 one add overflows;
  the run has about 195 000 states.
* Accounts: two codes are an old and a new one; two attempts (the code allows five) leave one between
  "none" and "all", and two requests make the one too many that overtakes the counter. A window of
  three ticks and a code of two keep their order, 15 and 10 minutes, so a code may see the end of one
  window and the start of the next. One fault shows what each failing call of Redis costs. One
  password suffices to tell an edit from none, and so does one phone besides that of the registration;
  the proofs cover any number.

The proofs remove these bounds for the safety properties they cover.

### Fairness

* `OrderLifecycle`: goroutines run on; every cron instance ticks again and visits what it has
  listed; a killed one is restarted. Strong fairness of `CommitCancel` says that
  a cancelling transaction tried again and again commits in the end: Postgres is not
  down for ever. Nothing obliges customers or MoySklad.
* `WebhookInbox`: the worker's ticker, a worker's loop, and time (`Ripen`). Neither deliveries nor
  replays nor success are promised.
* `MoyskladClient`: callers call again (the scheduler does), time passes, a request ends (120 s
  timeout). Strong fairness of `Pass` and `Send` stands for Go's FIFO service of a mutex
  and of blocked channel senders.
* `ProductStock`: a started job goes on, since each of its calls has a timeout; entries expire.
  The full sync is not fair by itself, since its interval may be zero: `StockHeals`
  assumes its repetition in its own formula.
* `SyncWorkerPool`: goroutines run on, the manager's ticker fires, a batch ends (five minutes).
  No new push is promised.
* `DayPromotions`: the ten-minute loop fetches again, a started import goes on (each call has a
  timeout), and the tree is imported again (every product sync does it). Edits, failures
  and closing times are counted and therefore end: `EventuallyMirrored` speaks of the time after.
* `Accounts`: time passes (`WF(Tick)`), nothing else: `LockEnds` must not depend on what requests do.
* `Cart` states no fairness; it promises nothing that must happen.

## 5. Proofs

All theorems hold for every value of the constants that satisfies the named
assumption of the module (`OrderAssumption`, `InboxAssumption`, ...), which TLC
evaluates on each instance. For each module the argument is an inductive invariant, a
lemma per action that keeps it, and temporal steps by `PTL`.

* `OrderLifecycleProofs` begins with the ledger: the pieces in pending and completed orders form a
  union of disjoint finite sets; reserving and releasing move exactly one of them. Hence
  `LedgerConserves`. In the detailed specification `OrderInv` adds to the properties what an actor knows between two
  steps: a row exists only after the save, the lock is exclusive and its order
  pending, whoever is past the commit has set the status it will log, and a live
  booking whose order is over has someone who will delete it or a mishap. Without
  these, "pending orders are booked" and "the audit log agrees" are not inductive,
  since a step would be taken on an order another actor has ended. `LedgerImplemented`
  shows every step to be a ledger step or a stutter, assuming `DistinctLines` (no order
  names a product twice), which is what the run `order_two_lines` shows to be needed;
  `StockConservedAlways` follows from the ledger's theorem. `NoEarlyExpiryEver` uses `CronLapsed`:
  what a cron has listed lapsed before, and the deadline does not move.
* `WebhookInboxProofs`: `InboxInv` says that a row in hand is "processing" and in no other
  hands, and counts runs against attempts and replays before and after a run.

  `QueueKeepsPromise` is about the abstract queue alone: a move of keys from place to place, with one lemma
  for all of them (`MoveKeeps`); the bound on stuck keys adds up cardinalities. `QueueImplemented` takes each
  action of the inbox to the move it is (`ClaimImplements`, ..., `CrashImplements`). It needs `InboxInv`, since a
  row in two hands would be taken and stuck at once, and `OneBatch`: a worker claims only
  with empty hands, so a death costs one batch. `PromiseKept` carries the promise over to the inbox.
* `MoyskladClientProofs`: `ClientInv` ties the failure counter of the closed breaker to the
  streak of reported failures; the number of tokens is the number of callers in "send",
  a fact about cardinalities.
* `ProductStockProofs`: the strengthening says that every row a job holds is consistent, however
  old, because consistency is what makes writing it back harmless for the columns'
  agreement, that a job which only writes over a row has read one, and that no more pieces
  are sold than there were orders.
* `SyncWorkerPoolProofs`: cardinality lemmas for moving a worker between states and for appending
  to and taking from the channel; `CountedBefore` says that a batch not
  yet taken out of `QueuedTasks` is in `processed + failed`, which keeps both within the total.
  `BagAccounts` is about the abstract bag alone. `BagImplemented` shows that a worker's step changes at
  most one of the numbers the bag is made of, with the cardinality lemmas of the invariant: a
  batch leaves the channel for a worker's hands, and those for one of the two totals. That
  no more than `maxWorkers` are busy follows from the number of slots. `BatchesAccounted`
  carries the equation over to the pool.
* `DayPromotionsProofs`: `FadeInv` says that a list in the hands of an import contains only
  discounts withdrawn no more closing times ago than the import is old, and that a row's
  window is at most one closing time younger than the withdrawal of its discount
  (`RowsFade`). Without the first the second is not inductive: an import writes a row,
  with today's window, from a list fetched before. `WithdrawnFades` follows, because a row
  in force has a window of today. `DayOrderBoundedAlways` needs no more than the types: the
  query of the deadline cannot miss a promotion of which the price is certain.

  `ListingComplete` and `FiltersCover` compare a walk up the tree, limited by `maxDepth` and
  coded as the recursive function `Above`, with an unlimited walk down. The library's induction theorems
  cannot be used here, so the module derives its own (`InductionOnSet`): a non-empty set of naturals
  has a least element, from the theorem that `<` is well-founded. With it, `Above`
  is shown to be the limit of its finite stages (`Raised`, `IsClimb`, `ClimbExists`, `ClimbUnique`), which
  gives its equations (`AboveZero`, `AboveNext`), that it only grows, and that it settles after at most as
  many steps as there are categories (`AboveSettles`: each earlier stage adds one). So a
  category found upwards within any depth is found by the unlimited query (`AboveComplete`), and a product
  has one of a promotion's categories above it exactly if it is in that category's subtree
  (`InSubtree`). Neither proof uses `Acyclic`: the properties assume a tree without cycle only because on a
  cycle the queries do not return. The attempt also corrected the model: `Chain` was a CASE two
  of whose guards overlapped, which left open what it returns; now it says which test comes first,
  as the code does.

  `PriceLaws` is about `EffectivePrice` in exact arithmetic with whole kopecks and percents (the code
  computes with float64): a promotion that saves half a kopeck or less prices a product without
  making it cheaper. With it and `ListingComplete`, `ListingExactAlways` says that the page
  lists those products and no others, and `PricesFadeAlways` carries `WithdrawnFades` from the rows over to
  the prices that are shown, whatever ancestors a request was answered with.
* `CartProofs`: `ReadIsCurrent` says that a request which has read a line and is not marked as overtaken
  still holds the quantity the table has. Without it, `LinesAddUp` is not inductive: an UPDATE writes a
  sum of what it has read. Every write marks the other readers of its line, so it is kept; an
  UPDATE of a row that is gone writes nothing and needs to mark nobody.

* `AccountsProofs`: `IInv` adds to the properties what a goroutine holds between two steps: what it will
  report as accepted is a code and never NULL (`HoldsCode`), the row it will write agrees with the
  table in the column it does not edit, or it was overtaken (`HoldsRow`), and it works on
  an account that is there (`WorksOnRow`, `AbsentOrThere`). Without `HoldsRow` a
  write of a row read earlier could undo anything.

  `TriesAlwaysBounded` needs a second invariant, `TriesInv`. A window lets `Most` requests
  through: those it counts and those on their way when it is full. The tries of a code are at most
  the attempts the window counts, the requests that are being counted, and `e` for faults and the
  window one of them ended (`Accounted`); a fault adds at most `Most` to `e` and to the requests let
  through beside the limit. The only other window that can count against a code is the one that ended
  in its life. It began before the code did, because a code does not outlive a window
  (`CodeTTL <= WindowTTL`), so one of its attempts was not this code's; and the window after it
  outlives the code. The lemmas on `InFlight` and `Counting` say that a step moves one goroutine, so the
  size of either set changes by at most one.

Proved, but checked by no run, are `CompletedWasApplied`, `BoundedRuns`, `NoneForgotten` and `OneBatch` of
the inbox, `NoBatchLost` of the pool, `PricesFade` and `ListingExact` of the
promotions and `QuietWhileOpen` of the client.

Only model-checked: all liveness (`LapsedReservationEnds`, `AckedSettles`, `CallsReturn`,
`Recovers`, `CacheHeals`, `StockHeals`, `DrainsWithWorker`, `EventuallyMirrored`, `LockEnds`), because
fairness and `ENABLED` are beyond the prover; and the violations. Every invariant and action property
that a passing run checks is a theorem. The modules declare no RECURSIVE operator; `Above` of
PromotionCatalog is a recursive function, and its equations are proved.

## 6. Not modelled

`components` in `PROJECT.json` gives the reason for each. In short: tokens, their black list (a failed
Redis lets a request go on as anonymous, `middleware/auth.go:83`)
and the sign-in of administrators are planned (section 2), lists of users and the reads of the cart
change nothing; of promotions, the creation of rows by hand, their dates and texts are left out; handlers, middleware, catalogue queries,
admin lists, e-mail, metrics, configuration and the web pages have no state of their own that
two actors share; the total of an empty cart fails (`db/cart.go:231` scans NULL into a number), which
no state depends on; `usecase/moysklad_orders.go`, `SyncStockOnly` and the counters `reserved:<id>` are
not used by the program. Postgres, Redis and MoySklad are external and appear
through what the code asks of them: transactions are atomic and may lose
their acknowledgement, Redis may fail at any call, MoySklad may fail, answer late or change by itself.
