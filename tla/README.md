# A TLA+ model of Inventra

Inventra is a Django REST service for the stock of a shop: purchase orders are
received, sales orders completed, returns approved, damaged goods written off.
Every change of `Product.current_stock` must leave one row in an append-only
ledger (`InventoryTransaction`), each order must move stock once, and no unit may
be sold that is not there, while several gunicorn workers serve requests at once
against one PostgreSQL database. Reports are cached in Redis, invoices and nightly
checks run in Celery workers, and a single-page frontend holds the session.

Paths below are relative to the repository's root.

## 1. The system

| Part | State it keeps | Operations | What makes it correct |
|---|---|---|---|
| Stock endpoints (`apps/inventory/views.py`) | orders, items, returns, `current_stock`, the ledger | create orders and returns; `receive`, `complete`, `approve`, `damage` | stock equals the ledger; each order posts once and whole; no oversell; returns within the sale; no deadlock; every request ends |
| Edits and deletions (`update`, `partial_update`, `destroy` there) | orders, items, returns | load without lock, check, save or insert again; delete | the ledger stays right; a sale has the lines of one request; a receipt is final; a settled order keeps its status and its lines (it does not) |
| Report cache (`apps/core/cache.py`) | a version counter and cached responses in Redis | `get_version`, `cached_response`, `bump_version` on commit | no report from before a mutation its client was told of; stale responses age out |
| Reports (`apps/reports`) | none | five read-only queries | see the cache |
| Catalogue (`apps/catalog`) | products, categories, suppliers | CRUD, soft delete | retired products enter no new order; `current_stock` changes only with a ledger row |
| Notifications | rows per user and type | inserted by the stock endpoints and the sweep; `mark_read` | reaching the threshold is reported |
| Background tasks (`apps/inventory/tasks.py`) | - | `sweep_low_stock`, `reconcile_ledger`, from Celery Beat, redelivered on a crash, in one process or several | alerts repeated no more often than there are processes; a product in want is alerted; no false or missed mismatch |
| Invoices (`invoice`, `generate_invoice_pdf`, `GET /tasks/{id}/`) | a PDF per completed sale, a Celery result | dispatch on commit, retry, redelivery, poll | every accepted request is answered for good; a failure has a reason; no half-written file is forgotten; one request id from web to worker |
| Accounts (`apps/accounts`) | users, roles, tokens | register, roles, passwords, enable, disable; login, refresh, logout | no request undoes another's change; a refresh token is dead once rotated or logged out |
| Frontend (`static/frontend/app.js`) | tokens, the current view | calls the API several times at once, refreshes tokens, logs out | one expiry costs no session |
| Commands (`seed_demo`, `reset_loadtest_stock`, `generate_loadtest_tokens`) | demo and load-test rows | seed, flush, reset | stock and ledger agree after a seeding, wherever earlier flushes stopped; a reset counts from its level; other people's rows survive |

How they interact: the stock endpoints read and write rows that other requests,
the admin site, the commands and the Celery tasks also write; after its commit a
mutation bumps the cache's version (`transaction.on_commit`), reports read it;
the invoice endpoint hands a task to Celery and the client polls for its result;
a page refreshes its tokens while administrators change the accounts they belong to.
All shared state is in PostgreSQL and Redis. What is hard: interleavings of
statements of different transactions, status checks made without a lock, a
process that dies inside a transaction or between its commit and what follows
it, tasks delivered twice, commands that commit statement by statement, answers
that are lost or late, and calls to two stores that are not atomic together.

`PROJECT.json` lists every hazard with its line.

## 2. The modules

| Module | What it is |
|---|---|
| `OrderLines` | item lists: units of a product, the order `order_by("product_id")` gives, no product twice |
| `Warehouse` | the abstract specification: filing, settling and writing off are each one atomic step |
| `StockMutations` | the stock endpoints, one SQL statement (or one loop round) per action |
| `OrderEdits` | `StockMutations` plus updates and deletions of orders and returns |
| `ReportCache` | the cache, one Redis call per action |
| `BackgroundTasks` | the sweep and the reconciliation, one query per action, beside trade committed as a whole |
| `InvoiceTasks` | the invoice endpoint, the task's runs and the polled result |
| `DemoData` | the seeding, flushing and resetting commands, one statement per action, beside a trading shop |
| `Accounts` | users' rows and the endpoints and commands that write them |
| `Sessions` | extends `Accounts`: tokens, and the frontend that holds them |
| `MC...` | values of the constants for TLC |
| `StockMutationsProofs`, `StockLedgerProofs`, `OrderEditsProofs`, `ReportCacheProofs`, `BackgroundTasksProofs`, `DemoDataProofs`, `InvoiceTasksProofs`, `SessionsProofs` | theorems |

### StockMutations

`pc[w]` and `txn[w]` are a gunicorn worker: where its handler is and what its
transaction has read and written. The other variables are the committed
database (`stock`, `active`, `ledger`, `status`, `items`, `against`, `posted`,
`notices`), the row locks and the cache version. `"open"` is ordered / created /
pending, `"done"` received / completed / approved.

| Action | Code |
|---|---|
| `CreateOrder`, `FileReturn`, `DeactivateProduct` | the `create` handlers, `perform_destroy` |
| `RequestOrder`, `LockOrder`, `RefuseReplay`, `ReadItems` | the head of `receive`, `complete` and `approve`: `select_for_update().get()`, the 409 of a replay, `items.order_by("product_id")` |
| `ReceiveLine`, `ApproveLine` | one round of the loop: lock, add, save, ledger row, notice |
| `CheckLine`, `RefuseSale`, `SellLine` | the two loops of `complete`: lock and compare all lines first, then write, from the instances read |
| `RequestWriteOff`, `RefuseInactive`, `RefuseWriteOff`, `WriteOffLine` | `DamageWriteOffView.post` |
| `Commit`, `Bump` | status save and commit; the bump of the cache from `on_commit` |
| `Abort` | rollback when a statement raises or the process dies, anywhere |

PostgreSQL is modelled at READ COMMITTED, Django's default: a statement sees what
had committed when it started and its own transaction's writes; FOR UPDATE and
UPDATE own the row until the transaction ends. `FileReturn` is one step although
the handler has several statements, because all it decides on is guarded by the
sales order's lock, which it takes first and shares with nobody. The ledger is
kept as sums per type and product, and `posted` as sums per order and product;
rows are never updated or deleted by a handler. Notices have one recipient.
The foreign-key checks of `create`, which lock the referenced rows FOR KEY SHARE, are
not modelled; those of an update are, in `OrderEdits`.

`IsAtomic` says that the interleaved handlers implement
`Warehouse` under the identity mapping of `stock`, `ledger`, `status` and
`items`: every order settles at the instant of its commit, whole or not at all.

### OrderEdits

An update is a `draft`: the instance `get_object()` loaded, the request's items, and
how far its transaction has come. It holds rows from each statement to its commit.

| Action | Code |
|---|---|
| `LoadOrder`, `LoadReturn` | `get_object()` and the 409 of a settled order (a return has none), without a lock |
| `WriteRow` | `save()`: waits for the order's row and holds it. A purchase order's `save(update_fields=...)` raises if the row is gone, and is left out by a PATCH without a supplier; a sale's and a return's inserts the row again |
| `StartDelete`, `ReplaceItems` | `items.all().delete()`: its snapshot, then the wait for rows another update has deleted; the `bulk_create` |
| `CheckKey` | the deferred foreign-key checks at the commit: a product or the parent, FOR KEY SHARE, in the client's order |
| `SavePurchaseOrder`, `SaveSalesOrder`, `SaveReturn` | the commit: what the statements wrote is seen; a sale or return gets every column as it was loaded, status included, also when it was deleted in between |
| `AbortEdit` | rollback: an exception, a dead worker, or PostgreSQL breaking a deadlock |
| `Destroy`, `MissingOrder` | `destroy`, in any status unless returns protect a sale; `DoesNotExist` in a handler |

`HandlersWait` makes the handlers of `StockMutations` wait for rows an update holds;
the updates wait for theirs in the guards above. `FreshKeys` says only that *new* orders get
new keys: the saves above do bring a deleted row back under its old one.

Two things the model reaches and no property forbids, because the code does them:
a deleted sale or return comes back with its old status when an update loaded it before
the deletion and saves it after; and updates and handlers can deadlock. A PATCH of a
purchase order's items alone never writes the order's row: at its commit it holds a
product FOR KEY SHARE and wants the order's row, while `receive` holds the order's row FOR
UPDATE and wants the product. `src/README.md:99` and `inventory/views.py:132-135` say that
transactions on the same products queue up instead; among the stock endpoints they do
(`NoLockCycle`). PostgreSQL rolls one of the two back, which is `Abort` or `AbortEdit`.

### ReportCache

| Action | Code |
|---|---|
| `Ask`, `GetVersion`, `MissVersion`, `SetVersion` | a request; `get_version`: the get, and the set of a key that was missing |
| `Hit`, `Miss`, `Compute`, `Fail`, `Store`, `Answered` | `cached_response`: the look-up, the view, a view that raises or is not 2xx, the set, the answer |
| `Commit`, `Incr`, `IncrMissing`, `Reset`, `Acknowledge` | a mutation's commit; `bump_version`: `incr`, its `ValueError`, the set to 2; the response |
| `LoseBump`, `Expire` | a worker that dies, or a Redis that fails, after the commit; a timeout |

`data` counts committed mutations and a response carries the count it was
computed from; `floor` is the last mutation a reader's client may know of, the
ones acknowledged before it asked. The version key is there at first or not.
`undone` remembers that a creation of the key (`CreateVersion`, the set of a reader
or of a writer that found none) has overwritten a version others had bumped.

### BackgroundTasks

`queue` is the broker's, first in, first out; `worker[w]` is a process of the
Celery worker with the message it runs and what its queries returned.

| Action | Code |
|---|---|
| `Beat`, `Take`, `Finish` | the schedule, delivery, the late acknowledgement (`CELERY_TASK_ACKS_LATE`) |
| `Raise`, `Redeliver`, `LoseChild` | `autoretry_for` up to `max_retries`; the whole worker dies and the broker delivers again; one child dies and Celery acknowledges for it |
| `ListOut`, `ListLow`, `LookUp`, `Alert`, `SweepDone` | `sweep_low_stock`: two product queries, then per candidate the look for an unread alert and the insertion |
| `SumLedger`, `Compare`, `Report` | `reconcile_ledger`: the ledger's sums, then the products, then the notice |
| `Trade`, `Approve`, `SetThreshold`, `PatchStock`, `Deactivate`, `mark_read` | committed requests; `PatchStock` is a product update that writes `current_stock` |

The tasks run outside any transaction, so every query commits by itself and a
fault between two of them leaves what was done. `unread` counts the sweep's own unread
alerts; of other notifications 1 stands for one or more, which is all the
sweep's `exists()` can see. The worker is started with one or more of `Workers`
(`Started`): `celery -A config worker` (`docker-compose.yml:65`, `docs/v2/DEPLOY.md:31`)
runs a prefork pool of as many processes as there are CPUs. With two, the look-up of one delivery
falls between the look-up and the insertion of another, and an alert is made twice, against
`tasks.py:3-7`; `SweepRepeatsBounded` says that this is all: no more unread alerts of
one matter than processes, and so one if there is one, whatever is retried or redelivered.

### InvoiceTasks

The invoices of one sale: sales share only the queue and the workers. `queue` is a
bag, because Redis keeps no order between first deliveries, retries after their
countdown and redeliveries after the visibility timeout.

| Action | Code |
|---|---|
| `Complete`, `Withdraw` | `complete` gives the sale a number; a stale update (see `SettledReopened`) or a deletion takes it away |
| `Invoice` | `SalesOrderViewSet.invoice`: the 404, or `apply_async` from `on_commit` and the 202 |
| `Take`, `Bind` | delivery, STARTED, and `task_prerun` binding the request id of the headers |
| `ReadSale`, `NoInvoice` | the query; `DoesNotExist` or the `ValueError` |
| `Open`, `Write`, `Succeed` | `canvas.save`, which empties the file before it composes and writes; the result |
| `Retry`, `GiveUp`, `Acknowledge` | `autoretry_for` with `max_retries`; FAILURE; the late acknowledgement |
| `Raise`, `Redeliver`, `LoseChild` | a passing error; the whole worker dies and the broker delivers again, also after the result was stored; a child dies and its parent stores a failure and acknowledges |

The result backend ignores what comes after a SUCCESS (`Store`), as Celery's does; without
it a redelivered run of a sale that was reopened would turn an invoice that was
delivered into an error. `raised`, `killed` and `withdrawn` only remember
what has happened, for the properties. A retry's countdown and `retry_backoff` are time,
which the model has none of: a message that waits may be taken at once or late.

### DemoData

A command is `cmd`: the statement it is at, and what it holds in memory. Requests of
the shop are one step each here (`StockMutations` has their statements).

| Action | Code |
|---|---|
| `Seed` | `handle`: `--flush`, or the look for a demo category |
| `FlushReturns` ... `FlushUsers` | the eight deletions of `_flush`, each its own transaction, each refused if a row it protects (`on_delete=PROTECT`) is in the way |
| `SeedProducts`, `BuildPurchaseOrder`, `BuildSalesOrder`, `EndOrders`, `BuildReturn`, `EndReturns`, `BuildDamage` | `_seed_products` and `_seed_orders`, in memory |
| `Insert` | the `bulk_create`s, the `bulk_update` and the commit |
| `Reset`, `ResetLedger`, `ResetList`, `ResetItems`, `ResetOrders`, `ResetSave` | `reset_loadtest_stock`, statement by statement |
| `Stop` | a statement raises or the process dies: a flush and a reset keep what they have committed, a seeding is rolled back |
| `Place`, `Settle`, `FileReturn`, `Approve`, `Destroy` | the shop |

`ledger` is the signed sum of a product's rows, `torn` the products whose rows a
flush or a reset has deleted without going through since. An order has its units per
product; a return is of all the units of its line; a
seeding's write-off is of one product (`max(1, orders // 40)` of them in the code).
Stock that a stopped flush leaves unexplained is what `Explained` excepts, by name,
until another flush goes through.

The load test's product is never explained: `get_or_create` and the reset's `save` set its
stock without a ledger row, against `inventory/models.py:82` and `tasks.py:109-113`, and
the nightly reconciliation reports it. `ResetCounted` says what is true of it: its stock
is the `level` of the last reset plus its ledger, less `overtaken`, the units that requests moved between
the reset's deletion of the ledger rows and its save. The save writes over them while
their rows stay: a reset beside traffic that has *finished* still leaves a stock that is
off, by exactly that much and for no other reason.

### Accounts and Sessions

| Action | Code |
|---|---|
| `Register`, `Create`, `CreateSuperuser`, `Provision` | the four ways to a row: `RegisterView`, `UserViewSet.create`, `create_superuser`, `generate_loadtest_tokens` |
| `GetObject` | a request to `/users/{id}`: the permission check and the load |
| `Update` | `serializer.save()`: all columns of the loaded instance |
| `AssignRole`, `ResetPassword`, `Enable`, `Destroy` | one column, `save(update_fields=...)` |
| `Login`, `CheckRefresh`, `Rotate`, `Blacklist` | the views of simplejwt (5.5.1 in `uv.lock`, which refuses disabled users) under `/auth`, with `ROTATE_REFRESH_TOKENS` and `BLACKLIST_AFTER_ROTATION` |
| `AccessTokenExpires` | `ACCESS_TOKEN_LIFETIME` |
| `Api`, `Accept`, `Deny`, `Fail`, `TryRefresh`, `SetTokens`, `Throw` | `api()` and `tryRefresh()`, each `await` a point where others run |
| `NotServed` | a refresh that fails before the server, is throttled (`accounts/urls.py:15-16`) or gets any other answer that is not ok |
| `LoseAnswer` | the answer to a refresh does not arrive |
| `SessionExpired`, `Logout` | `logout()` of a call whose refresh failed; the button |
| `LoseLogout` | the logout is sent and forgotten (`.catch(() => {})`): lost or throttled, its token stays good |

`asked` is what the requests asked of each row, column by column, and `overlaid` the users
of whom a profile update saved a row that had changed since it was loaded: the
one way to undo another request (an administrator's deactivation among them).
`excuse` remembers, for each refresh token, what has befallen that very token. A refresh
may be refused (`Refusals`) because its user was disabled, the request was not served, a
second call had begun to refresh beside the first, the page logged out with the token
meanwhile, or the answer with its successor was lost. A token may be left alive with
nobody (`Losses`) because the answer that brought it or the logout that took it was lost,
or because it reached the page beside another refresh or after a logout (`setTokens` then fills
a page that was cleared, and something is set over it later). The properties hold every other token
to the rule, after any number of such events; that these things happen is the code's
behaviour, which the model shows and does not excuse away: two calls that refresh at once do log the
user out (`app.js:53-55`). A login and the `/users/me` that
follows it are one step; the page is not reloaded; refresh tokens do not expire.

## 3. What is checked

| Run | Bounds | Shows |
|---|---|---|
| `StockSales` | 2 workers, 2 sales, 1 purchase, 2 products, 2 crossed baskets, locking on | type, ledger invariant, single posting, no lock cycle, atomicity (refinement), every request answered |
| `StockReturns` | 2 workers, a sale, 2 returns, a purchase, write-offs of 1 or 2, 1 product | no oversell, returns covered by their sale, single posting, low stock reported |
| `OrderEdits` | 1 worker, 2 editors on the same order when both are busy, a purchase, a sale, a return, 1 basket; ledger sums up to `MaxUnits`, version up to `MaxVersion` | the ledger survives edits, deletions and rows saved again; a sale has the lines of one request; a receipt is final |
| `ReportCache` | 2 readers, 2 writers, 2 mutations, 1 report, key there or not | no client that was told of a mutation reads an older report, unless creating the key undid a bump; the inductive invariant of its proof; stale responses, a lost bump's too, age out |
| `BackgroundTasks` | a worker of 1 or 2 processes, 1 product, stock and threshold up to 1, 1 waiting message per task, `MaxRetries` 1 (the code's is 3), 2 faults, 1 patched stock; `Scope` | no more unread alerts than processes; with one process products in want alerted, and real mismatches reported once trade rests |
| `InvoiceTasks` | 2 requests, 2 processes, 2 invoice numbers (a sale reopened once), `MaxRetries` 1 (the code's is 3), 2 faults | failures explained, torn files tended, request ids right, every request answered for good |
| `DemoData` | 1 demo product, the load test's product, 2 orders, `--orders 1`, stock up to 1, at most one return at a time | stock explained wherever commands stop, a reset off by what it overtook, the gate of the seeding sound, others' orders kept |
| `Sessions` | 2 users, 2 requests to `/users/{id}`, 2 calls, 3 pairs of tokens | no account change undone; no refresh refused and no live token left behind but for what befell that token |
| `StockDuplicateLines` | 1 worker, a basket naming a product twice | **fails**: stock and ledger part |
| `SettledReopened` | 1 worker, 1 editor, 1 sale | **fails**: a completed sale is open again |
| `ReportCacheCold` | 3 readers, 2 writers, 1 mutation, key there or not | **fails**: a stale report is served |

Why the bounds are enough. A conflict between handlers is between two
transactions over one or two rows; a third worker only repeats it. Two products
in crossed order are what a lock cycle needs, and two sales of one product over
scarce stock what an oversell needs; the openings (2 and 3 units, threshold 1) let each
sale succeed, fail, and cross the threshold depending on the order. A return can
exceed its sale only with another one beside it. The safety properties of these runs are
proved for all bounds. One product at stock 0 or 1 and threshold 0 or 1 is in
each of the sweep's three classes, and two faults use up one retry and more. `Scope` follows
the worker of two processes for its sweeps only: no reconciliation is queued, one fault
at most, no patched stock, the product stays active. Two processes are what a repeated
alert needs; the liveness properties are checked for the worker of one. Two
tasks and two processes are what it takes for a run, its redelivery and another
task's run to write one file; with one retry a task can still fail by errors alone,
and the theorems hold for any number of retries. In `DemoData` one sale that
mixes a demo product with the load test's, and one that does not, meet each
deletion; `QuietBuild` lets no request in while a seeding works in memory, since
it reads nothing of the shop's until it inserts, and `FewReturns` keeps one
return, as each protects its own order and product. In `Sessions` the third pair
of tokens is the rotation of a rotated one; `FewMishaps` follows two things that befall tokens,
or one beside one account change, or two account changes. The theorems
need none of these bounds. `OrderEdits` has no end of its own (a reopened sale can be
completed again), so `Bounded` cuts it after two units of each kind; two editors on one order
are what overlapping replacements need, and an update of another order touches none of
the rows.
Every property of a passing run is shown to be breakable: for each there is a slip in one
definition (the operators named `...Fault`, listed under `mutants`)
that makes TLC report it.

### The four runs that fail

* **A product on two lines.** `complete()` keeps one instance per item
  (`products_by_item`), read before anything is written. With two lines of one
  product both instances start from the same stock and the last `save` wins. `receive`
  re-reads the row for every line and is right. The theorems therefore assume
  `SoundUse`: locking on and no basket that names a product twice.
* **A settled order reopened.** `SalesOrderViewSet.update` checks an unlocked
  instance and saves all its columns. The run stops at the first trace, a sale. With the
  constants set to a return alone, an empty PATCH does the same; with a purchase
  order alone its lines change after the receipt, while `save(update_fields=...)`
  keeps the status safe (`ReceiptFinal` passes).
* **A cold cache.** `get_version` creates a missing key by a get and a set. A request
  that stalls between them sets the counter back to 1. `StaleOnlyIfUndone` and its
  proof say that this is the only way: where no creation overwrites a bump, no stale report is read.
* **A false alarm.** The reconciliation's two queries are not one snapshot: a
  commit between them is a mismatch to it (`NoFalseAlarm`). The same gap can hide a
  real one, which is why `MismatchReported` asks for trade to come to rest.

### Fairness

`StockMutations!FairSpec` assumes strong fairness of each worker's handler
(`Serve`): a running request goes on, and PostgreSQL queues the waiters of a row, so
one that is freed again and again is one day granted. New requests, creations
and crashes are not fair. `ReportCache!FairSpec` assumes only that Redis drops a
key whose timeout has passed. `BackgroundTasks!FairSpec` assumes that Beat keeps
its schedule and that a process goes on with the task it runs; faults are bounded by
`MaxFaults`, and nothing is assumed of trade or of who reads what.
`InvoiceTasks!FairSpec` assumes that each worker process goes on with its run and
takes what waits; a retry's countdown and the visibility timeout pass. Faults are
bounded by `MaxFaults`; requests, completions and withdrawals are not fair.
`Sessions` and `DemoData` make no liveness claim: a user may close the page
and a command may die.

## 4. What is proved

TLAPS checks, for every value of the constants that satisfies the modules'
assumptions:

* `StockMutationsProofs!TypeCorrect`: `Spec => [](TypeOK /\ Addressed)`.
* `StockLedgerProofs!LedgerTheorem`, `OversellTheorem`, `LedgerInductive`: under
  `SoundUse` the stock equals the ledger and nothing is oversold.
  The stock equation alone is not inductive: a commit publishes what the transaction computed
  earlier. `LedgerInv` adds, for every worker, `Pending` (a written product is
  locked, and its new level is the committed one plus or minus the units of the
  ledger rows), `Checked` (the instances of the check loop are still the
  committed rows, and sufficient), `Fresh` (nothing is left over between
  requests) and that no sale holds a product twice. A step of one worker keeps
  another's part because both are about rows that worker has locked (`Others`).
* `StockMutationsProofs!LockDiscipline`, `NoLockCycleTheorem`: no lock cycle, for any
  number of workers and any item lists, locking on or off. `LockInv` says of each worker what
  it has been through (`Progress`), that it owns exactly the rows its transaction took
  (`Owns`), and that the order it has locked is not settled (`Entitled`). In a
  set of workers that all wait for one of the set, each waits for a product, since one that
  waits for its order owns nothing; take the one that wants the highest: whoever owns
  that product goes through its list in ascending order and so wants a higher one. Busy
  workers are finitely many, so there is a highest.
* `StockLedgerProofs!LowStockTheorem`: what has run low is reported, locking on or
  off. `NoticeInv` adds that a transaction already holds the notices that the levels it has
  written and not committed call for; a return's levels only rise.
* `StockLedgerProofs!PostedTheorem`: with locking on an order posts its lines, all and once,
  also when a list names a product twice. `PostingInv` adds that the ledger rows a
  transaction has inserted add up to the lines it has been through, and that these are
  still the order's (`Tallied`); `LockInv` gives that the order was open until now.
* `StockLedgerProofs!ReturnsTheorem`: with locking on returns are covered by their sale.
  `ReturnInv` says it of everything the filed returns claim, approved or not, and
  that a return has one line and is filed against a settled sale only.
* `StockLedgerProofs!AtomicTheorem`: under `SoundUse` the handlers implement
  `Warehouse`. `Commit` is one of its `Settle` and `WriteOff` steps, a filing is its `File`,
  every other step a stutter. It needs that stock and ledger agree
  (`LedgerInv`), that the lines written are the order's (`PostingInv`), and that a
  transaction without an order is a write-off of one quantity the view accepts (`WriteOffInv`).
* `OrderEditsProofs!EditTypeTheorem`, `EditLedgerInductive`, `EditsLedgerTheorem`,
  `EditsOversellTheorem`, `EditsLowStockTheorem`: the same with
  edits, deletions and deleted rows saved again. An update writes items and status only, and
  those of a sale only while it holds the row, which no handler then has; so it disturbs
  nothing a transaction has read under lock, and it brings in no list that names a product twice.
  `SaleLinesTheorem`: a sale's lines are one request's. `UpdateInv` is why: an update of a
  sale holds its row, alone, from before it looks at the items, and so has all of them in
  the snapshot its DELETE works on. `ReceiptTheorem`: a
  received purchase order stays received until it is deleted and posts nothing more. Single posting
  does not survive: a reopened sale (`SettledReopened`) is open and has posted. Coverage of
  returns and freedom from deadlock are not claimed beside edits (sections 2 and 6).
* `ReportCacheProofs!TypeCorrect`, `CacheTheorem` and `NoStaleTheorem`, with the version key there
  or not: unless its creation has undone a bump, no stale report. `CacheInv` says that
  versions held or stored never exceed the counter, that what is stored or about
  to be stored under the current version knows every acknowledged mutation, and that what lies
  under a reader's version knows everything that reader may count on.
* `BackgroundTasksProofs!TypeCorrect`, and `SweepRepeatsTheorem`: for any number of
  processes, nobody has more unread alerts of one matter than there are processes. The invariant
  counts with them the processes that have found no alert and not inserted theirs yet: each can
  find none only while there is none.
* `InvoiceTasksProofs!TypeCorrect`, `FailureTheorem`, `TornTheorem`,
  `TracedTheorem`. The invariant adds to the properties that every retry a message
  counts was owed to a passing error of its task or to a cause that excuses it
  (`Follows`, `RunOK`), that a task which is not excused works on the sale's current
  invoice (`Current`), and that a torn file is of that invoice and carried by a
  message or a run that has still to write it (`Torn`).
* `DemoDataProofs!TypeCorrect`, `ExplainedTheorem`, `ResetTheorem`,
  `GateTheorem`, `OthersTheorem`. The invariant adds that what a seeding has built
  agrees with itself (`Built`), what a reset has deleted until it saves
  (`ResettingOK`), that a return's order is a sale (`Rows`), and that the categories
  are the last to go of what a seeding collides with (`Gate`).
* `SessionsProofs!TypeCorrect`, `NothingUndoneTheorem`, `RefusedTheorem`,
  `StrayTheorem`. For the accounts a loaded row is still there (`Loaded`). For the
  tokens: what a call asks to refresh is good and its own, or that token may be refused
  (`AsksOrder`); a fresh token is good and nobody else has it (`RenewedOrder`); the
  page's token is good unless a refresh has it rotated, and if a call or a login will set
  another over it, it is done with or may be lost (`PageOrder`); and every live one is
  held by somebody or lost (`Held`).

Assumed: the `ASSUME`s of the modules (rows of different tables differ, item lists
are not empty and have positive quantities - what the serializers enforce -,
`None` is no version), and the PostgreSQL and Redis behaviour described above. Beyond
that, a theorem assumes nothing, or `LockingEnabled` (the locking the code runs with), or
`SoundUse` (and no list that names a product twice: the run that fails shows why).
Every strengthening was an invariant of a TLC run before it was proved.

Sums. Posting, coverage and the refinement add up lines, orders and returns with
`MapThenSumSet`. The library's induction theorems take an operator as parameter,
which the provers cannot instantiate; instead `StockMutationsProofs` shows
that no smallest set can be a counterexample (`Total...`), by well-foundedness of
cardinality, and from it what the proofs need: adding and removing
one element, equal and smaller summands, and that a list's units are the same in any
order (`UnitsStep`, `UnitsReordered`).

Only model-checked: liveness (`RequestsAnswered`, `EventuallyFresh`,
`LowStockAlerted`, `MismatchReported`, `Answered`), which the prover cannot reach under
fairness. Every safety property of a passing run is a theorem.

## 5. How to run it

    tlc -config StockSales.cfg MCStockMutations.tla
    tlapm StockLedgerProofs.tla

## 6. Not modelled, and the plan

Left out for good: PDF layout, report columns, filters and pagination, prices,
logging, the counting of throttled requests (Django REST Framework's, and a refused
request changes nothing), which role may call which stock endpoint, the admin's
generated forms, the health probe, and which view the frontend shows when answers overtake
each other (`app.js:198`: only the screen differs). Also not modelled: results that expire in
Celery's backend, refresh tokens that expire after a week, and reloads of the page, each
of which ends a session or an answer by design. A seeding and a reset running at once are
one operator's doing and not modelled: one command runs at a time.

Next, in this order:

1. Deletion of approved returns (`inventory/views.py:347`): how far `ReturnsCoveredBySale`
   survives it.
2. Product PATCHes as load and save (`catalog/views.py:47`): the stale instance they write back.
3. Key-share locks of the foreign-key checks in creation (`inventory/views.py:92`), as
   `OrderEdits` has them for updates.
4. Proofs: how much of single posting is left beside edits if reopened sales are set apart.

What the properties do not see: `LowStockReported` looks at notices that only grow, so it
sees a product's first fall since the opening and not a second one after a refill;
`FailureExplained` and `Answered` tolerate that the answer of a sale withdrawn after its
success changes before it settles; `OthersKept` meets no request that adds a line to an
order that is there (the API has one, an update of its items), and the last statement of a
reset is atomic in it (`reset_loadtest_stock.py:51-56` reads and deletes).
