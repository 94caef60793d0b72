------------------------------- MODULE DemoData -------------------------------
(***************************************************************************)
(* The commands seed_demo (with and without --flush) and                   *)
(* reset_loadtest_stock, beside a shop that goes on trading.  A flush and  *)
(* a reset are series of statements that commit one by one; a seeding is   *)
(* built in memory and inserted in one transaction.  Requests of the shop  *)
(* are one step each here; StockMutations has their statements.            *)
(***************************************************************************)
EXTENDS Integers, FiniteSets

CONSTANTS
  Demo,        \* the products "DEMO-..."
  Real,        \* the shop's own products
  LoadTest,    \* the product "LOADTEST-CONTENDED-001"
  OrderIds,
  Baskets,     \* the lines an order may have, as units per product
  Levels,      \* opening stocks
  NumOrders,   \* --orders
  MaxStock,    \* bound on the stock the shop brings about
  None

Products == Demo \cup Real \cup {LoadTest}
Lines    == [Products -> Nat]
NoLines  == [p \in Products |-> 0]
Others   == Demo \cup Real

ASSUME DemoAssumption ==
  /\ Demo \cap Real = {} /\ LoadTest \notin Demo \cup Real
  /\ Baskets \subseteq Lines /\ NoLines \notin Baskets
  /\ Levels \subseteq Nat \ {0}
  /\ NumOrders \in Nat /\ MaxStock \in Nat

\* A line of an order is of one product; 0 is no line.  demo: whether the creator
\* is one of the users "...@demo.seed".
Order  == [id : OrderIds, kind : {"purchase", "sale"}, demo : BOOLEAN, lines : Lines, done : BOOLEAN]
Return == [order : OrderIds, product : Products, units : Nat, done : BOOLEAN]
Tag    == {"category", "supplier", "user"}

VARIABLES
  there,           \* the rows of Product
  stock, ledger,   \* current_stock; the signed sum of the product's ledger rows
  logged,          \* products with a ledger row
  orders, returns,
  tags,            \* which kinds of demo rows there are besides products and orders
  level,           \* --stock of the last reset that set it
  overtaken,       \* units that requests moved since a reset's deletion, before its save
  torn,            \* products whose ledger rows a command has deleted, and not gone through
  cmd              \* the command that runs

shop == <<there, stock, ledger, logged, orders, returns>>
vars == <<shop, tags, level, overtaken, torn, cmd>>

Building == {"products", "orders", "returns", "damage", "insert"}
Flushing == {"flush_returns", "flush_ledger", "flush_sales", "flush_purchases",
             "flush_products", "flush_suppliers", "flush_categories", "flush_users"}
Deleted   == {"reset_list", "reset_items", "reset_orders", "reset_save"}
Resetting == {"reset_ledger"} \cup Deleted

\* stock, ledger, orders, returns: what a seeding has built so far; left: orders
\* still to build.  stale: stale_order_ids.
Command == [at : {"idle"} \cup Building \cup Flushing \cup Resetting,
            stock : [Products -> Int], ledger : [Products -> Int],
            orders : SUBSET Order, returns : SUBSET Return, left : 0..NumOrders,
            stale : SUBSET OrderIds, level : Levels \cup {None}]

Idle == [at |-> "idle", stock |-> NoLines, ledger |-> NoLines, orders |-> {}, returns |-> {},
         left |-> 0, stale |-> {}, level |-> None]

Init ==
  /\ there = Real
  /\ stock = NoLines /\ ledger = NoLines /\ logged = {}
  /\ orders = {} /\ returns = {} /\ tags = {}
  /\ level = 0 /\ overtaken = 0 /\ torn = {} /\ cmd = Idle

Moved(f, g, sign) == [p \in Products |-> f[p] + sign * g[p]]
Named(f)    == {p \in Products : f[p] > 0}
Only(p, n)  == [q \in Products |-> IF q = p THEN n ELSE 0]
Fresh(id)   == \A o \in orders \cup cmd.orders : o.id # id

-----------------------------------------------------------------------------
(* The shop.                                                               *)

\* A sale is refused when the stock is short.
Trade(f, sign) ==
  /\ \A p \in Products : stock[p] + sign * f[p] \in 0..MaxStock
  /\ stock' = Moved(stock, f, sign) /\ ledger' = Moved(ledger, f, sign)
  /\ logged' = logged \cup Named(f)
  /\ overtaken' = IF cmd.at \in Deleted THEN overtaken + sign * f[LoadTest] ELSE overtaken
  /\ UNCHANGED <<there, tags, level, torn, cmd>>

Place(id, kind, demo, f) ==
  /\ Fresh(id) /\ Named(f) \subseteq there
  /\ demo => "user" \in tags
  /\ orders' = orders \cup {[id |-> id, kind |-> kind, demo |-> demo, lines |-> f, done |-> FALSE]}
  /\ UNCHANGED <<there, stock, ledger, logged, returns, tags, level, overtaken, torn, cmd>>

\* receive and complete.
Settle(o) ==
  /\ ~ o.done
  /\ orders' = (orders \ {o}) \cup {[o EXCEPT !.done = TRUE]}
  /\ Trade(o.lines, IF o.kind = "purchase" THEN 1 ELSE -1)
  /\ UNCHANGED returns

\* One return per order and product, of all its units.
FileReturn(o, p) ==
  /\ o.kind = "sale" /\ o.done /\ o.lines[p] > 0
  /\ \A r \in returns : r.order = o.id => r.product # p
  /\ returns' = returns \cup {[order |-> o.id, product |-> p, units |-> o.lines[p], done |-> FALSE]}
  /\ UNCHANGED <<there, stock, ledger, logged, orders, tags, level, overtaken, torn, cmd>>

Approve(r) ==
  /\ ~ r.done
  /\ returns' = (returns \ {r}) \cup {[r EXCEPT !.done = TRUE]}
  /\ Trade(Only(r.product, r.units), 1)
  /\ UNCHANGED orders

\* on_delete=PROTECT: an order with returns is not deleted.
Unreturned(kind, os) == \A o \in os, r \in returns : o.kind = kind => r.order # o.id

Destroy(o) ==
  /\ Unreturned("sale", {o})
  /\ orders' = orders \ {o}
  /\ UNCHANGED <<there, stock, ledger, logged, returns, tags, level, overtaken, torn, cmd>>

-----------------------------------------------------------------------------
(* seed_demo --flush.                                                      *)

Step(from, to) == cmd.at = from /\ cmd' = [cmd EXCEPT !.at = to]

\* handle(): with --flush, or if there is no demo category.
Seed(flush) ==
  /\ flush \/ "category" \notin tags
  /\ Step("idle", IF flush THEN "flush_returns" ELSE "products")
  /\ UNCHANGED <<shop, tags, level, overtaken, torn>>

FlushReturns ==
  /\ Step("flush_returns", "flush_ledger")
  /\ returns' = {r \in returns : r.product \notin Demo}
  /\ UNCHANGED <<there, stock, ledger, logged, orders, tags, level, overtaken, torn>>

FlushLedger ==
  /\ Step("flush_ledger", "flush_sales")
  /\ ledger' = [p \in Products |-> IF p \in Demo THEN 0 ELSE ledger[p]]
  /\ logged' = logged \ Demo
  /\ torn' = torn \cup (Demo \cap there)
  /\ UNCHANGED <<there, stock, orders, returns, tags, level, overtaken>>

OfDemo(kind) == {o \in orders : o.kind = kind /\ o.demo}

FlushSales ==
  /\ Step("flush_sales", "flush_purchases")
  /\ Unreturned("sale", OfDemo("sale"))
  /\ orders' = orders \ OfDemo("sale")
  /\ UNCHANGED <<there, stock, ledger, logged, returns, tags, level, overtaken, torn>>

FlushPurchases ==
  /\ Step("flush_purchases", "flush_products")
  /\ orders' = orders \ OfDemo("purchase")
  /\ UNCHANGED <<there, stock, ledger, logged, returns, tags, level, overtaken, torn>>

\* Items, returns and ledger rows protect a product.
FlushProducts ==
  /\ Step("flush_products", "flush_suppliers")
  /\ \A o \in orders : Named(o.lines) \cap Demo = {}
  /\ \A r \in returns : r.product \notin Demo
  /\ logged \cap Demo = {}
  /\ there' = there \ Demo /\ torn' = torn \ Demo
  /\ stock' = [p \in Products |-> IF p \in Demo THEN 0 ELSE stock[p]]
  /\ UNCHANGED <<ledger, logged, orders, returns, tags, level, overtaken>>

\* (An operator named ...Fault is the one after it with a slip in it, such as a
\* later change might bring; nothing uses it.)  The categories first.
FlushSuppliersFault ==
  /\ Step("flush_suppliers", "flush_categories")
  /\ tags' = tags \ {"category"}
  /\ UNCHANGED <<shop, level, overtaken, torn>>

FlushSuppliers ==
  /\ Step("flush_suppliers", "flush_categories")
  /\ tags' = tags \ {"supplier"}
  /\ UNCHANGED <<shop, level, overtaken, torn>>

FlushCategories ==
  /\ Step("flush_categories", "flush_users")
  /\ tags' = tags \ {"category"}
  /\ UNCHANGED <<shop, level, overtaken, torn>>

\* on_delete=SET_NULL: what demo users have ordered meanwhile stays.
FlushUsers ==
  /\ Step("flush_users", "products")
  /\ tags' = tags \ {"user"}
  /\ orders' = {[o EXCEPT !.demo = FALSE] : o \in orders}
  /\ UNCHANGED <<there, stock, ledger, logged, returns, level, overtaken, torn>>

-----------------------------------------------------------------------------
(* The seeding, inside transaction.atomic().                               *)

InMemory == UNCHANGED <<shop, tags, level, overtaken, torn>>

\* The opening balances have no ledger rows (as in the command's first version,
\* docs/v2/CURRENT_STATE.md:148-153).
SeedProductsFault(opening) ==
  /\ cmd.at = "products"
  /\ cmd' = [cmd EXCEPT !.at = "orders", !.stock = opening, !.left = NumOrders]
  /\ InMemory

SeedProducts(opening) ==
  /\ cmd.at = "products"
  /\ cmd' = [cmd EXCEPT !.at = "orders", !.stock = opening, !.ledger = opening, !.left = NumOrders]
  /\ InMemory

\* One round too many.
BuildFault(id, kind, f, done, sign) ==
  /\ cmd.at = "orders" /\ cmd.left >= 0
  /\ Fresh(id) /\ Named(f) \subseteq Demo
  /\ cmd' = [cmd EXCEPT !.left = @ - 1,
       !.orders = @ \cup {[id |-> id, kind |-> kind, demo |-> TRUE, lines |-> f, done |-> done]}]
  /\ InMemory

\* A round of the loop over num_orders.
Build(id, kind, f, done, sign) ==
  /\ cmd.at = "orders" /\ cmd.left > 0
  /\ Fresh(id) /\ Named(f) \subseteq Demo
  /\ cmd' = [cmd EXCEPT
       !.left = @ - 1,
       !.orders = @ \cup {[id |-> id, kind |-> kind, demo |-> TRUE, lines |-> f, done |-> done]},
       !.stock  = IF done THEN Moved(@, f, sign) ELSE @,
       !.ledger = IF done THEN Moved(@, f, sign) ELSE @]
  /\ InMemory

BuildPurchaseOrder(id, f, received) == Build(id, "purchase", f, received, 1)

BuildSalesOrder(id, f, completed) ==
  /\ \A p \in Named(f) : cmd.stock[p] >= f[p]
  /\ Build(id, "sale", f, completed, -1)

\* No candidate with stock, or nothing more to build: _build_returns is next.
EndOrders ==
  /\ Step("orders", "returns")
  /\ InMemory

BuildReturn(o, p, approved) ==
  /\ cmd.at = "returns"
  /\ o.kind = "sale" /\ o.done /\ o.lines[p] > 0
  /\ \A r \in cmd.returns : r.order # o.id
  /\ cmd' = [cmd EXCEPT
       !.returns = @ \cup {[order |-> o.id, product |-> p, units |-> o.lines[p], done |-> approved]},
       !.stock   = IF approved THEN Moved(@, Only(p, o.lines[p]), 1) ELSE @,
       !.ledger  = IF approved THEN Moved(@, Only(p, o.lines[p]), 1) ELSE @]
  /\ InMemory

EndReturns ==
  /\ Step("returns", "damage")
  /\ InMemory

\* One product is written off, of those in stock.
BuildDamage(p, q) ==
  /\ cmd.at = "damage" /\ p \in Demo /\ q <= cmd.stock[p]
  /\ cmd' = [cmd EXCEPT !.at = "insert", !.stock = Moved(@, Only(p, q), -1), !.ledger = Moved(@, Only(p, q), -1)]
  /\ InMemory

\* The bulk inserts and the commit.
Insert ==
  /\ cmd.at = "insert"
  /\ there' = there \cup Demo
  /\ stock'  = [p \in Products |-> IF p \in Demo THEN cmd.stock[p] ELSE stock[p]]
  /\ ledger' = [p \in Products |-> IF p \in Demo THEN cmd.ledger[p] ELSE ledger[p]]
  /\ logged' = logged \cup Demo
  /\ orders' = orders \cup cmd.orders
  /\ returns' = returns \cup cmd.returns
  /\ tags' = Tag
  /\ cmd' = Idle
  /\ UNCHANGED <<level, overtaken, torn>>

-----------------------------------------------------------------------------
(* reset_loadtest_stock.                                                   *)

\* get_or_create: a product it creates has the stock and no ledger row.
Reset(n) ==
  /\ cmd.at = "idle"
  /\ cmd' = [cmd EXCEPT !.at = "reset_ledger", !.level = n]
  /\ there' = there \cup {LoadTest}
  /\ IF LoadTest \in there THEN UNCHANGED <<stock, level, overtaken>>
     ELSE stock' = [stock EXCEPT ![LoadTest] = n] /\ level' = n /\ overtaken' = 0
  /\ UNCHANGED <<ledger, logged, orders, returns, tags, torn>>

\* "Resetting current_stock alone": the rows of earlier runs stay.
ResetLedgerFault ==
  /\ Step("reset_ledger", "reset_list")
  /\ overtaken' = 0 /\ torn' = torn \cup {LoadTest}
  /\ UNCHANGED <<shop, tags, level>>

ResetLedger ==
  /\ Step("reset_ledger", "reset_list")
  /\ ledger' = [ledger EXCEPT ![LoadTest] = 0]
  /\ logged' = logged \ {LoadTest}
  /\ overtaken' = 0 /\ torn' = torn \cup {LoadTest}
  /\ UNCHANGED <<there, stock, orders, returns, tags, level>>

ResetList ==
  /\ cmd.at = "reset_list"
  /\ cmd' = [cmd EXCEPT !.at = "reset_items",
       !.stale = {o.id : o \in {s \in orders : s.kind = "sale" /\ s.lines[LoadTest] > 0}}]
  /\ UNCHANGED <<shop, tags, level, overtaken, torn>>

ResetItems ==
  /\ Step("reset_items", "reset_orders")
  /\ orders' = {IF o.kind = "sale" THEN [o EXCEPT !.lines[LoadTest] = 0] ELSE o : o \in orders}
  /\ UNCHANGED <<there, stock, ledger, logged, returns, tags, level, overtaken, torn>>

\* Every stale order goes, whatever else is on it.
ResetOrdersFault ==
  LET emptied == {o \in orders : o.id \in cmd.stale} IN
    /\ Step("reset_orders", "reset_save")
    /\ Unreturned("sale", emptied)
    /\ orders' = orders \ emptied
    /\ UNCHANGED <<there, stock, ledger, logged, returns, tags, level, overtaken, torn>>

ResetOrders ==
  LET emptied == {o \in orders : o.id \in cmd.stale /\ o.lines = NoLines} IN
    /\ Step("reset_orders", "reset_save")
    /\ Unreturned("sale", emptied)
    /\ orders' = orders \ emptied
    /\ UNCHANGED <<there, stock, ledger, logged, returns, tags, level, overtaken, torn>>

\* save(update_fields=["current_stock", ...]): whatever stock it has by now.
ResetSave ==
  /\ cmd.at = "reset_save"
  /\ stock' = [stock EXCEPT ![LoadTest] = cmd.level]
  /\ level' = cmd.level /\ torn' = torn \ {LoadTest}
  /\ cmd' = Idle
  /\ UNCHANGED <<there, ledger, logged, orders, returns, tags, overtaken>>

\* A statement raises (ProtectedError, be it for the sake of a row the model does
\* not have, or IntegrityError), or the process dies: what has committed stays, a
\* seeding is rolled back.
Stop ==
  /\ cmd.at # "idle"
  /\ cmd' = Idle
  /\ UNCHANGED <<shop, tags, level, overtaken, torn>>

-----------------------------------------------------------------------------
Shop ==
  \/ \E id \in OrderIds, kind \in {"purchase", "sale"}, demo \in BOOLEAN, f \in Baskets :
       Place(id, kind, demo, f)
  \/ \E o \in orders : Settle(o) \/ Destroy(o) \/ \E p \in Products : FileReturn(o, p)
  \/ \E r \in returns : Approve(r)

Flush == FlushReturns \/ FlushLedger \/ FlushSales \/ FlushPurchases \/ FlushProducts
         \/ FlushSuppliers \/ FlushCategories \/ FlushUsers

Seeding ==
  \/ \E flush \in BOOLEAN : Seed(flush)
  \/ \E opening \in [Demo -> Levels] :
       SeedProducts([p \in Products |-> IF p \in Demo THEN opening[p] ELSE 0])
  \/ \E id \in OrderIds, f \in Baskets, done \in BOOLEAN :
       BuildPurchaseOrder(id, f, done) \/ BuildSalesOrder(id, f, done)
  \/ EndOrders \/ EndReturns \/ Insert
  \/ \E o \in cmd.orders, p \in Products, approved \in BOOLEAN : BuildReturn(o, p, approved)
  \/ \E p \in Demo, q \in Levels \cup {0} : BuildDamage(p, q)

Resets ==
  \/ \E n \in Levels : Reset(n)
  \/ ResetLedger \/ ResetList \/ ResetItems \/ ResetOrders \/ ResetSave

Next == Shop \/ Flush \/ Seeding \/ Resets \/ Stop

Spec == Init /\ [][Next]_vars

-----------------------------------------------------------------------------
TypeOK ==
  /\ there \subseteq Products /\ logged \subseteq Products /\ torn \subseteq Products
  /\ stock \in [Products -> Int] /\ ledger \in [Products -> Int]
  /\ orders \subseteq Order /\ returns \subseteq Return
  /\ tags \subseteq Tag
  /\ level \in Nat /\ overtaken \in Int /\ cmd \in Command

(***************************************************************************)
(* The stock of every product but the load test's is what the ledger       *)
(* explains, of seeded ones too (seed_demo.py:9-14, tasks.py:109-111),     *)
(* except where a flush has deleted the rows and stopped.  A later flush   *)
(* that goes through makes it good.                                        *)
(***************************************************************************)
Explained == \A p \in there \ (torn \cup {LoadTest}) : stock[p] = ledger[p]

(***************************************************************************)
(* The load test's product is not explained: get_or_create and the save    *)
(* set its stock without a ledger row (reset_loadtest_stock.py:28-34, 58-60), *)
(* and the nightly reconciliation will report it.  Except where a reset    *)
(* has deleted the rows and not gone through, it counts from the level of  *)
(* the last reset (the comment at :36-42); and a reset beside requests is  *)
(* off by exactly what they moved between its deletion and its save, which *)
(* the save overwrites and the ledger has.                                 *)
(***************************************************************************)
ResetCounted ==
  LoadTest \in there \ torn => stock[LoadTest] = level - overtaken + ledger[LoadTest]

(***************************************************************************)
(* "Demo data already present" is decided by the categories alone          *)
(* (seed_demo.py:68): wherever earlier flushes stopped, a seeding that gets *)
(* past it finds no row its unique SKUs, names or addresses collide with.  *)
(***************************************************************************)
GateSound == cmd.at \in Building =>
  there \cap Demo = {} /\ tags \cap {"category", "supplier"} = {}

(***************************************************************************)
(* "exactly this command's own output, and nothing else" (seed_demo.py:3-4), *)
(* of orders: a command deletes no order of another creator that has a     *)
(* line besides the load test's, and no such line of it.                   *)
(***************************************************************************)
OthersKept ==
  [][~ Shop => \A o \in orders :
       ~ o.demo /\ Named(o.lines) \cap Others # {} =>
       \E q \in orders' : q.id = o.id /\ \A p \in Others : q.lines[p] = o.lines[p]]_vars
=============================================================================
