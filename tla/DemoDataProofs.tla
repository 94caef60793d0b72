---------------------------- MODULE DemoDataProofs ----------------------------
(***************************************************************************)
(* What a seeding, a flush and a reset of the load test leave behind,      *)
(* wherever they stop and whatever the shop does between their statements. *)
(***************************************************************************)
EXTENDS DemoData, TLAPS

-----------------------------------------------------------------------------
(* Lines, orders and the command, field by field.                          *)

LEMMA LineTypes ==
  ASSUME NEW f \in [Products -> Int], NEW g \in Lines, NEW sign \in {-1, 1}
  PROVE  /\ Moved(f, g, sign) \in [Products -> Int]
         /\ \A p \in Products : Moved(f, g, sign)[p] = f[p] + sign * g[p]
         /\ \A p \in Products \ Named(g) : Moved(f, g, sign)[p] = f[p]
<1>1. \A p \in Products : g[p] \in Nat /\ f[p] \in Int
  BY DEF Lines
<1>2. \A p \in Products : f[p] + sign * g[p] \in Int
  BY <1>1, SMT
<1>3. \A p \in Products : ~ g[p] > 0 => f[p] + sign * g[p] = f[p]
  BY <1>1, SMT
<1> QED
  BY <1>2, <1>3 DEF Moved, Named

LEMMA OnlyType ==
  ASSUME NEW p \in Products, NEW n \in Nat
  PROVE  Only(p, n) \in Lines /\ Named(Only(p, n)) \subseteq {p}
  BY SMT DEF Only, Lines, Named

LEMMA OrderFields ==
  ASSUME NEW o \in Order
  PROVE  /\ o.id \in OrderIds /\ o.kind \in {"purchase", "sale"} /\ o.lines \in Lines
         /\ \A p \in Products : o.lines[p] \in Nat
         /\ LET q == [o EXCEPT !.done = TRUE] IN
              q \in Order /\ q.id = o.id /\ q.kind = o.kind /\ q.lines = o.lines
         /\ LET q == [o EXCEPT !.demo = FALSE] IN
              q \in Order /\ q.id = o.id /\ q.kind = o.kind /\ q.lines = o.lines
<1>1. /\ o.id \in OrderIds /\ o.kind \in {"purchase", "sale"} /\ o.lines \in Lines
      /\ \A p \in Products : o.lines[p] \in Nat
  BY SMT DEF Order, Lines
<1>2. LET q == [o EXCEPT !.done = TRUE] IN
        q \in Order /\ q.id = o.id /\ q.kind = o.kind /\ q.lines = o.lines
  BY ZenonT(60) DEF Order
<1>3. LET q == [o EXCEPT !.demo = FALSE] IN
        q \in Order /\ q.id = o.id /\ q.kind = o.kind /\ q.lines = o.lines
  BY ZenonT(60) DEF Order
<1> QED
  BY <1>1, <1>2, <1>3

LEMMA EmptyLine ==
  ASSUME NEW f \in Lines
  PROVE  LET l == [f EXCEPT ![LoadTest] = 0] IN
           /\ l \in Lines /\ \A p \in Products \ {LoadTest} : l[p] = f[p]
           /\ Named(l) \subseteq Named(f)
<1> DEFINE l == [f EXCEPT ![LoadTest] = 0]
<1>1. l = [p \in Products |-> IF p = LoadTest THEN 0 ELSE f[p]]
  BY DEF Lines
<1> HIDE DEF l
<1>2. \A p \in Products : l[p] = IF p = LoadTest THEN 0 ELSE f[p]
  BY <1>1
<1>3. l \in Lines
  BY <1>1, SMT DEF Lines
<1>4. ASSUME NEW p \in Products, l[p] > 0 PROVE f[p] > 0
  BY <1>2, <1>4, SMT
<1> QED
  BY <1>2, <1>3, <1>4 DEF Named, l

LEMMA Emptied ==
  ASSUME NEW o \in Order
  PROVE  LET q == [o EXCEPT !.lines[LoadTest] = 0] IN
           /\ q \in Order /\ q.id = o.id /\ q.kind = o.kind /\ q.demo = o.demo
           /\ \A p \in Products \ {LoadTest} : q.lines[p] = o.lines[p]
           /\ Named(q.lines) \subseteq Named(o.lines)
<1> DEFINE l == [o.lines EXCEPT ![LoadTest] = 0]
           q == [o EXCEPT !.lines = l]
<1>1. o.lines \in Lines
  BY OrderFields
<1>2. /\ l \in Lines /\ \A p \in Products \ {LoadTest} : l[p] = o.lines[p]
      /\ Named(l) \subseteq Named(o.lines)
  BY <1>1, EmptyLine
<1> HIDE DEF l
<1>3. q \in Order /\ q.id = o.id /\ q.kind = o.kind /\ q.demo = o.demo /\ q.lines = l
  BY <1>2, ZenonT(60) DEF Order
<1>4. q = [o EXCEPT !.lines[LoadTest] = 0]
  BY DEF l
<1> HIDE DEF q
<1> QED
  BY <1>2, <1>3, <1>4

LEMMA ReturnFields ==
  ASSUME NEW r \in Return
  PROVE  /\ r.order \in OrderIds /\ r.product \in Products /\ r.units \in Nat
         /\ LET q == [r EXCEPT !.done = TRUE] IN
              q \in Return /\ q.order = r.order /\ q.product = r.product
<1>1. r.order \in OrderIds /\ r.product \in Products /\ r.units \in Nat
  BY SMT DEF Return
<1>2. LET q == [r EXCEPT !.done = TRUE] IN
        q \in Return /\ q.order = r.order /\ q.product = r.product
  BY ZenonT(60) DEF Return
<1> QED
  BY <1>1, <1>2

LEMMA CommandFields ==
  ASSUME NEW c \in Command
  PROVE  /\ c.stock \in [Products -> Int] /\ c.ledger \in [Products -> Int]
         /\ c.orders \subseteq Order /\ c.returns \subseteq Return
         /\ c.left \in 0..NumOrders /\ c.level \in Levels \cup {None}
  BY SMT DEF Command

LEMMA IdleFields ==
  /\ Idle \in Command /\ Idle.at = "idle" /\ Idle.stock = Idle.ledger
  /\ Idle.orders = {} /\ Idle.returns = {}
  BY DemoAssumption, SMT DEF Idle, Command, NoLines

At == {"idle"} \cup Building \cup Flushing \cup Resetting

LEMMA CommandAt ==
  ASSUME NEW c \in Command, NEW at \in At
  PROVE  LET d == [c EXCEPT !.at = at] IN
           /\ d \in Command /\ d.at = at /\ d.stock = c.stock /\ d.ledger = c.ledger
           /\ d.orders = c.orders /\ d.returns = c.returns
           /\ d.level = c.level
  BY ZenonT(60) DEF Command, At

Levelled(c, level_)    == [c EXCEPT !.at = "reset_ledger", !.level = level_]
Listed(c, stale)       == [c EXCEPT !.at = "reset_items", !.stale = stale]

LEMMA CommandLevelled ==
  ASSUME NEW c \in Command, NEW level_ \in Levels
  PROVE  LET d == Levelled(c, level_) IN
           /\ d \in Command /\ d.at = "reset_ledger" /\ d.stock = c.stock /\ d.ledger = c.ledger
           /\ d.orders = c.orders /\ d.returns = c.returns
           /\ d.level = level_
<1>1. "reset_ledger" \in Resetting
  BY DEF Resetting, Deleted
<1> QED
  BY <1>1, ZenonT(60) DEF Command, Levelled

LEMMA CommandListed ==
  ASSUME NEW c \in Command, NEW stale \in SUBSET OrderIds
  PROVE  LET d == Listed(c, stale) IN
           /\ d \in Command /\ d.at = "reset_items" /\ d.stock = c.stock /\ d.ledger = c.ledger
           /\ d.orders = c.orders /\ d.returns = c.returns
           /\ d.level = c.level
<1>1. "reset_items" \in Resetting
  BY DEF Resetting, Deleted
<1> QED
  BY <1>1, ZenonT(60) DEF Command, Listed

Stocked(c, s, l)       == [c EXCEPT !.at = "orders", !.stock = s, !.ledger = l, !.left = NumOrders]
Counted(c, s, l)       == [c EXCEPT !.at = "insert", !.stock = s, !.ledger = l]
Ordered(c, n, os, s, l) == [c EXCEPT !.left = n, !.orders = os, !.stock = s, !.ledger = l]
Returned(c, rs, s, l)  == [c EXCEPT !.returns = rs, !.stock = s, !.ledger = l]

LEMMA CommandStocked ==
  ASSUME NEW c \in Command, NEW s \in [Products -> Int], NEW l \in [Products -> Int]
  PROVE  LET d == Stocked(c, s, l) IN
           /\ d \in Command /\ d.at = "orders" /\ d.stock = s /\ d.ledger = l
           /\ d.orders = c.orders /\ d.returns = c.returns
<1>1. NumOrders \in 0..NumOrders /\ "orders" \in Building
  BY DemoAssumption, SMT DEF Building
<1> QED
  BY <1>1, ZenonT(60) DEF Command, Stocked

LEMMA CommandCounted ==
  ASSUME NEW c \in Command, NEW s \in [Products -> Int], NEW l \in [Products -> Int]
  PROVE  LET d == Counted(c, s, l) IN
           /\ d \in Command /\ d.at = "insert" /\ d.stock = s /\ d.ledger = l
           /\ d.orders = c.orders /\ d.returns = c.returns
<1>1. "insert" \in Building
  BY DEF Building
<1> QED
  BY <1>1, ZenonT(60) DEF Command, Counted

LEMMA CommandOrdered ==
  ASSUME NEW c \in Command, NEW s \in [Products -> Int], NEW l \in [Products -> Int],
         NEW n \in 0..NumOrders, NEW os \in SUBSET Order
  PROVE  LET d == Ordered(c, n, os, s, l) IN
           /\ d \in Command /\ d.at = c.at /\ d.stock = s /\ d.ledger = l
           /\ d.orders = os /\ d.returns = c.returns
  BY ZenonT(60) DEF Command, Ordered

LEMMA CommandReturned ==
  ASSUME NEW c \in Command, NEW s \in [Products -> Int], NEW l \in [Products -> Int],
         NEW rs \in SUBSET Return
  PROVE  LET d == Returned(c, rs, s, l) IN
           /\ d \in Command /\ d.at = c.at /\ d.stock = s /\ d.ledger = l
           /\ d.orders = c.orders /\ d.returns = rs
  BY ZenonT(60) DEF Command, Returned

-----------------------------------------------------------------------------
(* The inductive invariant.                                                *)

(* What has been built in memory fits together; between the deletion of    *)
(* the load test's ledger rows and the save its product is known as torn,  *)
(* and its rows are those of requests that came meanwhile.                 *)
Built(c) ==
  /\ c.stock = c.ledger
  /\ \A o \in c.orders : Named(o.lines) \subseteq Demo
  /\ \A r \in c.returns : r.product \in Demo /\ \E o \in c.orders : o.id = r.order /\ o.kind = "sale"

ResettingOK ==
  /\ cmd.at \in Resetting => cmd.level \in Levels /\ LoadTest \in there
  /\ cmd.at \in Deleted => LoadTest \in torn /\ ledger[LoadTest] = overtaken

(* What the rows refer to is there; a return's order is a sale.            *)
Rows ==
  /\ \A o \in orders : Named(o.lines) \subseteq there
  /\ \A r \in returns : r.product \in there /\ \E o \in orders : o.id = r.order /\ o.kind = "sale"
  /\ logged \subseteq there
  /\ LoadTest \notin there => ledger[LoadTest] = 0

AfterCategories == {"flush_users"} \cup Building
AfterSuppliers  == {"flush_categories"} \cup AfterCategories
AfterProducts   == {"flush_suppliers"} \cup AfterSuppliers

(* The categories are the last to go of what a seeding collides with.      *)
Gate ==
  /\ cmd.at \in AfterProducts => there \cap Demo = {}
  /\ cmd.at \in AfterSuppliers => "supplier" \notin tags
  /\ cmd.at \in AfterCategories => "category" \notin tags
  /\ "category" \notin tags => there \cap Demo = {} /\ "supplier" \notin tags

Inv == TypeOK /\ Built(cmd) /\ ResettingOK /\ Rows /\ Explained /\ ResetCounted /\ Gate

LEMMA StepTo ==
  ASSUME cmd \in Command, NEW from, NEW to \in At, Step(from, to)
  PROVE  /\ cmd.at = from /\ cmd' \in Command /\ cmd'.at = to
         /\ cmd'.stock = cmd.stock /\ cmd'.ledger = cmd.ledger
         /\ cmd'.orders = cmd.orders /\ cmd'.returns = cmd.returns
         /\ cmd'.level = cmd.level
  BY CommandAt DEF Step

LEMMA BuiltOn ==
  ASSUME Built(cmd), cmd'.stock = cmd.stock, cmd'.ledger = cmd.ledger,
         cmd'.orders = cmd.orders, cmd'.returns = cmd.returns
  PROVE  Built(cmd')
  BY DEF Built

(* A step in memory that ends at cmd.                                      *)
LEMMA InMemoryStep ==
  ASSUME Inv, InMemory, cmd' \in Command, Built(cmd'), ResettingOK', Gate'
  PROVE  Inv'
<1>1. TypeOK' /\ Rows' /\ Explained' /\ ResetCounted'
  BY DEF Inv, InMemory, shop, TypeOK, Rows, Explained, ResetCounted
<1> QED
  BY <1>1 DEF Inv

-----------------------------------------------------------------------------
(* The shop.                                                               *)

LEMMA TradeStep ==
  ASSUME Inv, NEW f \in Lines, NEW sign \in {-1, 1}, Trade(f, sign), Named(f) \subseteq there
  PROVE  /\ stock' \in [Products -> Int] /\ ledger' \in [Products -> Int]
         /\ logged' \subseteq Products /\ logged' \subseteq there /\ overtaken' \in Int
         /\ ResettingOK' /\ Explained' /\ ResetCounted' /\ Gate'
         /\ UNCHANGED <<there, tags, level, torn, cmd>>
         /\ LoadTest \notin there => ledger'[LoadTest] = 0
<1>t. /\ stock \in [Products -> Int] /\ ledger \in [Products -> Int]
      /\ logged \subseteq there /\ there \subseteq Products /\ level \in Nat /\ overtaken \in Int
      /\ LoadTest \in Products
  BY DEF Inv, TypeOK, Rows, Products
<1>1. /\ stock' = Moved(stock, f, sign) /\ ledger' = Moved(ledger, f, sign)
      /\ logged' = logged \cup Named(f)
      /\ overtaken' = IF cmd.at \in Deleted THEN overtaken + sign * f[LoadTest] ELSE overtaken
      /\ UNCHANGED <<there, tags, level, torn, cmd>>
  BY DEF Trade
<1>2. /\ stock' \in [Products -> Int] /\ ledger' \in [Products -> Int]
      /\ \A p \in Products : stock'[p] = stock[p] + sign * f[p] /\ ledger'[p] = ledger[p] + sign * f[p]
      /\ \A p \in Products \ Named(f) : ledger'[p] = ledger[p]
  BY <1>t, <1>1, LineTypes
<1>3. \A p \in Products : sign * f[p] \in Int /\ stock[p] \in Int /\ ledger[p] \in Int
  BY <1>t, SMT DEF Lines
<1>4. overtaken' \in Int
  BY <1>t, <1>1, <1>3, SMT
<1>5. ResettingOK'
  BY <1>t, <1>1, <1>2 DEF Inv, ResettingOK, Resetting, Deleted
<1>6. Explained'
  <2> SUFFICES ASSUME NEW p \in there \ (torn \cup {LoadTest}) PROVE stock'[p] = ledger'[p]
    BY <1>1 DEF Explained
  <2>1. stock[p] = ledger[p] /\ p \in Products
    BY <1>t DEF Inv, Explained
  <2> QED
    BY <1>2, <2>1
<1>7. ResetCounted'
  <2> SUFFICES ASSUME LoadTest \in there \ torn
               PROVE  stock'[LoadTest] = level - overtaken' + ledger'[LoadTest]
    BY <1>1 DEF ResetCounted
  <2>1. stock[LoadTest] = level - overtaken + ledger[LoadTest] /\ overtaken' = overtaken
    BY <1>1 DEF Inv, ResetCounted, ResettingOK, Resetting, Deleted
  <2>2. /\ stock'[LoadTest] = stock[LoadTest] + sign * f[LoadTest]
        /\ ledger'[LoadTest] = ledger[LoadTest] + sign * f[LoadTest]
    BY <1>t, <1>2
  <2> QED
    BY <1>t, <1>3, <2>1, <2>2, SMT
<1>8. Gate'
  BY <1>1 DEF Inv, Gate
<1>9. LoadTest \notin there => ledger'[LoadTest] = 0
  BY <1>t, <1>2 DEF Inv, Rows
<1> QED
  BY <1>1, <1>2, <1>4, <1>5, <1>6, <1>7, <1>8, <1>9, <1>t DEF Named

LEMMA ShopStep ==
  ASSUME Inv, Shop PROVE Inv'
<1>t. /\ orders \subseteq Order /\ returns \subseteq Return /\ there \subseteq Products
      /\ cmd \in Command
  BY DEF Inv, TypeOK
<1>1. ASSUME NEW id \in OrderIds, NEW kind \in {"purchase", "sale"}, NEW demo \in BOOLEAN,
             NEW f \in Baskets, Place(id, kind, demo, f)
      PROVE  Inv'
  <2> DEFINE o == [id |-> id, kind |-> kind, demo |-> demo, lines |-> f, done |-> FALSE]
  <2>1. f \in Lines
    BY DemoAssumption
  <2>2. o \in Order /\ o.lines = f
    BY <2>1, SMT DEF Order
  <2>3. /\ orders' = orders \cup {o} /\ Named(f) \subseteq there
        /\ UNCHANGED <<there, stock, ledger, logged, returns, tags, level, overtaken, torn, cmd>>
    BY <1>1 DEF Place
  <2> HIDE DEF o
  <2> QED
    BY <2>2, <2>3 DEF Inv, TypeOK, Built, ResettingOK, Resetting, Deleted, Rows, Explained, ResetCounted, Gate
<1>2. ASSUME NEW o \in orders, Settle(o) PROVE Inv'
  <2> DEFINE q == [o EXCEPT !.done = TRUE]
             sign == IF o.kind = "purchase" THEN 1 ELSE -1
  <2>1. /\ q \in Order /\ q.id = o.id /\ q.kind = o.kind /\ q.lines = o.lines
        /\ o.lines \in Lines
    BY <1>t, OrderFields
  <2>2. orders' = (orders \ {o}) \cup {q} /\ Trade(o.lines, sign) /\ UNCHANGED returns
    BY <1>2 DEF Settle
  <2>3. sign \in {-1, 1}
    BY SMT
  <2> HIDE DEF q, sign
  <2>4. Named(o.lines) \subseteq there
    BY DEF Inv, Rows
  <2>5. Rows'
    BY <2>1, <2>2, <2>3, <2>4, TradeStep DEF Inv, Rows
  <2>6. TypeOK'
    BY <1>t, <2>1, <2>2, <2>3, <2>4, TradeStep DEF Inv, TypeOK
  <2> QED
    BY <2>1, <2>2, <2>3, <2>4, <2>5, <2>6, TradeStep DEF Inv
<1>3. ASSUME NEW o \in orders, Destroy(o) PROVE Inv'
  <2>1. /\ orders' = orders \ {o} /\ Unreturned("sale", {o})
        /\ UNCHANGED <<there, stock, ledger, logged, returns, tags, level, overtaken, torn, cmd>>
    BY <1>3 DEF Destroy
  <2> QED
    BY <2>1 DEF Inv, TypeOK, Built, ResettingOK, Resetting, Deleted, Rows, Explained, ResetCounted, Gate, Unreturned
<1>4. ASSUME NEW o \in orders, NEW p \in Products, FileReturn(o, p) PROVE Inv'
  <2> DEFINE r == [order |-> o.id, product |-> p, units |-> o.lines[p], done |-> FALSE]
  <2>1. o.id \in OrderIds /\ o.lines[p] \in Nat
    BY <1>t, OrderFields
  <2>2. r \in Return /\ r.order = o.id /\ r.product = p
    BY <2>1, SMT DEF Return
  <2>3. /\ returns' = returns \cup {r} /\ o.kind = "sale" /\ o.lines[p] > 0
        /\ UNCHANGED <<there, stock, ledger, logged, orders, tags, level, overtaken, torn, cmd>>
    BY <1>4 DEF FileReturn
  <2> HIDE DEF r
  <2>4. p \in there
    BY <2>3 DEF Inv, Rows, Named
  <2> QED
    BY <2>2, <2>3, <2>4 DEF Inv, TypeOK, Built, ResettingOK, Resetting, Deleted, Rows, Explained, ResetCounted, Gate
<1>5. ASSUME NEW r \in returns, Approve(r) PROVE Inv'
  <2> DEFINE q == [r EXCEPT !.done = TRUE]
             f == Only(r.product, r.units)
  <2>1. /\ q \in Return /\ q.order = r.order /\ q.product = r.product
        /\ r.product \in Products /\ r.units \in Nat
    BY <1>t, ReturnFields
  <2>2. returns' = (returns \ {r}) \cup {q} /\ Trade(f, 1) /\ UNCHANGED orders
    BY <1>5 DEF Approve
  <2>3. f \in Lines /\ Named(f) \subseteq {r.product}
    BY <2>1, OnlyType
  <2> HIDE DEF q, f
  <2>4. Named(f) \subseteq there
    BY <2>3 DEF Inv, Rows
  <2>5. Rows'
    BY <2>1, <2>2, <2>3, <2>4, TradeStep DEF Inv, Rows
  <2>6. TypeOK'
    BY <1>t, <2>1, <2>2, <2>3, <2>4, TradeStep DEF Inv, TypeOK
  <2> QED
    BY <2>1, <2>2, <2>3, <2>4, <2>5, <2>6, TradeStep DEF Inv
<1> QED
  BY <1>1, <1>2, <1>3, <1>4, <1>5 DEF Shop

-----------------------------------------------------------------------------
(* The flush.                                                              *)

LEMMA AtFlush == Flushing \subseteq At /\ Building \subseteq At /\ Resetting \subseteq At
  BY DEF At

LEMMA FlushStep ==
  ASSUME Inv, Flush PROVE Inv'
<1>t. /\ orders \subseteq Order /\ returns \subseteq Return /\ there \subseteq Products
      /\ stock \in [Products -> Int] /\ ledger \in [Products -> Int] /\ cmd \in Command
      /\ LoadTest \notin Demo
  BY DemoAssumption DEF Inv, TypeOK
<1>s. ASSUME NEW from \in Flushing, NEW to \in Flushing \cup {"products"}, Step(from, to)
      PROVE  /\ cmd.at = from /\ cmd' \in Command /\ cmd'.at = to
             /\ Built(cmd') /\ cmd'.at \notin Resetting
  <2>1. to \in At
    BY AtFlush DEF Building
  <2>2. to \notin Resetting
    BY DEF Flushing, Resetting, Deleted
  <2> QED
    BY <1>s, <1>t, <2>1, <2>2, StepTo, BuiltOn DEF Inv
<1>1. CASE FlushReturns
  <2>1. /\ Step("flush_returns", "flush_ledger")
        /\ returns' = {r \in returns : r.product \notin Demo}
        /\ UNCHANGED <<there, stock, ledger, logged, orders, tags, level, overtaken, torn>>
    BY <1>1 DEF FlushReturns
  <2>2. cmd' \in Command /\ cmd'.at = "flush_ledger" /\ Built(cmd') /\ cmd'.at \notin Resetting
    BY <1>s, <2>1 DEF Flushing
  <2>3. TypeOK' /\ ResettingOK' /\ Rows' /\ Explained' /\ ResetCounted'
    BY <2>1, <2>2 DEF Inv, TypeOK, ResettingOK, Resetting, Deleted, Rows, Explained, ResetCounted
  <2>4. Gate'
    BY <2>1, <2>2 DEF Inv, Gate, AfterProducts, AfterSuppliers, AfterCategories, Building
  <2> QED
    BY <2>2, <2>3, <2>4 DEF Inv
<1>2. CASE FlushLedger
  <2>1. /\ Step("flush_ledger", "flush_sales")
        /\ ledger' = [p \in Products |-> IF p \in Demo THEN 0 ELSE ledger[p]]
        /\ logged' = logged \ Demo
        /\ torn' = torn \cup (Demo \cap there)
        /\ UNCHANGED <<there, stock, orders, returns, tags, level, overtaken>>
    BY <1>2 DEF FlushLedger
  <2>2. cmd' \in Command /\ cmd'.at = "flush_sales" /\ Built(cmd') /\ cmd'.at \notin Resetting
    BY <1>s, <2>1 DEF Flushing
  <2>3. /\ ledger' \in [Products -> Int]
        /\ \A p \in Products \ Demo : ledger'[p] = ledger[p]
    BY <1>t, <2>1, SMT
  <2>4. LoadTest \in Products \ Demo
    BY <1>t DEF Products
  <2>5. TypeOK' /\ ResettingOK' /\ Rows'
    BY <1>t, <2>1, <2>2, <2>3, <2>4 DEF Inv, TypeOK, ResettingOK, Resetting, Deleted, Rows
  <2>6. Explained' /\ ResetCounted'
    BY <1>t, <2>1, <2>3, <2>4 DEF Inv, Explained, ResetCounted
  <2>7. Gate'
    BY <2>1, <2>2 DEF Inv, Gate, AfterProducts, AfterSuppliers, AfterCategories, Building
  <2> QED
    BY <2>2, <2>5, <2>6, <2>7 DEF Inv
<1>3. CASE FlushSales
  <2>1. /\ Step("flush_sales", "flush_purchases")
        /\ Unreturned("sale", OfDemo("sale"))
        /\ orders' = orders \ OfDemo("sale")
        /\ UNCHANGED <<there, stock, ledger, logged, returns, tags, level, overtaken, torn>>
    BY <1>3 DEF FlushSales
  <2>2. cmd' \in Command /\ cmd'.at = "flush_purchases" /\ Built(cmd') /\ cmd'.at \notin Resetting
    BY <1>s, <2>1 DEF Flushing
  <2>3. TypeOK' /\ ResettingOK' /\ Explained' /\ ResetCounted'
    BY <2>1, <2>2 DEF Inv, TypeOK, ResettingOK, Resetting, Deleted, Explained, ResetCounted
  <2>4. Rows'
    BY <2>1 DEF Inv, Rows, Unreturned, OfDemo
  <2>5. Gate'
    BY <2>1, <2>2 DEF Inv, Gate, AfterProducts, AfterSuppliers, AfterCategories, Building
  <2> QED
    BY <2>2, <2>3, <2>4, <2>5 DEF Inv
<1>4. CASE FlushPurchases
  <2>1. /\ Step("flush_purchases", "flush_products")
        /\ orders' = orders \ OfDemo("purchase")
        /\ UNCHANGED <<there, stock, ledger, logged, returns, tags, level, overtaken, torn>>
    BY <1>4 DEF FlushPurchases
  <2>2. cmd' \in Command /\ cmd'.at = "flush_products" /\ Built(cmd') /\ cmd'.at \notin Resetting
    BY <1>s, <2>1 DEF Flushing
  <2>3. TypeOK' /\ ResettingOK' /\ Explained' /\ ResetCounted'
    BY <2>1, <2>2 DEF Inv, TypeOK, ResettingOK, Resetting, Deleted, Explained, ResetCounted
  <2>4. Rows'
    BY <2>1 DEF Inv, Rows, OfDemo
  <2>5. Gate'
    BY <2>1, <2>2 DEF Inv, Gate, AfterProducts, AfterSuppliers, AfterCategories, Building
  <2> QED
    BY <2>2, <2>3, <2>4, <2>5 DEF Inv
<1>5. CASE FlushProducts
  <2>1. /\ Step("flush_products", "flush_suppliers")
        /\ \A o \in orders : Named(o.lines) \cap Demo = {}
        /\ \A r \in returns : r.product \notin Demo
        /\ logged \cap Demo = {}
        /\ there' = there \ Demo /\ torn' = torn \ Demo
        /\ stock' = [p \in Products |-> IF p \in Demo THEN 0 ELSE stock[p]]
        /\ UNCHANGED <<ledger, logged, orders, returns, tags, level, overtaken>>
    BY <1>5 DEF FlushProducts
  <2>2. cmd' \in Command /\ cmd'.at = "flush_suppliers" /\ Built(cmd') /\ cmd'.at \notin Resetting
    BY <1>s, <2>1 DEF Flushing
  <2>3. /\ stock' \in [Products -> Int]
        /\ \A p \in Products \ Demo : stock'[p] = stock[p]
    BY <1>t, <2>1, SMT
  <2>4. TypeOK' /\ ResettingOK'
    BY <1>t, <2>1, <2>2, <2>3 DEF Inv, TypeOK, ResettingOK, Resetting, Deleted
  <2>5. Rows'
    BY <1>t, <2>1 DEF Inv, Rows
  <2>6. Explained' /\ ResetCounted'
    BY <1>t, <2>1, <2>3 DEF Inv, Explained, ResetCounted
  <2>7. Gate'
    BY <2>1, <2>2 DEF Inv, Gate, AfterProducts, AfterSuppliers, AfterCategories, Building
  <2> QED
    BY <2>2, <2>4, <2>5, <2>6, <2>7 DEF Inv
<1>6. CASE FlushSuppliers
  <2>1. /\ Step("flush_suppliers", "flush_categories")
        /\ tags' = tags \ {"supplier"} /\ UNCHANGED <<shop, level, overtaken, torn>>
    BY <1>6 DEF FlushSuppliers
  <2>2. /\ cmd.at = "flush_suppliers"
        /\ cmd' \in Command /\ cmd'.at = "flush_categories" /\ Built(cmd') /\ cmd'.at \notin Resetting
    BY <1>s, <2>1 DEF Flushing
  <2>3. TypeOK' /\ ResettingOK' /\ Rows' /\ Explained' /\ ResetCounted'
    BY <2>1, <2>2 DEF Inv, TypeOK, ResettingOK, Resetting, Deleted, Rows, Explained, ResetCounted, shop
  <2>4. Gate'
    BY <2>1, <2>2 DEF Inv, Gate, AfterProducts, AfterSuppliers, AfterCategories, Building, shop
  <2> QED
    BY <2>2, <2>3, <2>4 DEF Inv
<1>7. CASE FlushCategories
  <2>1. /\ Step("flush_categories", "flush_users")
        /\ tags' = tags \ {"category"} /\ UNCHANGED <<shop, level, overtaken, torn>>
    BY <1>7 DEF FlushCategories
  <2>2. /\ cmd.at = "flush_categories"
        /\ cmd' \in Command /\ cmd'.at = "flush_users" /\ Built(cmd') /\ cmd'.at \notin Resetting
    BY <1>s, <2>1 DEF Flushing
  <2>3. TypeOK' /\ ResettingOK' /\ Rows' /\ Explained' /\ ResetCounted'
    BY <2>1, <2>2 DEF Inv, TypeOK, ResettingOK, Resetting, Deleted, Rows, Explained, ResetCounted, shop
  <2>4. Gate'
    BY <2>1, <2>2 DEF Inv, Gate, AfterProducts, AfterSuppliers, AfterCategories, Building, shop
  <2> QED
    BY <2>2, <2>3, <2>4 DEF Inv
<1>8. CASE FlushUsers
  <2>1. /\ Step("flush_users", "products")
        /\ tags' = tags \ {"user"}
        /\ orders' = {[o EXCEPT !.demo = FALSE] : o \in orders}
        /\ UNCHANGED <<there, stock, ledger, logged, returns, level, overtaken, torn>>
    BY <1>8 DEF FlushUsers
  <2>2. /\ cmd.at = "flush_users"
        /\ cmd' \in Command /\ cmd'.at = "products" /\ Built(cmd') /\ cmd'.at \notin Resetting
    BY <1>s, <2>1 DEF Flushing
  <2>3. ASSUME NEW q \in orders' PROVE q \in Order /\ \E o \in orders : q.lines = o.lines
    <3>1. PICK o \in orders : q = [o EXCEPT !.demo = FALSE]
      BY <2>1
    <3> QED
      BY <1>t, <3>1, OrderFields
  <2>4. ASSUME NEW o \in orders PROVE \E q \in orders' : q.id = o.id /\ q.kind = o.kind
    <3> DEFINE q == [o EXCEPT !.demo = FALSE]
    <3>1. q \in orders'
      BY <2>1
    <3>2. q.id = o.id /\ q.kind = o.kind
      BY <1>t, OrderFields
    <3> QED
      BY <3>1, <3>2
  <2>5. TypeOK' /\ ResettingOK' /\ Explained' /\ ResetCounted'
    BY <2>1, <2>2, <2>3 DEF Inv, TypeOK, ResettingOK, Resetting, Deleted, Explained, ResetCounted
  <2>6. Rows'
    <3>1. \A q \in orders' : Named(q.lines) \subseteq there'
      BY <2>1, <2>3 DEF Inv, Rows
    <3>2. ASSUME NEW r \in returns'
          PROVE  r.product \in there' /\ \E q \in orders' : q.id = r.order /\ q.kind = "sale"
      <4>1. r.product \in there /\ \E o \in orders : o.id = r.order /\ o.kind = "sale"
        BY <2>1 DEF Inv, Rows
      <4> QED
        BY <2>1, <2>4, <4>1
    <3>3. (logged \subseteq there)' /\ (LoadTest \notin there => ledger[LoadTest] = 0)'
      BY <2>1 DEF Inv, Rows
    <3> QED
      BY <3>1, <3>2, <3>3 DEF Rows
  <2>7. Gate'
    BY <2>1, <2>2 DEF Inv, Gate, AfterProducts, AfterSuppliers, AfterCategories, Building
  <2> QED
    BY <2>2, <2>5, <2>6, <2>7 DEF Inv
<1> QED
  BY <1>1, <1>2, <1>3, <1>4, <1>5, <1>6, <1>7, <1>8 DEF Flush

-----------------------------------------------------------------------------
(* The seeding.                                                            *)

LEMMA NotResetting ==
  ASSUME cmd'.at \in {"idle"} \cup Building \cup Flushing
  PROVE  ResettingOK'
  BY DEF ResettingOK, Building, Flushing, Resetting, Deleted

LEMMA StillBuilding ==
  ASSUME Inv, InMemory, cmd.at \in Building, cmd'.at \in Building
  PROVE  ResettingOK' /\ Gate'
<1>1. ResettingOK'
  BY NotResetting
<1>2. Gate'
  BY DEF Inv, InMemory, shop, Gate, AfterCategories, AfterSuppliers, AfterProducts
<1> QED
  BY <1>1, <1>2

LEMMA SeedStep ==
  ASSUME Inv, NEW flush \in BOOLEAN, Seed(flush) PROVE Inv'
<1> DEFINE to == IF flush THEN "flush_returns" ELSE "products"
<1>1. /\ Step("idle", to) /\ InMemory /\ cmd \in Command
      /\ to \in {"flush_returns", "products"} /\ (to = "products" => "category" \notin tags)
  BY DEF Seed, InMemory, Inv, TypeOK
<1> HIDE DEF to
<1>2. to \in At
  BY <1>1 DEF At, Building, Flushing
<1>3. cmd' \in Command /\ cmd'.at = to /\ Built(cmd')
  BY <1>1, <1>2, StepTo, BuiltOn DEF Inv
<1>4. ResettingOK'
  BY <1>1, <1>3, NotResetting DEF Building, Flushing
<1>5. Gate'
  BY <1>1, <1>3 DEF Inv, Gate, InMemory, shop, AfterProducts, AfterSuppliers, AfterCategories, Building
<1> QED
  BY <1>1, <1>3, <1>4, <1>5, InMemoryStep

LEMMA ProductsStep ==
  ASSUME Inv, NEW opening \in [Products -> Int], SeedProducts(opening) PROVE Inv'
<1>1. /\ cmd.at = "products" /\ InMemory /\ cmd \in Command
      /\ cmd' = [cmd EXCEPT !.at = "orders", !.stock = opening, !.ledger = opening, !.left = NumOrders]
  BY DEF SeedProducts, Inv, TypeOK
<1>2. "orders" \in At /\ NumOrders \in 0..NumOrders
  BY DemoAssumption, SMT DEF At, Building
<1>3. /\ cmd' \in Command /\ cmd'.at = "orders" /\ cmd'.stock = opening /\ cmd'.ledger = opening
      /\ cmd'.orders = cmd.orders /\ cmd'.returns = cmd.returns
  <2>1. cmd' = Stocked(cmd, opening, opening)
    BY <1>1 DEF Stocked
  <2> QED
    BY <1>1, <1>2, <2>1, CommandStocked
<1>4. Built(cmd')
  BY <1>3 DEF Inv, Built
<1> QED
  BY <1>1, <1>3, <1>4, StillBuilding, InMemoryStep DEF Building

LEMMA BuildStep ==
  ASSUME Inv, NEW id \in OrderIds, NEW kind \in {"purchase", "sale"}, NEW f \in Baskets,
         NEW done \in BOOLEAN, NEW sign \in {-1, 1}, Build(id, kind, f, done, sign)
  PROVE  Inv'
<1> DEFINE o  == [id |-> id, kind |-> kind, demo |-> TRUE, lines |-> f, done |-> done]
           s  == IF done THEN Moved(cmd.stock, f, sign) ELSE cmd.stock
           l  == IF done THEN Moved(cmd.ledger, f, sign) ELSE cmd.ledger
           n  == cmd.left - 1
           os == cmd.orders \cup {o}
<1>1. /\ cmd.at = "orders" /\ cmd.left > 0 /\ InMemory /\ cmd \in Command
      /\ Named(f) \subseteq Demo
      /\ cmd' = [cmd EXCEPT !.left = n, !.orders = os, !.stock = s, !.ledger = l]
  BY DEF Build, Inv, TypeOK
<1>2. f \in Lines
  BY DemoAssumption
<1>3. o \in Order /\ o.lines = f /\ o.id = id
  BY <1>2, SMT DEF Order
<1>4. /\ cmd.stock \in [Products -> Int] /\ cmd.ledger \in [Products -> Int]
      /\ cmd.orders \subseteq Order /\ cmd.left \in 0..NumOrders /\ cmd.stock = cmd.ledger
  BY <1>1, CommandFields DEF Inv, Built
<1>5. s \in [Products -> Int] /\ l \in [Products -> Int] /\ s = l
  BY <1>2, <1>4, LineTypes
<1>6. n \in 0..NumOrders
  BY <1>1, <1>4, DemoAssumption, SMT
<1> HIDE DEF o
<1>7. os \in SUBSET Order
  BY <1>3, <1>4
<1> HIDE DEF s, l, n
<1>8. /\ cmd' \in Command /\ cmd'.at = "orders" /\ cmd'.stock = s /\ cmd'.ledger = l
      /\ cmd'.orders = os /\ cmd'.returns = cmd.returns
  <2>1. cmd' = Ordered(cmd, n, os, s, l)
    BY <1>1 DEF Ordered
  <2> QED
    BY <1>1, <1>5, <1>6, <1>7, <2>1, CommandOrdered
<1>9. Built(cmd')
  BY <1>1, <1>3, <1>5, <1>8 DEF Inv, Built
<1> QED
  BY <1>1, <1>8, <1>9, StillBuilding, InMemoryStep DEF Building

LEMMA BuildReturnStep ==
  ASSUME Inv, NEW o \in cmd.orders, NEW p \in Products, NEW approved \in BOOLEAN,
         BuildReturn(o, p, approved)
  PROVE  Inv'
<1> DEFINE r  == [order |-> o.id, product |-> p, units |-> o.lines[p], done |-> approved]
           f  == Only(p, o.lines[p])
           s  == IF approved THEN Moved(cmd.stock, f, 1) ELSE cmd.stock
           l  == IF approved THEN Moved(cmd.ledger, f, 1) ELSE cmd.ledger
           rs == cmd.returns \cup {r}
<1>1. /\ cmd.at = "returns" /\ InMemory /\ cmd \in Command
      /\ o.kind = "sale" /\ o.lines[p] > 0
      /\ cmd' = [cmd EXCEPT !.returns = rs, !.stock = s, !.ledger = l]
  BY DEF BuildReturn, Inv, TypeOK
<1>2. /\ cmd.stock \in [Products -> Int] /\ cmd.ledger \in [Products -> Int]
      /\ cmd.orders \subseteq Order /\ cmd.returns \subseteq Return /\ cmd.stock = cmd.ledger
  BY <1>1, CommandFields DEF Inv, Built
<1>3. o.id \in OrderIds /\ o.lines[p] \in Nat
  BY <1>2, OrderFields
<1>4. r \in Return /\ r.order = o.id /\ r.product = p
  BY <1>3, SMT DEF Return
<1>5. p \in Demo
  BY <1>1 DEF Inv, Built, Named
<1>6. f \in Lines
  BY <1>3, OnlyType
<1> HIDE DEF f
<1>7. s \in [Products -> Int] /\ l \in [Products -> Int] /\ s = l
  BY <1>2, <1>6, LineTypes
<1> HIDE DEF r
<1>8. rs \in SUBSET Return
  BY <1>2, <1>4
<1> HIDE DEF s, l
<1>9. /\ cmd' \in Command /\ cmd'.at = "returns" /\ cmd'.stock = s /\ cmd'.ledger = l
      /\ cmd'.orders = cmd.orders /\ cmd'.returns = rs
  <2>1. cmd' = Returned(cmd, rs, s, l)
    BY <1>1 DEF Returned
  <2> QED
    BY <1>1, <1>7, <1>8, <2>1, CommandReturned
<1>10. Built(cmd')
  BY <1>1, <1>4, <1>5, <1>7, <1>9 DEF Inv, Built
<1> QED
  BY <1>1, <1>9, <1>10, StillBuilding, InMemoryStep DEF Building

LEMMA DamageStep ==
  ASSUME Inv, NEW p \in Demo, NEW q \in Levels \cup {0}, BuildDamage(p, q) PROVE Inv'
<1> DEFINE f == Only(p, q)
           s == Moved(cmd.stock, f, -1)
           l == Moved(cmd.ledger, f, -1)
<1>1. /\ cmd.at = "damage" /\ InMemory /\ cmd \in Command
      /\ cmd' = [cmd EXCEPT !.at = "insert", !.stock = s, !.ledger = l]
  BY DEF BuildDamage, Inv, TypeOK
<1>2. /\ cmd.stock \in [Products -> Int] /\ cmd.ledger \in [Products -> Int]
      /\ cmd.stock = cmd.ledger
  BY <1>1, CommandFields DEF Inv, Built
<1>3. f \in Lines
  BY DemoAssumption, OnlyType DEF Products
<1> HIDE DEF f
<1>4. s \in [Products -> Int] /\ l \in [Products -> Int] /\ s = l
  BY <1>2, <1>3, LineTypes
<1> HIDE DEF s, l
<1>5. "insert" \in At
  BY DEF At, Building
<1>6. /\ cmd' \in Command /\ cmd'.at = "insert" /\ cmd'.stock = s /\ cmd'.ledger = l
      /\ cmd'.orders = cmd.orders /\ cmd'.returns = cmd.returns
  <2>1. cmd' = Counted(cmd, s, l)
    BY <1>1 DEF Counted
  <2> QED
    BY <1>1, <1>4, <1>5, <2>1, CommandCounted
<1>7. Built(cmd')
  BY <1>4, <1>6 DEF Inv, Built
<1> QED
  BY <1>1, <1>6, <1>7, StillBuilding, InMemoryStep DEF Building

LEMMA EndStep ==
  ASSUME Inv, EndOrders \/ EndReturns PROVE Inv'
<1>1. PICK from \in Building, to \in Building : Step(from, to) /\ InMemory
  BY DEF EndOrders, EndReturns, Building
<1>2. cmd \in Command /\ to \in At
  BY AtFlush DEF Inv, TypeOK
<1>3. cmd.at = from /\ cmd' \in Command /\ cmd'.at = to /\ Built(cmd')
  BY <1>1, <1>2, StepTo, BuiltOn DEF Inv
<1> QED
  BY <1>1, <1>3, StillBuilding, InMemoryStep

LEMMA InsertStep ==
  ASSUME Inv, Insert PROVE Inv'
<1>1. /\ there' = there \cup Demo
      /\ stock'  = [p \in Products |-> IF p \in Demo THEN cmd.stock[p] ELSE stock[p]]
      /\ ledger' = [p \in Products |-> IF p \in Demo THEN cmd.ledger[p] ELSE ledger[p]]
      /\ logged' = logged \cup Demo
      /\ orders' = orders \cup cmd.orders
      /\ returns' = returns \cup cmd.returns
      /\ tags' = Tag /\ cmd' = Idle /\ UNCHANGED <<level, overtaken, torn>>
  BY DEF Insert
<1>2. /\ stock \in [Products -> Int] /\ ledger \in [Products -> Int]
      /\ cmd.stock \in [Products -> Int] /\ cmd.ledger \in [Products -> Int]
      /\ cmd.orders \subseteq Order /\ cmd.returns \subseteq Return
      /\ there \subseteq Products /\ Demo \subseteq Products
      /\ LoadTest \notin Demo /\ LoadTest \in Products
  BY CommandFields, DemoAssumption DEF Inv, TypeOK, Products
<1>3. /\ stock' \in [Products -> Int] /\ ledger' \in [Products -> Int]
      /\ \A p \in Demo : stock'[p] = cmd.stock[p] /\ ledger'[p] = cmd.ledger[p]
      /\ \A p \in Products \ Demo : stock'[p] = stock[p] /\ ledger'[p] = ledger[p]
  BY <1>1, <1>2, SMT
<1>4. TypeOK'
  BY <1>1, <1>2, <1>3, IdleFields DEF Inv, TypeOK
<1>5. Rows'
  BY <1>1, <1>2, <1>3 DEF Inv, Rows, Built
<1>6. Explained' /\ ResetCounted'
  <2>r. ResetCounted'
    BY <1>1, <1>2, <1>3 DEF Inv, ResetCounted
  <2> SUFFICES ASSUME NEW p \in there' \ (torn' \cup {LoadTest}) PROVE stock'[p] = ledger'[p]
    BY <2>r DEF Explained
  <2>1. CASE p \in Demo
    BY <1>3, <2>1 DEF Inv, Built
  <2>2. CASE p \notin Demo
    BY <1>1, <1>2, <1>3, <2>2 DEF Inv, Explained
  <2> QED
    BY <2>1, <2>2
<1>7. Built(cmd') /\ ResettingOK'
  BY <1>1, IdleFields, NotResetting DEF Built
<1>8. Gate'
  BY <1>1, IdleFields DEF Gate, Tag, AfterProducts, AfterSuppliers, AfterCategories, Building
<1> QED
  BY <1>4, <1>5, <1>6, <1>7, <1>8 DEF Inv

LEMMA SeedingStep ==
  ASSUME Inv, Seeding PROVE Inv'
<1>1. ASSUME NEW opening \in [Demo -> Levels],
             SeedProducts([p \in Products |-> IF p \in Demo THEN opening[p] ELSE 0])
      PROVE  Inv'
  <2>1. \A p \in Demo : opening[p] \in Int
    <3>1. Levels \subseteq Int
      BY DemoAssumption
    <3>2. \A p \in Demo : opening[p] \in Levels
      OBVIOUS
    <3> QED
      BY <3>1, <3>2
  <2>2. [p \in Products |-> IF p \in Demo THEN opening[p] ELSE 0] \in [Products -> Int]
    BY <2>1
  <2> QED
    BY <1>1, <2>2, ProductsStep
<1>2. ASSUME NEW id \in OrderIds, NEW f \in Baskets, NEW done \in BOOLEAN,
             BuildPurchaseOrder(id, f, done) \/ BuildSalesOrder(id, f, done)
      PROVE  Inv'
  BY <1>2, BuildStep DEF BuildPurchaseOrder, BuildSalesOrder
<1> QED
  BY <1>1, <1>2, SeedStep, EndStep, InsertStep, BuildReturnStep, DamageStep DEF Seeding

-----------------------------------------------------------------------------
(* The reset.                                                              *)

LEMMA GateKept ==
  ASSUME Inv, UNCHANGED tags, cmd'.at \in {"idle"} \cup Resetting,
         there' \cap Demo = there \cap Demo
  PROVE  Gate'
  BY DEF Inv, Gate, AfterProducts, AfterSuppliers, AfterCategories, Building, Resetting, Deleted

LEMMA ResetStep ==
  ASSUME Inv, Resets PROVE Inv'
<1>t. /\ orders \subseteq Order /\ there \subseteq Products /\ torn \subseteq Products
      /\ stock \in [Products -> Int] /\ ledger \in [Products -> Int] /\ cmd \in Command
      /\ LoadTest \notin Demo /\ LoadTest \in Products /\ level \in Nat
      /\ Resetting \subseteq At
  BY DemoAssumption, AtFlush DEF Inv, TypeOK, Products
<1>l. Levels \subseteq Nat
  BY DemoAssumption
<1>1. ASSUME NEW n \in Levels, Reset(n) PROVE Inv'
  <2>1. /\ cmd' = [cmd EXCEPT !.at = "reset_ledger", !.level = n]
        /\ there' = there \cup {LoadTest}
        /\ UNCHANGED <<ledger, logged, orders, returns, tags, torn>>
    BY <1>1 DEF Reset
  <2>2. /\ cmd' \in Command /\ cmd'.at = "reset_ledger" /\ cmd'.level = n
        /\ cmd'.stock = cmd.stock /\ cmd'.ledger = cmd.ledger
        /\ cmd'.orders = cmd.orders /\ cmd'.returns = cmd.returns
    <3>1. cmd' = Levelled(cmd, n)
      BY <2>1 DEF Levelled
    <3> QED
      BY <1>t, <3>1, CommandLevelled
  <2>3. Built(cmd')
    BY <2>2, BuiltOn DEF Inv
  <2>4. ResettingOK' /\ Rows'
    BY <2>1, <2>2 DEF Inv, Rows, ResettingOK, Resetting, Deleted
  <2>5. Gate'
    BY <1>t, <2>1, <2>2, GateKept DEF Resetting, Deleted
  <2>6. CASE LoadTest \in there
    <3>1. UNCHANGED <<there, stock, level, overtaken>>
      BY <1>1, <2>1, <2>6 DEF Reset
    <3> QED
      BY <2>1, <2>2, <2>3, <2>4, <2>5, <3>1 DEF Inv, TypeOK, Explained, ResetCounted
  <2>7. CASE LoadTest \notin there
    <3>1. stock' = [stock EXCEPT ![LoadTest] = n] /\ level' = n /\ overtaken' = 0
      BY <1>1, <2>7 DEF Reset
    <3>2. stock' \in [Products -> Int] /\ level' \in Nat
      BY <1>t, <1>l, <3>1, SMT
    <3>3. TypeOK'
      BY <1>t, <2>1, <2>2, <3>1, <3>2 DEF Inv, TypeOK
    <3>4. Explained'
      BY <1>t, <2>1, <3>1 DEF Inv, Explained
    <3>5. ResetCounted'
      <4>1. stock'[LoadTest] = n /\ level' = n /\ overtaken' = 0 /\ ledger'[LoadTest] = 0 /\ n \in Nat
        BY <1>t, <1>l, <2>1, <2>7, <3>1, SMT DEF Inv, Rows
      <4> QED
        BY <4>1, SMT DEF ResetCounted
    <3> QED
      BY <2>3, <2>4, <2>5, <3>3, <3>4, <3>5 DEF Inv
  <2> QED
    BY <2>6, <2>7
<1>2. CASE ResetLedger
  <2>1. /\ Step("reset_ledger", "reset_list")
        /\ ledger' = [ledger EXCEPT ![LoadTest] = 0]
        /\ logged' = logged \ {LoadTest}
        /\ overtaken' = 0 /\ torn' = torn \cup {LoadTest}
        /\ UNCHANGED <<there, stock, orders, returns, tags, level>>
    BY <1>2 DEF ResetLedger
  <2>2. /\ cmd.at = "reset_ledger" /\ cmd' \in Command /\ cmd'.at = "reset_list"
        /\ cmd'.level = cmd.level
        /\ cmd'.stock = cmd.stock /\ cmd'.ledger = cmd.ledger
        /\ cmd'.orders = cmd.orders /\ cmd'.returns = cmd.returns
    <3>1. "reset_list" \in At
      BY DEF At, Resetting, Deleted
    <3> QED
      BY <1>t, <2>1, <3>1, StepTo
  <2>3. Built(cmd')
    BY <2>2, BuiltOn DEF Inv
  <2>4. /\ ledger' \in [Products -> Int] /\ ledger'[LoadTest] = 0
        /\ \A p \in Products \ {LoadTest} : ledger'[p] = ledger[p]
    BY <1>t, <2>1
  <2>5. TypeOK' /\ Rows'
    BY <1>t, <2>1, <2>2, <2>4 DEF Inv, TypeOK, Rows
  <2>6. ResettingOK'
    BY <2>1, <2>2, <2>4 DEF Inv, ResettingOK, Resetting, Deleted
  <2>7. Explained' /\ ResetCounted'
    BY <1>t, <2>1, <2>4 DEF Inv, Explained, ResetCounted
  <2>8. Gate'
    BY <2>1, <2>2, GateKept DEF Resetting, Deleted
  <2> QED
    BY <2>3, <2>5, <2>6, <2>7, <2>8 DEF Inv
<1>3. CASE ResetList
  <2> DEFINE stale == {o.id : o \in {s \in orders : s.kind = "sale" /\ s.lines[LoadTest] > 0}}
  <2>1. /\ cmd.at = "reset_list" /\ cmd' = [cmd EXCEPT !.at = "reset_items", !.stale = stale]
        /\ UNCHANGED <<shop, tags, level, overtaken, torn>>
    BY <1>3 DEF ResetList
  <2>2. stale \in SUBSET OrderIds
    BY <1>t, OrderFields
  <2> HIDE DEF stale
  <2>3. /\ cmd' \in Command /\ cmd'.at = "reset_items" /\ cmd'.level = cmd.level
        /\ cmd'.stock = cmd.stock /\ cmd'.ledger = cmd.ledger
        /\ cmd'.orders = cmd.orders /\ cmd'.returns = cmd.returns
    <3>1. cmd' = Listed(cmd, stale)
      BY <2>1 DEF Listed
    <3> QED
      BY <1>t, <2>2, <3>1, CommandListed
  <2>4. Built(cmd')
    BY <2>3, BuiltOn DEF Inv
  <2>5. ResettingOK'
    BY <2>1, <2>3 DEF Inv, ResettingOK, Resetting, Deleted, shop
  <2>6. Gate'
    BY <2>1, <2>3, GateKept DEF Resetting, Deleted, shop
  <2> QED
    BY <2>1, <2>3, <2>4, <2>5, <2>6, InMemoryStep DEF InMemory
<1>4. CASE ResetItems
  <2> DEFINE E(o) == IF o.kind = "sale" THEN [o EXCEPT !.lines[LoadTest] = 0] ELSE o
  <2>1. /\ Step("reset_items", "reset_orders")
        /\ orders' = {E(o) : o \in orders}
        /\ UNCHANGED <<there, stock, ledger, logged, returns, tags, level, overtaken, torn>>
    BY <1>4 DEF ResetItems
  <2>2. ASSUME NEW o \in orders
        PROVE  /\ E(o) \in Order /\ E(o).id = o.id /\ E(o).kind = o.kind
               /\ Named(E(o).lines) \subseteq Named(o.lines)
    BY <1>t, Emptied
  <2> HIDE DEF E
  <2>3. /\ cmd.at = "reset_items" /\ cmd' \in Command /\ cmd'.at = "reset_orders"
        /\ Built(cmd') /\ cmd'.level = cmd.level
    <3>1. "reset_orders" \in At
      BY DEF At, Resetting, Deleted
    <3> QED
      BY <1>t, <2>1, <3>1, StepTo, BuiltOn DEF Inv
  <2>4. TypeOK' /\ Explained' /\ ResetCounted'
    BY <2>1, <2>2, <2>3 DEF Inv, TypeOK, Explained, ResetCounted
  <2>5. ResettingOK'
    BY <2>1, <2>3 DEF Inv, ResettingOK, Resetting, Deleted
  <2>6. Rows'
    <3>1. \A q \in orders' : Named(q.lines) \subseteq there'
      BY <2>1, <2>2 DEF Inv, Rows
    <3>2. ASSUME NEW r \in returns'
          PROVE  r.product \in there' /\ \E q \in orders' : q.id = r.order /\ q.kind = "sale"
      <4>1. PICK o \in orders : o.id = r.order /\ o.kind = "sale"
        BY <2>1 DEF Inv, Rows
      <4>2. E(o) \in orders' /\ E(o).id = r.order /\ E(o).kind = "sale"
        BY <2>1, <2>2, <4>1
      <4>3. r.product \in there'
        BY <2>1 DEF Inv, Rows
      <4> QED
        BY <4>2, <4>3
    <3>3. (logged \subseteq there)' /\ (LoadTest \notin there => ledger[LoadTest] = 0)'
      BY <2>1 DEF Inv, Rows
    <3> QED
      BY <3>1, <3>2, <3>3 DEF Rows
  <2>7. Gate'
    BY <2>1, <2>3, GateKept DEF Resetting, Deleted
  <2> QED
    BY <2>3, <2>4, <2>5, <2>6, <2>7 DEF Inv
<1>5. CASE ResetOrders
  <2> DEFINE emptied == {o \in orders : o.id \in cmd.stale /\ o.lines = NoLines}
  <2>1. /\ Step("reset_orders", "reset_save") /\ Unreturned("sale", emptied)
        /\ orders' = orders \ emptied
        /\ UNCHANGED <<there, stock, ledger, logged, returns, tags, level, overtaken, torn>>
    BY <1>5 DEF ResetOrders
  <2>2. emptied \subseteq orders
    OBVIOUS
  <2> HIDE DEF emptied
  <2>3. /\ cmd.at = "reset_orders" /\ cmd' \in Command /\ cmd'.at = "reset_save"
        /\ Built(cmd') /\ cmd'.level = cmd.level
    <3>1. "reset_save" \in At
      BY DEF At, Resetting, Deleted
    <3> QED
      BY <1>t, <2>1, <3>1, StepTo, BuiltOn DEF Inv
  <2>4. TypeOK' /\ Explained' /\ ResetCounted'
    BY <2>1, <2>3 DEF Inv, TypeOK, Explained, ResetCounted
  <2>5. ResettingOK'
    BY <2>1, <2>3 DEF Inv, ResettingOK, Resetting, Deleted
  <2>6. Rows'
    BY <2>1, <2>2 DEF Inv, Rows, Unreturned
  <2>7. Gate'
    BY <2>1, <2>3, GateKept DEF Resetting, Deleted
  <2> QED
    BY <2>3, <2>4, <2>5, <2>6, <2>7 DEF Inv
<1>6. CASE ResetSave
  <2>1. /\ cmd.at = "reset_save" /\ stock' = [stock EXCEPT ![LoadTest] = cmd.level]
        /\ level' = cmd.level /\ torn' = torn \ {LoadTest}
        /\ cmd' = Idle /\ UNCHANGED <<there, ledger, logged, orders, returns, tags, overtaken>>
    BY <1>6 DEF ResetSave
  <2>2. cmd.level \in Nat /\ ledger[LoadTest] = overtaken
    BY <1>l, <2>1 DEF Inv, ResettingOK, Resetting, Deleted
  <2>3. /\ stock' \in [Products -> Int] /\ stock'[LoadTest] = cmd.level
        /\ \A p \in Products \ {LoadTest} : stock'[p] = stock[p]
    BY <1>t, <2>1, <2>2
  <2>4. TypeOK' /\ Rows'
    BY <2>1, <2>2, <2>3, IdleFields DEF Inv, TypeOK, Rows
  <2>5. Explained' /\ ResetCounted'
    <3>1. Explained'
      BY <1>t, <2>1, <2>3 DEF Inv, Explained
    <3>2. overtaken \in Int
      BY DEF Inv, TypeOK
    <3>3. ResetCounted'
      BY <2>1, <2>2, <2>3, <3>2, SMT DEF ResetCounted
    <3> QED
      BY <3>1, <3>3
  <2>6. Built(cmd') /\ ResettingOK'
    BY <2>1, IdleFields, NotResetting DEF Built
  <2>7. Gate'
    BY <2>1, IdleFields, GateKept
  <2> QED
    BY <2>4, <2>5, <2>6, <2>7 DEF Inv
<1> QED
  BY <1>1, <1>2, <1>3, <1>4, <1>5, <1>6 DEF Resets

-----------------------------------------------------------------------------
(* The theorems.                                                           *)

LEMMA StopStep ==
  ASSUME Inv, Stop PROVE Inv'
<1>1. cmd' = Idle /\ InMemory
  BY DEF Stop, InMemory
<1>2. Gate'
  BY <1>1, IdleFields, GateKept DEF InMemory, shop
<1>3. Built(cmd') /\ ResettingOK'
  BY <1>1, IdleFields, NotResetting DEF Built
<1> QED
  BY <1>1, <1>2, <1>3, IdleFields, InMemoryStep

LEMMA NextStep ==
  ASSUME Inv, [Next]_vars PROVE Inv'
<1>1. CASE UNCHANGED vars
  BY <1>1 DEF Inv, vars, shop, TypeOK, Built, ResettingOK, Resetting, Deleted, Rows, Explained, ResetCounted, Gate
<1> QED
  BY <1>1, ShopStep, FlushStep, SeedingStep, ResetStep, StopStep DEF Next

LEMMA InitInv ==
  Init => Inv
<1> SUFFICES ASSUME Init PROVE Inv
  OBVIOUS
<1>1. /\ there = Real /\ stock = NoLines /\ ledger = NoLines /\ logged = {}
      /\ orders = {} /\ returns = {} /\ tags = {}
      /\ level = 0 /\ overtaken = 0 /\ torn = {} /\ cmd = Idle
  BY DEF Init
<1>2. /\ NoLines \in [Products -> Int] /\ \A p \in Products : NoLines[p] = 0
  BY SMT DEF NoLines
<1>3. TypeOK
  BY <1>1, <1>2, IdleFields DEF TypeOK, Products
<1>4. Built(cmd) /\ ResettingOK
  BY <1>1, IdleFields DEF Built, ResettingOK, Resetting, Deleted
<1>5. Rows
  BY <1>1, <1>2 DEF Rows, Products
<1>6. Explained
  BY <1>1, <1>2 DEF Explained, Products
<1>7. ResetCounted
  BY <1>1, DemoAssumption DEF ResetCounted
<1>8. Gate
  BY <1>1, IdleFields, DemoAssumption
     DEF Gate, AfterProducts, AfterSuppliers, AfterCategories, Building
<1> QED
  BY <1>3, <1>4, <1>5, <1>6, <1>7, <1>8 DEF Inv

THEOREM Invariance == Spec => []Inv
  BY InitInv, NextStep, PTL DEF Spec

(* Whatever the commands do, every variable has its type.                  *)
THEOREM TypeCorrect == Spec => []TypeOK
<1>1. Inv => TypeOK
  BY DEF Inv
<1> QED
  BY <1>1, Invariance, PTL

(* The stock of a product but the load test's is what the ledger explains, *)
(* wherever a flush has stopped that had deleted its rows.                 *)
THEOREM ExplainedTheorem == Spec => []Explained
<1>1. Inv => Explained
  BY DEF Inv
<1> QED
  BY <1>1, Invariance, PTL

(* The load test's stock is off its level and ledger by what requests have *)
(* moved beside the last reset, and by nothing else.                       *)
THEOREM ResetTheorem == Spec => []ResetCounted
<1>1. Inv => ResetCounted
  BY DEF Inv
<1> QED
  BY <1>1, Invariance, PTL

(* A seeding that passes the gate meets nothing of an earlier one.         *)
THEOREM GateTheorem == Spec => []GateSound
<1>1. Inv => GateSound
  BY DEF Inv, Gate, GateSound, AfterProducts, AfterSuppliers, AfterCategories
<1> QED
  BY <1>1, Invariance, PTL

Keeps(o) == \E q \in orders' : q.id = o.id /\ \A p \in Others : q.lines[p] = o.lines[p]

KeepsOthers ==
  ~ Shop => \A o \in orders : ~ o.demo /\ Named(o.lines) \cap Others # {} => Keeps(o)

(* No step of a command takes another creator's order, nor a line of it    *)
(* but the load test's.                                                    *)
THEOREM OthersTheorem == Spec => OthersKept
<1>1. ASSUME Inv, [Next]_vars PROVE [KeepsOthers]_vars
  <2> SUFFICES ASSUME Next, ~ Shop, NEW o \in orders, ~ o.demo, Named(o.lines) \cap Others # {}
               PROVE  Keeps(o)
    BY <1>1 DEF KeepsOthers
  <2>t. /\ orders \subseteq Order /\ o \in Order /\ LoadTest \notin Others /\ Others \subseteq Products
    BY <1>1, DemoAssumption DEF Inv, TypeOK, Others, Products
  <2>1. CASE o \in orders'
    BY <2>1 DEF Keeps
  <2>2. CASE FlushUsers
    <3> DEFINE q == [o EXCEPT !.demo = FALSE]
    <3>1. q \in orders'
      BY <2>2 DEF FlushUsers
    <3>2. q.id = o.id /\ q.lines = o.lines
      BY <2>t, OrderFields
    <3> QED
      BY <3>1, <3>2 DEF Keeps
  <2>3. CASE ResetItems
    <3> DEFINE q == IF o.kind = "sale" THEN [o EXCEPT !.lines[LoadTest] = 0] ELSE o
    <3>1. q \in orders'
      BY <2>3 DEF ResetItems
    <3>2. q.id = o.id /\ \A p \in Others : q.lines[p] = o.lines[p]
      BY <2>t, Emptied
    <3> HIDE DEF q
    <3> QED
      BY <3>1, <3>2 DEF Keeps
  <2>4. CASE ResetOrders
    <3>1. Named(NoLines) = {}
      BY SMT DEF Named, NoLines
    <3>2. o.lines # NoLines
      BY <3>1
    <3> QED
      BY <2>1, <2>4, <3>2 DEF ResetOrders
  <2>5. CASE Flush /\ ~ FlushUsers
    BY <2>1, <2>5 DEF Flush, FlushReturns, FlushLedger, FlushSales, FlushPurchases, FlushProducts,
       FlushSuppliers, FlushCategories, OfDemo, shop
  <2>6. CASE Seeding
    BY <2>1, <2>6 DEF Seeding, Seed, SeedProducts, BuildPurchaseOrder, BuildSalesOrder, Build,
       EndOrders, EndReturns, Insert, BuildReturn, BuildDamage, InMemory, shop
  <2>7. CASE Resets /\ ~ ResetItems /\ ~ ResetOrders
    BY <2>1, <2>7 DEF Resets, Reset, ResetLedger, ResetList, ResetSave, shop
  <2>8. CASE Stop
    BY <2>1, <2>8 DEF Stop, shop
  <2> QED
    BY <2>2, <2>3, <2>4, <2>5, <2>6, <2>7, <2>8 DEF Next
<1>2. [][KeepsOthers]_vars => OthersKept
  BY DEF KeepsOthers, Keeps, OthersKept
<1> QED
  BY <1>1, <1>2, Invariance, PTL DEF Spec
=============================================================================
