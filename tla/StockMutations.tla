---------------------------- MODULE StockMutations ----------------------------
(***************************************************************************)
(* The five endpoints of apps/inventory that change stock - receive a      *)
(* purchase order, complete a sales order, approve a return, write off     *)
(* damage, and the filing of orders and returns they feed on - at the      *)
(* grain of their SQL statements.                                          *)
(*                                                                         *)
(* A worker runs one request inside transaction.atomic().  Its statements  *)
(* are separate actions, other workers run between them, and PostgreSQL's  *)
(* READ COMMITTED level is assumed: a statement sees what had committed    *)
(* when it started plus the transaction's own writes.  SELECT ... FOR      *)
(* UPDATE and UPDATE own the row until the transaction ends.  What a       *)
(* transaction has written stays in txn[w] until Commit publishes it.      *)
(*                                                                         *)
(* "open" stands for ordered / created / pending and "done" for received / *)
(* completed / approved; "absent" is an order not filed yet.               *)
(***************************************************************************)
EXTENDS OrderLines

CONSTANTS
  Workers,          \* the gunicorn workers that serve requests
  Products,         \* product primary keys: numbers, their order is ORDER BY's
  PurchaseOrders, SalesOrders, Returns,
  Baskets,          \* the item lists a client may put into an order
  ReturnQuantities, \* the quantities a client may ask to return
  WriteOffs,        \* the quantities a client may write off
  Opening,          \* opening balance of each product
  Threshold,        \* low_stock_threshold of each product
  LockingEnabled,   \* settings.INVENTORY_LOCKING_ENABLED
  None

Orders == PurchaseOrders \cup SalesOrders \cup Returns
Rows   == Products \cup Orders
Line   == [product : Products, quantity : Nat]
TransactionType == {"purchase", "sale", "return", "damage"}

(* Rows of different tables differ, and the serializers let through only   *)
(* non-empty item lists of known products with quantities of at least one. *)
ASSUME ConstantsAssumption ==
  /\ Products \subseteq Nat
  /\ Products \cap Orders = {}
  /\ PurchaseOrders \cap SalesOrders = {}
  /\ Returns \cap (PurchaseOrders \cup SalesOrders) = {}
  /\ None \notin Workers \cup Rows
  /\ \A b \in Baskets : /\ b \in Seq(Line)
                        /\ Len(b) > 0
                        /\ \A i \in 1..Len(b) : b[i].quantity > 0
  /\ ReturnQuantities \subseteq Nat
  /\ WriteOffs \subseteq Nat \ {0}
  /\ Opening \in [Products -> Nat]
  /\ Threshold \in [Products -> Nat]
  /\ LockingEnabled \in BOOLEAN

VARIABLES
  stock,    \* Product.current_stock, committed
  active,   \* Product.is_active
  ledger,   \* committed InventoryTransaction rows: units per type and product
  status,   \* status of every order, committed
  items,    \* item lines of every order; a return has one line
  against,  \* the sales order a return is filed against
  posted,   \* units of the ledger rows whose reference_id is the order
  notices,  \* committed notifications <<type, product or order>>
  version,  \* cache:version:inventory
  lock,     \* row -> the worker whose transaction owns its lock
  pc,       \* what a worker runs next
  txn       \* what its transaction has read and written so far

orderVars == <<items, against>>
dbVars    == <<stock, active, ledger, status, posted, notices>>
vars      == <<dbVars, orderVars, version, lock, pc, txn>>

(* order: the order of the request, None for a write-off; lines: its item  *)
(* list as read; next: the line to write; seen: current_stock of the       *)
(* instance the check loop of complete() holds for each line; written,     *)
(* stock, qty, notices: rows updated, their new value, the units of the    *)
(* ledger rows inserted, the notifications inserted.                       *)
Txn == [order : Orders \cup {None}, lines : Seq(Line), next : Nat \ {0},
        seen : Seq(Int), written : SUBSET Products, stock : [Products -> Int],
        qty : [Products -> Nat],
        notices : SUBSET ({"low_stock", "out_of_stock"} \X Products)]

EmptyTxn == [order |-> None, lines |-> <<>>, next |-> 1, seen |-> <<>>,
             written |-> {}, stock |-> [p \in Products |-> 0],
             qty |-> [p \in Products |-> 0], notices |-> {}]

-----------------------------------------------------------------------------
(* Operators the handlers share.                                           *)

(* An operator named ...Fault is the one after it with one slip in it, such *)
(* as a later change might bring; nothing uses it.  PROJECT.json says which *)
(* property finds it out.                                                   *)

(* Below the threshold, not at it.                                         *)
StockNoticesFault(p, level) ==
  IF level <= 0 THEN {<<"out_of_stock", p>>}
  ELSE IF level < Threshold[p] THEN {<<"low_stock", p>>} ELSE {}

(* check_and_notify_stock for a product whose stock is now level.          *)
StockNotices(p, level) ==
  IF level <= 0 THEN {<<"out_of_stock", p>>}
  ELSE IF level <= Threshold[p] THEN {<<"low_stock", p>>} ELSE {}

TypeOf(o) == IF o \in PurchaseOrders THEN "purchase"
             ELSE IF o \in SalesOrders THEN "sale"
             ELSE IF o \in Returns THEN "return" ELSE "damage"

(* What the handler tells the creator of the order.                        *)
CreatorNotice(o) == IF o \in PurchaseOrders THEN {<<"purchase_completed", o>>}
                    ELSE IF o \in SalesOrders THEN {<<"sale_completed", o>>}
                    ELSE {}

Available(row, w) == lock[row] \in {None, w}
Acquire(row, w)   == lock' = [lock EXCEPT ![row] = w]
Released(w)       == [r \in Rows |-> IF lock[r] = w THEN None ELSE lock[r]]

Current(w)  == txn[w].lines[txn[w].next]
Visible(w, p) == IF p \in txn[w].written THEN txn[w].stock[p] ELSE stock[p]

(* An early return that leaves the transaction open.                       *)
EndUnchangedFault(w) ==
  /\ txn' = [txn EXCEPT ![w] = EmptyTxn]
  /\ pc' = [pc EXCEPT ![w] = "idle"]
  /\ UNCHANGED <<dbVars, orderVars, version, lock>>

(* The transaction ends with nothing written and the worker is free.       *)
EndUnchanged(w) ==
  /\ lock' = Released(w)
  /\ txn' = [txn EXCEPT ![w] = EmptyTxn]
  /\ pc' = [pc EXCEPT ![w] = "idle"]
  /\ UNCHANGED <<dbVars, orderVars, version>>

(* The ledger row gets the signed change, quantity_delta.                  *)
WrittenFault(t, p, q, level, new) ==
  [t EXCEPT !.next = @ + 1, !.written = @ \cup {p}, !.stock[p] = level,
            !.qty[p] = @ + (level - stock[p]), !.notices = @ \cup new]

(* product.save(current_stock), one ledger row, the notices.               *)
Written(t, p, q, level, new) ==
  [order |-> t.order, lines |-> t.lines, next |-> t.next + 1, seen |-> t.seen,
   written |-> t.written \cup {p},
   stock   |-> [t.stock EXCEPT ![p] = level],
   qty     |-> [t.qty EXCEPT ![p] = @ + q],
   notices |-> t.notices \cup new]

WriteLine(w, p, q, level, new) ==
  /\ txn' = [txn EXCEPT ![w] = Written(@, p, q, level, new)]
  /\ Acquire(p, w)
  /\ UNCHANGED <<dbVars, orderVars, version, pc>>

-----------------------------------------------------------------------------
(* Filing orders and returns, retiring products.                           *)

Init ==
  /\ stock = Opening
  /\ active = [p \in Products |-> TRUE]
  /\ ledger = [t \in TransactionType |->
                 IF t = "purchase" THEN Opening ELSE [p \in Products |-> 0]]
  /\ status = [o \in Orders |-> "absent"]
  /\ items = [o \in Orders |-> <<>>]
  /\ against = [r \in Returns |-> None]
  /\ posted = [o \in Orders |-> [p \in Products |-> 0]]
  /\ notices = {}
  /\ version = 1
  /\ lock = [r \in Rows |-> None]
  /\ pc = [w \in Workers |-> "idle"]
  /\ txn = [w \in Workers |-> EmptyTxn]

(* PurchaseOrderViewSet.create, SalesOrderViewSet.create.                  *)
CreateOrder(o, basket) ==
  /\ status[o] = "absent"
  /\ \A i \in DOMAIN basket : active[basket[i].product]
  /\ status' = [status EXCEPT ![o] = "open"]
  /\ items' = [items EXCEPT ![o] = basket]
  /\ UNCHANGED <<stock, active, ledger, posted, notices, against, version,
                 lock, pc, txn>>

(* Approved returns forgotten.                                             *)
ReservedFault(so, p) ==
  MapThenSumSet(LAMBDA r : items[r][1].quantity,
    {r \in Returns : /\ status[r] = "open"
                     /\ against[r] = so /\ items[r][1].product = p})

(* Units of p that returns against so, pending or approved, lay claim to.  *)
Reserved(so, p) ==
  MapThenSumSet(LAMBDA r : items[r][1].quantity,
    {r \in Returns : /\ status[r] \in {"open", "done"}
                     /\ against[r] = so /\ items[r][1].product = p})

(* ReturnViewSet.create: one step, because everything it reads is decided  *)
(* by rows that only the owner of the sales order's lock inserts.          *)
FileReturn(r, so, p, q) ==
  /\ status[r] = "absent"
  /\ lock[so] = None
  /\ status[so] = "done"
  /\ Units(items[so], p) # 0
  /\ q <= Units(items[so], p) - Reserved(so, p)
  /\ status' = [status EXCEPT ![r] = "open"]
  /\ items' = [items EXCEPT ![r] = <<[product |-> p, quantity |-> q]>>]
  /\ against' = [against EXCEPT ![r] = so]
  /\ UNCHANGED <<stock, active, ledger, posted, notices, version,
                 lock, pc, txn>>

(* ProductViewSet.perform_destroy: an UPDATE, so it waits for the row.     *)
DeactivateProduct(p) ==
  /\ active[p]
  /\ lock[p] = None
  /\ active' = [active EXCEPT ![p] = FALSE]
  /\ UNCHANGED <<stock, ledger, status, posted, notices, orderVars, version,
                 lock, pc, txn>>

-----------------------------------------------------------------------------
(* A request on an order: lock it, refuse a replay, read its lines.        *)

RequestOrder(w, o) ==
  /\ pc[w] = "idle"
  /\ status[o] # "absent"
  /\ pc' = [pc EXCEPT ![w] = "order"]
  /\ txn' = [txn EXCEPT ![w].order = o]
  /\ UNCHANGED <<dbVars, orderVars, version, lock>>

Locks(w) == LockingEnabled \/ txn[w].order \notin SalesOrders

(* No look at the status under the lock.                                   *)
LockOrderFault(w) ==
  LET o == txn[w].order IN
  /\ pc[w] = "order"
  /\ Locks(w) => Available(o, w)
  /\ IF Locks(w) THEN Acquire(o, w) ELSE UNCHANGED lock
  /\ pc' = [pc EXCEPT ![w] = "items"]
  /\ UNCHANGED <<dbVars, orderVars, version, txn>>

LockOrder(w) ==
  LET o == txn[w].order IN
  /\ pc[w] = "order"
  /\ Locks(w) => Available(o, w)
  /\ status[o] = "open"
  /\ IF Locks(w) THEN Acquire(o, w) ELSE UNCHANGED lock
  /\ pc' = [pc EXCEPT ![w] = "items"]
  /\ UNCHANGED <<dbVars, orderVars, version, txn>>

(* The 409 an idempotent replay gets.                                      *)
RefuseReplay(w) ==
  /\ pc[w] = "order"
  /\ Locks(w) => Available(txn[w].order, w)
  /\ status[txn[w].order] = "done"
  /\ EndUnchanged(w)

ReadItems(w) ==
  /\ pc[w] = "items"
  /\ \E lines \in OrderedByProduct(items[txn[w].order]) :
       txn' = [txn EXCEPT ![w].lines = lines]
  /\ pc' = [pc EXCEPT ![w] = "lines"]
  /\ UNCHANGED <<dbVars, orderVars, version, lock>>

MoreLines(w) == pc[w] = "lines" /\ txn[w].next <= Len(txn[w].lines)

-----------------------------------------------------------------------------
(* The line loops of receive, approve and complete.                        *)

(* Product.objects.get() for select_for_update().get().                    *)
ReceiveLineFault(w) ==
  LET p == Current(w).product
      q == Current(w).quantity
      level == Visible(w, p) + q
  IN /\ MoreLines(w)
     /\ txn[w].order \in PurchaseOrders
     /\ WriteLine(w, p, q, level, StockNotices(p, level))

ReceiveLine(w) ==
  LET p == Current(w).product
      q == Current(w).quantity
      level == Visible(w, p) + q
  IN /\ MoreLines(w)
     /\ txn[w].order \in PurchaseOrders
     /\ Available(p, w)
     /\ WriteLine(w, p, q, level, StockNotices(p, level))

ApproveLine(w) ==
  LET p == Current(w).product
      q == Current(w).quantity
  IN /\ MoreLines(w)
     /\ txn[w].order \in Returns
     /\ Available(p, w)
     /\ WriteLine(w, p, q, Visible(w, p) + q, {})

Checking(w) == /\ MoreLines(w)
               /\ txn[w].order \in SalesOrders
               /\ Len(txn[w].seen) < Len(txn[w].lines)

(* The rows are compared but not locked.                                   *)
CheckLineFault(w) ==
  LET line == txn[w].lines[Len(txn[w].seen) + 1] IN
  /\ Checking(w)
  /\ stock[line.product] >= line.quantity
  /\ txn' = [txn EXCEPT ![w].seen = Append(@, stock[line.product])]
  /\ UNCHANGED <<dbVars, orderVars, version, lock, pc>>

CheckLine(w) ==
  LET line == txn[w].lines[Len(txn[w].seen) + 1] IN
  /\ Checking(w)
  /\ LockingEnabled => Available(line.product, w)
  /\ stock[line.product] >= line.quantity
  /\ txn' = [txn EXCEPT ![w].seen = Append(@, stock[line.product])]
  /\ IF LockingEnabled THEN Acquire(line.product, w) ELSE UNCHANGED lock
  /\ UNCHANGED <<dbVars, orderVars, version, pc>>

(* The 409 for a line that cannot be fulfilled.                            *)
RefuseSale(w) ==
  LET line == txn[w].lines[Len(txn[w].seen) + 1] IN
  /\ Checking(w)
  /\ LockingEnabled => Available(line.product, w)
  /\ stock[line.product] < line.quantity
  /\ EndUnchanged(w)

(* Every item has an instance of its own, read in the check loop.          *)
SellLine(w) ==
  LET p == Current(w).product
      q == Current(w).quantity
      level == txn[w].seen[txn[w].next] - q
  IN /\ MoreLines(w)
     /\ txn[w].order \in SalesOrders
     /\ Len(txn[w].seen) = Len(txn[w].lines)
     /\ Available(p, w)
     /\ WriteLine(w, p, q, level, StockNotices(p, level))

-----------------------------------------------------------------------------
(* DamageWriteOffView.post: SELECT ... FOR UPDATE WHERE is_active.          *)

RequestWriteOff(w, p, q) ==
  /\ pc[w] = "idle"
  /\ pc' = [pc EXCEPT ![w] = "lines"]
  /\ txn' = [txn EXCEPT ![w].lines = <<[product |-> p, quantity |-> q]>>]
  /\ UNCHANGED <<dbVars, orderVars, version, lock>>

RefuseInactive(w) ==
  /\ MoreLines(w)
  /\ txn[w].order = None
  /\ ~active[Current(w).product]
  /\ EndUnchanged(w)

RefuseWriteOff(w) ==
  /\ MoreLines(w)
  /\ txn[w].order = None
  /\ active[Current(w).product]
  /\ Available(Current(w).product, w)
  /\ stock[Current(w).product] < Current(w).quantity
  /\ EndUnchanged(w)

(* No look at what is in stock.                                            *)
WriteOffLineFault(w) ==
  LET p == Current(w).product
      q == Current(w).quantity
      level == stock[p] - q
  IN /\ MoreLines(w)
     /\ txn[w].order = None
     /\ active[p]
     /\ Available(p, w)
     /\ WriteLine(w, p, q, level, StockNotices(p, level))

WriteOffLine(w) ==
  LET p == Current(w).product
      q == Current(w).quantity
      level == stock[p] - q
  IN /\ MoreLines(w)
     /\ txn[w].order = None
     /\ active[p]
     /\ Available(p, w)
     /\ stock[p] >= q
     /\ WriteLine(w, p, q, level, StockNotices(p, level))

-----------------------------------------------------------------------------
(* The end of a transaction.                                               *)

(* The order's status is saved, the transaction commits.                   *)
Commit(w) ==
  LET t == txn[w]
      o == t.order
  IN /\ pc[w] = "lines"
     /\ t.next > Len(t.lines)
     /\ o # None => Available(o, w)
     /\ stock' = [p \in Products |-> IF p \in t.written THEN t.stock[p] ELSE stock[p]]
     /\ ledger' = [ledger EXCEPT ![TypeOf(o)] = [p \in Products |-> @[p] + t.qty[p]]]
     /\ status' = [x \in Orders |-> IF x = o THEN "done" ELSE status[x]]
     /\ posted' = [x \in Orders |-> IF x = o
                     THEN [p \in Products |-> posted[x][p] + t.qty[p]]
                     ELSE posted[x]]
     /\ notices' = notices \cup t.notices \cup CreatorNotice(o)
     /\ lock' = Released(w)
     /\ txn' = [txn EXCEPT ![w] = EmptyTxn]
     /\ pc' = [pc EXCEPT ![w] = "bump"]
     /\ UNCHANGED <<active, orderVars, version>>

(* transaction.on_commit: bump_version("inventory"), then the response.    *)
Bump(w) ==
  /\ pc[w] = "bump"
  /\ version' = version + 1
  /\ pc' = [pc EXCEPT ![w] = "idle"]
  /\ UNCHANGED <<dbVars, orderVars, lock, txn>>

(* The worker process dies, or a statement raises: rollback.  After the    *)
(* commit only the bump is lost.                                           *)
Abort(w) ==
  /\ pc[w] # "idle"
  /\ EndUnchanged(w)

-----------------------------------------------------------------------------
Serve(w) == \/ LockOrder(w) \/ RefuseReplay(w) \/ ReadItems(w)
            \/ ReceiveLine(w) \/ ApproveLine(w)
            \/ CheckLine(w) \/ RefuseSale(w) \/ SellLine(w)
            \/ RefuseInactive(w) \/ RefuseWriteOff(w) \/ WriteOffLine(w)
            \/ Commit(w) \/ Bump(w)

Request(w) == \/ \E o \in Orders : RequestOrder(w, o)
              \/ \E p \in Products, q \in WriteOffs : RequestWriteOff(w, p, q)

File == \/ \E o \in PurchaseOrders \cup SalesOrders, b \in Baskets : CreateOrder(o, b)
        \/ \E r \in Returns, so \in SalesOrders, p \in Products, q \in ReturnQuantities :
             FileReturn(r, so, p, q)
        \/ \E p \in Products : DeactivateProduct(p)

Next == File \/ \E w \in Workers : Request(w) \/ Serve(w) \/ Abort(w)

Spec == Init /\ [][Next]_vars

(* A request that runs reaches its end: a worker that can go on does, and  *)
(* PostgreSQL grants a row lock to waiters in the order they queued, so a  *)
(* lock that is freed again and again is one day granted.                  *)
FairSpec == Spec /\ \A w \in Workers : SF_vars(Serve(w))

-----------------------------------------------------------------------------
TypeOK ==
  /\ stock \in [Products -> Int]
  /\ active \in [Products -> BOOLEAN]
  /\ ledger \in [TransactionType -> [Products -> Nat]]
  /\ status \in [Orders -> {"absent", "open", "done"}]
  /\ items \in [Orders -> Seq(Line)]
  /\ against \in [Returns -> SalesOrders \cup {None}]
  /\ posted \in [Orders -> [Products -> Nat]]
  /\ notices \subseteq ({"low_stock", "out_of_stock"} \X Products)
                 \cup ({"purchase_completed", "sale_completed"} \X Orders)
  /\ version \in Nat \ {0}
  /\ lock \in [Rows -> Workers \cup {None}]
  /\ pc \in [Workers -> {"idle", "order", "items", "lines", "bump"}]
  /\ txn \in [Workers -> Txn]

(* A worker that has yet to lock or read an order knows which one.         *)
Addressed == \A w \in Workers : pc[w] \in {"order", "items"} => txn[w].order \in Orders

(* Every unit in stock is accounted for by the ledger: whatever the        *)
(* interleaving of handlers, current_stock equals purchases and returns    *)
(* less sales and write-offs (what reconcile_ledger checks).               *)
StockMatchesLedger ==
  \A p \in Products :
    stock[p] = ledger["purchase"][p] + ledger["return"][p]
               - ledger["sale"][p] - ledger["damage"][p]

(* The strengthening that makes the ledger's invariants inductive.  Pending *)
(* relates what a transaction has written to the committed rows it owns;   *)
(* Checked says the instances of complete()'s check loop are still the     *)
(* committed rows; and no sale or write-off names a product twice.         *)
Incoming(o) == o \in PurchaseOrders \cup Returns

Pending(w) ==
  LET t == txn[w] IN
  /\ t.next <= Len(t.lines) + 1
  /\ t.written = {t.lines[i].product : i \in 1..(t.next - 1)}
  /\ \A p \in Products \ t.written : t.qty[p] = 0
  /\ \A p \in t.written :
       /\ lock[p] = w
       /\ t.stock[p] >= 0
       /\ t.stock[p] = IF Incoming(t.order) THEN stock[p] + t.qty[p]
                                            ELSE stock[p] - t.qty[p]

Checked(w) ==
  LET t == txn[w] IN
  t.order \in SalesOrders =>
    /\ Len(t.seen) <= Len(t.lines)
    /\ \A i \in 1..Len(t.seen) :
         LET p == t.lines[i].product IN
         /\ lock[p] = w
         /\ t.seen[i] = stock[p]
         /\ t.seen[i] >= t.lines[i].quantity

Fresh(w) == /\ pc[w] # "lines" => /\ txn[w].lines = <<>> /\ txn[w].seen = <<>>
                                  /\ txn[w].next = 1
            /\ pc[w] \in {"idle", "bump"} => txn[w].order = None

WorkerInv(w) == /\ Pending(w) /\ Checked(w) /\ Fresh(w)
                /\ ~Incoming(txn[w].order) => DistinctProducts(txn[w].lines)

LedgerInv == /\ StockMatchesLedger
             /\ \A p \in Products : stock[p] >= 0
             /\ \A so \in SalesOrders : DistinctProducts(items[so])
             /\ \A w \in Workers : WorkerInv(w)

(* Under which the ledger is proved right: locking on, and no order names  *)
(* a product on two lines.                                                 *)
SoundUse == LockingEnabled /\ \A b \in Baskets : DistinctProducts(b)

(* Nobody sells or writes off units that are not there: the check of one   *)
(* request is still true when its write lands.                             *)
NoOversell ==
  \A p \in Products :
    /\ stock[p] >= 0
    /\ ledger["sale"][p] + ledger["damage"][p]
         <= ledger["purchase"][p] + ledger["return"][p]

(* However often receive, complete or approve is called, the ledger rows   *)
(* that name the order move its lines exactly once, all of them, and only  *)
(* if its status says so.                                                  *)
PostedExactlyOnce ==
  \A o \in Orders, p \in Products :
    posted[o][p] = IF status[o] = "done" THEN Units(items[o], p) ELSE 0

(* The returns approved against a sale put back no more than it took out.  *)
ReturnsCoveredBySale ==
  \A so \in SalesOrders, p \in Products :
    MapThenSumSet(LAMBDA r : posted[r][p], {r \in Returns : against[r] = so})
      <= posted[so][p]

(* A product the handlers brought down to its threshold, or to nothing,    *)
(* was reported by the transaction that did it.                            *)
LowStockReported ==
  \A p \in Products :
    /\ stock[p] <= 0 /\ Opening[p] > 0 => <<"out_of_stock", p>> \in notices
    /\ stock[p] <= Threshold[p] /\ Opening[p] > Threshold[p] =>
         \E type \in {"low_stock", "out_of_stock"} : <<type, p>> \in notices

(* The row a worker needs for its next statement.                          *)
Wanted(w) ==
  CASE pc[w] = "order" /\ Locks(w) -> txn[w].order
    [] pc[w] = "lines" /\ txn[w].next > Len(txn[w].lines) -> txn[w].order
    [] Checking(w) /\ LockingEnabled -> txn[w].lines[Len(txn[w].seen) + 1].product
    [] MoreLines(w) /\ ~Checking(w) -> Current(w).product
    [] OTHER -> None

WaitsFor(w, v) == /\ v # w
                  /\ Wanted(w) \in Rows
                  /\ lock[Wanted(w)] = v

(* The handlers lock rows in one order: in no set of workers does every    *)
(* one wait for another one of the set.                                    *)
NoLockCycle ==
  \A S \in (SUBSET Workers) \ {{}} : \E w \in S : \A v \in S : ~WaitsFor(w, v)

(* The handlers, statement by statement and interleaved, behave as if each *)
(* ran alone at the instant of its commit: the committed rows refine       *)
(* Warehouse, whatever the workers hold in their transactions.             *)
Atomic   == INSTANCE Warehouse WITH stock <- stock, ledger <- ledger,
                                    status <- status, items <- items
IsAtomic == Atomic!Spec

(* Every request gets its answer, in spite of contention on its rows.      *)
RequestsAnswered ==
  \A w \in Workers : pc[w] # "idle" ~> pc[w] = "idle"

=============================================================================
