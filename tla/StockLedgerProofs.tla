--------------------------- MODULE StockLedgerProofs ---------------------------
(* For every value of the constants: stock and ledger agree and nothing is  *)
(* oversold (LedgerInv), low stock is reported (NoticeInv), an order posts  *)
(* once (PostingInv), returns are covered by their sale (ReturnInv), and    *)
(* the handlers implement the atomic operations of Warehouse.               *)
EXTENDS StockMutationsProofs

(* A worker whose transaction is left alone, and whose rows keep their      *)
(* owner and their committed value, keeps its part of the invariant.        *)
LEMMA Frame ==
  ASSUME TypeInv, LedgerInv, NEW v \in Workers,
         txn'[v] = txn[v], pc'[v] = pc[v],
         \A p \in Products : lock[p] = v => lock'[p] = v /\ stock'[p] = stock[p]
  PROVE  WorkerInv(v)'
<1>0. WorkerInv(v) /\ txn[v] \in Txn
  BY DEF LedgerInv, TypeInv, TypeOK
<1>1. txn[v].written \subseteq Products /\ txn[v].lines \in Seq(Line) /\ txn[v].seen \in Seq(Int)
  BY <1>0 DEF Txn
<1>2. Pending(v)'
  <2> DEFINE t == txn[v]
  <2>1. /\ t.next <= Len(t.lines) + 1
        /\ t.written = {t.lines[i].product : i \in 1..(t.next - 1)}
        /\ \A p \in Products \ t.written : t.qty[p] = 0
    BY <1>0 DEF WorkerInv, Pending
  <2>2. ASSUME NEW p \in t.written
        PROVE  /\ lock'[p] = v
               /\ t.stock[p] >= 0
               /\ t.stock[p] = IF Incoming(t.order) THEN stock'[p] + t.qty[p]
                                                    ELSE stock'[p] - t.qty[p]
    <3>1. /\ lock[p] = v
          /\ t.stock[p] >= 0
          /\ t.stock[p] = IF Incoming(t.order) THEN stock[p] + t.qty[p]
                                               ELSE stock[p] - t.qty[p]
      BY <1>0 DEF WorkerInv, Pending
    <3>2. lock'[p] = v /\ stock'[p] = stock[p]
      BY <1>1, <3>1
    <3> QED
      BY <3>1, <3>2
  <2> QED
    BY <2>1, <2>2 DEF Pending, Incoming
<1>3. Checked(v)'
  <2> SUFFICES ASSUME txn[v].order \in SalesOrders, NEW i \in 1..Len(txn[v].seen)
               PROVE  LET p == txn[v].lines[i].product IN
                      lock'[p] = v /\ txn[v].seen[i] = stock'[p]
    BY <1>0 DEF WorkerInv, Checked
  <2> DEFINE p == txn[v].lines[i].product
  <2>1. Len(txn[v].seen) <= Len(txn[v].lines) /\ lock[p] = v /\ txn[v].seen[i] = stock[p]
    BY <1>0 DEF WorkerInv, Checked
  <2>2. i \in 1..Len(txn[v].lines)
    BY <1>1, <2>1
  <2>3. txn[v].lines[i] \in Line
    BY <1>1, <2>2, ElementOfSeq
  <2>4. p \in Products
    BY <2>3 DEF Line
  <2> QED
    BY <2>1, <2>4
<1>4. Fresh(v)' /\ (~Incoming(txn[v].order) => DistinctProducts(txn[v].lines))'
  BY <1>0 DEF WorkerInv, Fresh, Incoming
<1> QED
  BY <1>0, <1>2, <1>3, <1>4 DEF WorkerInv

(* A step of w that takes at most free rows and does not touch the          *)
(* committed state disturbs nobody else.                                    *)
LEMMA Others ==
  ASSUME TypeInv, LedgerInv, NEW w \in Workers, NEW v \in Workers, v # w,
         txn'[v] = txn[v], pc'[v] = pc[v], stock' = stock,
         \/ lock' = lock \/ lock' = Released(w)
         \/ \E r \in Rows : Available(r, w) /\ lock' = [lock EXCEPT ![r] = w]
  PROVE  WorkerInv(v)'
<1>1. ASSUME NEW p \in Products, lock[p] = v PROVE lock'[p] = v
  BY <1>1, ConstantsAssumption
     DEF TypeInv, TypeOK, Rows, Released, Available, ConstantsAssumption
<1> QED
  BY <1>1, Frame

(* A worker with an empty transaction.                                      *)
LEMMA EmptyWorker ==
  ASSUME NEW w \in Workers, txn'[w] = EmptyTxn
  PROVE  WorkerInv(w)'
<1>1. /\ txn'[w].lines = <<>> /\ txn'[w].seen = <<>> /\ txn'[w].next = 1
      /\ txn'[w].written = {} /\ txn'[w].order = None
      /\ \A p \in Products : txn'[w].qty[p] = 0
  BY DEF EmptyTxn
<1>2. Pending(w)'
  BY <1>1 DEF Pending
<1>3. None \notin SalesOrders
  BY ConstantsAssumption DEF ConstantsAssumption, Rows, Orders
<1>4. Checked(w)' /\ Fresh(w)'
  BY <1>1, <1>3 DEF Checked, Fresh
<1>5. DistinctProducts(<<>>)
  BY DEF DistinctProducts
<1> QED
  BY <1>1, <1>2, <1>4, <1>5 DEF WorkerInv

(* The parts of LedgerInv that speak of committed rows only.                *)
LEMMA LedgerUnchanged ==
  ASSUME LedgerInv, UNCHANGED <<stock, ledger, items>>,
         \A w \in Workers : WorkerInv(w)'
  PROVE  LedgerInv'
BY DEF LedgerInv, StockMatchesLedger

LEMMA EndLedger ==
  ASSUME TypeInv, LedgerInv, NEW w \in Workers, EndUnchanged(w)
  PROVE  LedgerInv'
<1>1. /\ lock' = Released(w) /\ stock' = stock /\ txn'[w] = EmptyTxn
      /\ \A v \in Workers : v # w => txn'[v] = txn[v] /\ pc'[v] = pc[v]
  BY DEF EndUnchanged, dbVars, TypeInv, TypeOK
<1>2. \A v \in Workers : WorkerInv(v)'
  BY <1>1, Others, EmptyWorker
<1> QED
  BY <1>2, LedgerUnchanged DEF EndUnchanged, dbVars, orderVars

-----------------------------------------------------------------------------
(* Filing and asking.                                                       *)

LEMMA FileLedger ==
  ASSUME SoundUse, TypeInv, LedgerInv, File
  PROVE  LedgerInv'
<1>1. UNCHANGED <<stock, ledger, lock, pc, txn>>
  BY DEF File, CreateOrder, FileReturn, DeactivateProduct
<1>2. \A v \in Workers : WorkerInv(v)'
  BY <1>1, Frame
<1>3. ASSUME NEW so \in SalesOrders PROVE DistinctProducts(items'[so])
  <2>0. so \in Orders /\ DistinctProducts(items[so])
    BY DEF Orders, LedgerInv
  <2>1. ASSUME NEW o \in PurchaseOrders \cup SalesOrders, NEW b \in Baskets, CreateOrder(o, b)
        PROVE  DistinctProducts(items'[so])
    BY <2>0, <2>1 DEF CreateOrder, SoundUse, TypeInv, TypeOK
  <2>2. ASSUME NEW r \in Returns, NEW o \in SalesOrders, NEW p \in Products,
               NEW q \in ReturnQuantities, FileReturn(r, o, p, q)
        PROVE  DistinctProducts(items'[so])
    <3>1. r # so
      BY ConstantsAssumption DEF ConstantsAssumption
    <3> QED
      BY <2>0, <2>2, <3>1 DEF FileReturn, TypeInv, TypeOK
  <2>3. ASSUME NEW p \in Products, DeactivateProduct(p)
        PROVE  DistinctProducts(items'[so])
    BY <2>0, <2>3 DEF DeactivateProduct, orderVars
  <2> QED
    BY <2>1, <2>2, <2>3 DEF File
<1> QED
  BY <1>1, <1>2, <1>3 DEF LedgerInv, StockMatchesLedger

LEMMA RequestLedger ==
  ASSUME TypeInv, LedgerInv, NEW w \in Workers, Request(w)
  PROVE  LedgerInv'
<1>0. /\ WorkerInv(w) /\ txn[w] \in Txn /\ None \notin Orders
      /\ Fresh(w) /\ Pending(w)
  BY ConstantsAssumption
     DEF LedgerInv, TypeInv, TypeOK, ConstantsAssumption, Rows, WorkerInv
<1>1. ASSUME NEW o \in Orders, RequestOrder(w, o)
      PROVE  WorkerInv(w)'
  <2>1. /\ txn[w].lines = <<>> /\ txn[w].seen = <<>> /\ txn[w].next = 1
        /\ txn[w].written = {}
    BY <1>0, <1>1 DEF RequestOrder, Fresh, Pending
  <2>2. txn'[w] = [txn[w] EXCEPT !.order = o] /\ pc'[w] = "order" /\ pc[w] = "idle"
    BY <1>1 DEF RequestOrder, TypeInv, TypeOK
  <2>3. /\ txn'[w].lines = <<>> /\ txn'[w].seen = <<>> /\ txn'[w].next = 1
        /\ txn'[w].written = {} /\ txn'[w].qty = txn[w].qty
    BY <1>0, <2>1, <2>2 DEF Txn
  <2>4. Pending(w)' /\ Checked(w)' /\ Fresh(w)' /\ DistinctProducts(txn'[w].lines)
    BY <1>0, <2>1, <2>2, <2>3 DEF Pending, Checked, Fresh, DistinctProducts
  <2> QED
    BY <2>4 DEF WorkerInv
<1>2. ASSUME NEW p \in Products, NEW q \in WriteOffs, RequestWriteOff(w, p, q)
      PROVE  WorkerInv(w)'
  <2> DEFINE lines == <<[product |-> p, quantity |-> q]>>
  <2>0. Len(lines) = 1 /\ DistinctProducts(lines)
    BY DEF DistinctProducts
  <2>a. txn'[w] = [txn[w] EXCEPT !.lines = lines] /\ pc'[w] = "lines" /\ pc[w] = "idle"
    BY <1>2 DEF RequestWriteOff, TypeInv, TypeOK
  <2> HIDE DEF lines
  <2>1. /\ txn[w].seen = <<>> /\ txn[w].next = 1
        /\ txn[w].written = {} /\ txn[w].order = None
    BY <1>0, <2>a DEF Fresh, Pending
  <2>2. /\ txn'[w].lines = lines /\ txn'[w].seen = <<>> /\ txn'[w].next = 1
        /\ txn'[w].written = {} /\ txn'[w].qty = txn[w].qty /\ txn'[w].order = None
    BY <1>0, <2>1, <2>a DEF Txn
  <2>3. Pending(w)' /\ Checked(w)' /\ Fresh(w)'
    BY <1>0, <2>0, <2>1, <2>2, <2>a DEF Pending, Checked, Fresh, Orders
  <2> QED
    BY <2>0, <2>2, <2>3 DEF WorkerInv
<1>3. WorkerInv(w)'
  BY <1>1, <1>2 DEF Request
<1>4. UNCHANGED <<stock, ledger, items, lock>>
      /\ \A v \in Workers : v # w => txn'[v] = txn[v] /\ pc'[v] = pc[v]
  BY DEF Request, RequestOrder, RequestWriteOff, dbVars, orderVars, TypeInv, TypeOK
<1>5. \A v \in Workers : WorkerInv(v)'
  BY <1>3, <1>4, Others
<1> QED
  BY <1>4, <1>5, LedgerUnchanged

-----------------------------------------------------------------------------
(* Locking, reading and checking.                                           *)

LEMMA OrderedDistinct ==
  ASSUME NEW b \in Seq(Line), DistinctProducts(b), NEW t \in OrderedByProduct(b)
  PROVE  DistinctProducts(t)
<1>1. PICK f \in [DOMAIN b -> DOMAIN b] :
        /\ t = [i \in DOMAIN b |-> b[f[i]]]
        /\ \A i, j \in DOMAIN b : f[i] = f[j] => i = j
  BY DEF OrderedByProduct
<1> QED
  BY <1>1 DEF DistinctProducts

LEMMA LockOrderLedger ==
  ASSUME TypeInv, LedgerInv, NEW w \in Workers, LockOrder(w)
  PROVE  LedgerInv'
<1>1. /\ txn' = txn /\ UNCHANGED <<stock, ledger, items>>
      /\ pc[w] = "order" /\ pc'[w] = "items"
      /\ \A v \in Workers : v # w => pc'[v] = pc[v]
  BY DEF LockOrder, dbVars, orderVars, TypeInv, TypeOK
<1>2. txn[w].order \in Rows
  BY <1>1 DEF TypeInv, Addressed, Rows
<1>3. lock' = lock \/ (Available(txn[w].order, w) /\ lock' = [lock EXCEPT ![txn[w].order] = w])
  BY DEF LockOrder, Acquire
<1>4. WorkerInv(w)'
  <2>1. /\ txn[w].lines = <<>> /\ txn[w].seen = <<>> /\ txn[w].next = 1
        /\ txn[w].written = {} /\ txn[w] \in Txn
        /\ \A p \in Products : txn[w].qty[p] = 0
    BY <1>1 DEF LedgerInv, WorkerInv, Fresh, Pending, TypeInv, TypeOK
  <2>2. Pending(w)' /\ Checked(w)' /\ Fresh(w)' /\ DistinctProducts(<<>>)
    BY <1>1, <2>1 DEF Pending, Checked, Fresh, DistinctProducts
  <2> QED
    BY <1>1, <2>1, <2>2 DEF WorkerInv
<1>5. \A v \in Workers : WorkerInv(v)'
  BY <1>1, <1>2, <1>3, <1>4, Others
<1> QED
  BY <1>1, <1>5, LedgerUnchanged

LEMMA ReadItemsLedger ==
  ASSUME TypeInv, LedgerInv, NEW w \in Workers, ReadItems(w)
  PROVE  LedgerInv'
<1> DEFINE o == txn[w].order
<1>1. /\ UNCHANGED <<stock, ledger, items, lock>>
      /\ pc[w] = "items" /\ pc'[w] = "lines"
      /\ \A v \in Workers : v # w => txn'[v] = txn[v] /\ pc'[v] = pc[v]
  BY DEF ReadItems, dbVars, orderVars, TypeInv, TypeOK
<1>2. o \in Orders /\ items[o] \in Seq(Line) /\ txn[w] \in Txn
  BY <1>1 DEF TypeInv, Addressed, TypeOK
<1>3. PICK lines \in OrderedByProduct(items[o]) : txn' = [txn EXCEPT ![w].lines = lines]
  BY DEF ReadItems
<1>4. lines \in Seq(Line) /\ Len(lines) \in Nat
  BY <1>2, <1>3, OrderedLines
<1>5. /\ txn[w].seen = <<>> /\ txn[w].next = 1 /\ txn[w].written = {}
      /\ \A p \in Products : txn[w].qty[p] = 0
  BY <1>1 DEF LedgerInv, WorkerInv, Fresh, Pending
<1>6. /\ txn'[w].lines = lines /\ txn'[w].seen = <<>> /\ txn'[w].next = 1
      /\ txn'[w].written = {} /\ txn'[w].qty = txn[w].qty /\ txn'[w].order = o
  BY <1>2, <1>3, <1>5 DEF Txn, TypeInv, TypeOK
<1>7. Pending(w)' /\ Checked(w)' /\ Fresh(w)'
  BY <1>1, <1>4, <1>5, <1>6 DEF Pending, Checked, Fresh
<1>8. ~Incoming(o) => DistinctProducts(lines)
  BY <1>2, <1>3, OrderedDistinct DEF Incoming, Orders, LedgerInv
<1>9. WorkerInv(w)'
  BY <1>6, <1>7, <1>8 DEF WorkerInv, Incoming
<1>10. \A v \in Workers : WorkerInv(v)'
  BY <1>1, <1>9, Others
<1> QED
  BY <1>1, <1>10, LedgerUnchanged

LEMMA CheckLineLedger ==
  ASSUME SoundUse, TypeInv, LedgerInv, NEW w \in Workers, CheckLine(w)
  PROVE  LedgerInv'
<1> DEFINE t == txn[w]
           n == Len(t.seen) + 1
           line == t.lines[n]
           p == line.product
<1>1. /\ t \in Txn /\ t.seen \in Seq(Int) /\ t.lines \in Seq(Line)
      /\ WorkerInv(w) /\ pc[w] = "lines" /\ n \in 1..Len(t.lines)
      /\ t.order \in SalesOrders
  BY DEF TypeInv, TypeOK, Txn, LedgerInv, CheckLine, Checking, MoreLines
<1>2. line \in Line
  BY <1>1, ElementOfSeq
<1>3. p \in Products /\ stock[p] \in Int /\ p \in Rows
  BY <1>2 DEF Line, TypeInv, TypeOK, Rows
<1>4. /\ Available(p, w) /\ stock[p] >= line.quantity
      /\ txn' = [txn EXCEPT ![w] = [t EXCEPT !.seen = Append(t.seen, stock[p])]]
      /\ lock' = [lock EXCEPT ![p] = w] /\ pc' = pc
      /\ UNCHANGED <<stock, ledger, items>>
  BY DEF CheckLine, SoundUse, Acquire, dbVars, orderVars
<1> DEFINE seen == Append(t.seen, stock[p])
<1>5. /\ Len(seen) = n
      /\ \A i \in 1..Len(t.seen) : seen[i] = t.seen[i]
      /\ seen[n] = stock[p]
  BY <1>1, <1>3, AppendProperties
<1> HIDE DEF seen, n
<1>6. /\ txn'[w].order = t.order /\ txn'[w].lines = t.lines /\ txn'[w].seen = seen
      /\ txn'[w].next = t.next /\ txn'[w].written = t.written
      /\ txn'[w].stock = t.stock /\ txn'[w].qty = t.qty
      /\ \A v \in Workers : v # w => txn'[v] = txn[v]
  BY <1>1, <1>4 DEF Txn, TypeInv, TypeOK, seen
<1>7. \A r \in Rows : lock[r] = w => lock'[r] = w
  BY <1>4 DEF TypeInv, TypeOK
<1>8. Pending(w)'
  <2>1. t.written \subseteq Rows
    BY <1>1 DEF Txn, Rows
  <2>2. Pending(w)
    BY <1>1 DEF WorkerInv
  <2>3. \A r \in t.written : lock'[r] = w
    BY <1>7, <2>1, <2>2 DEF Pending
  <2>4. stock' = stock
    BY <1>4
  <2> QED
    BY <1>6, <2>2, <2>3, <2>4 DEF Pending
<1>9. Checked(w)'
  <2> SUFFICES ASSUME NEW i \in 1..n
               PROVE  LET r == t.lines[i].product IN
                      /\ lock'[r] = w /\ seen[i] = stock[r] /\ seen[i] >= t.lines[i].quantity
    <3>1. Len(txn'[w].seen) = n /\ n <= Len(txn'[w].lines) /\ stock' = stock
      BY <1>1, <1>4, <1>5, <1>6
    <3> QED
      BY <1>6, <3>1 DEF Checked
  <2>1. CASE i = n
    BY <1>3, <1>4, <1>5, <2>1 DEF TypeInv, TypeOK, n
  <2>2. CASE i # n
    <3>1. i \in 1..Len(t.seen)
      BY <1>1, <2>2 DEF n
    <3>2. t.lines[i] \in Line
      BY <1>1, <3>1, ElementOfSeq DEF n
    <3>3. t.lines[i].product \in Rows
      BY <3>2 DEF Line, Rows
    <3> QED
      BY <1>1, <1>5, <1>7, <3>1, <3>3 DEF WorkerInv, Checked
  <2> QED
    BY <2>1, <2>2
<1>10. WorkerInv(w)'
  BY <1>1, <1>4, <1>6, <1>8, <1>9 DEF WorkerInv, Fresh, Incoming
<1>11. \A v \in Workers : WorkerInv(v)'
  BY <1>3, <1>4, <1>6, <1>10, Others
<1> QED
  BY <1>4, <1>11, LedgerUnchanged

-----------------------------------------------------------------------------
(* Writing a line.  The level written is the committed one plus or minus    *)
(* the units of the ledger rows inserted, whichever handler writes it.      *)

LEMMA WriteLineLedger ==
  ASSUME TypeInv, LedgerInv, NEW w \in Workers, MoreLines(w),
         NEW level \in Nat,
         NEW new \in SUBSET ({"low_stock", "out_of_stock"} \X Products),
         LET p == Current(w).product
             q == Current(w).quantity
         IN /\ Available(p, w)
            /\ WriteLine(w, p, q, level, new)
            /\ IF Incoming(txn[w].order)
                 THEN level = Visible(w, p) + q
                 ELSE p \notin txn[w].written /\ level = stock[p] - q
  PROVE  LedgerInv'
<1> DEFINE t == txn[w]
           p == Current(w).product
           q == Current(w).quantity
           u == Written(t, p, q, level, new)
<1>1. /\ t \in Txn /\ WorkerInv(w) /\ Pending(w) /\ Current(w) \in Line /\ pc[w] = "lines"
      /\ t.next \in Nat \ {0} /\ t.lines \in Seq(Line) /\ t.written \subseteq Products
      /\ t.stock \in [Products -> Int] /\ t.qty \in [Products -> Nat]
  BY CurrentType DEF TypeInv, TypeOK, LedgerInv, WorkerInv, MoreLines, Txn
<1>2. p \in Products /\ q \in Nat /\ p \in Rows /\ stock[p] \in Int
  BY <1>1 DEF Line, Rows, TypeInv, TypeOK
<1>3. /\ u.order = t.order /\ u.lines = t.lines /\ u.seen = t.seen
      /\ u.next = t.next + 1 /\ u.written = t.written \cup {p}
      /\ u.stock = [t.stock EXCEPT ![p] = level]
      /\ u.qty = [t.qty EXCEPT ![p] = t.qty[p] + q]
  BY DEF Written
<1>4. /\ txn' = [txn EXCEPT ![w] = u] /\ lock' = [lock EXCEPT ![p] = w]
      /\ pc' = pc /\ UNCHANGED <<stock, ledger, items>>
  BY DEF WriteLine, Acquire, dbVars, orderVars
<1>5. txn'[w] = u /\ \A v \in Workers : v # w => txn'[v] = txn[v]
  BY <1>4 DEF TypeInv, TypeOK
<1>6. Available(p, w) /\ Current(w) = t.lines[t.next] /\ t.next <= Len(t.lines)
  BY DEF Current, MoreLines
<1>7. \A r \in Rows : lock[r] = w => lock'[r] = w
  BY <1>4 DEF TypeInv, TypeOK
<1>8. lock'[p] = w
  BY <1>2, <1>4 DEF TypeInv, TypeOK
<1>9. level = IF Incoming(t.order) THEN stock[p] + u.qty[p] ELSE stock[p] - u.qty[p]
  <2>1. u.qty[p] = t.qty[p] + q
    BY <1>1, <1>2, <1>3
  <2>2. CASE Incoming(t.order)
    <3>1. level = Visible(w, p) + q
      BY <2>2
    <3>2. Visible(w, p) = stock[p] + t.qty[p]
      <4>1. CASE p \in t.written
        BY <1>1, <2>2, <4>1 DEF Visible, Pending
      <4>2. CASE p \notin t.written
        <5>1. t.qty[p] = 0
          BY <1>1, <1>2, <4>2 DEF Pending
        <5> QED
          BY <1>2, <4>2, <5>1 DEF Visible
      <4> QED
        BY <4>1, <4>2
    <3> QED
      BY <1>1, <1>2, <2>1, <2>2, <3>1, <3>2
  <2>3. CASE ~Incoming(t.order)
    <3>1. p \notin t.written /\ level = stock[p] - q
      BY <2>3
    <3>2. t.qty[p] = 0
      BY <1>1, <1>2, <3>1 DEF Pending
    <3> QED
      BY <1>2, <2>1, <2>3, <3>1, <3>2
  <2> QED
    BY <2>2, <2>3
<1> HIDE DEF u, p, q
<1>10. u.written = {u.lines[i].product : i \in 1..(u.next - 1)}
  <2>1. u.next - 1 = t.next /\ t.lines[t.next].product = p
    <3>1. u.next = t.next + 1 /\ t.next \in Nat
      BY <1>1, <1>3
    <3>2. t.lines[t.next].product = p
      BY <1>6 DEF p
    <3> QED
      BY <3>1, <3>2
  <2>2. 1..t.next = (1..(t.next - 1)) \cup {t.next}
    BY <1>1
  <2>3. t.written = {t.lines[i].product : i \in 1..(t.next - 1)}
    BY <1>1 DEF Pending
  <2> QED
    BY <1>3, <2>1, <2>2, <2>3
<1>11. ASSUME NEW r \in Products \ u.written PROVE u.qty[r] = 0
  BY <1>1, <1>2, <1>3 DEF Pending
<1>12. ASSUME NEW r \in u.written
       PROVE  /\ lock'[r] = w
              /\ u.stock[r] >= 0
              /\ u.stock[r] = IF Incoming(t.order) THEN stock[r] + u.qty[r]
                                                   ELSE stock[r] - u.qty[r]
  <2>1. CASE r = p
    BY <1>1, <1>2, <1>3, <1>8, <1>9, <2>1
  <2>2. CASE r # p
    <3>1. r \in t.written /\ r \in Rows /\ r \in Products
      BY <1>1, <1>3, <2>2 DEF Rows
    <3>2. u.stock[r] = t.stock[r] /\ u.qty[r] = t.qty[r]
      BY <1>1, <1>3, <2>2, <3>1
    <3> QED
      BY <1>1, <1>7, <3>1, <3>2 DEF Pending
  <2> QED
    BY <2>1, <2>2
<1>13. Pending(w)'
  <2>1. u.next <= Len(u.lines) + 1
    BY <1>1, <1>3, <1>6
  <2>2. ASSUME NEW r \in u.written
        PROVE  /\ lock'[r] = w
               /\ u.stock[r] >= 0
               /\ u.stock[r] = IF Incoming(u.order) THEN stock'[r] + u.qty[r]
                                                    ELSE stock'[r] - u.qty[r]
    BY <1>3, <1>4, <1>12
  <2>3. \A r \in Products \ u.written : u.qty[r] = 0
    BY <1>11
  <2> QED
    BY <1>5, <1>10, <2>1, <2>2, <2>3 DEF Pending, Incoming
<1>14. Checked(w)'
  <2>1. /\ txn'[w].order = t.order /\ txn'[w].seen = t.seen /\ txn'[w].lines = t.lines
        /\ stock' = stock
    BY <1>3, <1>4, <1>5
  <2>2. ASSUME t.order \in SalesOrders
        PROVE  /\ Len(t.seen) <= Len(t.lines)
               /\ \A i \in 1..Len(t.seen) : /\ lock[t.lines[i].product] = w
                                            /\ t.seen[i] = stock[t.lines[i].product]
                                            /\ t.seen[i] >= t.lines[i].quantity
    BY <1>1, <2>2 DEF WorkerInv, Checked
  <2>3. ASSUME t.order \in SalesOrders, NEW i \in 1..Len(t.seen)
        PROVE  lock'[t.lines[i].product] = w
    <3>1. Len(t.seen) <= Len(t.lines) /\ lock[t.lines[i].product] = w /\ t.seen \in Seq(Int)
      BY <1>1, <2>2, <2>3 DEF Txn
    <3>2. i \in 1..Len(t.lines)
      BY <1>1, <3>1
    <3>3. t.lines[i] \in Line
      BY <1>1, <3>2, ElementOfSeq
    <3>4. t.lines[i].product \in Rows
      BY <3>3 DEF Line, Rows
    <3> QED
      BY <1>7, <3>1, <3>4
  <2> QED
    BY <2>1, <2>2, <2>3 DEF Checked
<1>15. WorkerInv(w)'
  BY <1>1, <1>3, <1>4, <1>5, <1>13, <1>14 DEF WorkerInv, Fresh, Incoming
<1>16. \A v \in Workers : WorkerInv(v)'
  BY <1>2, <1>4, <1>5, <1>6, <1>15, Others
<1> QED
  BY <1>4, <1>16, LedgerUnchanged

(* The line to write of an order without duplicates is not written yet.     *)
LEMMA NotWritten ==
  ASSUME TypeInv, LedgerInv, NEW w \in Workers, MoreLines(w), ~Incoming(txn[w].order)
  PROVE  Current(w).product \notin txn[w].written
<1> DEFINE t == txn[w]
<1>1. /\ t.written = {t.lines[i].product : i \in 1..(t.next - 1)}
      /\ DistinctProducts(t.lines)
      /\ t.next \in Nat \ {0} /\ t.next <= Len(t.lines) /\ t.lines \in Seq(Line)
  BY DEF LedgerInv, WorkerInv, Pending, MoreLines, TypeInv, TypeOK, Txn
<1>2. \A i \in 1..(t.next - 1) : i \in DOMAIN t.lines /\ t.next \in DOMAIN t.lines /\ i # t.next
  BY <1>1
<1> QED
  BY <1>1, <1>2 DEF DistinctProducts, Current

LEMMA WritingLedger ==
  ASSUME TypeInv, LedgerInv, NEW w \in Workers,
         ReceiveLine(w) \/ ApproveLine(w) \/ SellLine(w) \/ WriteOffLine(w)
  PROVE  LedgerInv'
<1> DEFINE p == Current(w).product
           q == Current(w).quantity
<1>1. MoreLines(w) /\ Available(p, w) /\ txn[w] \in Txn
  BY DEF ReceiveLine, ApproveLine, SellLine, WriteOffLine, TypeInv, TypeOK
<1>2. Current(w) \in Line
  BY <1>1, CurrentType DEF TypeInv
<1>3. p \in Products /\ q \in Nat /\ stock[p] \in Int /\ stock[p] >= 0
  BY <1>2 DEF Line, TypeInv, TypeOK, LedgerInv
<1>4. Visible(w, p) \in Nat
  BY <1>1, <1>3 DEF Visible, LedgerInv, WorkerInv, Pending, Txn
<1>5. CASE ReceiveLine(w) \/ ApproveLine(w)
  <2>1. Incoming(txn[w].order)
    BY <1>5 DEF ReceiveLine, ApproveLine, Incoming
  <2>2. Visible(w, p) + q \in Nat
    BY <1>3, <1>4
  <2>3. PICK new \in SUBSET ({"low_stock", "out_of_stock"} \X Products) :
          WriteLine(w, p, q, Visible(w, p) + q, new)
    <3>1. StockNotices(p, Visible(w, p) + q)
            \in SUBSET ({"low_stock", "out_of_stock"} \X Products)
      BY <1>3, <2>2, NoticesType
    <3> QED
      BY <1>5, <3>1 DEF ReceiveLine, ApproveLine
  <2> QED
    BY <1>1, <2>1, <2>2, <2>3, WriteLineLedger
<1>6. CASE SellLine(w)
  <2> DEFINE t == txn[w]
             level == t.seen[t.next] - q
  <2>1. /\ t.order \in SalesOrders /\ ~Incoming(t.order)
        /\ Len(t.seen) = Len(t.lines) /\ WorkerInv(w)
        /\ t.next \in 1..Len(t.seen)
    BY <1>1, <1>6, ConstantsAssumption
       DEF SellLine, Incoming, ConstantsAssumption, MoreLines, LedgerInv, Txn
  <2>2. t.seen[t.next] = stock[p] /\ stock[p] >= q
    BY <2>1 DEF WorkerInv, Checked, Current
  <2>3. level \in Nat /\ level = stock[p] - q
    BY <1>3, <2>2
  <2>4. StockNotices(p, level) \in SUBSET ({"low_stock", "out_of_stock"} \X Products)
    BY <1>3, <2>3, NoticesType
  <2>5. p \notin t.written
    BY <1>1, <2>1, NotWritten
  <2>6. WriteLine(w, p, q, level, StockNotices(p, level))
    BY <1>6 DEF SellLine
  <2> QED
    BY <1>1, <2>1, <2>3, <2>4, <2>5, <2>6, WriteLineLedger
<1>7. CASE WriteOffLine(w)
  <2> DEFINE level == stock[p] - q
  <2>1. ~Incoming(txn[w].order)
    BY <1>7, ConstantsAssumption
       DEF WriteOffLine, Incoming, ConstantsAssumption, Rows, Orders
  <2>2. level \in Nat
    BY <1>3, <1>7 DEF WriteOffLine
  <2>3. StockNotices(p, level) \in SUBSET ({"low_stock", "out_of_stock"} \X Products)
    BY <1>3, <2>2, NoticesType
  <2>4. p \notin txn[w].written
    BY <1>1, <2>1, NotWritten
  <2>5. WriteLine(w, p, q, level, StockNotices(p, level))
    BY <1>7 DEF WriteOffLine
  <2> QED
    BY <1>1, <2>1, <2>2, <2>3, <2>4, <2>5, WriteLineLedger
<1> QED
  BY <1>5, <1>6, <1>7

-----------------------------------------------------------------------------
(* The commit publishes levels and ledger rows together.                    *)

LEMMA CommitStock ==
  ASSUME TypeInv, LedgerInv, NEW w \in Workers, Commit(w), NEW p \in Products
  PROVE  /\ stock'[p] >= 0
         /\ stock'[p] = IF Incoming(txn[w].order) THEN stock[p] + txn[w].qty[p]
                                                  ELSE stock[p] - txn[w].qty[p]
<1> DEFINE t == txn[w]
<1>1. /\ t \in Txn /\ Pending(w) /\ t.qty \in [Products -> Nat]
      /\ stock[p] \in Int /\ stock[p] >= 0
  BY DEF TypeInv, TypeOK, LedgerInv, WorkerInv, Txn
<1>2. stock' = [r \in Products |-> IF r \in t.written THEN t.stock[r] ELSE stock[r]]
  BY DEF Commit
<1> QED
  BY <1>1, <1>2 DEF Pending

LEMMA CommitLedger ==
  ASSUME TypeInv, LedgerInv, NEW w \in Workers, Commit(w)
  PROVE  LedgerInv'
<1> DEFINE t == txn[w]
<1>1. /\ t \in Txn /\ Pending(w) /\ t.written \subseteq Products
      /\ t.stock \in [Products -> Int] /\ t.qty \in [Products -> Nat]
      /\ t.order \in Orders \cup {None}
  BY DEF TypeInv, TypeOK, LedgerInv, WorkerInv, Txn
<1>2. /\ stock' = [p \in Products |-> IF p \in t.written THEN t.stock[p] ELSE stock[p]]
      /\ ledger' = [ledger EXCEPT ![TypeOf(t.order)] =
                      [p \in Products |-> ledger[TypeOf(t.order)][p] + t.qty[p]]]
      /\ items' = items /\ lock' = Released(w) /\ txn' = [txn EXCEPT ![w] = EmptyTxn]
      /\ pc' = [pc EXCEPT ![w] = "bump"]
  BY DEF Commit, orderVars
<1>3. ASSUME NEW p \in Products
      PROVE  /\ stock'[p] >= 0
             /\ stock'[p] = IF Incoming(t.order) THEN stock[p] + t.qty[p]
                                                 ELSE stock[p] - t.qty[p]
  BY CommitStock
<1>4. IF Incoming(t.order) THEN TypeOf(t.order) \in {"purchase", "return"}
                           ELSE TypeOf(t.order) \in {"sale", "damage"}
  BY ConstantsAssumption DEF Incoming, TypeOf, ConstantsAssumption
<1>5. StockMatchesLedger'
  <2> SUFFICES ASSUME NEW p \in Products
               PROVE  stock'[p] = ledger'["purchase"][p] + ledger'["return"][p]
                                  - ledger'["sale"][p] - ledger'["damage"][p]
    BY DEF StockMatchesLedger
  <2>1. stock[p] = ledger["purchase"][p] + ledger["return"][p]
                   - ledger["sale"][p] - ledger["damage"][p]
    BY DEF LedgerInv, StockMatchesLedger
  <2>2. \A type \in TransactionType : ledger[type][p] \in Nat
    BY DEF TypeInv, TypeOK
  <2>3. t.qty[p] \in Nat /\ stock[p] \in Int
    BY <1>1 DEF TypeInv, TypeOK
  <2>4. \A type \in TransactionType :
          ledger'[type][p] = IF type = TypeOf(t.order) THEN ledger[type][p] + t.qty[p]
                                                      ELSE ledger[type][p]
    BY <1>2 DEF TypeInv, TypeOK
  <2>5. TransactionType = {"purchase", "sale", "return", "damage"}
    BY DEF TransactionType
  <2> HIDE DEF t
  <2>6. CASE Incoming(t.order)
    <3>1. CASE TypeOf(t.order) = "purchase"
      BY <1>3, <2>1, <2>2, <2>3, <2>4, <2>5, <2>6, <3>1
    <3>2. CASE TypeOf(t.order) = "return"
      BY <1>3, <2>1, <2>2, <2>3, <2>4, <2>5, <2>6, <3>2
    <3> QED
      BY <1>4, <2>6, <3>1, <3>2
  <2>7. CASE ~Incoming(t.order)
    <3>1. CASE TypeOf(t.order) = "sale"
      BY <1>3, <2>1, <2>2, <2>3, <2>4, <2>5, <2>7, <3>1
    <3>2. CASE TypeOf(t.order) = "damage"
      BY <1>3, <2>1, <2>2, <2>3, <2>4, <2>5, <2>7, <3>2
    <3> QED
      BY <1>4, <2>7, <3>1, <3>2
  <2> QED
    BY <2>6, <2>7
<1>6. ASSUME NEW v \in Workers PROVE WorkerInv(v)'
  <2>1. CASE v = w
    BY <1>2, <2>1, EmptyWorker DEF TypeInv, TypeOK
  <2>2. CASE v # w
    <3>1. txn'[v] = txn[v] /\ pc'[v] = pc[v]
      BY <1>2, <2>2 DEF TypeInv, TypeOK
    <3>2. ASSUME NEW p \in Products, lock[p] = v
          PROVE  lock'[p] = v /\ stock'[p] = stock[p]
      <4>1. p \notin t.written
        BY <1>1, <2>2, <3>2 DEF Pending
      <4> QED
        BY <1>2, <2>2, <3>2, <4>1 DEF Released, Rows
    <3> QED
      BY <3>1, <3>2, Frame
  <2> QED
    BY <2>1, <2>2
<1> QED
  BY <1>2, <1>3, <1>5, <1>6 DEF LedgerInv

LEMMA BumpLedger ==
  ASSUME TypeInv, LedgerInv, NEW w \in Workers, Bump(w)
  PROVE  LedgerInv'
<1>1. /\ UNCHANGED <<stock, ledger, items, lock, txn>> /\ pc[w] = "bump" /\ pc'[w] = "idle"
      /\ \A v \in Workers : v # w => pc'[v] = pc[v]
  BY DEF Bump, dbVars, orderVars, TypeInv, TypeOK
<1>2. WorkerInv(w)'
  BY <1>1 DEF LedgerInv, WorkerInv, Pending, Checked, Fresh, Incoming
<1>3. \A v \in Workers : WorkerInv(v)'
  BY <1>1, <1>2, Others
<1> QED
  BY <1>1, <1>3, LedgerUnchanged

-----------------------------------------------------------------------------
LEMMA InitLedger == Init => LedgerInv
<1> SUFFICES ASSUME Init PROVE LedgerInv
  OBVIOUS
<1>1. StockMatchesLedger /\ \A p \in Products : stock[p] >= 0
  <2> SUFFICES ASSUME NEW p \in Products
               PROVE  /\ stock[p] >= 0
                      /\ stock[p] = ledger["purchase"][p] + ledger["return"][p]
                                     - ledger["sale"][p] - ledger["damage"][p]
    BY DEF StockMatchesLedger
  <2>1. Opening[p] \in Nat
    BY ConstantsAssumption DEF ConstantsAssumption
  <2> QED
    BY <2>1 DEF Init, TransactionType
<1>2. DistinctProducts(<<>>)
  BY DEF DistinctProducts
<1>3. \A so \in SalesOrders : DistinctProducts(items[so])
  BY <1>2 DEF Init, Orders
<1>4. ASSUME NEW w \in Workers PROVE WorkerInv(w)
  <2>1. /\ txn[w].lines = <<>> /\ txn[w].seen = <<>> /\ txn[w].next = 1
        /\ txn[w].written = {} /\ txn[w].order = None
        /\ \A p \in Products : txn[w].qty[p] = 0
    BY DEF Init, EmptyTxn
  <2>2. None \notin SalesOrders
    BY ConstantsAssumption DEF ConstantsAssumption, Rows, Orders
  <2> QED
    BY <1>2, <2>1, <2>2 DEF WorkerInv, Pending, Checked, Fresh
<1> QED
  BY <1>1, <1>3, <1>4 DEF LedgerInv

LEMMA NextLedger ==
  ASSUME SoundUse, TypeInv, LedgerInv, [Next]_vars
  PROVE  LedgerInv'
<1>1. CASE File
  BY <1>1, FileLedger
<1>2. ASSUME NEW w \in Workers, Request(w) PROVE LedgerInv'
  BY <1>2, RequestLedger
<1>3. ASSUME NEW w \in Workers, Serve(w) \/ Abort(w) PROVE LedgerInv'
  <2>1. CASE LockOrder(w)
    BY <2>1, LockOrderLedger
  <2>2. CASE ReadItems(w)
    BY <2>2, ReadItemsLedger
  <2>3. CASE CheckLine(w)
    BY <2>3, CheckLineLedger
  <2>4. CASE ReceiveLine(w) \/ ApproveLine(w) \/ SellLine(w) \/ WriteOffLine(w)
    BY <2>4, WritingLedger
  <2>5. CASE Commit(w)
    BY <2>5, CommitLedger
  <2>6. CASE Bump(w)
    BY <2>6, BumpLedger
  <2>7. CASE RefuseReplay(w) \/ RefuseSale(w) \/ RefuseInactive(w)
             \/ RefuseWriteOff(w) \/ Abort(w)
    BY <2>7, RefusalType, EndLedger DEF TypeInv
  <2> QED
    BY <1>3, <2>1, <2>2, <2>3, <2>4, <2>5, <2>6, <2>7 DEF Serve
<1>4. CASE UNCHANGED vars
  <2>1. \A v \in Workers : WorkerInv(v)'
    BY <1>4, Frame DEF vars, dbVars
  <2> QED
    BY <1>4, <2>1, LedgerUnchanged DEF vars, dbVars, orderVars
<1> QED
  BY <1>1, <1>2, <1>3, <1>4 DEF Next

(* The inductive invariant holds in every reachable state.                  *)
THEOREM LedgerInductive == SoundUse => (Spec => []LedgerInv)
<1> SUFFICES ASSUME SoundUse PROVE Spec => []LedgerInv
  OBVIOUS
<1>1. Spec => []TypeInv
  BY TypeCorrect DEF TypeInv
<1>2. TypeInv /\ LedgerInv /\ [Next]_vars => LedgerInv'
  BY NextLedger
<1> QED
  BY <1>1, <1>2, InitLedger, PTL DEF Spec

(* With locking on and no product twice in an order, current_stock is the   *)
(* ledger's balance in every committed state, for any number of workers,    *)
(* products and orders.                                                     *)
THEOREM LedgerTheorem == SoundUse => (Spec => []StockMatchesLedger)
<1> SUFFICES ASSUME SoundUse PROVE Spec => []StockMatchesLedger
  OBVIOUS
<1>1. LedgerInv => StockMatchesLedger
  BY DEF LedgerInv
<1> QED
  BY <1>1, LedgerInductive, PTL

LEMMA NothingOversold ==
  ASSUME TypeInv, LedgerInv
  PROVE  NoOversell
<1> SUFFICES ASSUME NEW p \in Products
             PROVE  /\ stock[p] >= 0
                    /\ ledger["sale"][p] + ledger["damage"][p]
                         <= ledger["purchase"][p] + ledger["return"][p]
  BY DEF NoOversell
<1>1. \A type \in TransactionType : ledger[type][p] \in Nat
  BY DEF TypeInv, TypeOK
<1>2. /\ stock[p] \in Int /\ stock[p] >= 0
      /\ stock[p] = ledger["purchase"][p] + ledger["return"][p]
                     - ledger["sale"][p] - ledger["damage"][p]
  BY DEF TypeInv, TypeOK, LedgerInv, StockMatchesLedger
<1> QED
  BY <1>1, <1>2 DEF TransactionType

(* Under the same conditions no stock goes below zero and no more units     *)
(* leave than came in.                                                      *)
THEOREM OversellTheorem == SoundUse => (Spec => []NoOversell)
<1> SUFFICES ASSUME SoundUse PROVE Spec => []NoOversell
  OBVIOUS
<1>1. Spec => []TypeInv
  BY TypeCorrect DEF TypeInv
<1> QED
  BY <1>1, NothingOversold, LedgerInductive, PTL

-----------------------------------------------------------------------------
(* What a step does to the transactions, for the invariants below.          *)

Writing(w) == ReceiveLine(w) \/ ApproveLine(w) \/ SellLine(w) \/ WriteOffLine(w)

Reading(w) == Request(w) \/ LockOrder(w) \/ ReadItems(w) \/ CheckLine(w) \/ Bump(w)

Ending(w) == \/ RefuseReplay(w) \/ RefuseSale(w) \/ RefuseInactive(w)
             \/ RefuseWriteOff(w) \/ Abort(w)

LEMMA StepCases ==
  ASSUME Next
  PROVE  File \/ \E w \in Workers : Reading(w) \/ Writing(w) \/ Ending(w) \/ Commit(w)
BY DEF Next, Serve, Reading, Writing, Ending

(* Requests, locks and reads leave what was written alone; they pick an     *)
(* order or its lines only before the first line is written.                *)
LEMMA ReadingStep ==
  ASSUME TypeInv, LockInv, NEW w \in Workers, Reading(w)
  PROVE  /\ UNCHANGED <<stock, ledger, status, items, against, posted, notices>>
         /\ \A v \in Workers : v # w => txn'[v] = txn[v] /\ pc'[v] = pc[v]
         /\ txn'[w].written = txn[w].written /\ txn'[w].stock = txn[w].stock
         /\ txn'[w].qty = txn[w].qty /\ txn'[w].notices = txn[w].notices
         /\ txn'[w].next = txn[w].next
         /\ \/ txn'[w].order = txn[w].order /\ txn'[w].lines = txn[w].lines
            \/ txn[w].next = 1 /\ txn[w].written = {}
<1>1. UNCHANGED <<stock, ledger, status, items, against, posted, notices>>
  BY DEF Reading, Request, RequestOrder, RequestWriteOff, LockOrder, ReadItems, CheckLine,
         Bump, dbVars, orderVars
<1>2. txn[w] \in Txn /\ Progress(w)
  BY DEF TypeInv, TypeOK, LockInv, Disciplined
<1>3. CASE Request(w) \/ ReadItems(w)
  <2>1. txn[w].next = 1 /\ txn[w].written = {}
    BY <1>2, <1>3, NothingWritten DEF Request, RequestOrder, RequestWriteOff, ReadItems
  <2>2. PICK o, lines : txn' = [txn EXCEPT ![w] = [txn[w] EXCEPT !.order = o, !.lines = lines]]
    <3>1. ASSUME NEW o \in Orders, RequestOrder(w, o)
          PROVE  txn' = [txn EXCEPT ![w] = [txn[w] EXCEPT !.order = o, !.lines = txn[w].lines]]
      BY <1>2, <3>1 DEF RequestOrder, Txn, TypeInv, TypeOK
    <3>2. ASSUME NEW lines, txn' = [txn EXCEPT ![w].lines = lines]
          PROVE  txn' = [txn EXCEPT ![w] = [txn[w] EXCEPT !.order = txn[w].order, !.lines = lines]]
      BY <1>2, <3>2 DEF Txn, TypeInv, TypeOK
    <3> QED
      BY <1>3, <3>1, <3>2 DEF Request, RequestWriteOff, ReadItems
  <2>3. \A v \in Workers : v # w => pc'[v] = pc[v]
    BY <1>3 DEF Request, RequestOrder, RequestWriteOff, ReadItems, TypeInv, TypeOK
  <2> QED
    BY <1>1, <1>2, <2>1, <2>2, <2>3 DEF Txn, TypeInv, TypeOK
<1>4. CASE LockOrder(w) \/ Bump(w)
  BY <1>1, <1>4 DEF LockOrder, Bump, TypeInv, TypeOK
<1>5. CASE CheckLine(w)
  <2>1. PICK seen : txn' = [txn EXCEPT ![w] = [txn[w] EXCEPT !.seen = seen]]
    BY <1>5 DEF CheckLine
  <2>2. pc' = pc
    BY <1>5 DEF CheckLine
  <2> QED
    BY <1>1, <1>2, <2>1, <2>2 DEF Txn, TypeInv, TypeOK
<1> QED
  BY <1>3, <1>4, <1>5 DEF Reading

LEMMA EndingStep ==
  ASSUME TypeInv, NEW w \in Workers, Ending(w)
  PROVE  /\ UNCHANGED <<stock, ledger, status, items, against, posted, notices>>
         /\ \A v \in Workers : v # w => txn'[v] = txn[v] /\ pc'[v] = pc[v]
         /\ txn'[w] = EmptyTxn /\ pc'[w] = "idle"
<1>1. EndUnchanged(w)
  BY DEF Ending, RefuseReplay, RefuseSale, RefuseInactive, RefuseWriteOff, Abort
<1> QED
  BY <1>1 DEF EndUnchanged, dbVars, orderVars, TypeInv, TypeOK

(* A line written is the next one, with its own quantity; only a return's   *)
(* goes unreported.                                                         *)
LEMMA WritingStep ==
  ASSUME TypeInv, NEW w \in Workers, Writing(w)
  PROVE  LET t == txn[w]
             p == Current(w).product
             q == Current(w).quantity
             u == txn'[w]
         IN  /\ UNCHANGED <<stock, ledger, status, items, against, posted, notices, pc>>
             /\ \A v \in Workers : v # w => txn'[v] = txn[v]
             /\ MoreLines(w) /\ t \in Txn /\ p \in Products /\ q \in Nat /\ stock[p] \in Int
             /\ u.order = t.order /\ u.lines = t.lines /\ u.next = t.next + 1
             /\ u.written = t.written \cup {p}
             /\ u.qty = [t.qty EXCEPT ![p] = t.qty[p] + q]
             /\ \A r \in Products \ {p} : u.stock[r] = t.stock[r]
             /\ t.notices \subseteq u.notices
             /\ IF t.order \in Returns THEN u.stock[p] = Visible(w, p) + q
                                       ELSE StockNotices(p, u.stock[p]) \subseteq u.notices
<1> DEFINE t == txn[w]
           p == Current(w).product
           q == Current(w).quantity
<1>1. MoreLines(w) /\ t \in Txn
  BY DEF Writing, ReceiveLine, ApproveLine, SellLine, WriteOffLine, TypeInv, TypeOK
<1>2. Current(w) \in Line
  BY <1>1, CurrentType DEF TypeInv
<1>3. p \in Products /\ q \in Nat /\ stock[p] \in Int
  BY <1>2 DEF Line, TypeInv, TypeOK
<1>4. PICK level, new : /\ WriteLine(w, p, q, level, new)
                        /\ IF t.order \in Returns THEN level = Visible(w, p) + q
                                                  ELSE new = StockNotices(p, level)
  <2>1. CASE ReceiveLine(w)
    <3>1. t.order \notin Returns
      BY <2>1, ConstantsAssumption DEF ConstantsAssumption, ReceiveLine
    <3> QED
      BY <2>1, <3>1 DEF ReceiveLine
  <2>2. CASE ApproveLine(w)
    BY <2>2 DEF ApproveLine
  <2>3. CASE SellLine(w)
    <3>1. t.order \notin Returns
      BY <2>3, ConstantsAssumption DEF ConstantsAssumption, SellLine
    <3> QED
      BY <2>3, <3>1 DEF SellLine
  <2>4. CASE WriteOffLine(w)
    <3>1. t.order \notin Returns
      BY <2>4, NoneApart DEF WriteOffLine, Orders
    <3> QED
      BY <2>4, <3>1 DEF WriteOffLine
  <2> QED
    BY <2>1, <2>2, <2>3, <2>4 DEF Writing
<1> DEFINE u == Written(t, p, q, level, new)
<1>5. /\ u.order = t.order /\ u.lines = t.lines /\ u.next = t.next + 1
      /\ u.written = t.written \cup {p} /\ u.stock = [t.stock EXCEPT ![p] = level]
      /\ u.qty = [t.qty EXCEPT ![p] = t.qty[p] + q] /\ u.notices = t.notices \cup new
  BY DEF Written
<1>6. /\ UNCHANGED <<stock, ledger, status, items, against, posted, notices, pc>>
      /\ txn' = [txn EXCEPT ![w] = u]
  BY <1>4 DEF WriteLine, dbVars, orderVars
<1> HIDE DEF u
<1>7. txn'[w] = u /\ \A v \in Workers : v # w => txn'[v] = txn[v]
  BY <1>6 DEF TypeInv, TypeOK
<1>8. u.stock[p] = level /\ \A r \in Products \ {p} : u.stock[r] = t.stock[r]
  BY <1>1, <1>3, <1>5 DEF Txn
<1> QED
  BY <1>1, <1>3, <1>4, <1>5, <1>6, <1>7, <1>8

-----------------------------------------------------------------------------
(* LowStockReported.  Its strengthening: a transaction carries the notices  *)
(* of every level it has written, unless it approves a return, and that     *)
(* only raises a level.                                                     *)
Noticed(w) ==
  LET t == txn[w] IN
  \A p \in t.written : IF t.order \in Returns THEN t.stock[p] >= stock[p]
                       ELSE StockNotices(p, t.stock[p]) \subseteq t.notices

NoticeInv == LowStockReported /\ \A w \in Workers : Noticed(w)

LEMMA WritingNotices ==
  ASSUME TypeInv, NoticeInv, NEW w \in Workers, Writing(w)
  PROVE  NoticeInv'
<1> DEFINE t == txn[w]
           p == Current(w).product
           u == txn'[w]
<1>1. /\ UNCHANGED <<stock, notices>> /\ \A v \in Workers : v # w => txn'[v] = txn[v]
      /\ t \in Txn /\ p \in Products /\ Current(w).quantity \in Nat /\ stock[p] \in Int
      /\ u.order = t.order /\ u.written = t.written \cup {p}
      /\ \A r \in Products \ {p} : u.stock[r] = t.stock[r]
      /\ t.notices \subseteq u.notices
      /\ IF t.order \in Returns THEN u.stock[p] = Visible(w, p) + Current(w).quantity
                                ELSE StockNotices(p, u.stock[p]) \subseteq u.notices
  BY WritingStep
<1>2. t.written \subseteq Products /\ t.stock \in [Products -> Int] /\ Noticed(w)
  BY <1>1 DEF Txn, NoticeInv
<1> HIDE DEF u, p
<1>3. ASSUME t.order \in Returns PROVE u.stock[p] >= stock[p]
  <2>1. Visible(w, p) >= stock[p] /\ Visible(w, p) \in Int
    BY <1>1, <1>2, <1>3 DEF Visible, Noticed
  <2> QED
    BY <1>1, <1>3, <2>1
<1>4. ASSUME NEW r \in u.written
      PROVE  IF u.order \in Returns THEN u.stock[r] >= stock[r]
             ELSE StockNotices(r, u.stock[r]) \subseteq u.notices
  <2>1. CASE r = p
    BY <1>1, <1>3, <2>1
  <2>2. CASE r # p
    <3>1. r \in t.written /\ u.stock[r] = t.stock[r]
      BY <1>1, <1>2, <1>4, <2>2
    <3> QED
      BY <1>1, <1>2, <3>1 DEF Noticed
  <2> QED
    BY <2>1, <2>2
<1>5. Noticed(w)'
  BY <1>1, <1>4 DEF Noticed, StockNotices, u
<1> QED
  BY <1>1, <1>5 DEF NoticeInv, Noticed, LowStockReported, StockNotices

LEMMA CommitNotices ==
  ASSUME TypeInv, LockInv, NoticeInv, NEW w \in Workers, Commit(w)
  PROVE  NoticeInv'
<1> DEFINE t == txn[w]
<1>1. /\ stock' = [p \in Products |-> IF p \in t.written THEN t.stock[p] ELSE stock[p]]
      /\ notices \subseteq notices' /\ t.notices \subseteq notices'
      /\ txn'[w] = EmptyTxn
      /\ \A v \in Workers : v # w => txn'[v] = txn[v]
  BY DEF Commit, TypeInv, TypeOK
<1>2. t \in Txn /\ Noticed(w) /\ t.written \subseteq Products /\ t.stock \in [Products -> Int]
  BY DEF TypeInv, TypeOK, NoticeInv, Txn
<1>3. ASSUME NEW p \in Products
      PROVE  /\ stock'[p] <= 0 /\ Opening[p] > 0 => <<"out_of_stock", p>> \in notices'
             /\ stock'[p] <= Threshold[p] /\ Opening[p] > Threshold[p] =>
                  \E type \in {"low_stock", "out_of_stock"} : <<type, p>> \in notices'
  <2>1. /\ stock[p] <= 0 /\ Opening[p] > 0 => <<"out_of_stock", p>> \in notices
        /\ stock[p] <= Threshold[p] /\ Opening[p] > Threshold[p] =>
             \E type \in {"low_stock", "out_of_stock"} : <<type, p>> \in notices
    BY DEF NoticeInv, LowStockReported
  <2>2. stock[p] \in Int /\ stock'[p] \in Int /\ Threshold[p] \in Nat
    BY <1>1, <1>2, ConstantsAssumption DEF TypeInv, TypeOK, ConstantsAssumption
  <2>3. CASE stock'[p] >= stock[p]
    BY <1>1, <2>1, <2>2, <2>3
  <2>4. CASE StockNotices(p, stock'[p]) \subseteq notices'
    BY <2>2, <2>4 DEF StockNotices
  <2>5. stock'[p] >= stock[p] \/ StockNotices(p, stock'[p]) \subseteq notices'
    BY <1>1, <1>2, <2>2 DEF Noticed
  <2> QED
    BY <2>3, <2>4, <2>5
<1>4. ASSUME NEW v \in Workers PROVE Noticed(v)'
  <2>1. CASE v = w
    BY <1>1, <2>1 DEF Noticed, EmptyTxn
  <2>2. CASE v # w
    <3>1. txn[v].written \subseteq Products /\ txn'[v] = txn[v] /\ Noticed(v)
      BY <1>1, <2>2 DEF TypeInv, TypeOK, Txn, NoticeInv
    <3>2. ASSUME NEW p \in txn[v].written PROVE stock'[p] = stock[p]
      <4>1. lock[p] = v
        BY <3>1, NoneApart DEF LockInv, Disciplined, Owns, Took
      <4>2. p \notin t.written
        BY <2>2, <3>1, <4>1, NoneApart DEF LockInv, Disciplined, Owns, Took
      <4> QED
        BY <1>1, <3>1, <4>2
    <3> QED
      BY <3>1, <3>2 DEF Noticed, StockNotices
  <2> QED
    BY <2>1, <2>2
<1> QED
  BY <1>3, <1>4 DEF NoticeInv, LowStockReported

LEMMA NextNotices ==
  ASSUME TypeInv, LockInv, NoticeInv, [Next]_vars
  PROVE  NoticeInv'
<1>1. CASE UNCHANGED <<stock, notices, txn>>
  BY <1>1 DEF NoticeInv, LowStockReported, Noticed, StockNotices
<1>2. File => UNCHANGED <<stock, notices, txn>>
  BY DEF File, CreateOrder, FileReturn, DeactivateProduct
<1>3. ASSUME NEW w \in Workers, Reading(w) PROVE NoticeInv'
  <2>1. /\ UNCHANGED <<stock, notices>>
        /\ \A v \in Workers : v # w => txn'[v] = txn[v]
        /\ txn'[w].written = txn[w].written /\ txn'[w].stock = txn[w].stock
        /\ txn'[w].notices = txn[w].notices
        /\ txn'[w].order = txn[w].order \/ txn[w].written = {}
    BY <1>3, ReadingStep
  <2>2. \A v \in Workers : Noticed(v)'
    BY <2>1 DEF NoticeInv, Noticed, StockNotices
  <2> QED
    BY <2>1, <2>2 DEF NoticeInv, LowStockReported
<1>4. ASSUME NEW w \in Workers, Ending(w) PROVE NoticeInv'
  <2>1. /\ UNCHANGED <<stock, notices>> /\ txn'[w].written = {}
        /\ \A v \in Workers : v # w => txn'[v] = txn[v]
    BY <1>4, EndingStep DEF EmptyTxn
  <2>2. \A v \in Workers : Noticed(v)'
    BY <2>1 DEF NoticeInv, Noticed, StockNotices
  <2> QED
    BY <2>1, <2>2 DEF NoticeInv, LowStockReported
<1>5. UNCHANGED vars => UNCHANGED <<stock, notices, txn>>
  BY DEF vars, dbVars
<1> QED
  BY <1>1, <1>2, <1>3, <1>4, <1>5, StepCases, WritingNotices, CommitNotices

LEMMA InitNotices == Init => NoticeInv
<1> SUFFICES ASSUME Init PROVE NoticeInv
  OBVIOUS
<1>1. LowStockReported
  BY ConstantsAssumption DEF Init, LowStockReported, ConstantsAssumption
<1> QED
  BY <1>1 DEF NoticeInv, Noticed, Init, EmptyTxn

(* A product that was above its threshold, or in stock, at opening and is   *)
(* not now has a notification in the table, whatever requests ran, with     *)
(* locking on or off.                                                       *)
THEOREM LowStockTheorem == Spec => []LowStockReported
<1>1. Spec => []TypeInv
  BY TypeCorrect DEF TypeInv
<1>2. TypeInv /\ LockInv /\ NoticeInv /\ [Next]_vars => NoticeInv'
  BY NextNotices
<1>3. NoticeInv => LowStockReported
  BY DEF NoticeInv
<1> QED
  BY <1>1, <1>2, <1>3, InitNotices, LockDiscipline, PTL DEF Spec

-----------------------------------------------------------------------------
(* PostedExactlyOnce.  Its strengthening: the ledger rows a transaction has *)
(* inserted add up to the lines it has been through, and these are the      *)
(* lines of its order.                                                      *)
Tallied(w) ==
  LET t == txn[w] IN
  /\ \A p \in Products : t.qty[p] = UnitsTo(t.lines, t.next - 1, p)
  /\ pc[w] = "lines" /\ t.order # None => t.lines \in OrderedByProduct(items[t.order])

PostingInv == PostedExactlyOnce /\ \A w \in Workers : Tallied(w)

(* An item list is not replaced while a worker goes through it.             *)
LEMMA TalliedFrame ==
  ASSUME LockingEnabled, TypeInv, LockInv, NEW v \in Workers, Tallied(v),
         txn'[v] = txn[v], pc'[v] = pc[v],
         \A o \in Orders : status[o] = "open" => items'[o] = items[o]
  PROVE  Tallied(v)'
<1>1. ASSUME pc[v] = "lines", txn[v].order # None
      PROVE  items'[txn[v].order] = items[txn[v].order]
  <2>1. txn[v].order \in Orders
    BY <1>1 DEF TypeInv, TypeOK, Txn
  <2>2. status[txn[v].order] = "open"
    BY <1>1 DEF LockInv, Disciplined, Entitled, Locks
  <2> QED
    BY <2>1, <2>2
<1> QED
  BY <1>1 DEF Tallied

LEMMA FilePosting ==
  ASSUME LockingEnabled, TypeInv, LockInv, PostingInv, File
  PROVE  PostingInv'
<1>1. /\ UNCHANGED <<posted, txn, pc>>
      /\ \A o \in Orders : status'[o] = "done" <=> status[o] = "done"
      /\ \A o \in Orders : status[o] # "absent" => items'[o] = items[o]
  <2>1. ASSUME NEW o \in Orders, NEW lines, status[o] = "absent",
               status' = [status EXCEPT ![o] = "open"], items' = [items EXCEPT ![o] = lines]
        PROVE  \A x \in Orders : /\ status'[x] = "done" <=> status[x] = "done"
                                 /\ status[x] # "absent" => items'[x] = items[x]
    BY <2>1 DEF TypeInv, TypeOK
  <2>2. ASSUME NEW o \in PurchaseOrders \cup SalesOrders, NEW b \in Baskets, CreateOrder(o, b)
        PROVE  \A x \in Orders : /\ status'[x] = "done" <=> status[x] = "done"
                                 /\ status[x] # "absent" => items'[x] = items[x]
    <3>1. o \in Orders
      BY DEF Orders
    <3> QED
      BY <2>1, <2>2, <3>1 DEF CreateOrder
  <2>3. ASSUME NEW r \in Returns, NEW so \in SalesOrders, NEW p \in Products,
               NEW q \in ReturnQuantities, FileReturn(r, so, p, q)
        PROVE  \A x \in Orders : /\ status'[x] = "done" <=> status[x] = "done"
                                 /\ status[x] # "absent" => items'[x] = items[x]
    <3>1. r \in Orders
      BY DEF Orders
    <3> QED
      BY <2>1, <2>3, <3>1 DEF FileReturn
  <2>4. ASSUME NEW p \in Products, DeactivateProduct(p) PROVE UNCHANGED <<status, items>>
    BY <2>4 DEF DeactivateProduct, orderVars
  <2>5. UNCHANGED <<posted, txn, pc>>
    BY DEF File, CreateOrder, FileReturn, DeactivateProduct
  <2> QED
    BY <2>2, <2>3, <2>4, <2>5 DEF File
<1>2. \A v \in Workers : Tallied(v)'
  BY <1>1, TalliedFrame DEF PostingInv
<1>3. PostedExactlyOnce'
  BY <1>1 DEF PostingInv, PostedExactlyOnce
<1> QED
  BY <1>2, <1>3 DEF PostingInv

LEMMA ReadingPosting ==
  ASSUME LockingEnabled, TypeInv, LockInv, PostingInv, NEW w \in Workers, Reading(w)
  PROVE  PostingInv'
<1>1. /\ UNCHANGED <<status, items, posted>>
      /\ \A v \in Workers : v # w => txn'[v] = txn[v] /\ pc'[v] = pc[v]
      /\ txn'[w].qty = txn[w].qty /\ txn'[w].next = txn[w].next
      /\ \/ txn'[w].order = txn[w].order /\ txn'[w].lines = txn[w].lines
         \/ txn[w].next = 1
  BY ReadingStep
<1>2. ASSUME NEW p \in Products PROVE txn'[w].qty[p] = UnitsTo(txn'[w].lines, txn'[w].next - 1, p)
  <2>1. txn[w].qty[p] = UnitsTo(txn[w].lines, txn[w].next - 1, p)
    BY DEF PostingInv, Tallied
  <2>2. CASE txn'[w].lines = txn[w].lines
    BY <1>1, <2>1, <2>2
  <2>3. CASE txn[w].next = 1
    <3>1. txn[w].next - 1 = 0
      BY <2>3
    <3> QED
      BY <1>1, <2>1, <3>1, NoUnits
  <2> QED
    BY <1>1, <2>2, <2>3
<1>3. ASSUME pc'[w] = "lines", txn'[w].order # None
      PROVE  txn'[w].lines \in OrderedByProduct(items'[txn'[w].order])
  <2>0. pc[w] \in {"idle", "order", "items", "lines", "bump"} /\ txn[w] \in Txn
    BY DEF TypeInv, TypeOK
  <2>1. CASE pc[w] = "lines"
    <3>1. CheckLine(w)
      BY <1>3, <2>1 DEF Reading, Request, RequestOrder, RequestWriteOff, LockOrder, ReadItems, Bump
    <3>2. PICK seen : txn' = [txn EXCEPT ![w] = [txn[w] EXCEPT !.seen = seen]]
      BY <3>1 DEF CheckLine
    <3>3. txn'[w].order = txn[w].order /\ txn'[w].lines = txn[w].lines
      BY <2>0, <3>2 DEF Txn, TypeInv, TypeOK
    <3> QED
      BY <1>1, <1>3, <2>1, <3>3 DEF PostingInv, Tallied
  <2>2. CASE pc[w] = "items"
    <3>1. ReadItems(w)
      BY <2>2 DEF Reading, Request, RequestOrder, RequestWriteOff, LockOrder, CheckLine,
                  Checking, MoreLines, Bump
    <3>2. PICK lines \in OrderedByProduct(items[txn[w].order]) :
            txn' = [txn EXCEPT ![w].lines = lines]
      BY <3>1 DEF ReadItems
    <3>3. txn'[w].order = txn[w].order /\ txn'[w].lines = lines
      BY <2>0, <3>2 DEF Txn, TypeInv, TypeOK
    <3> QED
      BY <1>1, <3>2, <3>3
  <2>3. CASE pc[w] \notin {"items", "lines"}
    <3>1. PICK p \in Products, q \in WriteOffs : RequestWriteOff(w, p, q)
      BY <1>3, <2>3 DEF Reading, Request, RequestOrder, LockOrder, ReadItems, CheckLine,
                        Checking, MoreLines, Bump, TypeInv, TypeOK
    <3>2. txn'[w].order = txn[w].order /\ pc[w] = "idle"
      BY <2>0, <3>1 DEF RequestWriteOff, Txn, TypeInv, TypeOK
    <3> QED
      BY <1>3, <3>2 DEF LockInv, Disciplined, Progress
  <2> QED
    BY <2>1, <2>2, <2>3
<1>4. \A v \in Workers : Tallied(v)'
  <2>1. Tallied(w)'
    BY <1>2, <1>3 DEF Tallied
  <2>2. \A v \in Workers : v # w => Tallied(v)'
    BY <1>1, TalliedFrame DEF PostingInv
  <2> QED
    BY <2>1, <2>2
<1> QED
  BY <1>1, <1>4 DEF PostingInv, PostedExactlyOnce

LEMMA WritingPosting ==
  ASSUME LockingEnabled, TypeInv, LockInv, PostingInv, NEW w \in Workers, Writing(w)
  PROVE  PostingInv'
<1> DEFINE t == txn[w]
           p == Current(w).product
           q == Current(w).quantity
           u == txn'[w]
<1>1. /\ UNCHANGED <<status, items, posted, pc>>
      /\ \A v \in Workers : v # w => txn'[v] = txn[v]
      /\ MoreLines(w) /\ t \in Txn /\ p \in Products /\ q \in Nat
      /\ u.order = t.order /\ u.lines = t.lines /\ u.next = t.next + 1
      /\ u.qty = [t.qty EXCEPT ![p] = t.qty[p] + q]
  BY WritingStep
<1>2. /\ t.next \in Nat \ {0} /\ t.lines \in Seq(Line) /\ t.next <= Len(t.lines)
      /\ t.qty \in [Products -> Nat] /\ Current(w) = t.lines[t.next] /\ Tallied(w)
  BY <1>1 DEF Txn, MoreLines, Current, PostingInv
<1> HIDE DEF u
<1>3. ASSUME NEW r \in Products PROVE u.qty[r] = UnitsTo(u.lines, u.next - 1, r)
  <2> DEFINE n == t.next - 1
  <2>1. n \in Nat /\ n + 1 = t.next /\ u.next - 1 = t.next
    BY <1>1, <1>2
  <2>2. \A i \in 1..(n + 1) : t.lines[i].quantity \in Nat
    <3>1. \A i \in 1..(n + 1) : t.lines[i] \in Line
      BY <1>2, <2>1, ElementOfSeq
    <3> QED
      BY <3>1 DEF Line
  <2>3. /\ UnitsTo(t.lines, n, r) \in Int
        /\ UnitsTo(t.lines, n + 1, r) = UnitsTo(t.lines, n, r)
             + (IF t.lines[n + 1].product = r THEN t.lines[n + 1].quantity ELSE 0)
    <3> HIDE DEF n
    <3> QED
      BY <2>1, <2>2, UnitsStep
  <2>4. t.qty[r] = UnitsTo(t.lines, n, r)
    BY <1>2 DEF Tallied
  <2>5. p = t.lines[n + 1].product /\ q = t.lines[n + 1].quantity
    BY <1>2, <2>1
  <2>6. u.qty[r] = t.qty[r] + (IF p = r THEN q ELSE 0)
    BY <1>1, <1>2
  <2> HIDE DEF n, p, q
  <2>7. UnitsTo(t.lines, n + 1, r) = UnitsTo(u.lines, u.next - 1, r)
    BY <1>1, <2>1
  <2> QED
    BY <2>3, <2>4, <2>5, <2>6, <2>7
<1>4. Tallied(w)'
  BY <1>1, <1>2, <1>3 DEF Tallied, u
<1>5. \A v \in Workers : v # w => Tallied(v)'
  BY <1>1, TalliedFrame DEF PostingInv
<1> QED
  BY <1>1, <1>4, <1>5 DEF PostingInv, PostedExactlyOnce

LEMMA EmptyTallied ==
  ASSUME NEW w \in Workers, txn'[w] = EmptyTxn, pc'[w] # "lines"
  PROVE  Tallied(w)'
<1>1. txn'[w].next - 1 = 0 /\ \A p \in Products : txn'[w].qty[p] = 0
  BY DEF EmptyTxn
<1> QED
  BY <1>1, NoUnits DEF Tallied

(* What a worker that is through its lines has posted.                      *)
LEMMA CommitUnits ==
  ASSUME TypeInv, LockInv, NEW w \in Workers, Tallied(w), Commit(w)
  PROVE  /\ \A p \in Products : txn[w].qty[p] = Units(txn[w].lines, p)
         /\ txn[w].order # None =>
              \A p \in Products : txn[w].qty[p] = Units(items[txn[w].order], p)
<1> DEFINE t == txn[w]
<1>1. /\ t \in Txn /\ t.lines \in Seq(Line) /\ t.next \in Nat \ {0} /\ Progress(w)
      /\ pc[w] = "lines" /\ t.next > Len(t.lines) /\ Len(t.lines) \in Nat
  BY DEF TypeInv, TypeOK, Txn, LockInv, Disciplined, Commit
<1>2. t.next - 1 = Len(t.lines)
  <2>1. t.next <= Len(t.lines) + 1
    BY <1>1 DEF Progress
  <2> QED
    BY <1>1, <2>1
<1>3. \A p \in Products : t.qty[p] = Units(t.lines, p)
  BY <1>1, <1>2, UnitsAll DEF Tallied
<1>4. ASSUME t.order # None, NEW p \in Products PROVE t.qty[p] = Units(items[t.order], p)
  <2>1. t.order \in Orders
    BY <1>1, <1>4 DEF Txn
  <2>2. items[t.order] \in Seq(Line) /\ t.lines \in OrderedByProduct(items[t.order])
    BY <1>1, <1>4, <2>1 DEF TypeInv, TypeOK, Tallied
  <2> QED
    BY <1>3, <2>2, UnitsReordered
<1> QED
  BY <1>3, <1>4

LEMMA CommitPosting ==
  ASSUME LockingEnabled, TypeInv, LockInv, PostingInv, NEW w \in Workers, Commit(w)
  PROVE  PostingInv'
<1> DEFINE t == txn[w]
           o == t.order
<1>1. /\ items' = items /\ txn'[w] = EmptyTxn /\ pc'[w] = "bump"
      /\ \A v \in Workers : v # w => txn'[v] = txn[v] /\ pc'[v] = pc[v]
      /\ status' = [x \in Orders |-> IF x = o THEN "done" ELSE status[x]]
      /\ posted' = [x \in Orders |-> IF x = o
                      THEN [p \in Products |-> posted[x][p] + t.qty[p]] ELSE posted[x]]
  BY DEF Commit, orderVars, TypeInv, TypeOK
<1>2. \A v \in Workers : Tallied(v)'
  BY <1>1, EmptyTallied, TalliedFrame DEF PostingInv
<1>3. ASSUME NEW x \in Orders, NEW p \in Products
      PROVE  posted'[x][p] = IF status'[x] = "done" THEN Units(items'[x], p) ELSE 0
  <2>1. posted[x][p] = IF status[x] = "done" THEN Units(items[x], p) ELSE 0
    BY DEF PostingInv, PostedExactlyOnce
  <2>2. CASE x = o
    <3>1. o # None
      BY <2>2, NoneApart
    <3>2. status[o] = "open"
      BY <3>1 DEF Commit, LockInv, Disciplined, Entitled, Locks
    <3>3. t.qty[p] = Units(items[o], p) /\ t.qty[p] \in Nat
      BY <3>1, CommitUnits DEF PostingInv, TypeInv, TypeOK, Txn
    <3>4. posted'[x][p] = posted[x][p] + t.qty[p] /\ status'[x] = "done"
      BY <1>1, <2>2
    <3> QED
      BY <1>1, <2>1, <2>2, <3>2, <3>3, <3>4
  <2>3. CASE x # o
    BY <1>1, <2>1, <2>3
  <2> QED
    BY <2>2, <2>3
<1> QED
  BY <1>2, <1>3 DEF PostingInv, PostedExactlyOnce

LEMMA NextPosting ==
  ASSUME LockingEnabled, TypeInv, LockInv, PostingInv, [Next]_vars
  PROVE  PostingInv'
<1>1. CASE UNCHANGED vars
  <2>1. UNCHANGED <<status, items, posted, pc, txn>>
    BY <1>1 DEF vars, dbVars, orderVars
  <2> QED
    BY <2>1, TalliedFrame DEF PostingInv, PostedExactlyOnce
<1>2. ASSUME NEW w \in Workers, Ending(w) PROVE PostingInv'
  <2>1. /\ UNCHANGED <<status, items, posted>> /\ txn'[w] = EmptyTxn /\ pc'[w] = "idle"
        /\ \A v \in Workers : v # w => txn'[v] = txn[v] /\ pc'[v] = pc[v]
    BY <1>2, EndingStep
  <2>2. \A v \in Workers : Tallied(v)'
    BY <2>1, EmptyTallied, TalliedFrame DEF PostingInv
  <2> QED
    BY <2>1, <2>2 DEF PostingInv, PostedExactlyOnce
<1> QED
  BY <1>1, <1>2, StepCases, FilePosting, ReadingPosting, WritingPosting, CommitPosting

LEMMA PostingInductive == LockingEnabled => (Spec => []PostingInv)
<1> SUFFICES ASSUME LockingEnabled PROVE Spec => []PostingInv
  OBVIOUS
<1>1. Init => PostingInv
  <2> SUFFICES ASSUME Init PROVE PostingInv
    OBVIOUS
  <2>1. PostedExactlyOnce
    BY DEF Init, PostedExactlyOnce
  <2>2. ASSUME NEW w \in Workers PROVE Tallied(w)
    <3>1. /\ txn[w].next - 1 = 0 /\ pc[w] = "idle"
          /\ \A p \in Products : txn[w].qty[p] = 0
      BY DEF Init, EmptyTxn
    <3> QED
      BY <3>1, NoUnits DEF Tallied
  <2> QED
    BY <2>1, <2>2 DEF PostingInv
<1>2. Spec => []TypeInv
  BY TypeCorrect DEF TypeInv
<1>3. TypeInv /\ LockInv /\ PostingInv /\ [Next]_vars => PostingInv'
  BY NextPosting
<1> QED
  BY <1>1, <1>2, <1>3, LockDiscipline, PTL DEF Spec

(* With locking on - item lists may name a product twice - the ledger rows  *)
(* of an order are its lines, all of them and once, when it is settled, and *)
(* none before, however many workers are asked to settle it.                *)
THEOREM PostedTheorem == LockingEnabled => (Spec => []PostedExactlyOnce)
<1> SUFFICES ASSUME LockingEnabled PROVE Spec => []PostedExactlyOnce
  OBVIOUS
<1>1. PostingInv => PostedExactlyOnce
  BY DEF PostingInv
<1> QED
  BY <1>1, PostingInductive, PTL

-----------------------------------------------------------------------------
(* ReturnsCoveredBySale.  Its strengthening: what the returns filed against *)
(* a settled sale claim, approved or not, is no more than it sold, and a    *)
(* return is filed against a settled sale only.                             *)

Filed == {r \in Returns : against[r] # None}
Claims(so, p) == {r \in Returns : /\ status[r] \in {"open", "done"}
                                  /\ against[r] = so /\ items[r][1].product = p}
Quantities == [r \in Returns |-> items[r][1].quantity]

FiledInv ==
  /\ IsFiniteSet(Filed)
  /\ \A r \in Returns : against[r] # None <=> status[r] # "absent"
  /\ \A r \in Filed : Len(items[r]) = 1 /\ status[against[r]] = "done"

ReturnInv == /\ FiledInv
             /\ \A so \in SalesOrders, p \in Products :
                  status[so] = "done" => Reserved(so, p) <= Units(items[so], p)

(* What Reserved folds is a Total.                                          *)
LEMMA ClaimsFold ==
  ASSUME NEW f, NEW S \in SUBSET Returns
  PROVE  (CHOOSE g : g = [s \in SUBSET S |->
            IF s = {} THEN 0
            ELSE LET x == CHOOSE y \in s : TRUE
                 IN  f[x][1].quantity + g[s \ {x}]])[S]
         = Total([r \in Returns |-> f[r][1].quantity], S)
<1> DEFINE k == [r \in Returns |-> f[r][1].quantity]
           Step(s, g) == IF s = {} THEN 0
                         ELSE LET x == CHOOSE y \in s : TRUE
                              IN  f[x][1].quantity + g[s \ {x}]
<1>1. ASSUME NEW g, NEW s \in SUBSET S PROVE SumStep(k, s, g) = Step(s, g)
  <2>1. s # {} => (CHOOSE y \in s : TRUE) \in Returns
    OBVIOUS
  <2> QED
    BY <2>1 DEF SumStep
<1>2. ASSUME NEW g PROVE IsSum(k, S, g) <=> g = [s \in SUBSET S |-> Step(s, g)]
  BY <1>1 DEF IsSum
<1>3. (CHOOSE g : IsSum(k, S, g)) = (CHOOSE g : g = [s \in SUBSET S |-> Step(s, g)])
  <2> HIDE DEF k, Step
  <2> QED
    BY <1>2
<1> QED
  BY <1>3, TotalDef

LEMMA ReservedTotal ==
  ASSUME NEW so, NEW p
  PROVE  /\ Reserved(so, p) = Total(Quantities, Claims(so, p))
         /\ Reserved(so, p)' = Total(Quantities', Claims(so, p)')
<1>1. Claims(so, p) \in SUBSET Returns /\ Claims(so, p)' \in SUBSET Returns
  BY DEF Claims
<1>2. Reserved(so, p) = (CHOOSE g : g = [s \in SUBSET Claims(so, p) |->
        IF s = {} THEN 0
        ELSE LET x == CHOOSE y \in s : TRUE
             IN  items[x][1].quantity + g[s \ {x}]])[Claims(so, p)]
  BY DEF Reserved, Claims, MapThenSumSet, MapThenFoldSet
<1>3. Reserved(so, p)' = (CHOOSE g : g = [s \in SUBSET Claims(so, p)' |->
        IF s = {} THEN 0
        ELSE LET x == CHOOSE y \in s : TRUE
             IN  items'[x][1].quantity + g[s \ {x}]])[Claims(so, p)']
  BY DEF Reserved, Claims, MapThenSumSet, MapThenFoldSet
<1> QED
  BY <1>1, <1>2, <1>3, ClaimsFold DEF Quantities

LEMMA UnitsType ==
  ASSUME NEW lines \in Seq(Line), NEW p
  PROVE  Units(lines, p) \in Int
<1> DEFINE S == {i \in DOMAIN lines : lines[i].product = p}
           f == [i \in DOMAIN lines |-> lines[i].quantity]
<1>1. DOMAIN lines = 1..Len(lines) /\ Len(lines) \in Nat
  OBVIOUS
<1>2. IsFiniteSet(S)
  <2>1. IsFiniteSet(1..Len(lines)) /\ S \in SUBSET (1..Len(lines))
    BY <1>1, FS_Interval
  <2> HIDE DEF S
  <2> QED
    BY <2>1, FS_Subset
<1>3. \A i \in S : f[i] \in Int
  <2>1. \A i \in DOMAIN lines : lines[i] \in Line
    BY <1>1, ElementOfSeq
  <2> QED
    BY <2>1 DEF Line
<1>4. Total(f, S) \in Int
  <2> HIDE DEF f, S
  <2> QED
    BY <1>2, <1>3, TotalType
<1> QED
  BY <1>4, UnitsAreTotal

LEMMA ClaimsFinite ==
  ASSUME TypeInv, FiledInv, NEW so \in SalesOrders, NEW p
  PROVE  /\ IsFiniteSet(Claims(so, p)) /\ Claims(so, p) \subseteq Filed
         /\ \A r \in Claims(so, p) : Quantities[r] \in Int
         /\ Reserved(so, p) \in Int
<1>1. Claims(so, p) \in SUBSET Filed
  BY NoneApart DEF Claims, Filed
<1>2. IsFiniteSet(Claims(so, p))
  BY <1>1, FS_Subset DEF FiledInv
<1>3. ASSUME NEW r \in Claims(so, p) PROVE Quantities[r] \in Int
  <2>1. r \in Filed /\ r \in Returns /\ r \in Orders
    BY <1>1 DEF Filed, Orders
  <2>2. items[r] \in Seq(Line) /\ Len(items[r]) = 1
    BY <2>1 DEF FiledInv, TypeInv, TypeOK
  <2>3. items[r][1] \in Line
    BY <2>2, ElementOfSeq
  <2> QED
    BY <2>1, <2>3 DEF Quantities, Line
<1>4. Reserved(so, p) \in Int
  BY <1>2, <1>3, ReservedTotal, TotalType
<1> QED
  BY <1>1, <1>2, <1>3, <1>4

LEMMA ReservedKept ==
  ASSUME NEW so, NEW p, Claims(so, p)' = Claims(so, p),
         \A r \in Claims(so, p) : items'[r] = items[r]
  PROVE  Reserved(so, p)' = Reserved(so, p)
<1>1. \A r \in Claims(so, p) : Quantities'[r] = Quantities[r]
  BY DEF Quantities, Claims
<1>2. Total(Quantities', Claims(so, p)) = Total(Quantities, Claims(so, p))
  BY <1>1, TotalSame
<1> QED
  BY <1>2, ReservedTotal

(* No return is filed, and no sale is settled.                              *)
LEMMA ReturnsFrame ==
  ASSUME TypeInv, TypeInv', ReturnInv, against' = against,
         \A o \in Orders : /\ status[o] # "absent" => items'[o] = items[o]
                           /\ status[o] # "absent" => status'[o] # "absent"
                           /\ status[o] = "done" => status'[o] = "done",
         \A r \in Returns : status'[r] # "absent" => status[r] # "absent",
         \A so \in SalesOrders : status'[so] = "done" => status[so] = "done"
  PROVE  ReturnInv'
<1>0. /\ Filed' = Filed /\ Returns \subseteq Orders /\ SalesOrders \subseteq Orders
      /\ status \in [Orders -> {"absent", "open", "done"}]
      /\ status' \in [Orders -> {"absent", "open", "done"}]
  BY DEF Filed, Orders, TypeInv, TypeOK
<1>1. ASSUME NEW r \in Returns
      PROVE  /\ against[r] # None => /\ status[r] # "absent" /\ against[r] \in SalesOrders
                                     /\ items'[r] = items[r]
             /\ status'[r] \in {"open", "done"} <=> status[r] \in {"open", "done"}
  BY <1>0 DEF ReturnInv, FiledInv, TypeInv, TypeOK
<1>2. FiledInv'
  BY <1>0, <1>1 DEF ReturnInv, FiledInv, Filed
<1>3. ASSUME NEW so \in SalesOrders, NEW p \in Products, status'[so] = "done"
      PROVE  Reserved(so, p)' <= Units(items'[so], p)
  <2>1. Claims(so, p)' = Claims(so, p) /\ \A r \in Claims(so, p) : items'[r] = items[r]
    BY <1>1, NoneApart DEF Claims
  <2>2. status[so] = "done" /\ items'[so] = items[so]
    BY <1>0, <1>3
  <2> QED
    BY <2>1, <2>2, ReservedKept DEF ReturnInv
<1> QED
  BY <1>2, <1>3 DEF ReturnInv

LEMMA FileReturnReturns ==
  ASSUME TypeInv, ReturnInv, NEW r \in Returns, NEW so \in SalesOrders, NEW p \in Products,
         NEW q \in ReturnQuantities, FileReturn(r, so, p, q)
  PROVE  ReturnInv'
<1>1. /\ status[r] = "absent" /\ status[so] = "done"
      /\ q <= Units(items[so], p) - Reserved(so, p)
      /\ status' = [status EXCEPT ![r] = "open"]
      /\ items' = [items EXCEPT ![r] = <<[product |-> p, quantity |-> q]>>]
      /\ against' = [against EXCEPT ![r] = so]
  BY DEF FileReturn
<1>2. /\ r \in Orders /\ so \in Orders /\ r # so /\ q \in Nat /\ so # None
      /\ Returns \subseteq Orders /\ SalesOrders \subseteq Orders
  BY NoneApart, ConstantsAssumption DEF ConstantsAssumption, Orders
<1>3. against[r] = None /\ \A s \in Returns : against[s] \in SalesOrders \cup {None}
  BY <1>1 DEF ReturnInv, FiledInv, TypeInv, TypeOK
<1>4. /\ status'[r] = "open" /\ against'[r] = so
      /\ items'[r] = <<[product |-> p, quantity |-> q]>>
      /\ \A s \in Returns \ {r} : against'[s] = against[s]
      /\ \A o \in Orders \ {r} : status'[o] = status[o] /\ items'[o] = items[o]
  BY <1>1, <1>2 DEF TypeInv, TypeOK
<1>5. Len(items'[r]) = 1 /\ items'[r][1].product = p /\ items'[r][1].quantity = q
  BY <1>4
<1>6. FiledInv'
  <2>1. Filed' = Filed \cup {r}
    BY <1>2, <1>4 DEF Filed
  <2>2. IsFiniteSet(Filed')
    BY <2>1, FS_AddElement DEF ReturnInv, FiledInv
  <2>3. ASSUME NEW s \in Returns
        PROVE  /\ against'[s] # None <=> status'[s] # "absent"
               /\ s \in Filed' => Len(items'[s]) = 1 /\ status'[against'[s]] = "done"
    <3>1. CASE s = r
      BY <1>1, <1>2, <1>4, <1>5, <3>1
    <3>2. CASE s # r
      <4>1. against'[s] = against[s] /\ status'[s] = status[s] /\ items'[s] = items[s]
        BY <1>2, <1>4, <3>2
      <4>2. s \in Filed => against[s] \in Orders /\ status'[against[s]] = "done"
        BY <1>1, <1>2, <1>3, <1>4 DEF Filed, ReturnInv, FiledInv
      <4> QED
        BY <2>1, <3>2, <4>1, <4>2 DEF ReturnInv, FiledInv
    <3> QED
      BY <3>1, <3>2
  <2> QED
    BY <2>2, <2>3 DEF FiledInv, Filed
<1>7. ASSUME NEW so2 \in SalesOrders, NEW p2 \in Products, status'[so2] = "done"
      PROVE  Reserved(so2, p2)' <= Units(items'[so2], p2)
  <2>1. so2 # r /\ status[so2] = "done" /\ items'[so2] = items[so2]
    <3>1. so2 # r
      BY ConstantsAssumption DEF ConstantsAssumption
    <3> QED
      BY <1>2, <1>4, <1>7, <3>1
  <2>2. Reserved(so2, p2) <= Units(items[so2], p2)
    BY <2>1 DEF ReturnInv
  <2>3. r \notin Claims(so2, p2) /\ \A s \in Claims(so2, p2) : items'[s] = items[s]
    BY <1>1, <1>2, <1>4 DEF Claims
  <2>4. CASE so2 = so /\ p2 = p
    <3>1. Claims(so, p)' = Claims(so, p) \cup {r}
      BY <1>1, <1>2, <1>4, <1>5 DEF Claims
    <3>2. /\ IsFiniteSet(Claims(so, p)) /\ \A s \in Claims(so, p) : Quantities[s] \in Int
          /\ Reserved(so, p) \in Int
      BY ClaimsFinite DEF ReturnInv
    <3>3. Quantities'[r] = q /\ \A s \in Claims(so, p) : Quantities'[s] = Quantities[s]
      BY <1>5, <2>3, <2>4 DEF Quantities, Claims
    <3>4. Total(Quantities', Claims(so, p)) = Reserved(so, p)
      BY <3>3, TotalSame, ReservedTotal
    <3>5. Total(Quantities', Claims(so, p) \cup {r}) = q + Reserved(so, p)
      BY <1>2, <2>3, <2>4, <3>2, <3>3, <3>4, TotalAdd
    <3>6. Reserved(so, p)' = q + Reserved(so, p)
      BY <3>1, <3>5, ReservedTotal
    <3>7. Units(items[so], p) \in Int
      <4>1. items[so] \in Seq(Line)
        BY <1>2 DEF TypeInv, TypeOK
      <4> QED
        BY <4>1, UnitsType
    <3> QED
      BY <1>1, <1>2, <2>1, <2>4, <3>2, <3>6, <3>7
  <2>5. CASE ~(so2 = so /\ p2 = p)
    <3>1. Claims(so2, p2)' = Claims(so2, p2)
      BY <1>1, <1>2, <1>4, <1>5, <2>5 DEF Claims
    <3> QED
      BY <2>1, <2>2, <2>3, <3>1, ReservedKept
  <2> QED
    BY <2>4, <2>5
<1> QED
  BY <1>6, <1>7 DEF ReturnInv

(* A sale that is settled now had no return filed against it.               *)
LEMMA CommitReturns ==
  ASSUME LockingEnabled, TypeInv, TypeInv', LockInv, PostingInv, ReturnInv,
         NEW w \in Workers, Commit(w)
  PROVE  ReturnInv'
<1> DEFINE o == txn[w].order
<1>1. /\ items' = items /\ against' = against /\ pc[w] = "lines"
      /\ status' = [x \in Orders |-> IF x = o THEN "done" ELSE status[x]]
  BY DEF Commit, orderVars
<1>2. o \in Orders => status[o] = "open"
  BY <1>1, NoneApart DEF LockInv, Disciplined, Entitled, Locks
<1>3. /\ Returns \subseteq Orders /\ SalesOrders \subseteq Orders
      /\ SalesOrders \cap Returns = {}
      /\ \A x \in Orders : status[x] = "done" => status'[x] = "done"
      /\ \A x \in Orders : status'[x] # "absent" <=> status[x] # "absent"
      /\ \A x \in Orders : x # o => status'[x] = status[x]
  BY <1>1, <1>2, ConstantsAssumption DEF Orders, ConstantsAssumption
<1>4. CASE o \notin SalesOrders
  BY <1>1, <1>3, <1>4, ReturnsFrame
<1>5. CASE o \in SalesOrders
  <2>1. ASSUME NEW r \in Returns
        PROVE  /\ against[r] # None => /\ status[r] # "absent" /\ against[r] \in SalesOrders
                                       /\ against[r] # o
               /\ status'[r] = status[r]
    <3>1. against[r] # None => against[r] \in SalesOrders /\ status[against[r]] = "done"
      BY DEF ReturnInv, FiledInv, Filed, TypeInv, TypeOK
    <3>2. r # o /\ r \in Orders
      BY <1>3, <1>5
    <3> QED
      BY <1>2, <1>3, <1>5, <3>1, <3>2 DEF ReturnInv, FiledInv
  <2>2. Filed' = Filed
    BY <1>1 DEF Filed
  <2>3. FiledInv'
    BY <1>1, <1>3, <2>1, <2>2 DEF ReturnInv, FiledInv, Filed
  <2>4. ASSUME NEW so \in SalesOrders, NEW p \in Products, status'[so] = "done"
        PROVE  Reserved(so, p)' <= Units(items'[so], p)
    <3>1. Claims(so, p)' = Claims(so, p) /\ \A r \in Claims(so, p) : items'[r] = items[r]
      BY <1>1, <2>1 DEF Claims
    <3>2. Reserved(so, p)' = Reserved(so, p)
      BY <3>1, ReservedKept
    <3>3. CASE so # o
      <4>1. status[so] = "done"
        BY <1>3, <2>4, <3>3
      <4> QED
        BY <1>1, <3>2, <4>1 DEF ReturnInv
    <3>4. CASE so = o
      <4>1. Claims(so, p) = {}
        BY <2>1, <3>4, NoneApart DEF Claims
      <4>2. Reserved(so, p) = 0
        BY <4>1, ReservedTotal, TotalEmpty
      <4>3. txn[w].qty[p] = Units(items[so], p) /\ txn[w].qty[p] \in Nat
        <5>1. Tallied(w) /\ txn[w] \in Txn
          BY DEF PostingInv, TypeInv, TypeOK
        <5>2. txn[w].qty[p] = Units(items[o], p)
          BY <1>3, <1>5, <5>1, NoneApart, CommitUnits
        <5> QED
          BY <3>4, <5>1, <5>2 DEF Txn
      <4> QED
        BY <1>1, <3>2, <4>2, <4>3
    <3> QED
      BY <3>3, <3>4
  <2> QED
    BY <2>3, <2>4 DEF ReturnInv
<1> QED
  BY <1>4, <1>5

LEMMA NextReturns ==
  ASSUME LockingEnabled, TypeInv, TypeInv', LockInv, PostingInv, ReturnInv, [Next]_vars
  PROVE  ReturnInv'
<1>0. Returns \subseteq Orders /\ SalesOrders \subseteq Orders
  BY DEF Orders
<1>1. CASE UNCHANGED <<status, items, against>>
  BY <1>0, <1>1, ReturnsFrame
<1>2. ASSUME NEW o \in PurchaseOrders \cup SalesOrders, NEW b \in Baskets, CreateOrder(o, b)
      PROVE  ReturnInv'
  <2>1. o \in Orders /\ o \notin Returns
    BY ConstantsAssumption DEF Orders, ConstantsAssumption
  <2>2. /\ against' = against /\ status[o] = "absent"
        /\ \A x \in Orders : IF x = o THEN status'[x] = "open"
                             ELSE status'[x] = status[x] /\ items'[x] = items[x]
    BY <1>2, <2>1 DEF CreateOrder, TypeInv, TypeOK
  <2> QED
    BY <1>0, <2>1, <2>2, ReturnsFrame
<1>3. CASE File
  <2>1. ASSUME NEW p \in Products, DeactivateProduct(p)
        PROVE  UNCHANGED <<status, items, against>>
    BY <2>1 DEF DeactivateProduct, orderVars
  <2> QED
    BY <1>1, <1>2, <1>3, <2>1, FileReturnReturns DEF File
<1>4. ASSUME NEW w \in Workers, Reading(w) \/ Writing(w) \/ Ending(w)
      PROVE  UNCHANGED <<status, items, against>>
  BY <1>4, ReadingStep, WritingStep, EndingStep
<1>5. UNCHANGED vars => UNCHANGED <<status, items, against>>
  BY DEF vars, dbVars, orderVars
<1> QED
  BY <1>1, <1>3, <1>4, <1>5, StepCases, CommitReturns

LEMMA ReturnInductive == LockingEnabled => (Spec => []ReturnInv)
<1> SUFFICES ASSUME LockingEnabled PROVE Spec => []ReturnInv
  OBVIOUS
<1>1. Init => ReturnInv
  <2> SUFFICES ASSUME Init PROVE ReturnInv
    OBVIOUS
  <2>1. Filed = {}
    BY DEF Init, Filed
  <2>2. \A x \in Orders : status[x] = "absent"
    BY DEF Init
  <2>3. \A r \in Returns : against[r] = None
    BY DEF Init
  <2> QED
    BY <2>1, <2>2, <2>3, FS_EmptySet DEF ReturnInv, FiledInv, Orders
<1>2. Spec => []TypeInv
  BY TypeCorrect DEF TypeInv
<1>3. TypeInv /\ TypeInv' /\ LockInv /\ PostingInv /\ ReturnInv /\ [Next]_vars => ReturnInv'
  BY NextReturns
<1> QED
  BY <1>1, <1>2, <1>3, LockDiscipline, PostingInductive, PTL DEF Spec

LEMMA PostingsTotal ==
  ASSUME NEW so, NEW p
  PROVE  MapThenSumSet(LAMBDA r : posted[r][p], {r \in Returns : against[r] = so})
         = Total([r \in Returns |-> posted[r][p]], {r \in Returns : against[r] = so})
<1> DEFINE S == {r \in Returns : against[r] = so}
           k == [r \in Returns |-> posted[r][p]]
           Step(s, g) == IF s = {} THEN 0
                         ELSE LET x == CHOOSE y \in s : TRUE
                              IN  posted[x][p] + g[s \ {x}]
<1>1. MapThenSumSet(LAMBDA r : posted[r][p], S)
        = (CHOOSE g : g = [s \in SUBSET S |-> Step(s, g)])[S]
  BY DEF MapThenSumSet, MapThenFoldSet
<1>2. ASSUME NEW g, NEW s \in SUBSET S PROVE SumStep(k, s, g) = Step(s, g)
  <2>1. s # {} => (CHOOSE y \in s : TRUE) \in Returns
    OBVIOUS
  <2> QED
    BY <2>1 DEF SumStep
<1>3. ASSUME NEW g PROVE IsSum(k, S, g) <=> g = [s \in SUBSET S |-> Step(s, g)]
  BY <1>2 DEF IsSum
<1>4. (CHOOSE g : IsSum(k, S, g)) = (CHOOSE g : g = [s \in SUBSET S |-> Step(s, g)])
  <2> HIDE DEF k, Step, S
  <2> QED
    BY <1>3
<1> QED
  BY <1>1, <1>4, TotalDef

(* With locking on, the approved returns of a sale put back no more of a    *)
(* product than the sale took out, however their filings, approvals and the *)
(* sale's own completion interleave.                                        *)
THEOREM ReturnsTheorem == LockingEnabled => (Spec => []ReturnsCoveredBySale)
<1> SUFFICES ASSUME LockingEnabled PROVE Spec => []ReturnsCoveredBySale
  OBVIOUS
<1>1. ASSUME TypeInv, PostedExactlyOnce, ReturnInv, NEW so \in SalesOrders, NEW p \in Products
      PROVE  MapThenSumSet(LAMBDA r : posted[r][p], {r \in Returns : against[r] = so})
               <= posted[so][p]
  <2> DEFINE S == {r \in Returns : against[r] = so}
             f == [r \in Returns |-> posted[r][p]]
  <2>0. so \in Orders /\ Returns \subseteq Orders /\ so # None
    BY NoneApart DEF Orders
  <2>1. MapThenSumSet(LAMBDA r : posted[r][p], S) = Total(f, S)
    BY PostingsTotal
  <2>2. IsFiniteSet(S) /\ \A r \in S : f[r] \in Int
    <3>1. S \in SUBSET Filed
      BY <2>0 DEF Filed
    <3>2. \A r \in S : f[r] \in Int
      BY <1>1, <2>0 DEF TypeInv, TypeOK
    <3> HIDE DEF S, f
    <3> QED
      BY <1>1, <3>1, <3>2, FS_Subset DEF ReturnInv, FiledInv
  <2>3. Claims(so, p) \in SUBSET S /\ \A r \in Claims(so, p) : Quantities[r] \in Int
    <3>1. Claims(so, p) \in SUBSET S
      BY DEF Claims
    <3> QED
      BY <1>1, <3>1, ClaimsFinite DEF ReturnInv
  <2>4. ASSUME NEW r \in S
        PROVE  IF r \in Claims(so, p) THEN f[r] <= Quantities[r] ELSE f[r] <= 0
    <3>1. /\ r \in Filed /\ r \in Returns /\ items[r] \in Seq(Line) /\ Len(items[r]) = 1
          /\ f[r] = IF status[r] = "done" THEN Units(items[r], p) ELSE 0
      BY <1>1, <2>0 DEF ReturnInv, FiledInv, Filed, TypeInv, TypeOK, PostedExactlyOnce
    <3>2. items[r][1] \in Line
      BY <3>1, ElementOfSeq
    <3>3. Units(items[r], p) = IF items[r][1].product = p THEN items[r][1].quantity ELSE 0
      <4>1. Units(items[r], p) = UnitsTo(items[r], 0 + 1, p)
        <5>1. Units(items[r], p) = UnitsTo(items[r], Len(items[r]), p)
          BY <3>1, UnitsAll
        <5> QED
          BY <3>1, <5>1
      <4>2. \A i \in 1..(0 + 1) : items[r][i].quantity \in Nat
        BY <3>2 DEF Line
      <4>3. UnitsTo(items[r], 0 + 1, p) = UnitsTo(items[r], 0, p)
              + (IF items[r][0 + 1].product = p THEN items[r][0 + 1].quantity ELSE 0)
        BY <4>2, UnitsStep
      <4> QED
        BY <3>2, <4>1, <4>3, NoUnits DEF Line
    <3>4. status[r] \in {"open", "done"}
      BY <1>1, <2>0, <3>1 DEF ReturnInv, FiledInv, Filed, TypeInv, TypeOK
    <3> QED
      BY <3>1, <3>2, <3>3, <3>4 DEF Claims, Quantities, Line
  <2>5. Total(f, S) <= Reserved(so, p)
    <3>1. \A r \in Claims(so, p) : f[r] <= Quantities[r]
      BY <2>3, <2>4
    <3>2. \A r \in S \ Claims(so, p) : f[r] <= 0
      BY <2>4
    <3> HIDE DEF S, f
    <3> QED
      BY <2>2, <2>3, <3>1, <3>2, TotalBound, ReservedTotal
  <2>6. Total(f, S) \in Int /\ posted[so][p] \in Nat /\ Reserved(so, p) \in Int
    <3> HIDE DEF S, f
    <3> QED
      BY <1>1, <2>0, <2>2, TotalType, ClaimsFinite DEF TypeInv, TypeOK, ReturnInv
  <2>7. CASE S = {}
    <3>1. Total(f, S) = 0
      BY <2>7, TotalEmpty
    <3> QED
      BY <2>1, <2>6, <3>1
  <2>8. CASE S # {}
    <3>1. status[so] = "done"
      BY <1>1, <2>0, <2>8 DEF ReturnInv, FiledInv, Filed
    <3>2. Reserved(so, p) <= posted[so][p]
      BY <1>1, <2>0, <3>1 DEF ReturnInv, PostedExactlyOnce
    <3> QED
      BY <2>1, <2>5, <2>6, <3>2
  <2> QED
    BY <2>7, <2>8
<1>2. TypeInv /\ PostedExactlyOnce /\ ReturnInv => ReturnsCoveredBySale
  BY <1>1 DEF ReturnsCoveredBySale
<1>3. Spec => []TypeInv
  BY TypeCorrect DEF TypeInv
<1> QED
  BY <1>2, <1>3, PostedTheorem, ReturnInductive, PTL

-----------------------------------------------------------------------------
(* The refinement of Warehouse.                                             *)

LEMMA AtomicNames ==
  /\ Atomic!Orders = Orders /\ Atomic!TransactionType = TransactionType
  /\ \A lines, p : Atomic!Units(lines, p) = Units(lines, p)
  /\ Atomic!vars = <<stock, ledger, status, items>>
<1>1. ASSUME NEW lines, NEW p PROVE Atomic!Units(lines, p) = Units(lines, p)
  BY DEF Atomic!Units, Units, Atomic!MapThenSumSet, MapThenSumSet,
         Atomic!MapThenFoldSet, MapThenFoldSet
<1> QED
  BY <1>1 DEF Atomic!Orders, Orders, Atomic!TransactionType, TransactionType, Atomic!vars

LEMMA InitAtomic == Init => Atomic!Init
BY AtomicNames DEF Init, Atomic!Init

(* A transaction that holds lines and no order is a write-off of one        *)
(* quantity the view accepts.                                               *)
WriteOffLines(w) ==
  pc[w] = "lines" /\ txn[w].order = None =>
    \E p \in Products, q \in WriteOffs : txn[w].lines = <<[product |-> p, quantity |-> q]>>

WriteOffInv == \A w \in Workers : WriteOffLines(w)

LEMMA NextWriteOff ==
  ASSUME TypeInv, TypeInv', LockInv, WriteOffInv, [Next]_vars
  PROVE  WriteOffInv'
<1>1. ASSUME NEW v \in Workers, txn'[v] = txn[v], pc'[v] = pc[v] PROVE WriteOffLines(v)'
  BY <1>1 DEF WriteOffInv, WriteOffLines
<1>2. CASE UNCHANGED <<pc, txn>>
  BY <1>1, <1>2 DEF WriteOffInv
<1>3. File \/ UNCHANGED vars => UNCHANGED <<pc, txn>>
  BY DEF File, CreateOrder, FileReturn, DeactivateProduct, vars
<1>4. ASSUME NEW w \in Workers, Writing(w) PROVE WriteOffInv'
  <2>1. /\ txn'[w].order = txn[w].order /\ txn'[w].lines = txn[w].lines /\ pc' = pc
        /\ \A v \in Workers : v # w => txn'[v] = txn[v]
    BY <1>4, WritingStep
  <2>2. WriteOffLines(w)'
    BY <2>1 DEF WriteOffInv, WriteOffLines
  <2> QED
    BY <1>1, <2>1, <2>2 DEF WriteOffInv
<1>5. ASSUME NEW w \in Workers, Ending(w) \/ Commit(w) PROVE WriteOffInv'
  <2>1. pc'[w] # "lines" /\ \A v \in Workers : v # w => txn'[v] = txn[v] /\ pc'[v] = pc[v]
    BY <1>5, EndingStep DEF Commit, TypeInv, TypeOK
  <2> QED
    BY <1>1, <2>1 DEF WriteOffInv, WriteOffLines
<1>6. ASSUME NEW w \in Workers, Reading(w) PROVE WriteOffInv'
  <2>0. txn[w] \in Txn /\ \A v \in Workers : v # w => txn'[v] = txn[v] /\ pc'[v] = pc[v]
    BY <1>6, ReadingStep DEF TypeInv, TypeOK
  <2>1. CASE LockOrder(w) \/ Bump(w) \/ \E o \in Orders : RequestOrder(w, o)
    <3>1. pc'[w] # "lines"
      BY <2>1 DEF LockOrder, Bump, RequestOrder, TypeInv, TypeOK
    <3> QED
      BY <1>1, <2>0, <3>1 DEF WriteOffInv, WriteOffLines
  <2>2. CASE ReadItems(w)
    <3>1. pc[w] = "items" /\ txn[w].order \in Orders
      BY <2>2 DEF ReadItems, TypeInv, Addressed
    <3>2. PICK lines : txn' = [txn EXCEPT ![w] = [txn[w] EXCEPT !.lines = lines]]
      BY <2>2 DEF ReadItems
    <3>3. txn'[w].order # None
      BY <2>0, <3>1, <3>2, NoneApart DEF Txn, TypeInv, TypeOK
    <3> QED
      BY <1>1, <2>0, <3>3 DEF WriteOffInv, WriteOffLines
  <2>3. CASE CheckLine(w)
    <3>1. PICK seen : txn' = [txn EXCEPT ![w] = [txn[w] EXCEPT !.seen = seen]]
      BY <2>3 DEF CheckLine
    <3>2. txn'[w].order # None
      <4>1. txn[w].order # None
        BY <2>3, NoneApart DEF CheckLine, Checking
      <4> QED
        BY <2>0, <3>1, <4>1 DEF Txn, TypeInv, TypeOK
    <3> QED
      BY <1>1, <2>0, <3>2 DEF WriteOffInv, WriteOffLines
  <2>4. ASSUME NEW p \in Products, NEW q \in WriteOffs, RequestWriteOff(w, p, q)
        PROVE  WriteOffInv'
    <3>1. txn'[w] = [txn[w] EXCEPT !.lines = <<[product |-> p, quantity |-> q]>>]
      BY <2>4 DEF RequestWriteOff, TypeInv, TypeOK
    <3>2. txn'[w].lines = <<[product |-> p, quantity |-> q]>>
      BY <2>0, <3>1 DEF Txn
    <3>3. WriteOffLines(w)'
      BY <3>2 DEF WriteOffLines
    <3> QED
      BY <1>1, <2>0, <3>3 DEF WriteOffInv
  <2> QED
    BY <1>6, <2>1, <2>2, <2>3, <2>4 DEF Reading, Request
<1> QED
  BY <1>2, <1>3, <1>4, <1>5, <1>6, StepCases

(* Filing an order is one step of both.                                     *)
LEMMA FileAtomic == ASSUME File PROVE Atomic!Next \/ UNCHANGED Atomic!vars
<1>1. ASSUME NEW o \in PurchaseOrders \cup SalesOrders, NEW b \in Baskets, CreateOrder(o, b)
      PROVE  Atomic!File(o, b)
  BY <1>1 DEF CreateOrder, Atomic!File
<1>2. ASSUME NEW r \in Returns, NEW so \in SalesOrders, NEW p \in Products,
             NEW q \in ReturnQuantities, FileReturn(r, so, p, q)
      PROVE  Atomic!File(r, <<[product |-> p, quantity |-> q]>>)
  BY <1>2 DEF FileReturn, Atomic!File
<1>3. ASSUME NEW p \in Products, DeactivateProduct(p) PROVE UNCHANGED Atomic!vars
  BY <1>3 DEF DeactivateProduct, orderVars, Atomic!vars
<1> QED
  BY <1>1, <1>2, <1>3 DEF File, Atomic!Next

(* A commit is where the request happens: its order settled, or its write-  *)
(* off made, with every line and with the stock there.                      *)
LEMMA CommitAtomic ==
  ASSUME LockingEnabled, TypeInv, LockInv, LedgerInv, PostingInv, WriteOffInv,
         NEW w \in Workers, Commit(w)
  PROVE  Atomic!Next
<1> DEFINE t == txn[w]
           o == t.order
<1>1. /\ t \in Txn /\ Tallied(w) /\ o \in Orders \cup {None} /\ pc[w] = "lines"
      /\ items' = items /\ status \in [Orders -> {"absent", "open", "done"}]
      /\ stock' = [p \in Products |-> stock'[p]]
      /\ ledger' = [ledger EXCEPT ![TypeOf(o)] =
                      [p \in Products |-> ledger[TypeOf(o)][p] + t.qty[p]]]
      /\ status' = [x \in Orders |-> IF x = o THEN "done" ELSE status[x]]
  BY DEF Commit, orderVars, PostingInv, TypeInv, TypeOK, Txn
<1>2. ASSUME NEW lines, \A p \in Products : t.qty[p] = Units(lines, p),
             NEW sign \in {1, -1}, sign = IF Incoming(o) THEN 1 ELSE -1
      PROVE  Atomic!Post(TypeOf(o), sign, lines)
  <2>1. ASSUME NEW p \in Products
        PROVE  stock[p] + sign * Atomic!Units(lines, p) = stock'[p] /\ stock'[p] >= 0
    <3>1. /\ stock[p] \in Int /\ t.qty[p] \in Nat
          /\ Atomic!Units(lines, p) = t.qty[p]
      BY <1>1, <1>2, AtomicNames DEF TypeInv, TypeOK, Txn
    <3>2. CASE Incoming(o)
      BY <1>2, <3>1, <3>2, CommitStock
    <3>3. CASE ~Incoming(o)
      BY <1>2, <3>1, <3>3, CommitStock
    <3> QED
      BY <3>2, <3>3
  <2>2. [p \in Products |-> ledger[TypeOf(o)][p] + t.qty[p]]
          = [p \in Products |-> ledger[TypeOf(o)][p] + Atomic!Units(lines, p)]
    BY <1>2, AtomicNames
  <2> HIDE DEF o
  <2> QED
    BY <1>1, <2>1, <2>2 DEF Atomic!Post
<1>3. CASE o = None
  <2>1. PICK p \in Products, q \in WriteOffs : t.lines = <<[product |-> p, quantity |-> q]>>
    BY <1>1, <1>3 DEF WriteOffInv, WriteOffLines
  <2>2. \A r \in Products : t.qty[r] = Units(t.lines, r)
    BY <1>1, CommitUnits
  <2>3. ~Incoming(o) /\ TypeOf(o) = "damage"
    BY <1>3, NoneApart DEF Incoming, TypeOf, Orders
  <2>4. Atomic!Post("damage", -1, t.lines)
    BY <1>2, <2>2, <2>3
  <2>5. status' = status
    BY <1>1, <1>3, NoneApart
  <2>6. Atomic!WriteOff(p, q)
    BY <2>1, <2>4, <2>5 DEF Atomic!WriteOff
  <2> QED
    BY <2>6 DEF Atomic!Next
<1>4. CASE o # None
  <2>1. \A p \in Products : t.qty[p] = Units(items[o], p)
    BY <1>1, <1>4, CommitUnits
  <2>2. status[o] = "open" /\ o \in Orders
    BY <1>1, <1>4 DEF LockInv, Disciplined, Entitled, Locks
  <2>3. status' = [status EXCEPT ![o] = "done"]
    BY <1>1, <2>2
  <2>4. CASE o \in PurchaseOrders
    <3>1. Incoming(o) /\ TypeOf(o) = "purchase"
      BY <2>4 DEF Incoming, TypeOf
    <3>2. Atomic!Post("purchase", 1, items[o])
      BY <1>2, <2>1, <3>1
    <3>3. Atomic!Settle(o, "purchase", 1)
      BY <2>2, <2>3, <3>2 DEF Atomic!Settle
    <3> QED
      BY <2>4, <3>3 DEF Atomic!Next
  <2>5. CASE o \in SalesOrders
    <3>1. ~Incoming(o) /\ TypeOf(o) = "sale"
      BY <2>5, ConstantsAssumption DEF Incoming, TypeOf, ConstantsAssumption
    <3>2. Atomic!Post("sale", -1, items[o])
      BY <1>2, <2>1, <3>1
    <3>3. Atomic!Settle(o, "sale", -1)
      BY <2>2, <2>3, <3>2 DEF Atomic!Settle
    <3> QED
      BY <2>5, <3>3 DEF Atomic!Next
  <2>6. CASE o \in Returns
    <3>1. Incoming(o) /\ TypeOf(o) = "return"
      BY <2>6, ConstantsAssumption DEF Incoming, TypeOf, ConstantsAssumption
    <3>2. Atomic!Post("return", 1, items[o])
      BY <1>2, <2>1, <3>1
    <3>3. Atomic!Settle(o, "return", 1)
      BY <2>2, <2>3, <3>2 DEF Atomic!Settle
    <3> QED
      BY <2>6, <3>3 DEF Atomic!Next
  <2> QED
    BY <2>2, <2>4, <2>5, <2>6 DEF Orders
<1> QED
  BY <1>3, <1>4

LEMMA NextAtomic ==
  ASSUME LockingEnabled, TypeInv, LockInv, LedgerInv, PostingInv, WriteOffInv, [Next]_vars
  PROVE  [Atomic!Next]_(Atomic!vars)
<1>1. ASSUME NEW w \in Workers, Reading(w) \/ Writing(w) \/ Ending(w)
      PROVE  UNCHANGED Atomic!vars
  BY <1>1, ReadingStep, WritingStep, EndingStep DEF Atomic!vars
<1>2. UNCHANGED vars => UNCHANGED Atomic!vars
  BY DEF vars, dbVars, orderVars, Atomic!vars
<1> QED
  BY <1>1, <1>2, StepCases, FileAtomic, CommitAtomic

(* With locking on and no product twice in an order, the handlers are the   *)
(* atomic operations of Warehouse: every commit is one of them, filed and   *)
(* settled once, and every other statement is invisible.                    *)
THEOREM AtomicTheorem == SoundUse => (Spec => IsAtomic)
<1> SUFFICES ASSUME SoundUse PROVE Spec => IsAtomic
  OBVIOUS
<1>0. LockingEnabled
  BY DEF SoundUse
<1>1. Init => WriteOffInv
  BY DEF Init, WriteOffInv, WriteOffLines
<1>2. Spec => []TypeInv
  BY TypeCorrect DEF TypeInv
<1>3. TypeInv /\ TypeInv' /\ LockInv /\ WriteOffInv /\ [Next]_vars => WriteOffInv'
  BY NextWriteOff
<1>4. TypeInv /\ LockInv /\ LedgerInv /\ PostingInv /\ WriteOffInv /\ [Next]_vars
        => [Atomic!Next]_(Atomic!vars)
  BY <1>0, NextAtomic
<1>5. Spec => []PostingInv
  BY <1>0, PostingInductive
<1>6. Spec => []LedgerInv
  BY LedgerInductive
<1> QED
  BY <1>1, <1>2, <1>3, <1>4, <1>5, <1>6, InitAtomic, LockDiscipline, PTL
     DEF Spec, IsAtomic, Atomic!Spec

=============================================================================
