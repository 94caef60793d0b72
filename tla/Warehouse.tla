------------------------------- MODULE Warehouse -------------------------------
(***************************************************************************)
(* What the stock endpoints promise their callers: filing, receiving,      *)
(* completing, approving and writing off each happen at one instant, once  *)
(* per order, with every line or none, and never with units that are not   *)
(* there at that instant.  StockMutations implements this.                 *)
(***************************************************************************)
EXTENDS OrderLines

CONSTANTS Products, PurchaseOrders, SalesOrders, Returns, Baskets,
          ReturnQuantities, WriteOffs, Opening

Orders == PurchaseOrders \cup SalesOrders \cup Returns
TransactionType == {"purchase", "sale", "return", "damage"}

VARIABLES stock, ledger, status, items

vars == <<stock, ledger, status, items>>

Init ==
  /\ stock = Opening
  /\ ledger = [t \in TransactionType |->
                 IF t = "purchase" THEN Opening ELSE [p \in Products |-> 0]]
  /\ status = [o \in Orders |-> "absent"]
  /\ items = [o \in Orders |-> <<>>]

File(o, lines) ==
  /\ status[o] = "absent"
  /\ status' = [status EXCEPT ![o] = "open"]
  /\ items' = [items EXCEPT ![o] = lines]
  /\ UNCHANGED <<stock, ledger>>

(* One kind of ledger row per product, sign +1 or -1 on the stock.         *)
Post(type, sign, lines) ==
  /\ \A p \in Products : stock[p] + sign * Units(lines, p) >= 0
  /\ stock' = [p \in Products |-> stock[p] + sign * Units(lines, p)]
  /\ ledger' = [ledger EXCEPT ![type] = [p \in Products |-> @[p] + Units(lines, p)]]
  /\ UNCHANGED items

Settle(o, type, sign) ==
  /\ status[o] = "open"
  /\ status' = [status EXCEPT ![o] = "done"]
  /\ Post(type, sign, items[o])

WriteOff(p, q) ==
  /\ Post("damage", -1, <<[product |-> p, quantity |-> q]>>)
  /\ UNCHANGED status

Next ==
  \/ \E o \in PurchaseOrders \cup SalesOrders, b \in Baskets : File(o, b)
  \/ \E r \in Returns, p \in Products, q \in ReturnQuantities :
       File(r, <<[product |-> p, quantity |-> q]>>)
  \/ \E o \in PurchaseOrders : Settle(o, "purchase", 1)
  \/ \E o \in SalesOrders : Settle(o, "sale", -1)
  \/ \E o \in Returns : Settle(o, "return", 1)
  \/ \E p \in Products, q \in WriteOffs : WriteOff(p, q)

Spec == Init /\ [][Next]_vars
=============================================================================
