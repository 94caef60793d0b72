------------------------------ MODULE OrderLines ------------------------------
(* Item lists of orders: sequences of [product, quantity], as the rows of   *)
(* PurchaseOrderItem and SalesOrderItem.                                    *)
EXTENDS Integers, Sequences, FiniteSetsExt

(* The units of product p on the lines.                                     *)
Units(lines, p) ==
  MapThenSumSet(LAMBDA i : lines[i].quantity,
                {i \in DOMAIN lines : lines[i].product = p})

(* A slip StockMutations' properties find out: the lines unsorted.          *)
OrderedByProductFault(lines) == {lines}

(* order_by("product_id"): sorted, lines of one product in any order.       *)
OrderedByProduct(lines) ==
  {[i \in DOMAIN lines |-> lines[f[i]]] :
     f \in {g \in [DOMAIN lines -> DOMAIN lines] :
              /\ \A i, j \in DOMAIN lines : g[i] = g[j] => i = j
              /\ \A i, j \in DOMAIN lines :
                   i < j => lines[g[i]].product <= lines[g[j]].product}}

(* No product is on two lines.                                              *)
DistinctProducts(lines) ==
  \A i, j \in DOMAIN lines : lines[i].product = lines[j].product => i = j
=============================================================================
