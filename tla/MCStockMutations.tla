--------------------------- MODULE MCStockMutations ---------------------------
(* Small instances of StockMutations for TLC.                               *)
EXTENDS StockMutations, TLC

CONSTANTS w1, w2, po, so1, so2, ret, ret2

Item(p, q) == [product |-> p, quantity |-> q]

(* Two baskets that name the products in opposite orders.                   *)
CrossedBaskets == {<<Item(2, 1), Item(1, 1)>>, <<Item(1, 1), Item(2, 2)>>}
OneBasket      == {<<Item(1, 2)>>}
MixedBaskets   == {<<Item(1, 2)>>, <<Item(1, 1), Item(1, 1)>>}

TwoProducts == {1, 2}
OneProduct  == {1}
Opens2 == [p \in TwoProducts |-> IF p = 1 THEN 2 ELSE 3]
Opens1 == [p \in OneProduct |-> 3]
Low2   == [p \in TwoProducts |-> 1]
Low1   == [p \in OneProduct |-> 1]

Symmetry == Permutations({w1, w2}) \cup Permutations({so1, so2})
=============================================================================
