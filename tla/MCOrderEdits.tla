----------------------------- MODULE MCOrderEdits -----------------------------
(* Small instances of OrderEdits for TLC.                                   *)
EXTENDS OrderEdits, TLC

CONSTANTS w1, w2, e1, e2, po, so1, ret

Item(p, q) == [product |-> p, quantity |-> q]
OneProduct == {1}
TwoSizes   == {<<Item(1, 1)>>, <<Item(1, 2)>>}
OneSize    == {<<Item(1, 1)>>}
Opens      == [p \in OneProduct |-> 1]
Low        == [p \in OneProduct |-> 0]

(* A late update reopens a sale or a return, which is then posted again,    *)
(* without end: the ledger's totals are bounded.  The version counter, too, *)
(* which nothing here reads: a worker that died before its bump stands for  *)
(* one that is done.  Two editors serve the same order when both are busy.  *)
MaxUnits   == 2
MaxVersion == 1
Bounded == /\ \A type \in TransactionType, p \in Products : ledger[type][p] <= MaxUnits
           /\ version <= MaxVersion
           /\ \A d, e \in Editors :
                None \notin {draft[d].order, draft[e].order} => draft[d].order = draft[e].order
EditorsAlike == Permutations({e1, e2})
=============================================================================
