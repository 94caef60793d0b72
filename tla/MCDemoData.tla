------------------------------ MODULE MCDemoData ------------------------------
(* A small instance of DemoData for TLC.                                    *)
EXTENDS DemoData, TLC

CONSTANTS demo1, contended, o1, o2

Basket(ps) == [p \in Products |-> IF p \in ps THEN 1 ELSE 0]
SmallBaskets == {Basket({demo1}), Basket({contended}), Basket({demo1, contended})}

(* Until it inserts, a seeding works in memory and reads nothing of the     *)
(* shop's; requests in between might as well come before.                   *)
QuietBuild == cmd.at \in Building /\ cmd'.at # "idle" => UNCHANGED shop

(* Each return protects its own order and product; one shows it.           *)
MaxReturns == 1
FewReturns == Cardinality(returns) <= MaxReturns

Symmetry == Permutations(OrderIds)
=============================================================================
