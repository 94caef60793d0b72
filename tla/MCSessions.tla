------------------------------ MODULE MCSessions ------------------------------
(* A small instance of Sessions for TLC.                                    *)
EXTENDS Sessions, TLC
CONSTANTS root, other, q1, q2, c1, c2
(* Two mishaps are followed without account changes, one with at most one,  *)
(* none with two.                                                            *)
Mishaps == Cardinality(UNION {{k} \X excuse[k] : k \in Tokens})
FewMishaps == Mishaps + admitted <= 2
Symmetry == Permutations({q1, q2}) \cup Permutations({c1, c2})
=============================================================================
