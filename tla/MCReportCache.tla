---------------------------- MODULE MCReportCache ----------------------------
(* Small instances of ReportCache for TLC.                                  *)
EXTENDS ReportCache, TLC
CONSTANTS r1, r2, r3, w1, w2
Symmetry == Permutations({r1, r2, r3}) \cup Permutations({w1, w2})
=============================================================================
