-------------------------- MODULE MCBackgroundTasks --------------------------
(* Small instances of BackgroundTasks for TLC.                              *)
EXTENDS BackgroundTasks
CONSTANTS p1, u1, u2, w1, w2

\* The worker is started with its first process or with both.  Both are for the
\* sweeps: no reconciliation is queued, one fault at most befalls them, and the
\* product stays active.
Scope ==
  /\ w1 \in Started /\ faults + patches <= 2
  /\ Started # {w1} =>
       /\ Waiting("reconcile_ledger") = 0 /\ faults <= 1
       /\ patches = 0 /\ active = Products
=============================================================================
