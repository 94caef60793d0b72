---------------------------- MODULE MCInvoiceTasks ----------------------------
(* A small instance of InvoiceTasks for TLC.                                *)
EXTENDS InvoiceTasks, TLC
CONSTANTS t1, t2, w1, w2, x1, x2
OneEach == t1 :> x1 @@ t2 :> x2
=============================================================================
