--------------------------- MODULE MCReconciliation ---------------------------
(* Two transactions, up to MaxRows rows in each file, and amounts and times   *)
(* on either side of every threshold.                                         *)
EXTENDS Reconciliation, TLC

CONSTANTS t1, t2

Symmetry == Permutations(Txns)
=============================================================================
