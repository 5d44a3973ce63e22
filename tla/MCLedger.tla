------------------------------- MODULE MCLedger -------------------------------
(* Two charges, two merchants, and an int64 that counts from -8 to 7.         *)
EXTENDS Ledger, TLC

CONSTANTS c1, c2, m1, m2

Symmetry == Permutations(ChargeIds) \cup Permutations(Merchants)

\* amounts up to the largest int64
WideAmounts == {-8, 0, 1, 2, 7}
=============================================================================
