---------------------------- MODULE MCLedgerService ----------------------------
(* Calls of charges and refunds, and an int64 that counts from -8 to 7.       *)
EXTENDS LedgerService, TLC

CONSTANTS c1, c2, m1, a, b, k1, k2

Charge(m, amount) == [op |-> "charge", merchant |-> m, amount |-> amount]
RefundOf(id, amount) == [op |-> "refund", charge |-> id, amount |-> amount]

\* a charge and a refund that fits once, and one of each kind of refusal
Mixed == {Charge(m1, 3), Charge(NoMerchant, 1), RefundOf(c1, 2), RefundOf(c1, 0), RefundOf(c2, 1)}

Symmetry == Permutations(Calls) \cup Permutations(Keys)
=============================================================================
