----------------------------- MODULE MCSettlement -----------------------------
(* Histories of operations on a few charges over two days, whose sums wrap    *)
(* around and whose fees round both ways; and, as they share nothing with     *)
(* these but the currency a row carries, the files rows are written to.  Each *)
(* behaviour is of one part, and the other stays as it began.                 *)
EXTENDS Settlement, EventsCsv

CONSTANTS c1, c2, c3, m1, m2, d1, d2

VARIABLE part   \* the part this behaviour is of

PaymentsInit == SettlementInit /\ FileInit /\ part \in {"sums", "files"}

Sums == part = "sums" /\ Operate /\ UNCHANGED <<csvVars, part>>
Files == part = "files" /\ FileNext /\ UNCHANGED <<settlementVars, part>>

PaymentsSpec == PaymentsInit /\ [][Sums \/ Files]_<<settlementVars, csvVars, part>>

Symmetry == Permutations(ChargeIds) \cup Permutations(Merchants) \cup Permutations(Days)
=============================================================================
