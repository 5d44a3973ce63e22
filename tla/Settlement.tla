------------------------------ MODULE Settlement ------------------------------
(* payments-core/settlement: the engine that folds the ledger's exported      *)
(* events into one line per merchant and UTC day, composed with the ledger    *)
(* whose events it reads.  The ledger stamps each event with the day it       *)
(* happens on.                                                                *)
EXTENDS Ledger

CONSTANTS
    Days,        \* bound: the UTC days operations happen on
    Unit,        \* basis points in one (10000 in the code)
    PercentBps,  \* FeePolicy.percentBps
    Fixed,       \* FeePolicy.fixed
    ReserveBps   \* FeePolicy.reserveBps

ASSUME PolicyAssumption ==
    /\ IsFiniteSet(Days)
    /\ Unit \in Nat \ {0}
    /\ PercentBps \in 0 .. Unit /\ Fixed \in Nat /\ ReserveBps \in 0 .. Unit

VARIABLE days   \* days[n]: the day of events[n].created_at

settlementVars == <<ledger, days>>

SettlementInit == LedgerInit /\ days = <<>>

\* one operation of the ledger, at whatever day its clock shows
Operate == LedgerNext /\ \E day \in Days : days' = Append(days, day)

SettlementSpec == SettlementInit /\ [][Operate]_settlementVars

-----------------------------------------------------------------------------
(* Model.scala and Engine.scala                                               *)

\* half-up rounding; the product is exact or the run is aborted
BpsExact(x, bps) == x * bps < Half
Bps(x, bps) == Wrap(x * bps + Unit \div 2) \div Unit

NoLine == [charges |-> 0, gross |-> 0, refunds |-> 0, fees |-> 0]
Lines == [Merchants \X Days -> [charges : Nat, gross : Int64, refunds : Int64, fees : Int64]]

\* the exported rows
Export == [n \in DOMAIN events |-> [type |-> events[n].type, amount |-> events[n].amount,
                                    key |-> <<events[n].merchant, days[n]>>]]

Fee(x) == Bps(x, PercentBps) + Fixed

\* mutant: a refund is settled only where its day has charges
SettledWithinDay(line, e) ==
    IF e.type = "charge.succeeded"
    THEN [line EXCEPT !.charges = @ + 1, !.gross = Wrap(@ + e.amount),
                      !.fees = Wrap(@ + Fee(e.amount))]
    ELSE IF line.charges = 0 THEN line ELSE [line EXCEPT !.refunds = Wrap(@ + e.amount)]
Settled(line, e) ==
    IF e.type = "charge.succeeded"
    THEN [line EXCEPT !.charges = @ + 1, !.gross = Wrap(@ + e.amount),
                      !.fees = Wrap(@ + Fee(e.amount))]
    ELSE [line EXCEPT !.refunds = Wrap(@ + e.amount)]

\* settle: a fold; a key the map does not hold yet has NoLine
settle(rows) ==
    LET lines[n \in 0 .. Len(rows)] ==
            IF n = 0 THEN [key \in Merchants \X Days |-> NoLine]
            ELSE [lines[n - 1] EXCEPT ![rows[n].key] = Settled(@, rows[n])]
    IN lines[Len(rows)]

net(line) == Wrap(line.gross - line.refunds - line.fees)
reserve(line) == IF net(line) > 0 THEN Bps(net(line), ReserveBps) ELSE 0
payout(line) == Wrap(net(line) - reserve(line))

\* merchantNet
merchantNet(lines, m) ==
    Wrap(SumOver([day \in Days |-> lines[<<m, day>>].gross - lines[<<m, day>>].refunds], Days))

-----------------------------------------------------------------------------
(* Properties.                                                                *)

\* Type invariant of the settlement of what the ledger exports.
SettlementTypeOK == days \in Seq(Days) /\ Len(days) = Len(events) /\ settle(Export) \in Lines

\* "Scala totals must agree with the Go ledger's own balances": what is settled
\* of a merchant over all days is what the ledger owes the merchant, and is paid
\* out, held in reserve or charged, also when sums have wrapped around, and
\* whatever day a refund falls on.
TotalsAreBalances == \A m \in Merchants :
    LET lines == settle(Export)
        Goes(line) == payout(line) + reserve(line) + line.fees
    IN /\ merchantNet(lines, m) = Balance(m)
       /\ Wrap(SumOver([day \in Days |-> Goes(lines[<<m, day>>])], Days)) = Balance(m)

-----------------------------------------------------------------------------
(* What the documents or comments say of this code and the code does not do. *)

\* "An overflow throws instead of wrapping": where no product overflows, the
\* gross of every line is the sum of the charges it stands for.
GrossIsExact == \A key \in Merchants \X Days :
    (\A n \in DOMAIN Export : BpsExact(Export[n].amount, PercentBps)) =>
    settle(Export)[key].gross = SumOver([n \in DOMAIN Export |-> Export[n].amount],
        {n \in DOMAIN Export : Export[n].key = key /\ Export[n].type = "charge.succeeded"})
=============================================================================
