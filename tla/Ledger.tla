-------------------------------- MODULE Ledger --------------------------------
(* payments-core/ledger/ledger.go: the double-entry ledger.  Every operation  *)
(* runs under one mutex, so each is one action; money is an int64 count of    *)
(* minor units, and sums wrap around as int64 sums do.                        *)
EXTENDS Integers, Sequences, Sums

CONSTANTS
    ChargeIds,     \* the ids newID can give charges
    Merchants,     \* valid merchant ids; payable:<merchant> is named by m
    NoMerchant,    \* an invalid merchant id; no charge has the id yet
    CustomerFunds, \* the account customer_funds
    Half,          \* int64 counts from -Half to Half - 1 (2^63 in the code)
    ChargeCap,     \* the largest amount of a charge (1_000_000_000_00)
    Amounts,       \* bound: the amounts requests ask for
    MaxEvents      \* bound: the length of the history

ASSUME LedgerAssumption ==
    /\ NoMerchant \notin Merchants /\ CustomerFunds \notin Merchants
    /\ Half \in Nat \ {0}
    /\ ChargeCap \in Nat /\ ChargeCap < Half
    /\ Amounts \subseteq -Half .. Half - 1
    /\ MaxEvents \in Nat

Int64 == -Half .. Half - 1
Wrap(n) == ((n + Half) % (2 * Half)) - Half

VARIABLES
    charges,  \* charges[c]: merchant, amount and amount refunded of charge c
    journal,  \* entries: the legs posted, with the number of their transaction
    events    \* the audit record the settlement engine reads

ledger == <<charges, journal, events>>

NoCharge == [merchant |-> NoMerchant, amount |-> 0, refunded |-> 0]
Exists(c) == charges[c].merchant # NoMerchant

LedgerInit ==
    /\ charges = [c \in ChargeIds |-> NoCharge]
    /\ journal = <<>>
    /\ events = <<>>

\* The transaction an operation posts has the number of the event it records.
Latest == Len(events)
Leg(account, amount) == [tx |-> Latest + 1, account |-> account, amount |-> amount]
\* mutant: both legs have the same sign
PostTwice(to, from, amount) ==
    journal' = journal \o <<Leg(to, amount), Leg(from, amount)>>
Post(to, from, amount) ==
    journal' = journal \o <<Leg(to, amount), Leg(from, -amount)>>

Record(type, c, m, amount) ==
    /\ Latest < MaxEvents
    /\ events' = Append(events, [type |-> type, charge |-> c, merchant |-> m, amount |-> amount])

ChargeInvalid(m, amount) == amount <= 0 \/ amount > ChargeCap \/ m \notin Merchants

CreateCharge(c, m, amount) ==
    /\ ~ChargeInvalid(m, amount)
    /\ ~Exists(c)
    /\ charges' = [charges EXCEPT ![c] = [merchant |-> m, amount |-> amount, refunded |-> 0]]
    /\ Post(CustomerFunds, m, amount)
    /\ Record("charge.succeeded", c, m, amount)

RefundInvalid(amount) == amount <= 0
\* mutant: each refund is compared with the charge on its own
RefundAloneTooLarge(c, amount) == amount > charges[c].amount
RefundTooLarge(c, amount) == Wrap(charges[c].refunded + amount) > charges[c].amount

Refund(c, amount) ==
    /\ ~RefundInvalid(amount)
    /\ Exists(c)
    /\ ~RefundTooLarge(c, amount)
    /\ charges' = [charges EXCEPT ![c] = [merchant |-> charges[c].merchant,
                                          amount |-> charges[c].amount,
                                          refunded |-> Wrap(charges[c].refunded + amount)]]
    /\ Post(charges[c].merchant, CustomerFunds, amount)
    /\ Record("charge.refunded", c, charges[c].merchant, amount)

LedgerNext ==
    \E c \in ChargeIds, amount \in Amounts :
        \/ \E m \in Merchants \cup {NoMerchant} : CreateCharge(c, m, amount)
        \/ Refund(c, amount)

LedgerSpec == LedgerInit /\ [][LedgerNext]_ledger

-----------------------------------------------------------------------------
(* What the ledger reports.                                                   *)

AmountOf(legs) == SumOver([n \in DOMAIN journal |-> journal[n].amount], legs)

Balance(m) == Wrap(-AmountOf({n \in DOMAIN journal : journal[n].account = m}))

Verify ==
    /\ AmountOf(DOMAIN journal) = 0
    /\ \A tx \in 1 .. Latest : AmountOf({n \in DOMAIN journal : journal[n].tx = tx}) = 0

-----------------------------------------------------------------------------
(* Properties.                                                                *)

EventTypes == {"charge.succeeded", "charge.refunded"}
ChargeRecords == [merchant : Merchants \cup {NoMerchant}, amount : 0 .. ChargeCap, refunded : Int64]
Accounts == Merchants \cup {CustomerFunds}
Legs == [tx : Nat, account : Accounts, amount : Int]
EventRecords == [type : EventTypes, charge : ChargeIds, merchant : Merchants, amount : Amounts]

\* Type invariant of the ledger.
LedgerTypeOK ==
    /\ charges \in [ChargeIds -> ChargeRecords]
    /\ journal \in Seq(Legs)
    /\ events \in Seq(EventRecords)

RefundsOf(c) == {n \in DOMAIN events : events[n].type = "charge.refunded" /\ events[n].charge = c}
EventAmounts(ns) == SumOver([n \in DOMAIN events |-> events[n].amount], ns)

\* "Two concurrent refunds can never together exceed the original amount":
\* the refunds the audit record shows of a charge never exceed it, and they
\* are what the charge says was refunded.
RefundsBounded ==
    \A c \in ChargeIds :
        /\ EventAmounts(RefundsOf(c)) <= charges[c].amount
        /\ EventAmounts(RefundsOf(c)) = charges[c].refunded

\* A charge never shows a negative refund or one above its amount.
RefundedInRange ==
    \A c \in ChargeIds : 0 <= charges[c].refunded /\ charges[c].refunded <= charges[c].amount

\* The two places that hold a merchant's money agree, as int64 sums do: the
\* journal (which balances, in total and in each transaction) and the charges.
BooksAgree ==
    /\ Verify
    /\ \A m \in Merchants :
        Balance(m) = Wrap(SumOver([c \in ChargeIds |-> charges[c].amount - charges[c].refunded],
                                  {c \in ChargeIds : charges[c].merchant = m}))

\* The audit record can be read on its own: every event is of a charge that
\* exists and belongs to the merchant the event names, and no refund comes
\* before its charge, which is the order in which settlement folds them.
EventsAreOfCharges ==
    \A n \in DOMAIN events :
        /\ Exists(events[n].charge)
        /\ charges[events[n].charge].merchant = events[n].merchant
        /\ events[n].type = "charge.refunded" =>
             \E k \in 1 .. n - 1 : /\ events[k].type = "charge.succeeded"
                                   /\ events[k].charge = events[n].charge
=============================================================================
