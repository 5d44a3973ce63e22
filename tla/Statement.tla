------------------------------ MODULE Statement ------------------------------
(* indiastack/statement.py: an account books transactions, the bank lists them *)
(* in a file in an order of its own, and analyze draws its figures from it.    *)
(* Averages are left out: they divide the sums here by the number of months.   *)
EXTENDS Integers, SequencesExt, Sums

CONSTANTS
    Opening,      \* the account's balance before the first row
    Dates,        \* the dates rows can have are 1 .. Dates
    DaysAMonth,   \* how many of them make a month
    Kinds,        \* what a row can be: says (which patterns its narration matches), debit, credit
    MaxRows       \* bound on the rows

ASSUME StatementAssumption ==
    /\ Opening \in Int /\ Dates \in Nat /\ DaysAMonth \in Nat \ {0} /\ MaxRows \in Nat
    /\ Kinds \subseteq [says : SUBSET {"salary", "emi", "bounce"}, debit : Nat, credit : Nat]

VARIABLES
    account,   \* the rows in the order they were booked
    file       \* the rows in the order of the file

statementVars == <<account, file>>

StatementInit == account = <<>> /\ file = <<>>

Balance(rows) == IF rows = <<>> THEN Opening ELSE Last(rows).balance

Row == [date : 1 .. Dates, says : SUBSET {"salary", "emi", "bounce"},
        debit : Nat, credit : Nat, balance : Int]

\* the bank may list dates in any order, and the rows of one date as they were booked
Book(kind, date, place) ==
    /\ Len(account) < MaxRows
    /\ \A i \in DOMAIN account : account[i].date <= date
    /\ \A i \in DOMAIN file : file[i].date = date => i < place
    /\ LET row == [date |-> date, says |-> kind.says, debit |-> kind.debit, credit |-> kind.credit,
                   balance |-> Balance(account) + kind.credit - kind.debit]
       IN /\ account' = Append(account, row)
          /\ file' = InsertAt(file, place, row)

StatementNext == \E kind \in Kinds, date \in 1 .. Dates, place \in 1 .. Len(file) + 1 : Book(kind, date, place)

StatementSpec == StatementInit /\ [][StatementNext]_statementVars

-----------------------------------------------------------------------------
(* parse_csv and analyze                                                      *)

\* mutant: the sort takes the rows of one date the other way round
SortedBackwards(rows, i, j) == rows[i].date < rows[j].date \/ (rows[i].date = rows[j].date /\ i >= j)
Sorted(rows, i, j) == rows[i].date < rows[j].date \/ (rows[i].date = rows[j].date /\ i <= j)

parse_csv(rows) ==
    [k \in DOMAIN rows |->
        rows[CHOOSE j \in DOMAIN rows : Cardinality({i \in DOMAIN rows : Sorted(rows, i, j)}) = k]]

Month(row) == (row.date - 1) \div DaysAMonth

Of(rows, m) == {i \in DOMAIN rows : Month(rows[i]) = m}
Credits(rows, is) == SumOver([i \in DOMAIN rows |-> rows[i].credit], is)
Debits(rows, is) == SumOver([i \in DOMAIN rows |-> rows[i].debit], is)

Obligation(row) == IF "emi" \in row.says /\ "bounce" \notin row.says THEN row.debit ELSE 0

analyze(rows) ==
    LET months == {Month(rows[i]) : i \in DOMAIN rows}
        salaries == {Month(rows[i]) : i \in {j \in DOMAIN rows : rows[j].credit > 0 /\ "salary" \in rows[j].says}}
        n == Cardinality(months)
    IN [monthly |-> [m \in months |-> [credits |-> Credits(rows, Of(rows, m)), debits |-> Debits(rows, Of(rows, m)),
                                       closing |-> rows[Max(Of(rows, m))].balance]],
        min_balance |-> Min({rows[i].balance : i \in DOMAIN rows}),
        bounce_count |-> Cardinality({i \in DOMAIN rows : "bounce" \in rows[i].says}),
        salary_detected |-> IF n >= 2 THEN Cardinality(salaries) >= Max({2, n - 1}) ELSE salaries # {},
        salary_months |-> salaries,
        recurring_obligations_total |-> SumOver([i \in DOMAIN rows |-> Obligation(rows[i])], DOMAIN rows)]

-----------------------------------------------------------------------------
(* Properties.                                                                *)

\* Type invariant of the account and its file, which has the same rows.
StatementTypeOK ==
    /\ account \in Seq(Row) /\ file \in Seq(Row)
    /\ Len(file) = Len(account) /\ Len(account) <= MaxRows
    /\ \A i \in DOMAIN account : \E j \in DOMAIN file : file[j] = account[i]

\* The figures are the account's, in whatever order the file lists its dates:
\* each month closes with what the months up to it leave, and no figure changes.
FiguresAreTheAccounts == file # <<>> =>
    LET found == analyze(parse_csv(file))
        months == found.monthly
    IN /\ found = analyze(account)
       /\ \A m \in DOMAIN months : months[m].closing =
            Opening + SumOver([k \in DOMAIN months |-> months[k].credits - months[k].debits],
                              {k \in DOMAIN months : k <= m})
=============================================================================
