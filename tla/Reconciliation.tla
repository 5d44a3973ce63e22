---------------------------- MODULE Reconciliation ----------------------------
(* reconcile.py: the rules that compare the platform's settlements with the   *)
(* bank's ledger.  Rows arrive in the two files in any order; every pair of   *)
(* files they can make is reconciled.  Amounts are counted in one unit and    *)
(* times in hours; the wording and the severity of a report are left out.     *)
EXTENDS Integers, Sequences, Sums

CONSTANTS
    Txns,      \* transaction ids
    Amounts,   \* bound: the amounts of rows
    Hours,     \* bound: the times of rows
    tol,       \* amount_tolerance_inr
    late_h,    \* late_threshold_hours
    MaxRows    \* bound: the rows of each file

ASSUME RulesAssumption ==
    /\ Amounts \subseteq Int /\ Hours \subseteq Int
    /\ tol \in Nat /\ late_h \in Nat
    /\ MaxRows \in Nat

VARIABLES platform, bank   \* the rows of the two files

fileVars == <<platform, bank>>

FileRows == [txn : Txns, amount : Amounts, at : Hours]

FilesInit == platform = <<>> /\ bank = <<>>

Settle(row) == Len(platform) < MaxRows /\ platform' = Append(platform, row) /\ UNCHANGED bank
Credit(row) == Len(bank) < MaxRows /\ bank' = Append(bank, row) /\ UNCHANGED platform

FilesNext == \E row \in FileRows : Settle(row) \/ Credit(row)

FilesSpec == FilesInit /\ [][FilesNext]_fileVars

-----------------------------------------------------------------------------
(* reconcile                                                                  *)

RowsOf(file, t) == {i \in DOMAIN file : file[i].txn = t}
Total(file, is) == SumOver([i \in DOMAIN file |-> file[i].amount], is)
Abs(n) == IF n < 0 THEN -n ELSE n

\* a report, and the number of the row it is made of where there may be several
Report(type, t, delta, delay, row) ==
    [type |-> type, txn |-> t, delta |-> delta, delay |-> delay, row |-> row]

dup_txns == {t \in Txns : Cardinality(RowsOf(bank, t)) > 1}

\* the amount of the first platform row, 0 when there is none
Expected(t) == IF RowsOf(platform, t) = {} THEN 0 ELSE platform[Min(RowsOf(platform, t))].amount

Duplicates ==
    {Report("DUPLICATE_IN_BANK", t, Total(bank, RowsOf(bank, t)) - Expected(t), 0, 0) : t \in dup_txns}

MissingInBank ==
    {Report("MISSING_IN_BANK", platform[i].txn, -platform[i].amount, 0, i) :
        i \in {j \in DOMAIN platform : RowsOf(bank, platform[j].txn) = {}}}

MissingInPlatform ==
    {Report("MISSING_IN_PLATFORM", bank[i].txn, bank[i].amount, 0, i) :
        i \in {j \in DOMAIN bank : RowsOf(platform, bank[j].txn) = {}}}

\* mutant: duplicates are compared as well
MatchesAll == {m \in (DOMAIN platform) \X (DOMAIN bank) : platform[m[1]].txn = bank[m[2]].txn}
Matches == {m \in (DOMAIN platform) \X (DOMAIN bank) :
               platform[m[1]].txn = bank[m[2]].txn /\ bank[m[2]].txn \notin dup_txns}

Delta(m) == bank[m[2]].amount - platform[m[1]].amount
Delay(m) == bank[m[2]].at - platform[m[1]].at

Off(m) == Abs(Delta(m)) > tol

Mismatches ==
    {Report("AMOUNT_MISMATCH", platform[m[1]].txn, Delta(m), Delay(m), m[1]) : m \in {n \in Matches : Off(n)}}

\* mutant: a late row is reported as late whatever its amount
LateAnyway == {Report("TIMING_MISMATCH", platform[m[1]].txn, Delta(m), Delay(m), m[1]) :
                  m \in {n \in Matches : Delay(n) > late_h}}
Late == {Report("TIMING_MISMATCH", platform[m[1]].txn, Delta(m), Delay(m), m[1]) :
            m \in {n \in Matches : ~Off(n) /\ Delay(n) > late_h}}

reconcile == Duplicates \cup MissingInBank \cup MissingInPlatform \cup Mismatches \cup Late

-----------------------------------------------------------------------------
(* Properties, over every pair of files.                                      *)

Types == {"AMOUNT_MISMATCH", "MISSING_IN_BANK", "MISSING_IN_PLATFORM", "DUPLICATE_IN_BANK", "TIMING_MISMATCH"}
ReportRecords == [type : Types, txn : Txns, delta : Int, delay : Int, row : 0 .. MaxRows]

\* Type invariant of the files and the reports.
FilesTypeOK == platform \in Seq(FileRows) /\ bank \in Seq(FileRows) /\ reconcile \subseteq ReportRecords

Once(file, t) == Cardinality(RowsOf(file, t)) = 1
Agrees(t) == \A i \in RowsOf(platform, t), j \in RowsOf(bank, t) :
    /\ platform[i].amount - tol <= bank[j].amount /\ bank[j].amount <= platform[i].amount + tol
    /\ bank[j].at <= platform[i].at + late_h
Known(t) == RowsOf(platform, t) \cup RowsOf(bank, t) # {}

\* What is reported, said without the joins: a transaction of either file is
\* left out exactly when it was settled, was credited once, and every row of
\* the platform agrees with that credit; and one that each file has at most
\* once is reported at most once, so that its report's id is its own.
ReportedUnlessInOrder == \A t \in Txns : Known(t) => LET reports == {r \in reconcile : r.txn = t} IN
    /\ reports = {} <=> RowsOf(platform, t) # {} /\ Once(bank, t) /\ Agrees(t)
    /\ Cardinality(RowsOf(platform, t)) <= 1 /\ Cardinality(RowsOf(bank, t)) <= 1 =>
         Cardinality(reports) <= 1

Reported(ts) == SumOver([r \in reconcile |-> r.delta], {r \in reconcile : r.txn \in ts})
Plain == {t \in Txns : Cardinality(RowsOf(platform, t)) <= 1
                       /\ (Cardinality(RowsOf(bank, t)) > 1 => RowsOf(platform, t) # {})}
TotalOf(file) == Total(file, {i \in DOMAIN file : file[i].txn \in Plain})

\* The deltas reported explain the whole gap between the bank and the platform,
\* up to the tolerance allowed to each match that is not reported, leaving out
\* transactions the platform settled twice or credited twice out of nowhere.
DeltasExplainTheGap ==
    Abs(TotalOf(bank) - TotalOf(platform) - Reported(Plain))
        <= tol * Cardinality({t \in Plain : Known(t) /\ \A r \in reconcile : r.txn # t})

-----------------------------------------------------------------------------
(* What the documents or comments say of this code and the code does not do. *)

\* "Amount mismatches (platform and bank amounts don't agree)": what is not
\* reported was settled and credited with amounts that agree.
SilenceMeansAgreement == \A t \in Txns : (\A r \in reconcile : r.txn # t) =>
    Abs(Total(bank, RowsOf(bank, t)) - Total(platform, RowsOf(platform, t))) <= tol
=============================================================================
