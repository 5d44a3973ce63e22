--------------------------- MODULE DiscrepancyStore ---------------------------
(* store.py: the discrepancies table and its operations, as functions from    *)
(* one state of the table to the next.  A row keeps its detection fields      *)
(* (which version of the facts they describe), whether the last run saw it,   *)
(* its triage note and whether a person resolved it.                          *)
EXTENDS Naturals, FiniteSets

CONSTANTS
    Ids,         \* discrepancy ids ("TYPE:txn")
    Versions,    \* the detection fields an id can be reported with
    NoVersion,   \* the table has no such row
    NoNote,      \* no triage note
    EmptyNote    \* a note whose root cause is the empty string

ASSUME StoreAssumption ==
    /\ IsFiniteSet(Ids)
    /\ NoVersion \notin Versions
    /\ {NoNote, EmptyNote} \cap Versions = {}

\* A note is the version of the detection fields it was written about.
Notes == Versions \cup {NoNote, EmptyNote}

Rows == [det : Versions \cup {NoVersion}, active : BOOLEAN, note : Notes, resolved : BOOLEAN]
NoRow == [det |-> NoVersion, active |-> FALSE, note |-> NoNote, resolved |-> FALSE]

Tables == [Ids -> Rows]
EmptyTable == [i \in Ids |-> NoRow]

Present(table) == {i \in Ids : table[i].det # NoVersion}
ActiveIds(table) == {i \in Present(table) : table[i].active}

\* What a reconciliation reports: for each id reported its detection fields,
\* NoVersion for the others, and the ids it lists more than once.
Reports == [det : [Ids -> Versions \cup {NoVersion}], twice : SUBSET Ids]
Seen(report) == {i \in Ids : report.det[i] # NoVersion}

(* sync_discrepancies, given what it read before it started to write.         *)

\* An INSERT meets its own primary key: the row appeared since the read, or
\* the report lists a new id twice.  The whole transaction is rolled back.
SyncCollides(table, existing, report) ==
    \/ (Seen(report) \ existing.ids) \cap Present(table) # {}
    \/ (Seen(report) \ existing.ids) \cap report.twice # {}

\* mutant: INSERT OR REPLACE
SyncedReplaces(table, existing, report) ==
    [i \in Ids |-> IF i \in Seen(report)
                     THEN [det |-> report.det[i], active |-> TRUE, note |-> NoNote, resolved |-> FALSE]
                   ELSE table[i]]
Synced(table, existing, report) ==
    [i \in Ids |->
        IF i \in Seen(report)
          THEN [det |-> report.det[i], active |-> TRUE,
                note |-> table[i].note, resolved |-> table[i].resolved]
        ELSE IF i \in existing.active
          THEN [det |-> table[i].det, active |-> FALSE,
                note |-> table[i].note, resolved |-> table[i].resolved]
        ELSE table[i]]

\* mutant: nothing is remembered as active
ExistingForgets(table) == [ids |-> Present(table), active |-> {}]
Existing(table) == [ids |-> Present(table), active |-> ActiveIds(table)]

\* pending_triage: active rows without a (truthy) root cause
Pending(table) == {i \in ActiveIds(table) : table[i].note \in {NoNote, EmptyNote}}

\* save_triage, resolve and reopen: one UPDATE each, a no-op on an unknown id
Triaged(table, i, note) ==
    IF i \in Present(table) THEN [table EXCEPT ![i].note = note] ELSE table
Resolved(table, i) ==
    IF i \in Present(table) THEN [table EXCEPT ![i].resolved = TRUE] ELSE table
Reopened(table, i) ==
    IF i \in Present(table) THEN [table EXCEPT ![i].resolved = FALSE] ELSE table
=============================================================================
