------------------------------ MODULE EventsCsv ------------------------------
(* The file between the ledger and the settlement engine: exportCSV of         *)
(* server.go writes a row for each event, Csv.scala reads the rows.  A text is *)
(* a sequence of words and of the signs that mean something to either side.   *)
EXTENDS Integers, SequencesExt

CONSTANTS
    Signs,      \* bound: what a currency is made of, the one free text of a row
    MaxSigns,   \* bound: its length
    MaxLines    \* bound: the rows of a file

ASSUME FileAssumption == MaxSigns \in Nat /\ MaxLines \in Nat

VARIABLES
    written,   \* the rows: events, and lines no event was written as
    file       \* its lines

csvVars == <<written, file>>

Comma == ","
Quote == "quote"
NewLine == "end of line"

Currencies == SeqOf(Signs, MaxSigns) \ {<<>>}
RowTypes == {"charge.succeeded", "charge.refunded"}

Row(type, currency) == [type |-> type, currency |-> currency]

-----------------------------------------------------------------------------
(* exportCSV, with the csv.Writer of Go's library                             *)

Has(s, x) == \E i \in DOMAIN s : s[i] = x
Quoted(field) == <<Quote>> \o FlattenSeq([i \in DOMAIN field |->
                     IF field[i] = Quote THEN <<Quote, Quote>> ELSE <<field[i]>>]) \o <<Quote>>
Field(field) == IF \E sign \in {Comma, Quote, NewLine} : Has(field, sign) THEN Quoted(field) ELSE field

\* the lines of a record: one, and one more for each end of line in a field
RecordLines(fields) ==
    LET text == FlattenSeq([i \in DOMAIN fields |->
                    (IF i = 1 THEN <<>> ELSE <<Comma>>) \o Field(fields[i])])
        ends[i \in 0 .. Len(text)] ==
            IF i = 0 THEN <<<<>>>>
            ELSE LET out == ends[i - 1] IN
                 IF text[i] = NewLine THEN Append(out, <<>>)
                 ELSE [out EXCEPT ![Len(out)] = Append(@, text[i])]
    IN ends[Len(text)]

Header == [i \in 1 .. 7 |->
    <<(<<"event_id", "type", "charge_id", "merchant_id", "amount", "currency", "created_at">>)[i]>>]
Fields(type, amount, currency, at) == <<<<"evt">>, <<type>>, <<"ch">>, <<"m">>, <<amount>>, currency, <<at>>>>

\* records parseRow rejects
Spoilt == {Fields("charge.disputed", "1", <<"INR">>, "at"), Fields("charge.refunded", "0", <<"INR">>, "at"),
           Fields("charge.refunded", "1.50", <<"INR">>, "at"), Fields("charge.refunded", "1", <<"INR">>, "-"),
           Tail(Header)}

FileInit == written = <<>> /\ file = RecordLines(Header)

Write(row, lines) == written' = Append(written, row) /\ file' = file \o lines

FileNext ==
    /\ Len(written) < MaxLines
    /\ \/ \E type \in RowTypes, currency \in Currencies :
             Write(Row(type, currency), RecordLines(Fields(type, "1", currency, "at")))
       \/ \E fields \in Spoilt : Write(Row("spoilt", <<>>), RecordLines(fields))
       \/ Write(Row("blank", <<>>), <<<<>>>>)

FileSpec == FileInit /\ [][FileNext]_csvVars

-----------------------------------------------------------------------------
(* Csv.scala                                                                  *)

\* mutant: a doubled quote ends the quoted part and begins the next
SkipsNever(line, i) == FALSE
Skips(line, i) == i < Len(line) /\ line[i + 1] = Quote

Read(line, s, i) ==
    IF s.skip THEN [s EXCEPT !.skip = FALSE]
    ELSE IF s.quoted THEN
        IF line[i] = Quote /\ Skips(line, i) THEN [s EXCEPT !.cur = Append(@, Quote), !.skip = TRUE]
        ELSE IF line[i] = Quote THEN [s EXCEPT !.quoted = FALSE]
        ELSE [s EXCEPT !.cur = Append(@, line[i])]
    ELSE IF line[i] = Quote THEN [s EXCEPT !.quoted = TRUE]
    ELSE IF line[i] = Comma THEN [s EXCEPT !.out = Append(@, s.cur), !.cur = <<>>]
    ELSE [s EXCEPT !.cur = Append(@, line[i])]

splitLine(line) ==
    LET read[i \in 0 .. Len(line)] ==
            IF i = 0 THEN [out |-> <<>>, cur |-> <<>>, quoted |-> FALSE, skip |-> FALSE]
            ELSE Read(line, read[i - 1], i)
        last == read[Len(line)]
    IN Append(last.out, last.cur)

Rejected == Row("none", <<>>)
parseRow(f) ==
    IF \/ Len(f) # 7
       \/ f[5] # <<"1">>
       \/ f[2] \notin {<<"charge.succeeded">>, <<"charge.refunded">>}
       \/ f[7] # <<"at">>
    THEN Rejected
    ELSE Row(f[2][1], f[6])

\* what is read of each line, by the line's number: events, and lines that are bad
parseEvents(lines) ==
    LET kept == {n \in DOMAIN lines : lines[n] # <<>>}
        tail == kept \ {Min(kept)}
        bad == {n \in tail : parseRow(splitLine(lines[n])) = Rejected}
    IN IF kept = {} THEN [events |-> <<>>, bad |-> {}]
       ELSE IF splitLine(lines[Min(kept)]) # Header THEN [events |-> <<>>, bad |-> {1}]
       ELSE [events |-> [n \in tail \ bad |-> parseRow(splitLine(lines[n]))], bad |-> bad]

-----------------------------------------------------------------------------
(* Properties.                                                                *)

\* Type invariant of the file.
FileTypeOK ==
    /\ written \in Seq([type : RowTypes \cup {"spoilt", "blank"}, currency : Currencies \cup {<<>>}])
    /\ Len(written) < Len(file) /\ Len(written) <= MaxLines

\* the lines of the rows of some types, after the header's
LinesOf(types) == {i + 1 : i \in {k \in DOMAIN written : written[k].type \in types}}

\* The engine reads exactly the events the ledger wrote, each from its own line,
\* whatever their currencies look like, and names the line of every row it skips.
ReadAsWritten ==
    /\ parseEvents(file).events = [n \in LinesOf(RowTypes) |-> written[n - 1]]
    /\ parseEvents(file).bad = LinesOf({"spoilt"})
=============================================================================
