----------------------------- MODULE MCIndiaStack -----------------------------
(* The parts of indiastack/.  The two services share the threads and the clock *)
(* and nothing else, and the checks of identifiers and of statements share    *)
(* nothing with anybody: each behaviour uses one part, and the others stay as *)
(* they began.                                                                *)
EXTENDS UpiCollect, EnachMandate, Verhoeff, Statement, TLC

CONSTANTS w1, w2, c1, c2, k1, s1, s2, m1, r1, r2

VARIABLE used   \* the part this behaviour uses

StackInit ==
    /\ Init /\ MandateInit /\ IdInit /\ StatementInit
    /\ used \in {"upi", "enach", "identity", "statement"}

collectVars == <<slot, made, rec, byKey, pc, svc, at, asked>>
onlyMandateVars == <<mandates, mpc, wanted>>

UpiNext == used = "upi" /\ Next /\ UNCHANGED <<onlyMandateVars, idVars, statementVars, used>>
EnachNext == used = "enach" /\ MandateNext /\ UNCHANGED <<collectVars, idVars, statementVars, used>>
IdentityNext == used = "identity" /\ IdNext /\ UNCHANGED <<vars, mandateVars, statementVars, used>>
StatementsNext == used = "statement" /\ StatementNext /\ UNCHANGED <<vars, mandateVars, idVars, used>>

\* a number and a statement may end at any length
Ends == used \in {"identity", "statement"} /\ UNCHANGED <<vars, mandateVars, idVars, statementVars, used>>

StackSpec ==
    /\ StackInit
    /\ [][UpiNext \/ EnachNext \/ IdentityNext \/ StatementsNext \/ Ends]_<<vars, mandateVars, idVars, statementVars, used>>

Symmetry == Permutations(Threads) \cup Permutations(Collects)
            \cup Permutations(Services) \cup Permutations(Refs)

\* a table of the code as a function from 0
From0(row) == [i \in 0 .. Len(row) - 1 |-> row[i + 1]]
Table(rows) == [i \in 0 .. Len(rows) - 1 |-> From0(rows[i + 1])]

TableD == Table(<<
    <<0, 1, 2, 3, 4, 5, 6, 7, 8, 9>>, <<1, 2, 3, 4, 0, 6, 7, 8, 9, 5>>, <<2, 3, 4, 0, 1, 7, 8, 9, 5, 6>>,
    <<3, 4, 0, 1, 2, 8, 9, 5, 6, 7>>, <<4, 0, 1, 2, 3, 9, 5, 6, 7, 8>>, <<5, 9, 8, 7, 6, 0, 4, 3, 2, 1>>,
    <<6, 5, 9, 8, 7, 1, 0, 4, 3, 2>>, <<7, 6, 5, 9, 8, 2, 1, 0, 4, 3>>, <<8, 7, 6, 5, 9, 3, 2, 1, 0, 4>>,
    <<9, 8, 7, 6, 5, 4, 3, 2, 1, 0>> >>)
TableP == Table(<<
    <<0, 1, 2, 3, 4, 5, 6, 7, 8, 9>>, <<1, 5, 7, 6, 2, 8, 3, 0, 9, 4>>, <<5, 8, 0, 3, 7, 9, 6, 1, 4, 2>>,
    <<8, 9, 1, 6, 0, 4, 3, 5, 2, 7>>, <<9, 4, 5, 3, 1, 2, 6, 8, 7, 0>>, <<4, 2, 8, 6, 5, 7, 3, 9, 0, 1>>,
    <<2, 7, 9, 3, 8, 0, 6, 4, 1, 5>>, <<7, 0, 4, 6, 9, 1, 3, 2, 5, 8>> >>)
TableINV == From0(<<0, 4, 3, 2, 1, 5, 6, 7, 8, 9>>)

\* a salary, an instalment, one returned unpaid, and a transfer
KindsOfRow == {
    [says |-> {"salary"}, debit |-> 0, credit |-> 2], [says |-> {"emi"}, debit |-> 1, credit |-> 0],
    [says |-> {"emi", "bounce"}, debit |-> 1, credit |-> 0], [says |-> {}, debit |-> 0, credit |-> 1]}
=============================================================================
