--------------------------- MODULE MCSettleGuardApp ---------------------------
(* Two discrepancies, and the reports the rules and data can give for them.   *)
EXTENDS SettleGuardApp, TLC

CONSTANTS a, b, v1, v2, r1, r2, j1, j2

Says(x, y, twice) ==
    [det |-> [i \in {a, b} |-> IF i = a THEN x ELSE y], twice |-> twice]

\* the first alone; both, the first with other details; and both as they were.
\* One of the two is from a bank credit booked twice without a platform row,
\* which lists its id twice: runs fail on it, if it is not in the table, also
\* while the other waits for triage
SomeWorlds == {Says(v1, NoVersion, {}), Says(v2, v1, {a}), Says(v1, v1, {b})}

\* the same with one version of the details, which says as much of what waits
OneVersion == {Says(v1, NoVersion, {}), Says(v1, v1, {}), Says(v1, v1, {b})}

\* bound: at most three of the request threads and the jobs are at work at once
ThreeAtWork ==
    Cardinality({w \in Threads : pc[w] # "idle"}) + Cardinality({j \in Jobs : jpc[j] # "off"}) <= 3

Symmetry == Permutations(Jobs) \cup Permutations(Reconcilers)
=============================================================================
