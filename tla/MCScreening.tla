----------------------------- MODULE MCScreening -----------------------------
(* A screening scores names and asks the vendors between two statements of    *)
(* ScreeningCases and shares nothing else with them, so each behaviour is of  *)
(* one part, and the others stay as they began.  The fairness is of the       *)
(* vendors' part: what must end is a screening of vendors.                    *)
EXTENDS ScreeningCases, VendorOrchestrator, NameMatcher, TLC

CONSTANTS k1, s1, s2, s3, w1, w2, v2

VARIABLE part   \* the part this behaviour is of

ScreeningInit == Init /\ VendorInit /\ NamesInit /\ part \in {"cases", "vendors", "names"}

CasesPart == part = "cases" /\ Next /\ UNCHANGED <<vendorVars, nameVars, part>>
VendorsPart == part = "vendors" /\ VendorNext /\ UNCHANGED <<vars, nameVars, part>>
NamesPart == part = "names" /\ NamesNext /\ UNCHANGED <<vars, vendorVars, part>>

\* names may end at any length
NamesEnd == part = "names" /\ UNCHANGED <<vars, vendorVars, nameVars, part>>

ScreeningSpec ==
    /\ ScreeningInit
    /\ [][CasesPart \/ VendorsPart \/ NamesPart \/ NamesEnd]_<<vars, vendorVars, nameVars, part>>
    /\ VendorFairness
=============================================================================
