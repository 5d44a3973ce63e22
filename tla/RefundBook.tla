----------------------------- MODULE RefundBook -----------------------------
(* What a refund ledger promises, whatever it is built from: an account is   *)
(* opened once with the amount that was paid, and every refund request adds  *)
(* its own amount to its own account at most once and never beyond what was  *)
(* paid.  The webhook receiver (webhooks/service.py) implements it with      *)
(* event ids as requests.                                                    *)
EXTENDS Integers

CONSTANTS
    Accounts,   \* the accounts that can be opened
    Requests,   \* the refund requests that can be made
    Limits,     \* the amounts an account can be opened with
    Target,     \* Target[r]: the account request r refunds
    Amount      \* Amount[r]: what request r refunds

VARIABLES
    paid,       \* paid[a]: the amount a was opened with, 0 while it is not open
    refunded,   \* refunded[a]: the total refunded on a
    applied     \* the requests that took effect

bookVars == <<paid, refunded, applied>>

Init ==
    /\ paid = [a \in Accounts |-> 0]
    /\ refunded = [a \in Accounts |-> 0]
    /\ applied = {}

Open(a) ==
    /\ paid[a] = 0
    /\ \E n \in Limits : paid' = [paid EXCEPT ![a] = n]
    /\ UNCHANGED <<refunded, applied>>

Refund(r) ==
    /\ r \notin applied
    /\ paid[Target[r]] > 0
    /\ refunded[Target[r]] + Amount[r] <= paid[Target[r]]
    /\ refunded' = [refunded EXCEPT ![Target[r]] = @ + Amount[r]]
    /\ applied' = applied \cup {r}
    /\ UNCHANGED paid

Next == (\E a \in Accounts : Open(a)) \/ (\E r \in Requests : Refund(r))

Spec == Init /\ [][Next]_bookVars
=============================================================================
