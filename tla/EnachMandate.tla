----------------------------- MODULE EnachMandate -----------------------------
(* indiastack/enach.py: eNACH mandates and the debits presented under them.   *)
(* transition and present_debit first call get, which applies expiry, release *)
(* the lock, and take it again for the change itself.                         *)
EXTENDS IndiaStackClock, Sequences

CONSTANTS
    Mandates,   \* the ids uuid4 can give
    NoMandate,  \* no mandate
    Refs,       \* debit references
    Amounts,    \* amounts of debits and caps of mandates
    Notice,     \* PRE_DEBIT_NOTICE_SECONDS
    Valid       \* how long a mandate is valid, in seconds

ASSUME MandateAssumption ==
    /\ NoMandate \notin Mandates
    /\ Amounts \subseteq Int
    /\ Notice \in Nat /\ Valid \in Nat

VARIABLES
    mandates,  \* _m, with NoMandateRecord for the ids not given yet
    mpc,       \* mpc[w]: where thread w is
    wanted     \* wanted[w]: the mandate thread w has looked at, and what it wants of it

mandateVars == <<mandates, now, mpc, wanted>>

MANDATE_TRANSITIONS ==
    [INITIATED |-> {"ACTIVE", "REJECTED"},
     ACTIVE |-> {"PAUSED", "CANCELLED", "EXPIRED"},
     PAUSED |-> {"ACTIVE", "CANCELLED", "EXPIRED"},
     REJECTED |-> {}, CANCELLED |-> {}, EXPIRED |-> {}]
_ACTIONS == {"ACTIVE", "PAUSED", "CANCELLED"}   \* activate, pause, cancel
Caps == {a \in Amounts : a > 0}

NoMandateRecord == [status |-> "none", max_amount |-> 0, expires_at |-> 0, debits |-> <<>>]
Transition(m, to) == [mid |-> m, to |-> to]
Debit(m, amount, notified, ref) == [mid |-> m, amount |-> amount, notified |-> notified, ref |-> ref]
Nothing == Transition(NoMandate, "none")

MandateInit ==
    /\ mandates = [m \in Mandates |-> NoMandateRecord]
    /\ now = 0
    /\ mpc = [w \in Threads |-> "idle"]
    /\ wanted = [w \in Threads |-> Nothing]

MandateTick ==
    /\ ClockTicks
    /\ UNCHANGED <<mandates, mpc, wanted>>

Expiry == now + Valid

CreateMandate(w, m, cap) ==
    /\ mpc[w] = "idle"
    /\ mandates[m] = NoMandateRecord
    /\ mandates' = [mandates EXCEPT ![m] = [status |-> "INITIATED", max_amount |-> cap,
                                            expires_at |-> Expiry, debits |-> <<>>]]
    /\ UNCHANGED <<now, mpc, wanted>>

Due(m) == now > mandates[m].expires_at

\* get: an active or paused mandate is found expired by whoever looks at it
LookAtMandate(m) ==
    /\ mandates[m] # NoMandateRecord
    /\ mandates' = [mandates EXCEPT ![m].status =
                       IF @ \in {"ACTIVE", "PAUSED"} /\ Due(m) THEN "EXPIRED" ELSE @]

GetMandate(w, m) ==
    /\ mpc[w] = "idle"
    /\ LookAtMandate(m)
    /\ UNCHANGED <<now, mpc, wanted>>

\* the first half of transition and of present_debit
Ask(w, m, to, request) ==
    /\ mpc[w] = "idle" /\ mpc' = [mpc EXCEPT ![w] = to]
    /\ LookAtMandate(m)
    /\ wanted' = [wanted EXCEPT ![w] = request]
    /\ UNCHANGED now

AskTransition(w, m, to) == Ask(w, m, "move", Transition(m, to))
AskDebit(w, m, amount, notified, ref) == Ask(w, m, "present", Debit(m, amount, notified, ref))

Answer(w, from) ==
    /\ mpc[w] = from /\ mpc' = [mpc EXCEPT ![w] = "idle"]
    /\ wanted' = [wanted EXCEPT ![w] = Nothing]
    /\ UNCHANGED now

MandateMayMove(m, to) == to \in MANDATE_TRANSITIONS[mandates[m].status]

Move(w) == LET m == wanted[w].mid IN
    /\ Answer(w, "move")
    /\ MandateMayMove(m, wanted[w].to)
    /\ mandates' = [mandates EXCEPT ![m].status = wanted[w].to]

MoveRefused(w) ==
    /\ Answer(w, "move")
    /\ ~MandateMayMove(wanted[w].mid, wanted[w].to)
    /\ UNCHANGED mandates

\* mutant: a reference is looked for among the accepted debits only
PresentedOnce(m, ref) == \E i \in DOMAIN mandates[m].debits :
    mandates[m].debits[i].debit_ref = ref /\ mandates[m].debits[i].reason = "none"
Presented(m, ref) == \E i \in DOMAIN mandates[m].debits : mandates[m].debits[i].debit_ref = ref

\* "MANDATE_" and the status
StatusReason ==
    [INITIATED |-> "MANDATE_INITIATED", PAUSED |-> "MANDATE_PAUSED", REJECTED |-> "MANDATE_REJECTED",
     CANCELLED |-> "MANDATE_CANCELLED", EXPIRED |-> "MANDATE_EXPIRED"]

\* mutant: the status is left to the look before
ReasonAnyStatus(m, d) ==
    CASE d.amount <= 0 \/ d.amount > mandates[m].max_amount -> "AMOUNT_EXCEEDS_MANDATE"
      [] now - d.notified < Notice -> "PRE_DEBIT_NOTICE_TOO_RECENT"
      [] OTHER -> "none"
Reason(m, d) ==
    IF mandates[m].status # "ACTIVE" THEN StatusReason[mandates[m].status]
    ELSE IF d.amount <= 0 \/ d.amount > mandates[m].max_amount THEN "AMOUNT_EXCEEDS_MANDATE"
    ELSE IF now - d.notified < Notice THEN "PRE_DEBIT_NOTICE_TOO_RECENT"
    ELSE "none"

\* a debit is recorded whether it is accepted or rejected
Present(w) == LET d == wanted[w] IN
    /\ Answer(w, "present")
    /\ ~Presented(d.mid, d.ref)
    /\ mandates' = [mandates EXCEPT ![d.mid].debits =
                      Append(@, [debit_ref |-> d.ref, amount |-> d.amount, reason |-> Reason(d.mid, d),
                                 presented_at |-> now])]

PresentAgain(w) ==
    /\ Answer(w, "present")
    /\ Presented(wanted[w].mid, wanted[w].ref)
    /\ UNCHANGED mandates

-----------------------------------------------------------------------------
MandateNext ==
    \/ MandateTick
    \/ \E w \in Threads :
        \/ Move(w) \/ MoveRefused(w) \/ Present(w) \/ PresentAgain(w)
        \/ \E m \in Mandates :
            \/ GetMandate(w, m)
            \/ \E cap \in Caps : CreateMandate(w, m, cap)
            \/ \E to \in _ACTIONS : AskTransition(w, m, to)
            \/ \E amount \in Amounts, notified \in 0 .. MaxTime, ref \in Refs :
                 AskDebit(w, m, amount, notified, ref)

MandateSpec == MandateInit /\ [][MandateNext]_mandateVars

-----------------------------------------------------------------------------
(* Properties.                                                                *)

Reasons == {"none", "AMOUNT_EXCEEDS_MANDATE", "PRE_DEBIT_NOTICE_TOO_RECENT", "MANDATE_INITIATED",
            "MANDATE_PAUSED", "MANDATE_CANCELLED", "MANDATE_EXPIRED"}
DebitRecords == [debit_ref : Refs, amount : Amounts, reason : Reasons, presented_at : 0 .. MaxTime]
MandateRecords == [status : DOMAIN MANDATE_TRANSITIONS \ {"REJECTED"}, max_amount : Caps,
                   expires_at : Valid .. MaxTime + Valid, debits : Seq(DebitRecords)]
Moves == [mid : Mandates, to : _ACTIONS]
Presentations == [mid : Mandates, amount : Amounts, notified : 0 .. MaxTime, ref : Refs]

\* Type invariant of the mandates, their debits and the threads; rejected
\* mandates do not occur, since no endpoint rejects one.
MandateTypeOK ==
    /\ mandates \in [Mandates -> MandateRecords \cup {NoMandateRecord}]
    /\ now \in 0 .. MaxTime
    /\ mpc \in [Threads -> {"idle", "move", "present"}]
    /\ wanted \in [Threads -> Moves \cup Presentations \cup {Nothing}]
    /\ \A w \in Threads :
         /\ mpc[w] = "move" => wanted[w] \in Moves
         /\ mpc[w] = "present" => wanted[w] \in Presentations
         /\ mpc[w] # "idle" => mandates[wanted[w].mid] # NoMandateRecord

\* A debit reference is presented once under a mandate, however many threads
\* present it at once and whatever became of it the first time.
RefsOnce == \A m \in Mandates : \A i, j \in DOMAIN mandates[m].debits :
    mandates[m].debits[i].debit_ref = mandates[m].debits[j].debit_ref => i = j

Accepts(m) ==
    LET n == Len(mandates[m].debits)
    IN  Len(mandates'[m].debits) > n /\ mandates'[m].debits[n + 1].reason = "none"

Closed(m) == mandates[m].status \in {"CANCELLED", "EXPIRED"}

\* Once a mandate is cancelled or found expired it stays so, and no debit is
\* accepted under it any more, not even one that looked while it was active.
ClosedStaysUndebited ==
    [][\A m \in Mandates : Closed(m) => mandates'[m].status = mandates[m].status /\ ~Accepts(m)]_mandateVars

-----------------------------------------------------------------------------
(* What the documents or comments say of this code and the code does not do. *)

\* A mandate that is past its expiry is expired: no debit is accepted.
DebitedInTime == [][\A m \in Mandates : Accepts(m) => now <= mandates[m].expires_at]_mandateVars
=============================================================================
