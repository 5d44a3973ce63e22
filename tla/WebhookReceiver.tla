--------------------------- MODULE WebhookReceiver ---------------------------
(* webhooks/service.py: the payment webhook receiver.  A gateway delivers    *)
(* each event until it sees a 2xx; several request threads may hold          *)
(* deliveries or replays of the same event at once; the event log and the    *)
(* payments live in one SQLite file that survives a crash of the process.    *)
(*                                                                           *)
(* A delivery is verified (receive), takes SQLite's write lock               *)
(* (BEGIN IMMEDIATE), writes the event row and the payment row in one        *)
(* transaction, commits, and answers.  The transaction's writes are kept in  *)
(* tx[w] until the commit publishes them.                                    *)
EXTENDS Integers, Sums

CONSTANTS
    EventIds,     \* event ids the gateway sends (X-Razorpay-Event-Id)
    PaymentIds,   \* payments the events are about
    Workers,      \* request threads of the server process
    NoWorker,     \* nobody holds the write lock
    NoEventId,    \* the thread works on no event
    Body,         \* Body[e]: the body of event e, the same in every delivery
    MaxFaults,    \* bound: crashes, lost answers and lock timeouts in a behaviour
    AttemptCap    \* bound: the attempts column stops counting here

(* A body, as far as _apply tells bodies apart.  "missing": the entity, its  *)
(* id or its amount is absent.  "malformed": an amount that is not an        *)
(* integer (and, for a refund, one that int() rejects).                      *)
PaymentEvents == {"payment.authorized", "payment.captured", "payment.failed"}
HANDLED == PaymentEvents \cup {"refund.processed"}
Bodies == [type : HANDLED \cup {"other"}, payment : PaymentIds, amount : Int,
           form : {"ok", "missing", "malformed"}, at : Nat]

ASSUME BodyAssumption == Body \in [EventIds -> Bodies]
ASSUME BoundAssumption == MaxFaults \in Nat /\ AttemptCap \in Nat \ {0}
ASSUME NoneAssumption == NoWorker \notin Workers /\ NoEventId \notin EventIds

VARIABLES
    log,       \* webhook_events: log[e], committed
    payments,  \* payments: payments[p], committed
    lock,      \* the thread inside a BEGIN IMMEDIATE transaction
    pc,        \* pc[w]: where thread w is
    ev,        \* ev[w]: the event thread w works on
    via,       \* via[w]: "delivery" (receive) or "replay"
    tx,        \* tx[w]: the uncommitted event row and payment row of w
    code,      \* code[w]: the HTTP status w is about to answer, 0 before it is known
    acked,     \* events the gateway has seen a 2xx for
    faults     \* faults so far

vars == <<log, payments, lock, pc, ev, via, tx, code, acked, faults>>

PaymentStatuses == {"created", "authorized", "failed", "captured",
                    "partially_refunded", "refunded"}
RANK == [s \in PaymentStatuses |->
           CASE s = "created" -> 0 [] s = "authorized" -> 1 [] s = "failed" -> 2
             [] s = "captured" -> 3 [] s = "partially_refunded" -> 4 [] s = "refunded" -> 5]
Final == {"processed", "ignored"}

EventRows == [status : {"none", "failed"} \cup Final, attempts : 0 .. AttemptCap]
PaymentRows == [status : {"none"} \cup PaymentStatuses, amount : Int,
                refunded : Int, lastAt : Nat]
Transactions == [row : EventRows, pay : PaymentRows]

NoEvent == [status |-> "none", attempts |-> 0]
NoPayment == [status |-> "none", amount |-> 0, refunded |-> 0, lastAt |-> 0]
NoTx == [row |-> NoEvent, pay |-> NoPayment]

Init ==
    /\ log = [e \in EventIds |-> NoEvent]
    /\ payments = [p \in PaymentIds |-> NoPayment]
    /\ lock = NoWorker
    /\ pc = [w \in Workers |-> "idle"]
    /\ ev = [w \in Workers |-> NoEventId]
    /\ via = [w \in Workers |-> "delivery"]
    /\ tx = [w \in Workers |-> NoTx]
    /\ code = [w \in Workers |-> 0]
    /\ acked = {}
    /\ faults = 0

-----------------------------------------------------------------------------
(* Applying one event to the payment it names.                               *)

NewStatus(b) == CASE b.type = "payment.authorized" -> "authorized"
                  [] b.type = "payment.captured" -> "captured"
                  [] b.type = "payment.failed" -> "failed"

\* mutant: only the gateway's timestamps are compared
StaleByTime(b, cur) == b.at <= cur.lastAt
\* a late event, or a repeated one that is not newer than the last
Stale(b, cur) ==
    \/ RANK[NewStatus(b)] < RANK[cur.status]
    \/ RANK[NewStatus(b)] = RANK[cur.status] /\ b.at <= cur.lastAt

PaymentError(b, cur) ==
    \/ b.form # "ok"
    \/ b.amount <= 0
    \/ cur.status # "none" /\ cur.amount # b.amount

MovedPayment(b, cur) ==
    IF cur.status = "none"
      THEN [status |-> NewStatus(b), amount |-> b.amount, refunded |-> 0, lastAt |-> b.at]
    ELSE IF Stale(b, cur) THEN cur
    ELSE [status |-> NewStatus(b), amount |-> cur.amount, refunded |-> cur.refunded,
          lastAt |-> b.at]

RefundTotal(b, cur) == cur.refunded + b.amount

RefundError(b, cur) ==
    \/ b.form = "missing"
    \/ cur.status = "none"
    \/ b.form = "ok" /\ RefundTotal(b, cur) > cur.amount

RefundedPayment(b, cur) ==
    [status |-> IF RefundTotal(b, cur) = cur.amount THEN "refunded" ELSE "partially_refunded",
     amount |-> cur.amount, refunded |-> RefundTotal(b, cur), lastAt |-> b.at]

IsRefund(b) == b.type = "refund.processed"

\* _apply raises ApplyError: the event is logged as failed
Rejects(b, cur) ==
    \/ IsRefund(b) /\ RefundError(b, cur)
    \/ b.type \in PaymentEvents /\ PaymentError(b, cur)

\* int(r["amount"]) raises ValueError, which is not an ApplyError
Raises(b, cur) == IsRefund(b) /\ b.form = "malformed" /\ ~RefundError(b, cur)

Applied(b, cur) == IF IsRefund(b) THEN RefundedPayment(b, cur)
                   ELSE IF b.type \in PaymentEvents THEN MovedPayment(b, cur)
                   ELSE cur

Outcome(b) == IF b.type \in HANDLED THEN "processed" ELSE "ignored"

-----------------------------------------------------------------------------
(* The request threads.                                                      *)

PaymentOf(w) == Body[ev[w]].payment
Current(w) == payments[PaymentOf(w)]

\* receive: the signature, the event id and the JSON are in order
Deliver(w, e) ==
    /\ pc[w] = "idle"
    /\ pc' = [pc EXCEPT ![w] = "verified"]
    /\ ev' = [ev EXCEPT ![w] = e]
    /\ via' = [via EXCEPT ![w] = "delivery"]
    /\ UNCHANGED <<log, payments, lock, tx, code, acked, faults>>

\* replay: the row is read, and found failed, before the lock is taken
Replay(w, e) ==
    /\ pc[w] = "idle"
    /\ log[e].status = "failed"
    /\ pc' = [pc EXCEPT ![w] = "verified"]
    /\ ev' = [ev EXCEPT ![w] = e]
    /\ via' = [via EXCEPT ![w] = "replay"]
    /\ UNCHANGED <<log, payments, lock, tx, code, acked, faults>>

\* BEGIN IMMEDIATE waits until nobody holds the write lock
LockFree == lock = NoWorker

\* mutants: the row is not looked at; any row at all is a duplicate
DuplicatesIgnored(w) == TRUE
EventUnseen(w) == log[ev[w]].status = "none"
\* the SELECT finds no row, or one whose attempts failed
EventOpen(w) == log[ev[w]].status \notin Final

\* a final row: roll back, answer 200
Duplicate(w) ==
    /\ pc[w] = "verified"
    /\ LockFree
    /\ ~EventOpen(w)
    /\ pc' = [pc EXCEPT ![w] = "reply"]
    /\ code' = [code EXCEPT ![w] = 200]
    /\ UNCHANGED <<log, payments, lock, ev, via, tx, acked, faults>>

\* the row of this attempt: inserted as failed, or one attempt more
Attempted(row) ==
    IF row.status = "none" THEN [status |-> "failed", attempts |-> 1]
    ELSE [status |-> row.status,
          attempts |-> IF row.attempts < AttemptCap THEN row.attempts + 1 ELSE row.attempts]

Begin(w) ==
    /\ pc[w] = "verified"
    /\ LockFree
    /\ EventOpen(w)
    /\ lock' = w
    /\ tx' = [tx EXCEPT ![w] = [row |-> Attempted(log[ev[w]]), pay |-> Current(w)]]
    /\ pc' = [pc EXCEPT ![w] = "apply"]
    /\ UNCHANGED <<log, payments, ev, via, code, acked, faults>>

\* mutant: the row's status is left as it is
WriteKeepsStatus(w, status, pay) ==
    tx' = [tx EXCEPT ![w] = [row |-> tx[w].row, pay |-> pay]]
\* the open transaction of w overwrites the status and the payment row
Write(w, status, pay) ==
    tx' = [tx EXCEPT ![w] = [row |-> [status |-> status, attempts |-> tx[w].row.attempts],
                             pay |-> pay]]

ApplyOk(w) ==
    /\ pc[w] = "apply"
    /\ ~Rejects(Body[ev[w]], Current(w))
    /\ ~Raises(Body[ev[w]], Current(w))
    /\ Write(w, Outcome(Body[ev[w]]), Applied(Body[ev[w]], Current(w)))
    /\ code' = [code EXCEPT ![w] = 200]
    /\ pc' = [pc EXCEPT ![w] = "commit"]
    /\ UNCHANGED <<log, payments, lock, ev, via, acked, faults>>

ApplyRejected(w) ==
    /\ pc[w] = "apply"
    /\ Rejects(Body[ev[w]], Current(w))
    /\ Write(w, "failed", Current(w))
    /\ code' = [code EXCEPT ![w] = 500]
    /\ pc' = [pc EXCEPT ![w] = "commit"]
    /\ UNCHANGED <<log, payments, lock, ev, via, acked, faults>>

\* any other exception: roll back, nothing is stored, Flask answers 500
ApplyRaises(w) ==
    /\ pc[w] = "apply"
    /\ Raises(Body[ev[w]], Current(w))
    /\ lock' = NoWorker
    /\ tx' = [tx EXCEPT ![w] = NoTx]
    /\ code' = [code EXCEPT ![w] = 500]
    /\ pc' = [pc EXCEPT ![w] = "reply"]
    /\ UNCHANGED <<log, payments, ev, via, acked, faults>>

Commit(w) ==
    /\ pc[w] = "commit"
    /\ log' = [log EXCEPT ![ev[w]] = tx[w].row]
    /\ payments' = [payments EXCEPT ![PaymentOf(w)] = tx[w].pay]
    /\ lock' = NoWorker
    /\ tx' = [tx EXCEPT ![w] = NoTx]
    /\ pc' = [pc EXCEPT ![w] = "reply"]
    /\ UNCHANGED <<ev, via, code, acked, faults>>

\* thread w is done with its request
Free(w) ==
    /\ pc' = [pc EXCEPT ![w] = "idle"]
    /\ ev' = [ev EXCEPT ![w] = NoEventId]
    /\ via' = [via EXCEPT ![w] = "delivery"]
    /\ code' = [code EXCEPT ![w] = 0]

\* the gateway stops retrying on a 2xx; a replay answers the operator instead
Reply(w) ==
    /\ pc[w] = "reply"
    /\ acked' = IF via[w] = "delivery" /\ code[w] = 200
                  THEN acked \cup {ev[w]} ELSE acked
    /\ Free(w)
    /\ UNCHANGED <<log, payments, lock, tx, faults>>

-----------------------------------------------------------------------------
(* Faults, at most MaxFaults of them.                                        *)

Fault == faults < MaxFaults /\ faults' = faults + 1

\* the connection breaks before the answer reaches the gateway
LoseReply(w) ==
    /\ Fault
    /\ pc[w] = "reply"
    /\ Free(w)
    /\ UNCHANGED <<log, payments, lock, tx, acked>>

\* sqlite3 gives up waiting for the write lock: OperationalError, a 500
BusyTimeout(w) ==
    /\ Fault
    /\ pc[w] = "verified"
    /\ lock # NoWorker
    /\ code' = [code EXCEPT ![w] = 500]
    /\ pc' = [pc EXCEPT ![w] = "reply"]
    /\ UNCHANGED <<log, payments, lock, ev, via, tx, acked>>

\* the process dies and restarts: every thread and open transaction is lost
Crash ==
    /\ Fault
    /\ pc' = [w \in Workers |-> "idle"]
    /\ ev' = [w \in Workers |-> NoEventId]
    /\ via' = [w \in Workers |-> "delivery"]
    /\ code' = [w \in Workers |-> 0]
    /\ tx' = [w \in Workers |-> NoTx]
    /\ lock' = NoWorker
    /\ UNCHANGED <<log, payments, acked>>

-----------------------------------------------------------------------------
Step(w) ==
    \/ \E e \in EventIds : Deliver(w, e) \/ Replay(w, e)
    \/ Duplicate(w) \/ Begin(w)
    \/ ApplyOk(w) \/ ApplyRejected(w) \/ ApplyRaises(w)
    \/ Commit(w) \/ Reply(w)
    \/ LoseReply(w) \/ BusyTimeout(w)

Next == Crash \/ \E w \in Workers : Step(w)

Spec == Init /\ [][Next]_vars

\* a thread that can take a step takes it; the lock is not refused for ever
ServerFairness ==
    \A w \in Workers :
        /\ SF_vars(Duplicate(w) \/ Begin(w))
        /\ WF_vars(ApplyOk(w) \/ ApplyRejected(w) \/ ApplyRaises(w) \/ Commit(w) \/ Reply(w))

\* at-least-once delivery: the gateway retries until it has seen a 2xx
GatewayFairness ==
    \A e \in EventIds : SF_vars(e \notin acked /\ \E w \in Workers : Deliver(w, e))

FairSpec == Spec /\ ServerFairness /\ GatewayFairness

-----------------------------------------------------------------------------
(* Properties.                                                               *)

\* Type invariant: the committed rows, the threads and the open transactions
\* hold the values webhooks/service.py can write.
TypeOK ==
    /\ log \in [EventIds -> EventRows]
    /\ payments \in [PaymentIds -> PaymentRows]
    /\ lock \in Workers \cup {NoWorker}
    /\ pc \in [Workers -> {"idle", "verified", "apply", "commit", "reply"}]
    /\ ev \in [Workers -> EventIds \cup {NoEventId}]
    /\ \A w \in Workers : pc[w] # "idle" => ev[w] \in EventIds
    /\ via \in [Workers -> {"delivery", "replay"}]
    /\ tx \in [Workers -> Transactions]
    /\ code \in [Workers -> {0, 200, 500}]
    /\ acked \subseteq EventIds
    /\ faults \in 0 .. MaxFaults

EventsOf(p) == {e \in EventIds : Body[e].payment = p /\ log[e].status = "processed"}
RefundsOf(p) == {e \in EventsOf(p) : IsRefund(Body[e])}
AmountOf == [e \in EventIds |-> Body[e].amount]

\* Exactly once: what a payment says was refunded is the sum of the refund
\* events the log says were processed, however often each was delivered or
\* replayed and wherever the process crashed.
RefundsAccounted ==
    \A p \in PaymentIds :
        payments[p].refunded = SumOver(AmountOf, RefundsOf(p))

\* Order does not matter: the status of a payment is a function of the SET of
\* events processed for it, the furthest status among the payment events, or
\* the refund status its total gives once a refund was processed.
StatusIsJoin ==
    \A p \in PaymentIds :
        LET moves == EventsOf(p) \ RefundsOf(p)
        IN payments[p].status =
             IF moves = {} THEN "none"
             ELSE IF RefundsOf(p) # {}
               THEN IF payments[p].refunded = payments[p].amount
                      THEN "refunded" ELSE "partially_refunded"
             ELSE NewStatus(Body[CHOOSE e \in moves : \A f \in moves :
                                   RANK[NewStatus(Body[e])] >= RANK[NewStatus(Body[f])]])

\* A thread answers 200 only for an event that is final in the committed log,
\* and only a thread about to make it final has decided to.
Honest(w) ==
    /\ pc[w] = "reply" /\ code[w] = 200 => log[ev[w]].status \in Final
    /\ pc[w] = "commit" /\ code[w] = 200 => tx[w].row.status \in Final

AnswersHonest == \A w \in Workers : Honest(w)

\* What the gateway may forget (it saw a 2xx) is durably in the log as
\* processed or ignored: a crash can no longer lose it.
AckedIsDurable == \A e \in acked : log[e].status \in Final

\* "A late or repeated event may never move a payment backwards": no step
\* lowers the rank of a payment's status, and no payment row disappears.
NeverBackwards ==
    [][\A p \in PaymentIds : payments[p].status # "none" =>
          /\ payments'[p].status # "none"
          /\ RANK[payments'[p].status] >= RANK[payments[p].status]]_vars

\* The gateway reports refunds of something, never of nothing or less.
PositiveRefunds == \A e \in EventIds : IsRefund(Body[e]) => Body[e].amount > 0

\* A processed or ignored event is never touched again: a replay that read
\* the row as failed before another thread processed it changes nothing.
FinalIsFinal ==
    [][\A e \in EventIds : log[e].status \in Final => log'[e] = log[e]]_vars

\* An event that can be read, of a payment whose own events agree.
Sound(e) == Body[e].form = "ok" /\ Body[e].amount > 0
Applicable(e) ==
    LET moves == {f \in EventIds : Body[f].payment = Body[e].payment /\ Body[f].type \in PaymentEvents}
    IN Body[e].type \in HANDLED =>
         /\ moves # {}
         /\ \A f \in moves \cup {e} : Sound(f)
         /\ \A f, g \in moves : Body[f].amount = Body[g].amount

\* What is left of the payment is less than the refund.
Spent(e) ==
    LET cur == payments[Body[e].payment]
    IN IsRefund(Body[e]) /\ cur.status # "none" /\ cur.refunded + Body[e].amount > cur.amount

\* Retries converge: under the gateway's at-least-once delivery every event
\* that can be applied ends up processed (or ignored), although a refund may
\* be rejected first because it arrived before its payment; of refunds that do
\* not fit together those that come too late are left.
EventuallyProcessed ==
    <>(\A e \in EventIds : Applicable(e) => log[e].status \in Final \/ Spent(e))

\* Under the write lock nothing goes stale: the lock is held by exactly the
\* thread inside a transaction, and what that thread is about to commit is
\* still what the event does to the committed rows.
HoldsLock(w) == pc[w] \in {"apply", "commit"}

Staged(w) ==
    LET b == Body[ev[w]]
    IN \/ /\ tx[w].row.status = "failed"
          /\ tx[w].pay = Current(w)
       \/ /\ pc[w] = "commit"
          /\ tx[w].row.status = Outcome(b)
          /\ ~Rejects(b, Current(w))
          /\ ~Raises(b, Current(w))
          /\ tx[w].pay = Applied(b, Current(w))

Isolated(w) ==
    /\ lock = w <=> HoldsLock(w)
    /\ HoldsLock(w) => log[ev[w]].status \notin Final /\ Staged(w)

TransactionsIsolated == \A w \in Workers : Isolated(w)

\* A stored payment has a positive amount, is never over-refunded, and says
\* "refunded" only when all of the amount is.
Consistent(cur) ==
    /\ cur.status = "none" => cur = NoPayment
    /\ cur.status # "none" => cur.amount > 0
    /\ cur.refunded <= cur.amount
    /\ cur.status = "refunded" => cur.refunded = cur.amount

PaymentsConsistent == \A p \in PaymentIds : Consistent(payments[p])

\* The receiver implements a refund book whose requests are the refund events.
Book == INSTANCE RefundBook WITH
    Accounts <- PaymentIds,
    Requests <- {e \in EventIds : IsRefund(Body[e])},
    Limits <- {n \in {Body[e].amount : e \in EventIds} : n > 0},
    Target <- [e \in EventIds |-> Body[e].payment],
    Amount <- [e \in EventIds |-> Body[e].amount],
    paid <- [p \in PaymentIds |-> payments[p].amount],
    refunded <- [p \in PaymentIds |-> payments[p].refunded],
    applied <- {e \in EventIds : IsRefund(Body[e]) /\ log[e].status = "processed"}

\* Every step of the receiver is a step of the refund book or leaves it alone.
ImplementsRefundBook == Book!Spec

-----------------------------------------------------------------------------
(* What the documents or comments say of this code and the code does not do. *)

\* INTEGRATION_GUIDE: an event that cannot be applied answers 500 and "the
\* raw body is kept so you can replay it".
FailuresAreLogged ==
    \A w \in Workers : pc[w] = "reply" /\ code[w] = 500 => log[ev[w]].status # "none"
=============================================================================
