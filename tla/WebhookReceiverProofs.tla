------------------------ MODULE WebhookReceiverProofs ------------------------
(* Theorems about the webhook receiver, for every set of events, payments    *)
(* and threads and every number of faults.                                   *)
EXTENDS WebhookReceiver, SumsProofs

USE DEF HANDLED, PaymentEvents, Final

(* The inductive invariant.  PaymentsConsistent alone is not inductive: that *)
(* a commit preserves it needs to know what the transaction staged           *)
(* (TransactionsIsolated), and that nobody else committed in between.        *)
IInv == /\ TypeOK
        /\ TransactionsIsolated
        /\ PaymentsConsistent
        /\ AnswersHonest
        /\ AckedIsDurable

\* The event row an attempt writes is an event row.
LEMMA AttemptedType ==
    ASSUME NEW row \in EventRows
    PROVE  Attempted(row) \in EventRows /\ Attempted(row).status # "none"
                /\ (row.status \notin Final => Attempted(row).status = "failed")
  BY BoundAssumption, SMT DEF Attempted, EventRows

\* Applying an event that is accepted to a payment row yields a payment row.
LEMMA AppliedType ==
    ASSUME NEW b \in Bodies, NEW cur \in PaymentRows, ~Rejects(b, cur), ~Raises(b, cur)
    PROVE  Applied(b, cur) \in PaymentRows
  <1>1. CASE IsRefund(b)
    BY <1>1, SMT DEF Applied, RefundedPayment, RefundTotal, PaymentRows, PaymentStatuses, Bodies
  <1>2. CASE b.type \in PaymentEvents
    <2>1. NewStatus(b) \in {"authorized", "captured", "failed"}
      BY <1>2 DEF NewStatus
    <2> QED BY <1>2, <2>1, SMT DEF Applied, IsRefund, MovedPayment, PaymentRows, PaymentStatuses, Bodies
  <1> QED BY <1>1, <1>2 DEF Applied

\* Applying an event to a consistent payment row yields a consistent one.
LEMMA AppliedConsistent ==
    ASSUME NEW b \in Bodies, NEW cur \in PaymentRows, Consistent(cur),
           ~Rejects(b, cur), ~Raises(b, cur)
    PROVE  Consistent(Applied(b, cur))
  <1>1. CASE IsRefund(b)
    <2>1. b.form = "ok" /\ cur.status # "none" /\ cur.refunded + b.amount <= cur.amount
      BY <1>1, SMT DEF Rejects, Raises, RefundError, RefundTotal, Bodies, PaymentRows, IsRefund
    <2>2. Applied(b, cur) = RefundedPayment(b, cur)
      BY <1>1 DEF Applied
    <2> DEFINE new == RefundedPayment(b, cur)
    <2>3. /\ new.amount = cur.amount
          /\ new.refunded = cur.refunded + b.amount
          /\ new.status \in {"refunded", "partially_refunded"}
          /\ new.status = "refunded" => new.refunded = cur.amount
      BY SMT DEF RefundedPayment, RefundTotal, PaymentRows
    <2> HIDE DEF new
    <2>4. Consistent(new)
      BY <2>1, <2>3, SMT DEF Consistent
    <2> QED BY <2>2, <2>4 DEF new
  <1>2. CASE b.type \in PaymentEvents
    <2>1. Applied(b, cur) = MovedPayment(b, cur)
      BY <1>2 DEF Applied, IsRefund
    <2>2. b.amount > 0 /\ (cur.status # "none" => cur.amount = b.amount)
      BY <1>2, SMT DEF Rejects, PaymentError, Bodies, PaymentRows
    <2>3. NewStatus(b) \in {"authorized", "captured", "failed"}
      BY <1>2 DEF NewStatus
    <2>4. CASE cur.status = "none"
      <3> DEFINE new == MovedPayment(b, cur)
      <3>1. new = [status |-> NewStatus(b), amount |-> b.amount, refunded |-> 0, lastAt |-> b.at]
        BY <2>4 DEF MovedPayment
      <3>2. Consistent(new)
        BY <3>1, <2>2, <2>3, SMT DEF Consistent, Bodies
      <3> QED BY <2>1, <3>2
    <2>5. CASE cur.status # "none" /\ ~Stale(b, cur)
      <3> DEFINE new == [status |-> NewStatus(b), amount |-> cur.amount,
                       refunded |-> cur.refunded, lastAt |-> b.at]
      <3>1. MovedPayment(b, cur) = new
        BY <2>5 DEF MovedPayment
      <3>2. /\ new.status = NewStatus(b)
            /\ new.amount = cur.amount
            /\ new.refunded = cur.refunded
        BY SMT DEF PaymentRows
      <3> HIDE DEF new
      <3>3. Consistent(new)
        BY <2>3, <2>5, <3>2, SMT DEF Consistent
      <3> QED BY <2>1, <3>1, <3>3
    <2>6. CASE cur.status # "none" /\ Stale(b, cur)
      BY <2>1, <2>6 DEF MovedPayment
    <2> QED BY <2>4, <2>5, <2>6
  <1>3. CASE b.type \notin HANDLED
    BY <1>3 DEF Applied, IsRefund
  <1> QED BY <1>1, <1>2, <1>3 DEF IsRefund

\* The columns of the two tables and the fields of the threads always hold
\* values of their types.
THEOREM TypeCorrect == Spec => []TypeOK
<1>1. Init => TypeOK
  BY NoneAssumption, BoundAssumption, SMT
     DEF Init, TypeOK, NoEvent, NoPayment, NoTx, EventRows, PaymentRows, Transactions
<1>2. TypeOK /\ [Next]_vars => TypeOK'
  <2> SUFFICES ASSUME TypeOK, [Next]_vars PROVE TypeOK'
    OBVIOUS
  <2> USE DEF TypeOK
  <2>0. NoTx \in Transactions
    BY BoundAssumption, SMT DEF NoTx, NoEvent, NoPayment, EventRows, PaymentRows, Transactions
  <2>1. CASE Crash
    BY <2>0, <2>1, BoundAssumption, SMTT(30) DEF Crash, Fault
  <2>2. ASSUME NEW w \in Workers, Step(w) PROVE TypeOK'
    <3>1. ASSUME NEW e \in EventIds, Deliver(w, e) \/ Replay(w, e) PROVE TypeOK'
      BY <3>1, SMTT(30) DEF Deliver, Replay
    <3>2. CASE Duplicate(w)
      BY <3>2, SMT DEF Duplicate, LockFree, EventOpen
    <3>3. CASE ApplyRaises(w)
      BY <2>0, <3>3, SMTT(30) DEF ApplyRaises
    <3>4. CASE Reply(w)
      <4>1. acked' \subseteq EventIds
        BY <3>4 DEF Reply
      <4> QED BY <3>4, <4>1, SMT DEF Reply, Free
    <3>5. CASE LoseReply(w)
      BY <3>5, BoundAssumption, SMTT(30) DEF LoseReply, Free, Fault
    <3>6. CASE BusyTimeout(w)
      BY <3>6, BoundAssumption, SMTT(30) DEF BusyTimeout, Fault
    <3>7. ASSUME ev[w] \in EventIds
          PROVE  Current(w) \in PaymentRows /\ PaymentOf(w) \in PaymentIds /\ log[ev[w]] \in EventRows
      BY <3>7, BodyAssumption DEF Current, PaymentOf, Bodies
    <3>8. CASE Begin(w)
      <4>1. [row |-> Attempted(log[ev[w]]), pay |-> Current(w)] \in Transactions
        BY <3>7, <3>8, AttemptedType DEF Begin, LockFree, EventOpen, Transactions
      <4> QED BY <3>8, <4>1, SMT DEF Begin, LockFree, EventOpen
    <3>9. ASSUME NEW s \in {"failed"} \cup Final, NEW p \in PaymentRows, Write(w, s, p)
          PROVE  tx' \in [Workers -> Transactions]
      <4>1. [row |-> [status |-> s, attempts |-> tx[w].row.attempts], pay |-> p] \in Transactions
        BY SMT DEF Transactions, EventRows
      <4> QED BY <3>9, <4>1 DEF Write
    <3>10. CASE ApplyRejected(w)
      <4>1. tx' \in [Workers -> Transactions]
        BY <3>7, <3>9, <3>10 DEF ApplyRejected
      <4>2. /\ pc' = [pc EXCEPT ![w] = "commit"]
            /\ code' = [code EXCEPT ![w] = 500]
            /\ UNCHANGED <<log, payments, lock, ev, via, acked, faults>>
            /\ pc[w] = "apply"
        BY <3>10 DEF ApplyRejected
      <4> QED BY <4>1, <4>2, SMT
    <3>11. CASE ApplyOk(w)
      <4>1. Applied(Body[ev[w]], Current(w)) \in PaymentRows
        BY <3>7, <3>11, BodyAssumption, AppliedType DEF ApplyOk
      <4>2. Outcome(Body[ev[w]]) \in Final
        BY DEF Outcome
      <4>3. tx' \in [Workers -> Transactions]
        BY <3>9, <3>11, <4>1, <4>2 DEF ApplyOk
      <4>4. /\ pc' = [pc EXCEPT ![w] = "commit"]
            /\ code' = [code EXCEPT ![w] = 200]
            /\ UNCHANGED <<log, payments, lock, ev, via, acked, faults>>
            /\ pc[w] = "apply"
        BY <3>11 DEF ApplyOk
      <4> QED BY <4>3, <4>4, SMT
    <3>12. CASE Commit(w)
      <4>1. tx[w].row \in EventRows /\ tx[w].pay \in PaymentRows
        BY DEF Transactions
      <4> QED BY <2>0, <3>7, <3>12, <4>1, SMT DEF Commit
    <3> QED
      BY <2>2, <3>1, <3>2, <3>3, <3>4, <3>5, <3>6, <3>8, <3>10, <3>11, <3>12 DEF Step
  <2>3. CASE UNCHANGED vars
    BY <2>3 DEF vars
  <2> QED
    BY <2>1, <2>2, <2>3 DEF Next
<1> QED
  BY <1>1, <1>2, PTL DEF Spec

-----------------------------------------------------------------------------
(* What one step does to the two tables, under the invariant.                *)

\* Only a commit writes the tables; it writes the row of one event that was
\* not final, and the row of that event's payment: unchanged if the event was
\* rejected, as applied to the current row if it was accepted.
Committed(w) ==
    LET e == ev[w]
        b == Body[e]
    IN /\ log' = [log EXCEPT ![e] = tx[w].row]
       /\ payments' = [payments EXCEPT ![b.payment] = tx[w].pay]
       /\ log[e].status \notin Final
       /\ \/ /\ tx[w].row.status = "failed"
             /\ tx[w].pay = payments[b.payment]
          \/ /\ tx[w].row.status = Outcome(b)
             /\ ~Rejects(b, payments[b.payment])
             /\ ~Raises(b, payments[b.payment])
             /\ tx[w].pay = Applied(b, payments[b.payment])

LEMMA TablesStep ==
    ASSUME TypeOK, TransactionsIsolated, [Next]_vars
    PROVE  \/ UNCHANGED <<log, payments>>
           \/ \E w \in Workers : Commit(w) /\ ev[w] \in EventIds /\ Committed(w)
<1>1. CASE Crash
  BY <1>1 DEF Crash
<1>2. ASSUME NEW w \in Workers, Step(w)
      PROVE  UNCHANGED <<log, payments>> \/ Commit(w)
  BY <1>2 DEF Step, Deliver, Replay, Duplicate, LockFree, EventOpen, Begin, ApplyOk, ApplyRejected, ApplyRaises,
              Reply, LoseReply, BusyTimeout
<1>3. ASSUME NEW w \in Workers, Commit(w)
      PROVE  ev[w] \in EventIds /\ Committed(w)
  <2>1. pc[w] = "commit" /\ ev[w] \in EventIds
    BY <1>3 DEF Commit, TypeOK
  <2>2. log[ev[w]].status \notin Final /\ Staged(w)
    BY <2>1 DEF TransactionsIsolated, Isolated, HoldsLock
  <2> QED BY <1>3, <2>1, <2>2 DEF Commit, Committed, Staged, Current, PaymentOf
<1>4. CASE UNCHANGED vars
  BY <1>4 DEF vars
<1> QED BY <1>1, <1>2, <1>3, <1>4 DEF Next

\* Once final, an event's row stays as it is.
LEMMA FinalStep ==
    ASSUME TypeOK, TransactionsIsolated, [Next]_vars,
           NEW e \in EventIds, log[e].status \in Final
    PROVE  log'[e] = log[e]
<1>1. CASE UNCHANGED <<log, payments>>
  BY <1>1
<1>2. ASSUME NEW w \in Workers, Committed(w), ev[w] \in EventIds
      PROVE  log'[e] = log[e]
  BY <1>2 DEF Committed, TypeOK
<1> QED BY <1>1, <1>2, TablesStep

\* A commit keeps every payment row consistent.
LEMMA ConsistentStep ==
    ASSUME TypeOK, TransactionsIsolated, PaymentsConsistent, [Next]_vars
    PROVE  PaymentsConsistent'
<1>1. CASE UNCHANGED <<log, payments>>
  BY <1>1 DEF PaymentsConsistent, Consistent
<1>2. ASSUME NEW w \in Workers, Committed(w), ev[w] \in EventIds
      PROVE  PaymentsConsistent'
  <2> DEFINE b == Body[ev[w]]
  <2>1. b \in Bodies /\ b.payment \in PaymentIds
    BY <1>2, BodyAssumption DEF Bodies
  <2>2. payments[b.payment] \in PaymentRows /\ Consistent(payments[b.payment])
    BY <2>1 DEF TypeOK, PaymentsConsistent
  <2>3. Consistent(tx[w].pay)
    BY <1>2, <2>1, <2>2, AppliedConsistent DEF Committed
  <2>4. payments' = [payments EXCEPT ![b.payment] = tx[w].pay]
    BY <1>2 DEF Committed
  <2>5. ASSUME NEW p \in PaymentIds PROVE Consistent(payments'[p])
    <3>1. CASE p = b.payment
      BY <2>1, <2>3, <2>4, <3>1 DEF TypeOK
    <3>2. CASE p # b.payment
      BY <2>1, <2>4, <3>2 DEF TypeOK, PaymentsConsistent
    <3> QED BY <3>1, <3>2
  <2> QED BY <2>5 DEF PaymentsConsistent, Consistent
<1> QED BY <1>1, <1>2, TablesStep

\* A step of one thread leaves another thread's transaction isolated: the
\* others hold no lock while this one does, and are not disturbed otherwise.
LEMMA OthersIsolated ==
    ASSUME TypeOK, TransactionsIsolated, NEW w \in Workers, Step(w),
           NEW v \in Workers, v # w
    PROVE  Isolated(v)'
<1>1. pc'[v] = pc[v] /\ ev'[v] = ev[v] /\ tx'[v] = tx[v]
  BY DEF Step, TypeOK, Deliver, Replay, Duplicate, LockFree, EventOpen, Begin, ApplyOk, ApplyRejected,
         ApplyRaises, Commit, Write, Reply, LoseReply, BusyTimeout, Free
<1>2. lock' = lock \/ (lock \in {NoWorker, w} /\ lock' \in {NoWorker, w})
  <2>1. pc[w] \in {"apply", "commit"} => lock = w
    BY DEF TransactionsIsolated, Isolated, HoldsLock
  <2> QED
    BY <2>1 DEF Step, Deliver, Replay, Duplicate, LockFree, EventOpen, Begin, ApplyOk, ApplyRejected,
                ApplyRaises, Commit, Reply, LoseReply, BusyTimeout
<1>3. (lock' = v) <=> (lock = v)
  BY <1>2, NoneAssumption
<1>4. Isolated(v)
  BY DEF TransactionsIsolated
<1>5. HoldsLock(v)' <=> HoldsLock(v)
  BY <1>1 DEF HoldsLock
<1>6. CASE ~HoldsLock(v)
  BY <1>3, <1>4, <1>5, <1>6 DEF Isolated
<1>7. CASE HoldsLock(v)
  <2>1. UNCHANGED <<log, payments>>
    <3>1. lock = v
      BY <1>4, <1>7 DEF Isolated
    <3>2. pc[w] # "commit"
      BY <3>1 DEF TransactionsIsolated, Isolated, HoldsLock
    <3> QED
      BY <3>2 DEF Step, Deliver, Replay, Duplicate, LockFree, EventOpen, Begin, ApplyOk, ApplyRejected,
                  ApplyRaises, Commit, Reply, LoseReply, BusyTimeout
  <2> QED
    BY <1>1, <1>3, <1>4, <1>5, <2>1 DEF Isolated, Staged, Current, PaymentOf, HoldsLock
<1> QED BY <1>6, <1>7

\* A step of a thread leaves its own transaction isolated.
LEMMA OwnIsolated ==
    ASSUME TypeOK, TransactionsIsolated, NEW w \in Workers, Step(w)
    PROVE  Isolated(w)'
<1> DEFINE b == Body[ev[w]]
<1>1. lock = w <=> HoldsLock(w)
  BY DEF TransactionsIsolated, Isolated
<1>2. HoldsLock(w) => log[ev[w]].status \notin Final /\ Staged(w)
  BY DEF TransactionsIsolated, Isolated
<1>3. ASSUME NEW e \in EventIds, Deliver(w, e) \/ Replay(w, e) PROVE Isolated(w)'
  BY <1>1, <1>3 DEF Deliver, Replay, Isolated, HoldsLock, TypeOK
<1>4. CASE Duplicate(w) \/ BusyTimeout(w)
  BY <1>1, <1>4 DEF Duplicate, LockFree, EventOpen, BusyTimeout, Isolated, HoldsLock, TypeOK
<1>5. CASE Reply(w) \/ LoseReply(w)
  BY <1>1, <1>5 DEF Reply, LoseReply, Free, Isolated, HoldsLock, TypeOK
<1>6. CASE ApplyRaises(w) \/ Commit(w)
  BY <1>1, <1>6, NoneAssumption DEF ApplyRaises, Commit, Isolated, HoldsLock, TypeOK
<1>7. CASE Begin(w)
  <2>1. tx'[w] = [row |-> Attempted(log[ev[w]]), pay |-> Current(w)]
    BY <1>7 DEF Begin, LockFree, EventOpen, TypeOK
  <2>2. pc'[w] = "apply" /\ lock' = w /\ UNCHANGED <<log, payments, ev>>
    BY <1>7 DEF Begin, LockFree, EventOpen, TypeOK
  <2>3. log[ev[w]] \in EventRows /\ log[ev[w]].status \notin Final
    BY <1>7 DEF Begin, LockFree, EventOpen, TypeOK
  <2>4. Attempted(log[ev[w]]).status = "failed"
    BY <2>3, AttemptedType
  <2> QED
    BY <2>1, <2>2, <2>3, <2>4 DEF Isolated, Staged, HoldsLock, Current, PaymentOf
<1>8. CASE ApplyRejected(w)
  <2>1. tx'[w].row.status = "failed" /\ tx'[w].pay = Current(w)
    BY <1>8 DEF ApplyRejected, Write, TypeOK
  <2>2. pc[w] = "apply" /\ pc'[w] = "commit" /\ UNCHANGED <<log, payments, lock, ev>>
    BY <1>8 DEF ApplyRejected, TypeOK
  <2> QED
    BY <1>1, <1>2, <2>1, <2>2 DEF Isolated, Staged, HoldsLock, Current, PaymentOf
<1>9. CASE ApplyOk(w)
  <2>1. tx'[w].row.status = Outcome(b) /\ tx'[w].pay = Applied(b, Current(w))
    BY <1>9 DEF ApplyOk, Write, TypeOK
  <2>2. pc[w] = "apply" /\ pc'[w] = "commit" /\ UNCHANGED <<log, payments, lock, ev>>
    BY <1>9 DEF ApplyOk, TypeOK
  <2>3. ~Rejects(b, Current(w)) /\ ~Raises(b, Current(w))
    BY <1>9 DEF ApplyOk
  <2> QED
    BY <1>1, <1>2, <2>1, <2>2, <2>3 DEF Isolated, Staged, HoldsLock, Current, PaymentOf
<1> QED
  BY <1>3, <1>4, <1>5, <1>6, <1>7, <1>8, <1>9 DEF Step

LEMMA IsolatedStep ==
    ASSUME TypeOK, TransactionsIsolated, [Next]_vars
    PROVE  TransactionsIsolated'
<1>1. CASE Crash
  BY <1>1, NoneAssumption DEF Crash, TransactionsIsolated, Isolated, HoldsLock
<1>2. ASSUME NEW w \in Workers, Step(w), NEW v \in Workers PROVE Isolated(v)'
  BY <1>2, OthersIsolated, OwnIsolated
<1>3. CASE UNCHANGED vars
  BY <1>3 DEF vars, TransactionsIsolated, Isolated, HoldsLock, Staged, Current, PaymentOf
<1> QED BY <1>1, <1>2, <1>3 DEF Next, TransactionsIsolated

\* An answer of 200 stays honest: the row it is about is final and stays so.
LEMMA HonestStep ==
    ASSUME TypeOK, TransactionsIsolated, AnswersHonest, [Next]_vars
    PROVE  AnswersHonest'
<1>1. CASE Crash
  BY <1>1 DEF Crash, AnswersHonest, Honest
<1>2. ASSUME NEW w \in Workers, Step(w), NEW v \in Workers PROVE Honest(v)'
  <2>1. Honest(v) /\ Honest(w)
    BY DEF AnswersHonest
  <2>2. CASE v # w
    <3>1. pc'[v] = pc[v] /\ ev'[v] = ev[v] /\ tx'[v] = tx[v] /\ code'[v] = code[v]
      BY <1>2, <2>2 DEF Step, TypeOK, Deliver, Replay, Duplicate, LockFree, EventOpen, Begin, ApplyOk, ApplyRejected,
             ApplyRaises, Commit, Write, Reply, LoseReply, BusyTimeout, Free
    <3>2. pc[v] = "reply" /\ code[v] = 200 => log'[ev[v]] = log[ev[v]]
      BY <2>1, FinalStep DEF Honest, TypeOK
    <3> QED BY <2>1, <3>1, <3>2 DEF Honest
  <2>3. CASE v = w
    <3> SUFFICES Honest(w)'
      BY <2>3
    <3>1. ASSUME NEW e \in EventIds, Deliver(w, e) \/ Replay(w, e) PROVE Honest(w)'
      <4>1. pc'[w] = "verified"
        BY <3>1 DEF Deliver, Replay, TypeOK
      <4> QED BY <4>1 DEF Honest
    <3>2. CASE Duplicate(w)
      <4>1. pc'[w] = "reply" /\ log'[ev'[w]].status \in Final
        BY <3>2 DEF Duplicate, LockFree, EventOpen, TypeOK
      <4> QED BY <4>1 DEF Honest
    <3>3. CASE Begin(w)
      <4>1. pc'[w] = "apply"
        BY <3>3 DEF Begin, LockFree, EventOpen, TypeOK
      <4> QED BY <4>1 DEF Honest
    <3>4. CASE ApplyOk(w)
      <4>1. pc'[w] = "commit" /\ tx'[w].row.status \in Final
        BY <3>4 DEF ApplyOk, Write, Outcome, TypeOK
      <4> QED BY <4>1 DEF Honest
    <3>5. CASE ApplyRejected(w) \/ ApplyRaises(w) \/ BusyTimeout(w)
      <4>1. code' = [code EXCEPT ![w] = 500]
        BY <3>5 DEF ApplyRejected, ApplyRaises, BusyTimeout
      <4>2. code'[w] # 200
        BY <4>1, SMT DEF TypeOK
      <4> QED BY <4>2 DEF Honest
    <3>6. CASE Commit(w)
      <4>1. /\ pc[w] = "commit" /\ pc'[w] = "reply"
            /\ ev[w] \in EventIds /\ ev'[w] = ev[w] /\ code'[w] = code[w]
        BY <3>6 DEF Commit, TypeOK
      <4>2. log'[ev[w]] = tx[w].row
        BY <3>6, <4>1 DEF Commit, TypeOK
      <4> QED BY <2>1, <4>1, <4>2 DEF Honest
    <3>7. CASE Reply(w) \/ LoseReply(w)
      <4>1. pc'[w] = "idle"
        BY <3>7 DEF Reply, LoseReply, Free, TypeOK
      <4> QED BY <4>1 DEF Honest
    <3> QED
      BY <1>2, <2>3, <3>1, <3>2, <3>3, <3>4, <3>5, <3>6, <3>7 DEF Step
  <2> QED BY <2>2, <2>3
<1>3. CASE UNCHANGED vars
  BY <1>3 DEF vars, AnswersHonest, Honest
<1> QED BY <1>1, <1>2, <1>3 DEF Next, AnswersHonest

\* The gateway only learns of final events, and final events stay final.
LEMMA AckedStep ==
    ASSUME TypeOK, TransactionsIsolated, AnswersHonest, AckedIsDurable, [Next]_vars
    PROVE  AckedIsDurable'
<1>1. ASSUME NEW e \in acked' PROVE e \in EventIds /\ log[e].status \in Final
  <2>1. CASE e \in acked
    BY <2>1 DEF AckedIsDurable, TypeOK
  <2>2. CASE e \notin acked
    <3>1. PICK w \in Workers : Reply(w)
      BY <1>1, <2>2 DEF Next, vars, Step, Crash, Deliver, Replay, Duplicate, LockFree, EventOpen, Begin, ApplyOk,
                        ApplyRejected, ApplyRaises, Commit, LoseReply, BusyTimeout
    <3>2. pc[w] = "reply" /\ code[w] = 200 /\ e = ev[w]
      BY <1>1, <2>2, <3>1 DEF Reply
    <3> QED BY <3>2 DEF AnswersHonest, Honest, TypeOK
  <2> QED BY <2>1, <2>2
<1>2. \A e \in acked' : log'[e] = log[e]
  BY <1>1, FinalStep
<1> QED BY <1>1, <1>2 DEF AckedIsDurable

-----------------------------------------------------------------------------
\* The inductive invariant holds in every reachable state.
THEOREM Invariance == Spec => []IInv
<1>1. Init => IInv
  <2> SUFFICES ASSUME Init PROVE IInv
    OBVIOUS
  <2>1. TypeOK
    BY NoneAssumption, BoundAssumption, SMT
       DEF Init, TypeOK, NoEvent, NoPayment, NoTx, EventRows, PaymentRows, Transactions
  <2>2. TransactionsIsolated
    BY NoneAssumption DEF Init, TransactionsIsolated, Isolated, HoldsLock
  <2>3. PaymentsConsistent
    BY SMT DEF Init, PaymentsConsistent, Consistent, NoPayment
  <2>4. AnswersHonest /\ AckedIsDurable
    BY DEF Init, AnswersHonest, Honest, AckedIsDurable
  <2> QED BY <2>1, <2>2, <2>3, <2>4 DEF IInv
<1>2. TypeOK' /\ IInv /\ [Next]_vars => IInv'
  BY ConsistentStep, IsolatedStep, HonestStep, AckedStep DEF IInv
<1> QED
  BY <1>1, <1>2, TypeCorrect, PTL DEF Spec

\* A thread has a step of its own to take, once it waits for nobody.
GoesOn(w) ==
    \/ pc[w] = "verified" /\ LockFree
    \/ pc[w] \in {"apply", "commit", "reply"}

\* The write lock is never left taken: whoever it belongs to is in a transaction,
\* which ends by giving it back, so while any request is unanswered a thread has
\* a step to take, whatever crashed, timed out or raised.
THEOREM ServerIsNeverStuck ==
    Spec => [](/\ lock # NoWorker => \E w \in Workers : lock = w /\ HoldsLock(w)
               /\ (\E w \in Workers : pc[w] # "idle") => \E w \in Workers : GoesOn(w))
<1>1. IInv => (lock # NoWorker => \E w \in Workers : lock = w /\ HoldsLock(w))
  BY DEF IInv, TypeOK, TransactionsIsolated, Isolated
<1>2. IInv => ((\E w \in Workers : pc[w] # "idle") => \E w \in Workers : GoesOn(w))
  <2> SUFFICES ASSUME IInv, NEW w \in Workers, pc[w] # "idle" PROVE \E u \in Workers : GoesOn(u)
    OBVIOUS
  <2>1. CASE lock = NoWorker
    BY <2>1 DEF IInv, TypeOK, GoesOn, LockFree
  <2>2. CASE lock # NoWorker
    BY <1>1, <2>2 DEF HoldsLock, GoesOn
  <2> QED BY <2>1, <2>2
<1> QED BY <1>1, <1>2, Invariance, PTL

\* No payment is ever over-refunded, whatever is delivered, replayed or lost.
THEOREM PaymentsStayConsistent == Spec => []PaymentsConsistent
  BY Invariance, PTL DEF IInv

\* What the gateway stops retrying is durably processed or ignored.
THEOREM NothingAckedIsLost == Spec => []AckedIsDurable
  BY Invariance, PTL DEF IInv

\* A final event is never applied again.
THEOREM FinalStays == Spec => FinalIsFinal
<1>1. IInv /\ [Next]_vars => [\A e \in EventIds : log[e].status \in Final => log'[e] = log[e]]_vars
  BY FinalStep DEF IInv
<1> QED BY <1>1, Invariance, PTL DEF Spec, FinalIsFinal

-----------------------------------------------------------------------------
\* An accepted event does not lower the rank of the payment it is applied to.
LEMMA AppliedForward ==
    ASSUME NEW b \in Bodies, NEW cur \in PaymentRows, Consistent(cur), cur.status # "none",
           ~Rejects(b, cur), ~Raises(b, cur), IsRefund(b) => b.amount > 0
    PROVE  LET new == Applied(b, cur)
           IN new.status # "none" /\ RANK[new.status] >= RANK[cur.status]
<1>0. cur.status \in PaymentStatuses
  BY DEF PaymentRows
<1>1. CASE IsRefund(b)
  <2>1. cur.refunded + b.amount <= cur.amount
    BY <1>1, SMT DEF Rejects, Raises, RefundError, RefundTotal, Bodies, PaymentRows, IsRefund
  <2>2. cur.status # "refunded"
    BY <1>1, <2>1, SMT DEF Consistent, Bodies, PaymentRows
  <2>3. Applied(b, cur).status \in {"refunded", "partially_refunded"}
    BY <1>1 DEF Applied, RefundedPayment
  <2> QED BY <1>0, <2>2, <2>3, SMT DEF RANK, PaymentStatuses
<1>2. CASE b.type \in PaymentEvents
  <2>1. NewStatus(b) \in {"authorized", "captured", "failed"}
    BY <1>2 DEF NewStatus
  <2>2. CASE Stale(b, cur)
    <3>1. Applied(b, cur) = cur
      BY <1>2, <2>2 DEF Applied, IsRefund, MovedPayment
    <3> QED BY <1>0, <3>1, SMT DEF RANK, PaymentStatuses
  <2>3. CASE ~Stale(b, cur)
    <3>1. Applied(b, cur).status = NewStatus(b)
      BY <1>2, <2>3 DEF Applied, IsRefund, MovedPayment
    <3>2. ~(RANK[NewStatus(b)] < RANK[cur.status])
      BY <2>3 DEF Stale
    <3> QED BY <1>0, <2>1, <3>1, <3>2, SMT DEF RANK, PaymentStatuses
  <2> QED BY <2>2, <2>3
<1>3. CASE b.type \notin HANDLED
  BY <1>0, <1>3, SMT DEF Applied, IsRefund, RANK, PaymentStatuses
<1> QED BY <1>1, <1>2, <1>3 DEF IsRefund

\* "A late or repeated event may never move a payment backwards", for every
\* order and repetition of every set of events whose refunds are positive.
THEOREM PaymentsMoveForward == PositiveRefunds => (Spec => NeverBackwards)
<1> SUFFICES ASSUME PositiveRefunds PROVE Spec => NeverBackwards
  OBVIOUS
<1> DEFINE Forward == \A p \in PaymentIds : payments[p].status # "none" =>
                        /\ payments'[p].status # "none"
                        /\ RANK[payments'[p].status] >= RANK[payments[p].status]
<1>1. IInv /\ [Next]_vars => Forward
  <2> SUFFICES ASSUME IInv, [Next]_vars, NEW p \in PaymentIds, payments[p].status # "none"
               PROVE  /\ payments'[p].status # "none"
                      /\ RANK[payments'[p].status] >= RANK[payments[p].status]
    OBVIOUS
  <2>0. payments[p] \in PaymentRows /\ payments[p].status \in PaymentStatuses
    BY DEF IInv, TypeOK, PaymentRows
  <2>1. CASE payments'[p] = payments[p]
    BY <2>0, <2>1, SMT DEF RANK, PaymentStatuses
  <2>2. CASE payments'[p] # payments[p]
    <3>1. PICK w \in Workers : ev[w] \in EventIds /\ Committed(w)
      BY <2>2, TablesStep DEF IInv
    <3> DEFINE b == Body[ev[w]]
    <3>2. b \in Bodies /\ (IsRefund(b) => b.amount > 0)
      BY <3>1, BodyAssumption DEF PositiveRefunds
    <3>3. payments' = [payments EXCEPT ![b.payment] = tx[w].pay]
      BY <3>1 DEF Committed
    <3>4. b.payment = p /\ payments'[p] = tx[w].pay
      BY <2>2, <3>3 DEF IInv, TypeOK
    <3>5. /\ payments'[p] = Applied(b, payments[p])
          /\ ~Rejects(b, payments[p])
          /\ ~Raises(b, payments[p])
      BY <2>2, <3>1, <3>4 DEF Committed
    <3>6. Consistent(payments[p])
      BY DEF IInv, PaymentsConsistent
    <3> QED BY <2>0, <3>2, <3>5, <3>6, AppliedForward
  <2> QED BY <2>1, <2>2
<1> QED BY <1>1, Invariance, PTL DEF Spec, NeverBackwards

-----------------------------------------------------------------------------
\* The receiver implements the refund book: the commit of an accepted refund
\* is its Refund step, the commit that first stores a payment its Open step,
\* and every other step leaves the book as it is.
THEOREM RefundBookImplemented == Spec => ImplementsRefundBook
<1> DEFINE Refunds == {e \in EventIds : IsRefund(Body[e])}
           applied == {e \in EventIds : IsRefund(Body[e]) /\ log[e].status = "processed"}
           paid == [p \in PaymentIds |-> payments[p].amount]
           refunded == [p \in PaymentIds |-> payments[p].refunded]
<1>1. Init => Book!Init
  BY DEF Init, Book!Init, NoEvent, NoPayment
<1>2. IInv /\ TypeOK' /\ [Next]_vars => [Book!Next]_Book!bookVars
  <2> SUFFICES ASSUME IInv, TypeOK', [Next]_vars PROVE [Book!Next]_Book!bookVars
    OBVIOUS
  <2>1. CASE UNCHANGED <<log, payments>>
    BY <2>1 DEF Book!bookVars
  <2>2. ASSUME NEW w \in Workers, NEW e \in EventIds, e = ev[w], Committed(w)
        PROVE  [Book!Next]_Book!bookVars
    <3> DEFINE b == Body[e]
               p == b.payment
               cur == payments[p]
    <3>1. b \in Bodies /\ p \in PaymentIds /\ cur \in PaymentRows /\ Consistent(cur)
      BY <2>2, BodyAssumption DEF Bodies, IInv, TypeOK, PaymentsConsistent
    <3>2. /\ log' = [log EXCEPT ![e] = tx[w].row]
          /\ payments' = [payments EXCEPT ![p] = tx[w].pay]
          /\ log[e].status \notin Final
      BY <2>2 DEF Committed
    <3>3. log'[e] = tx[w].row /\ \A f \in EventIds : f # e => log'[f] = log[f]
      BY <2>2, <3>2 DEF IInv, TypeOK
    <3>4. payments'[p] = tx[w].pay /\ \A q \in PaymentIds : q # p => payments'[q] = payments[q]
      BY <3>1, <3>2 DEF IInv, TypeOK
    <3>5. CASE /\ payments'[p].amount = cur.amount
               /\ payments'[p].refunded = cur.refunded
               /\ IsRefund(b) => log'[e].status # "processed"
      <4>1. paid' = paid /\ refunded' = refunded
        BY <3>4, <3>5
      <4>2. applied' = applied
        BY <3>2, <3>3, <3>5
      <4> QED BY <4>1, <4>2 DEF Book!bookVars
    <3>6. CASE IsRefund(b) /\ ~Rejects(b, cur) /\ ~Raises(b, cur)
               /\ tx[w].row.status = Outcome(b) /\ tx[w].pay = Applied(b, cur)
      <4>1. cur.status # "none" /\ cur.refunded + b.amount <= cur.amount
        BY <3>1, <3>6, SMT DEF Rejects, Raises, RefundError, RefundTotal, Bodies, PaymentRows, IsRefund
      <4>2. payments'[p].refunded = cur.refunded + b.amount /\ payments'[p].amount = cur.amount
        BY <3>4, <3>6 DEF Applied, RefundedPayment, RefundTotal
      <4>3. e \in Refunds /\ e \notin applied /\ applied' = applied \cup {e}
        BY <2>2, <3>2, <3>3, <3>6 DEF Outcome, IsRefund
      <4>4. paid' = paid
        BY <3>4, <4>2
      <4>5. refunded' = [refunded EXCEPT ![p] = @ + b.amount]
        BY <3>1, <3>4, <4>2
      <4>6. paid[p] > 0 /\ refunded[p] + b.amount <= paid[p]
        BY <3>1, <4>1 DEF Consistent
      <4>7. Book!Refund(e)
        BY <2>2, <4>3, <4>4, <4>5, <4>6 DEF Book!Refund
      <4>8. \E r \in Refunds : Book!Refund(r)
        BY <4>3, <4>7
      <4> QED BY <4>8 DEF Book!Next
    <3>7. CASE b.type \in PaymentEvents /\ ~Rejects(b, cur) /\ cur.status = "none"
               /\ tx[w].row.status = Outcome(b) /\ tx[w].pay = Applied(b, cur)
      <4>1. payments'[p].amount = b.amount /\ payments'[p].refunded = 0
        BY <3>4, <3>7 DEF Applied, IsRefund, MovedPayment
      <4>2. b.amount > 0
        BY <3>1, <3>7, SMT DEF Rejects, PaymentError, Bodies
      <4>3. cur.amount = 0 /\ cur.refunded = 0
        BY <3>1, <3>7 DEF Consistent, NoPayment
      <4>4. paid' = [paid EXCEPT ![p] = b.amount]
        BY <3>1, <3>4, <4>1
      <4>5. refunded' = refunded
        BY <3>4, <4>1, <4>3
      <4>6. applied' = applied
        BY <3>2, <3>3, <3>7 DEF IsRefund
      <4>7. Book!Open(p)
        BY <2>2, <3>1, <4>2, <4>3, <4>4, <4>5, <4>6 DEF Book!Open
      <4>8. \E a \in PaymentIds : Book!Open(a)
        BY <3>1, <4>7
      <4> QED BY <4>8 DEF Book!Next
    <3>8. CASE tx[w].row.status = "failed" /\ tx[w].pay = cur
      BY <3>3, <3>4, <3>5, <3>8
    <3>9. CASE b.type \in PaymentEvents /\ cur.status # "none" /\ tx[w].pay = Applied(b, cur)
      BY <3>4, <3>5, <3>9 DEF Applied, IsRefund, MovedPayment
    <3>10. CASE b.type \notin HANDLED /\ tx[w].pay = Applied(b, cur)
      BY <3>4, <3>5, <3>10 DEF Applied, IsRefund
    <3> QED
      BY <2>2, <3>6, <3>7, <3>8, <3>9, <3>10 DEF Committed, IsRefund
  <2> QED
    BY <2>1, <2>2, TablesStep DEF IInv
<1> QED
  BY <1>1, <1>2, Invariance, TypeCorrect, PTL DEF Spec, Book!Spec, ImplementsRefundBook

-----------------------------------------------------------------------------
(* What a payment row says of the log: its total and its status.              *)

\* The log has finitely many processed events, of the types that are handled.
ProcessedEvents == {e \in EventIds : log[e].status = "processed"}
LogInStep ==
    /\ IsFiniteSet(ProcessedEvents)
    /\ \A e \in ProcessedEvents : Body[e].type \in HANDLED

\* The status is the furthest of the moves processed, or the refunds', said
\* without choosing a move.
MovesOf(p) == EventsOf(p) \ RefundsOf(p)
StatusFits(p) ==
    LET cur == payments[p]
    IN /\ cur.status = "none" <=> MovesOf(p) = {}
       /\ RefundsOf(p) # {} =>
            /\ MovesOf(p) # {}
            /\ cur.status = IF cur.refunded = cur.amount THEN "refunded" ELSE "partially_refunded"
       /\ RefundsOf(p) = {} /\ MovesOf(p) # {} =>
            /\ \E e \in MovesOf(p) : cur.status = NewStatus(Body[e])
            /\ \A e \in MovesOf(p) : RANK[NewStatus(Body[e])] <= RANK[cur.status]

StatusesFit == \A p \in PaymentIds : StatusFits(p)

BooksInv == IInv /\ LogInStep /\ RefundsAccounted /\ StatusesFit

\* What a commit does to the payment row and to the events processed for it.
Untouched(p) == /\ payments'[p] = payments[p]
                /\ EventsOf(p)' = EventsOf(p) /\ RefundsOf(p)' = RefundsOf(p)
Accepted(e, p) ==
    /\ Body[e].payment = p /\ Body[e].type \in HANDLED
    /\ ~Rejects(Body[e], payments[p]) /\ ~Raises(Body[e], payments[p])
    /\ payments'[p] = Applied(Body[e], payments[p])
    /\ e \notin EventsOf(p) /\ EventsOf(p)' = EventsOf(p) \cup {e}
    /\ RefundsOf(p)' = IF IsRefund(Body[e]) THEN RefundsOf(p) \cup {e} ELSE RefundsOf(p)

LEMMA CommitEffects ==
    ASSUME IInv, NEW w \in Workers, NEW e \in EventIds, e = ev[w], Committed(w),
           NEW p \in PaymentIds
    PROVE  /\ Untouched(p) \/ Accepted(e, p)
           /\ \/ ProcessedEvents' = ProcessedEvents
              \/ ProcessedEvents' = ProcessedEvents \cup {e} /\ Body[e].type \in HANDLED
<1> DEFINE b == Body[e]
<1>1. b \in Bodies /\ b.payment \in PaymentIds
  BY BodyAssumption DEF Bodies
<1>2. log \in [EventIds -> EventRows] /\ payments \in [PaymentIds -> PaymentRows]
  BY DEF IInv, TypeOK
<1>3. /\ log' = [log EXCEPT ![e] = tx[w].row] /\ payments' = [payments EXCEPT ![b.payment] = tx[w].pay]
      /\ log[e].status # "processed"
  BY DEF Committed
<1>4. /\ log'[e] = tx[w].row /\ (p = b.payment => payments'[p] = tx[w].pay)
      /\ \A f \in EventIds \ {e} : log'[f] = log[f]
      /\ p # b.payment => payments'[p] = payments[p]
  BY <1>1, <1>2, <1>3
<1>5. b.type \in HANDLED \/ b.type = "other"
  BY <1>1 DEF Bodies
<1>6. CASE log'[e].status # "processed"
  <2>1. EventsOf(p)' = EventsOf(p) /\ ProcessedEvents' = ProcessedEvents
    BY <1>3, <1>4, <1>6 DEF EventsOf, ProcessedEvents
  <2>2. RefundsOf(p)' = RefundsOf(p)
    BY <2>1 DEF RefundsOf
  <2>3. p = b.payment => payments'[p] = payments[p]
    <3>1. CASE tx[w].row.status = "failed" /\ tx[w].pay = payments[b.payment]
      BY <1>4, <3>1
    <3>2. CASE tx[w].row.status = Outcome(b) /\ tx[w].pay = Applied(b, payments[b.payment])
      BY <1>4, <1>6, <3>2 DEF Outcome, Applied, IsRefund
    <3> QED BY <3>1, <3>2 DEF Committed
  <2>4. payments'[p] = payments[p]
    BY <1>4, <2>3
  <2> QED BY <2>1, <2>2, <2>4 DEF Untouched
<1>7. CASE log'[e].status = "processed"
  <2>1. /\ b.type \in HANDLED /\ ~Rejects(b, payments[b.payment]) /\ ~Raises(b, payments[b.payment])
        /\ tx[w].pay = Applied(b, payments[b.payment])
    BY <1>4, <1>7 DEF Committed, Outcome
  <2>2. ProcessedEvents' = ProcessedEvents \cup {e}
    BY <1>3, <1>4, <1>7 DEF ProcessedEvents
  <2>3. CASE p # b.payment
    <3>1. EventsOf(p)' = EventsOf(p)
      BY <1>4, <2>3 DEF EventsOf
    <3> QED BY <1>4, <2>1, <2>2, <2>3, <3>1 DEF Untouched, RefundsOf
  <2>4. CASE p = b.payment
    <3>1. EventsOf(p)' = EventsOf(p) \cup {e} /\ e \notin EventsOf(p)
      BY <1>3, <1>4, <1>7, <2>4 DEF EventsOf
    <3>2. RefundsOf(p)' = IF IsRefund(b) THEN RefundsOf(p) \cup {e} ELSE RefundsOf(p)
      BY <3>1 DEF RefundsOf
    <3> QED BY <1>4, <2>1, <2>2, <2>4, <3>1, <3>2 DEF Accepted
  <2> QED BY <2>3, <2>4
<1> QED BY <1>6, <1>7

\* The types of the statuses a move gives.
LEMMA MoveStatus ==
    ASSUME NEW e \in ProcessedEvents, LogInStep, ~IsRefund(Body[e])
    PROVE  Body[e].type \in PaymentEvents /\ NewStatus(Body[e]) \in {"authorized", "captured", "failed"}
  BY DEF LogInStep, IsRefund, NewStatus

LEMMA Ranks ==
    /\ \A s \in PaymentStatuses : RANK[s] \in Nat
    /\ \A s, t \in PaymentStatuses : RANK[s] = RANK[t] => s = t
    /\ \A s \in {"authorized", "captured", "failed"} :
          s \in PaymentStatuses /\ RANK[s] < RANK["partially_refunded"] /\ RANK[s] < RANK["refunded"]
  BY SMT DEF RANK, PaymentStatuses

LEMMA AccountedStep ==
    ASSUME BooksInv, NEW e \in EventIds, NEW p \in PaymentIds, Accepted(e, p)
    PROVE  payments'[p].refunded = SumOver(AmountOf, RefundsOf(p)')
<1> DEFINE b == Body[e]
           cur == payments[p]
<1>1. /\ cur \in PaymentRows /\ Consistent(cur) /\ cur.refunded = SumOver(AmountOf, RefundsOf(p))
      /\ b \in Bodies
  BY BodyAssumption DEF BooksInv, IInv, TypeOK, PaymentsConsistent, RefundsAccounted
<1>2. CASE IsRefund(b)
  <2>1. IsFiniteSet(RefundsOf(p)) /\ e \notin RefundsOf(p) /\ RefundsOf(p) \subseteq EventIds
    <3>1. RefundsOf(p) \in SUBSET ProcessedEvents
      BY DEF RefundsOf, EventsOf, ProcessedEvents
    <3>2. IsFiniteSet(ProcessedEvents)
      BY DEF BooksInv, LogInStep
    <3>3. IsFiniteSet(RefundsOf(p))
      BY <3>1, <3>2, FS_Subset
    <3> QED BY <3>1, <3>3 DEF Accepted, RefundsOf, EventsOf
  <2>2. \A f \in EventIds : AmountOf[f] = Body[f].amount /\ AmountOf[f] \in Int
    BY BodyAssumption DEF AmountOf, Bodies
  <2>5. \A f \in RefundsOf(p) \cup {e} : AmountOf[f] \in Int
    BY <2>1, <2>2
  <2>6. SumOver(AmountOf, RefundsOf(p) \cup {e}) = SumOver(AmountOf, RefundsOf(p)) + AmountOf[e]
    BY <2>1, <2>5, SumAdds
  <2>3. SumOver(AmountOf, RefundsOf(p) \cup {e}) = SumOver(AmountOf, RefundsOf(p)) + b.amount
    BY <2>2, <2>6
  <2>4. payments'[p].refunded = cur.refunded + b.amount
    BY <1>2 DEF Accepted, Applied, RefundedPayment, RefundTotal
  <2> QED BY <1>1, <1>2, <2>3, <2>4 DEF Accepted
<1>3. CASE ~IsRefund(b)
  <2>1. payments'[p] = MovedPayment(b, cur) /\ RefundsOf(p)' = RefundsOf(p)
    BY <1>3 DEF Accepted, Applied, IsRefund
  <2>2. cur.status = "none" => cur.refunded = 0
    BY <1>1 DEF Consistent, NoPayment
  <2>3. payments'[p].refunded = cur.refunded
    BY <2>1, <2>2 DEF MovedPayment
  <2> QED BY <1>1, <2>1, <2>3
<1> QED BY <1>2, <1>3

\* An accepted event keeps the status the furthest of the moves, or the refunds'.
LEMMA FitsStep ==
    ASSUME BooksInv, NEW e \in EventIds, NEW p \in PaymentIds, Accepted(e, p)
    PROVE  StatusFits(p)'
<1> DEFINE b == Body[e]
           cur == payments[p]
           moves == MovesOf(p)
           refunds == RefundsOf(p)
<1>1. /\ cur \in PaymentRows /\ Consistent(cur) /\ StatusFits(p)
      /\ b \in Bodies /\ b.type \in HANDLED
      /\ ~Rejects(b, cur) /\ payments'[p] = Applied(b, cur)
  BY BodyAssumption DEF BooksInv, IInv, TypeOK, PaymentsConsistent, StatusesFit, Accepted
<1>2. \A f \in moves : f \in ProcessedEvents /\ ~IsRefund(Body[f])
  BY DEF MovesOf, RefundsOf, EventsOf, ProcessedEvents
<1>3. \A f \in moves : NewStatus(Body[f]) \in {"authorized", "captured", "failed"}
  BY <1>2, MoveStatus DEF BooksInv
<1>4. CASE IsRefund(b)
  <2>1. moves' = moves /\ refunds' # {}
    BY <1>4 DEF Accepted, MovesOf, RefundsOf
  <2>2. cur.status # "none"
    BY <1>1, <1>4 DEF Rejects, RefundError
  <2>3. moves # {}
    BY <1>1, <2>2 DEF StatusFits
  <2>4. /\ payments'[p].refunded = RefundTotal(b, cur) /\ payments'[p].amount = cur.amount
        /\ payments'[p].status = IF RefundTotal(b, cur) = cur.amount
                                   THEN "refunded" ELSE "partially_refunded"
    BY <1>1, <1>4 DEF Applied, RefundedPayment
  <2>5. payments'[p].status \in {"refunded", "partially_refunded"}
    BY <2>4
  <2> QED BY <2>1, <2>3, <2>4, <2>5 DEF StatusFits
<1>5. CASE ~IsRefund(b)
  <2>1. b.type \in PaymentEvents /\ payments'[p] = MovedPayment(b, cur)
    BY <1>1, <1>5 DEF IsRefund, Applied
  <2>2. moves' = moves \cup {e} /\ refunds' = refunds
    BY <1>5 DEF Accepted, MovesOf, RefundsOf
  <2>3. NewStatus(b) \in {"authorized", "captured", "failed"}
    BY <2>1 DEF NewStatus
  <2>4. NewStatus(b) \in PaymentStatuses /\ RANK[NewStatus(b)] \in Nat
        /\ RANK[NewStatus(b)] < RANK["partially_refunded"] /\ RANK[NewStatus(b)] < RANK["refunded"]
    BY <2>3, Ranks
  <2>5. CASE cur.status = "none"
    <3>1. moves = {} /\ refunds = {}
      BY <1>1, <2>5 DEF StatusFits
    <3>2. payments'[p].status = NewStatus(b)
      BY <2>1, <2>5 DEF MovedPayment
    <3>3. moves' = {e} /\ refunds' = {}
      BY <2>2, <3>1
    <3>4. payments'[p].status # "none"
      BY <2>3, <3>2
    <3>5. RANK[NewStatus(b)] <= RANK[NewStatus(b)]
      BY <2>4
    <3> QED BY <3>2, <3>3, <3>4, <3>5 DEF StatusFits
  <2>6. CASE cur.status # "none" /\ refunds # {}
    <3>1. cur.status \in {"refunded", "partially_refunded"} /\ moves # {}
      BY <1>1, <2>6 DEF StatusFits
    <3>2. RANK[NewStatus(b)] < RANK[cur.status]
      BY <2>4, <3>1
    <3>3. payments'[p] = cur
      BY <2>1, <2>6, <3>2 DEF MovedPayment, Stale
    <3> QED BY <1>1, <2>2, <2>6, <3>1, <3>3 DEF StatusFits
  <2>7. CASE cur.status # "none" /\ refunds = {}
    <3>1. moves # {}
      BY <1>1, <2>7 DEF StatusFits
    <3>2. PICK f \in moves : cur.status = NewStatus(Body[f])
      BY <1>1, <2>7, <3>1 DEF StatusFits
    <3>3. \A g \in moves : RANK[NewStatus(Body[g])] <= RANK[cur.status]
      BY <1>1, <2>7, <3>1 DEF StatusFits
    <3>4. cur.status \in PaymentStatuses /\ RANK[cur.status] \in Nat
      BY <1>3, <3>2, Ranks
    <3>5. \A g \in moves : RANK[NewStatus(Body[g])] \in Nat
      BY <1>3, Ranks
    <3>6. CASE Stale(b, cur)
      <4>1. payments'[p] = cur
        BY <2>1, <2>7, <3>6 DEF MovedPayment
      <4>2. RANK[NewStatus(b)] <= RANK[cur.status]
        BY <2>4, <3>4, <3>6 DEF Stale
      <4>3. \A g \in moves' : RANK[NewStatus(Body[g])] <= RANK[cur.status]
        BY <2>2, <3>3, <4>2
      <4>4. f \in moves' /\ moves' # {} /\ refunds' = {}
        BY <2>2, <2>7
      <4> QED BY <2>7, <3>2, <4>1, <4>3, <4>4 DEF StatusFits
    <3>7. CASE ~Stale(b, cur)
      <4>1. payments'[p].status = NewStatus(b)
        BY <2>1, <2>7, <3>7 DEF MovedPayment
      <4>2. RANK[cur.status] <= RANK[NewStatus(b)]
        BY <2>4, <3>4, <3>7 DEF Stale
      <4>3. \A g \in moves : RANK[NewStatus(Body[g])] <= RANK[NewStatus(b)]
        BY <2>4, <3>3, <3>4, <3>5, <4>2
      <4>4. \A g \in moves' : RANK[NewStatus(Body[g])] <= RANK[NewStatus(b)]
        BY <2>2, <2>4, <4>3
      <4>5. e \in moves' /\ moves' # {} /\ refunds' = {}
        BY <2>2, <2>7
      <4>6. payments'[p].status # "none"
        BY <2>3, <4>1
      <4> QED BY <4>1, <4>4, <4>5, <4>6 DEF StatusFits
    <3> QED BY <3>6, <3>7
  <2> QED BY <2>5, <2>6, <2>7
<1> QED BY <1>4, <1>5

LEMMA BooksInvariance == Spec => []BooksInv
<1>1. Init => LogInStep /\ RefundsAccounted /\ StatusesFit
  <2> SUFFICES ASSUME Init PROVE LogInStep /\ RefundsAccounted /\ StatusesFit
    OBVIOUS
  <2>1. \A e \in EventIds : log[e].status = "none"
    BY DEF Init, NoEvent
  <2>2. \A p \in PaymentIds : payments[p].status = "none" /\ payments[p].refunded = 0
    BY DEF Init, NoPayment
  <2>3. ProcessedEvents = {}
    BY <2>1 DEF ProcessedEvents
  <2>4. \A p \in PaymentIds : EventsOf(p) = {} /\ RefundsOf(p) = {}
    BY <2>1 DEF EventsOf, RefundsOf
  <2>5. LogInStep
    BY <2>3, FS_EmptySet DEF LogInStep
  <2>6. RefundsAccounted
    BY <2>2, <2>4, SumEmpty DEF RefundsAccounted
  <2>7. StatusesFit
    BY <2>2, <2>4 DEF StatusesFit, StatusFits, MovesOf
  <2> QED BY <2>5, <2>6, <2>7
<1>2. BooksInv /\ IInv' /\ [Next]_vars => (LogInStep /\ RefundsAccounted /\ StatusesFit)'
  <2> SUFFICES ASSUME BooksInv, IInv', [Next]_vars
               PROVE  (LogInStep /\ RefundsAccounted /\ StatusesFit)'
    OBVIOUS
  <2>1. CASE UNCHANGED <<log, payments>>
    BY <2>1 DEF BooksInv, LogInStep, ProcessedEvents, RefundsAccounted, StatusesFit, StatusFits,
                MovesOf, RefundsOf, EventsOf
  <2>2. ASSUME NEW w \in Workers, ev[w] \in EventIds, Committed(w)
        PROVE  (LogInStep /\ RefundsAccounted /\ StatusesFit)'
    <3> DEFINE e == ev[w]
    <3>1. \A p \in PaymentIds : Untouched(p) \/ Accepted(e, p)
      BY <2>2, CommitEffects DEF BooksInv
    <3>2. RefundsAccounted'
      <4> SUFFICES ASSUME NEW p \in PaymentIds
                   PROVE  payments'[p].refunded = SumOver(AmountOf, RefundsOf(p)')
        BY DEF RefundsAccounted, AmountOf
      <4>1. CASE Untouched(p)
        BY <4>1 DEF Untouched, BooksInv, RefundsAccounted
      <4>2. CASE Accepted(e, p)
        BY <2>2, <4>2, AccountedStep
      <4> QED BY <3>1, <4>1, <4>2
    <3>3. StatusesFit'
      <4> SUFFICES ASSUME NEW p \in PaymentIds PROVE StatusFits(p)'
        BY DEF StatusesFit
      <4>1. CASE Untouched(p)
        <5>1. StatusFits(p)
          BY DEF BooksInv, StatusesFit
        <5> QED BY <4>1, <5>1 DEF Untouched, StatusFits, MovesOf
      <4>2. CASE Accepted(e, p)
        BY <2>2, <4>2, FitsStep
      <4> QED BY <3>1, <4>1, <4>2
    <3>4. LogInStep'
      <4>1. Body[e].payment \in PaymentIds
        BY <2>2, BodyAssumption DEF Bodies
      <4>2. \/ ProcessedEvents' = ProcessedEvents
            \/ ProcessedEvents' = ProcessedEvents \cup {e} /\ Body[e].type \in HANDLED
        BY <2>2, <4>1, CommitEffects DEF BooksInv
      <4>3. IsFiniteSet(ProcessedEvents) /\ \A f \in ProcessedEvents : Body[f].type \in HANDLED
        BY DEF BooksInv, LogInStep
      <4>4. IsFiniteSet(ProcessedEvents \cup {e})
        BY <4>3, FS_AddElement
      <4> QED BY <4>2, <4>3, <4>4 DEF LogInStep
    <3> QED BY <3>2, <3>3, <3>4
  <2>3. TypeOK /\ TransactionsIsolated
    BY DEF BooksInv, IInv
  <2> QED BY <2>1, <2>2, <2>3, TablesStep
<1> QED BY <1>1, <1>2, Invariance, PTL DEF Spec, BooksInv

\* Exactly once: what a payment row says was refunded is the sum of the refund
\* events the log says were processed, however often each was delivered or
\* replayed, and wherever the process crashed.
THEOREM RefundsAreAccounted == Spec => []RefundsAccounted
  BY BooksInvariance, PTL DEF BooksInv

\* The order of delivery does not matter: the status of a payment is what the
\* set of the events processed for it gives.
THEOREM StatusesAreJoins == Spec => []StatusIsJoin
<1>1. BooksInv => StatusIsJoin
  <2> SUFFICES ASSUME BooksInv, NEW p \in PaymentIds
               PROVE  payments[p].status =
                        IF MovesOf(p) = {} THEN "none"
                        ELSE IF RefundsOf(p) # {}
                          THEN IF payments[p].refunded = payments[p].amount
                                 THEN "refunded" ELSE "partially_refunded"
                        ELSE NewStatus(Body[CHOOSE e \in MovesOf(p) : \A f \in MovesOf(p) :
                                              RANK[NewStatus(Body[e])] >= RANK[NewStatus(Body[f])]])
    BY DEF StatusIsJoin, MovesOf
  <2> DEFINE cur == payments[p]
             moves == MovesOf(p)
             Furthest(e) == \A f \in moves : RANK[NewStatus(Body[e])] >= RANK[NewStatus(Body[f])]
             chosen == CHOOSE e \in moves : Furthest(e)
  <2>1. StatusFits(p)
    BY DEF BooksInv, StatusesFit
  <2>2. CASE moves = {} \/ RefundsOf(p) # {}
    BY <2>1, <2>2 DEF StatusFits
  <2>3. CASE moves # {} /\ RefundsOf(p) = {}
    <3>1. \A f \in moves : f \in ProcessedEvents /\ ~IsRefund(Body[f])
      BY DEF MovesOf, RefundsOf, EventsOf, ProcessedEvents
    <3>2. \A f \in moves : NewStatus(Body[f]) \in {"authorized", "captured", "failed"}
      BY <3>1, MoveStatus DEF BooksInv
    <3>3. \A f \in moves : NewStatus(Body[f]) \in PaymentStatuses /\ RANK[NewStatus(Body[f])] \in Nat
      BY <3>2, Ranks
    <3>4. PICK e \in moves : cur.status = NewStatus(Body[e])
      BY <2>1, <2>3 DEF StatusFits
    <3>5. \A f \in moves : RANK[NewStatus(Body[f])] <= RANK[NewStatus(Body[e])]
      BY <2>1, <2>3, <3>4 DEF StatusFits
    <3>6. Furthest(e)
      BY <3>3, <3>5
    <3>7. chosen \in moves /\ Furthest(chosen)
      BY <3>6
    <3> HIDE DEF chosen
    <3>8. RANK[NewStatus(Body[chosen])] = RANK[NewStatus(Body[e])]
      BY <3>3, <3>5, <3>7
    <3>9. NewStatus(Body[chosen]) = NewStatus(Body[e])
      BY <3>3, <3>7, <3>8, Ranks
    <3>10. cur.status = NewStatus(Body[chosen])
      BY <3>4, <3>9
    <3> QED BY <2>3, <3>10 DEF chosen
  <2> QED BY <2>2, <2>3
<1> QED BY <1>1, BooksInvariance, PTL

=============================================================================
