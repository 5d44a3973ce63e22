-------------------------- MODULE VendorOrchestrator --------------------------
(* screening/orchestrator.py: every screening calls every vendor from a       *)
(* thread of its own; a call tries a few times, each try a task of the one    *)
(* pool that all screenings share.  A circuit breaker per vendor counts the   *)
(* calls that failed.  Time is only what it decides: a task that waits for a  *)
(* free worker or for a vendor that does not answer may be given up, and an   *)
(* open breaker cools down.                                                   *)
EXTENDS Integers, Sequences, FiniteSets

CONSTANTS
    Screens,      \* screenings under way, each in its request thread
    Vendors,      \* vendors
    Healthy,      \* those that answer every task at once and without error
    Workers,      \* max_workers of the pool
    MaxAttempts,  \* max_attempts
    Threshold     \* breaker_threshold

ASSUME OrchestratorAssumption ==
    /\ Healthy \subseteq Vendors
    /\ Workers \in Nat \ {0} /\ MaxAttempts \in Nat \ {0} /\ Threshold \in Nat \ {0}

VARIABLES
    call,      \* call[s][v]: the call of vendor v in screening s
    breaker,   \* breaker[v]: the circuit breaker of vendor v
    queue,     \* the tasks waiting for a worker of the pool
    running    \* the tasks a worker runs

vendorVars == <<call, breaker, queue, running>>

Answers == {"ok", "error", "rejected"}
Statuses == {"ok", "error", "rejected", "timeout", "circuit_open"}

Closed == [failures |-> 0, opened |-> "no"]   \* opened_at is None
FirstCall == [pc |-> "start", attempt |-> 0, got |-> "none", status |-> "none"]

VendorInit ==
    /\ call = [s \in Screens |-> [v \in Vendors |-> FirstCall]]
    /\ breaker = [v \in Vendors |-> Closed]
    /\ queue = <<>>
    /\ running = {}

-----------------------------------------------------------------------------
(* CircuitBreaker                                                             *)

Allowed(v) == breaker[v].opened \in {"no", "cooled"}

\* mutant: a success forgets opened_at only
RecordedHalf(v, ok) ==
    IF ok THEN [breaker[v] EXCEPT !.opened = "no"]
    ELSE [failures |-> breaker[v].failures + 1,
          opened |-> IF breaker[v].failures + 1 >= Threshold THEN "cooling" ELSE breaker[v].opened]
Recorded(v, ok) ==
    IF ok THEN Closed
    ELSE [failures |-> breaker[v].failures + 1,
          opened |-> IF breaker[v].failures + 1 >= Threshold THEN "cooling" ELSE breaker[v].opened]

Record(v, ok) == breaker' = [breaker EXCEPT ![v] = Recorded(v, ok)]

\* the cool-down passes
CoolDown(v) ==
    /\ breaker[v].opened = "cooling"
    /\ breaker' = [breaker EXCEPT ![v].opened = "cooled"]
    /\ UNCHANGED <<call, queue, running>>

-----------------------------------------------------------------------------
(* Orchestrator._call                                                         *)

Task(s, v) == [screen |-> s, vendor |-> v, attempt |-> call[s][v].attempt + 1]
CallEnds(s, v, status) == call' = [call EXCEPT ![s][v].pc = "done", ![s][v].status = status]

Submit(s, v) ==
    /\ call' = [call EXCEPT ![s][v] = [@ EXCEPT !.pc = "wait", !.attempt = call[s][v].attempt + 1,
                                               !.got = "none"]]
    /\ queue' = Append(queue, Task(s, v))

Skip(s, v) ==
    /\ call[s][v].pc = "start"
    /\ ~Allowed(v)
    /\ CallEnds(s, v, "circuit_open")
    /\ UNCHANGED <<breaker, queue, running>>

Admit(s, v) ==
    /\ call[s][v].pc = "start"
    /\ Allowed(v)
    /\ Submit(s, v)
    /\ UNCHANGED <<breaker, running>>

Succeed(s, v) ==
    /\ call[s][v].pc = "wait" /\ call[s][v].got = "ok"
    /\ Record(v, TRUE)
    /\ CallEnds(s, v, "ok")
    /\ UNCHANGED <<queue, running>>

Reject(s, v) ==
    /\ call[s][v].pc = "wait" /\ call[s][v].got = "rejected"
    /\ Record(v, FALSE)
    /\ CallEnds(s, v, "rejected")
    /\ UNCHANGED <<queue, running>>

\* a failed try: the call sleeps and tries again, or gives up
TryAgainOrEnd(s, v, status) ==
    IF call[s][v].attempt < MaxAttempts
    THEN call' = [call EXCEPT ![s][v].pc = "backoff"] /\ UNCHANGED breaker
    ELSE Record(v, FALSE) /\ CallEnds(s, v, status)

Error(s, v) ==
    /\ call[s][v].pc = "wait" /\ call[s][v].got = "error"
    /\ TryAgainOrEnd(s, v, "error")
    /\ UNCHANGED <<queue, running>>

\* the task has not answered in time: it waits while every worker is kept by
\* a slow vendor, or its own vendor is slow; it is left where it is
\* mutant: no timeout
NeverOverdue(s, v) == FALSE
Overdue(s, v) ==
    /\ call[s][v].got = "none"
    /\ \/ Cardinality(running) = Workers /\ \A t \in running : t.vendor \notin Healthy
          /\ \E i \in DOMAIN queue : queue[i] = [screen |-> s, vendor |-> v, attempt |-> call[s][v].attempt]
       \/ v \notin Healthy
          /\ [screen |-> s, vendor |-> v, attempt |-> call[s][v].attempt] \in running

Timeout(s, v) ==
    /\ call[s][v].pc = "wait"
    /\ Overdue(s, v)
    /\ TryAgainOrEnd(s, v, "timeout")
    /\ UNCHANGED <<queue, running>>

Retry(s, v) ==
    /\ call[s][v].pc = "backoff"
    /\ Submit(s, v)
    /\ UNCHANGED <<breaker, running>>

-----------------------------------------------------------------------------
(* the pool, and the vendors                                                  *)

Take ==
    /\ queue # <<>>
    /\ Cardinality(running) < Workers
    /\ running' = running \cup {Head(queue)}
    /\ queue' = Tail(queue)
    /\ UNCHANGED <<call, breaker>>

\* mutant: the answer of any try is taken for the one waited for
AwaitedByAnyTry(t) == call[t.screen][t.vendor].pc = "wait"
Awaited(t) ==
    call[t.screen][t.vendor].pc = "wait" /\ call[t.screen][t.vendor].attempt = t.attempt

\* the future of a try that was given up is looked at by nobody
Finish(t, answer) ==
    /\ t \in running
    /\ t.vendor \in Healthy => answer = "ok"
    /\ running' = running \ {t}
    /\ call' = IF Awaited(t) THEN [call EXCEPT ![t.screen][t.vendor].got = answer] ELSE call
    /\ UNCHANGED <<breaker, queue>>

-----------------------------------------------------------------------------
CallStep(s, v) ==
    \/ Skip(s, v) \/ Admit(s, v) \/ Succeed(s, v) \/ Reject(s, v)
    \/ Error(s, v) \/ Timeout(s, v) \/ Retry(s, v)

AllDone == \A s \in Screens, v \in Vendors : call[s][v].pc = "done"

\* all screenings have answered, and what is left in the pool is left there
Over == AllDone /\ UNCHANGED vendorVars

VendorNext ==
    \/ Take \/ Over
    \/ \E t \in running, answer \in Answers : Finish(t, answer)
    \/ \E v \in Vendors : CoolDown(v) \/ \E s \in Screens : CallStep(s, v)

VendorSpec == VendorInit /\ [][VendorNext]_vendorVars

\* threads and workers go on; a healthy vendor answers, another one need not
VendorFairness ==
    /\ WF_vendorVars(Take)
    /\ \A s \in Screens, v \in Vendors : WF_vendorVars(CallStep(s, v))
    /\ WF_vendorVars(\E t \in running : t.vendor \in Healthy /\ Finish(t, "ok"))

VendorFairSpec == VendorSpec /\ VendorFairness

-----------------------------------------------------------------------------
(* Properties.                                                                *)

Tasks == [screen : Screens, vendor : Vendors, attempt : 1 .. MaxAttempts]

\* Type invariant of the calls, the breakers and the pool.
VendorTypeOK ==
    /\ call \in [Screens -> [Vendors ->
         [pc : {"start", "wait", "backoff", "done"}, attempt : 0 .. MaxAttempts,
          got : Answers \cup {"none"}, status : Statuses \cup {"none"}]]]
    /\ breaker \in [Vendors -> [failures : Nat, opened : {"no", "cooling", "cooled"}]]
    /\ queue \in Seq(Tasks) /\ running \subseteq Tasks /\ Cardinality(running) <= Workers

\* A breaker is open exactly when calls failed Threshold times since one last
\* succeeded, also when calls it let in before it opened end after it did.
OpenMeansFailing == \A v \in Vendors : breaker[v].opened # "no" <=> breaker[v].failures >= Threshold

\* What a call waits for will come: its own try is in the pool, once, until it
\* has answered, and no answer of a try given up before is taken for it.
TryIsUnderWay == \A s \in Screens, v \in Vendors : call[s][v].pc = "wait" =>
    LET mine == [screen |-> s, vendor |-> v, attempt |-> call[s][v].attempt] IN
    (call[s][v].got = "none") <=> (mine \in running \/ \E i \in DOMAIN queue : queue[i] = mine)

\* Every screening ends, whichever vendors are down or never answer.
ScreensEnd == <>AllDone

-----------------------------------------------------------------------------
(* What the documents or comments say of this code and the code does not do. *)

\* "Then one trial call is allowed (half-open)": who is let in once the breaker
\* has cooled down is let in alone.
OneTrial == [][\A s \in Screens, v \in Vendors :
    breaker[v].opened = "cooled" /\ call[s][v].pc = "start" /\ call'[s][v].pc = "wait"
    => ~Allowed(v)']_vendorVars

\* "One slow vendor cannot stall the whole check": a vendor that answers at
\* once is not reported as timed out.
HealthyInTime == \A s \in Screens, v \in Healthy : call[s][v].status # "timeout"
=============================================================================
