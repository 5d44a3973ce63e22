---------------------------- MODULE WebhookDispatch ----------------------------
(* payments-core/ledger/webhooks.go: the Dispatcher tells every registered    *)
(* endpoint of an event, each from a goroutine that retries.                  *)
EXTENDS Integers, Sequences

CONSTANTS
    Endpoints,    \* endpoints, each registered at most once
    Events,       \* events, each dispatched by the request that recorded it
    MaxAttempts   \* MaxAttempts of the Dispatcher

ASSUME DispatchAssumption == MaxAttempts \in Nat \ {0}

VARIABLES
    endpoints,   \* the registered endpoints, in order
    eps,         \* eps[ev]: the endpoints Dispatch(ev) took a copy of
    todo,        \* todo[ev]: those its loop has yet to come to
    deliveries,  \* the deliveries, in order
    go,          \* go[i]: the goroutine of delivery i
    received     \* received[e][ev]: how endpoint e answered event ev, so far

dispatchVars == <<endpoints, eps, todo, deliveries, go, received>>

\* classes of status: 0 stands for any error, 500 for every status that is
\* retried and 404 for the client errors that are not
Answers == {200, 404, 429, 500}
None == <<>>

DispatchInit ==
    /\ endpoints = None
    /\ eps = [ev \in Events |-> None]
    /\ todo = [ev \in Events |-> None]
    /\ deliveries = <<>>
    /\ go = <<>>
    /\ received = [e \in Endpoints |-> [ev \in Events |-> <<>>]]

InSeq(x, s) == \E i \in DOMAIN s : s[i] = x

Register(e) ==
    /\ ~InSeq(e, endpoints)
    /\ endpoints' = Append(endpoints, e)
    /\ UNCHANGED <<eps, todo, deliveries, go, received>>

\* Dispatch: the endpoints are copied under the lock
Dispatch(ev) ==
    /\ eps[ev] = None /\ endpoints # None
    /\ eps' = [eps EXCEPT ![ev] = endpoints]
    /\ todo' = [todo EXCEPT ![ev] = endpoints]
    /\ UNCHANGED <<endpoints, deliveries, go, received>>

\* mutant: the goroutine refers to the loop's variable
LastEndpoint(ev) == eps[ev][Len(eps[ev])]
Endpoint(ev) == Head(todo[ev])

\* one turn of its loop: the delivery is listed, its goroutine started
Launch(ev) ==
    /\ todo[ev] # None
    /\ todo' = [todo EXCEPT ![ev] = Tail(@)]
    /\ deliveries' = Append(deliveries, [endpoint |-> Head(todo[ev]), event |-> ev, attempts |-> 0,
                                         delivered |-> FALSE, last_status |-> 0])
    /\ go' = Append(go, [pc |-> "post", ep |-> Endpoint(ev), attempt |-> 1, status |-> 0])
    /\ UNCHANGED <<endpoints, eps, received>>

Goes(i, from, to) == go[i].pc = from /\ go' = [go EXCEPT ![i].pc = to]

\* deliver: the endpoint answers, or its answer is lost, or the request is
Post(i, status) ==
    /\ go[i].pc = "post"
    /\ go' = [go EXCEPT ![i].pc = "note", ![i].status = status]
    /\ UNCHANGED <<endpoints, eps, todo, deliveries>>

Receives(i, answer) ==
    received' = [received EXCEPT ![go[i].ep][deliveries[i].event] = Append(@, answer)]

PostAnswered(i) == \E answer \in Answers : Post(i, answer) /\ Receives(i, answer)
PostUnheard(i) == Post(i, 0) /\ \E answer \in Answers : Receives(i, answer)
PostLost(i) == Post(i, 0) /\ UNCHANGED received

\* mutant: no status is a good one
OkBelow300(status) == status < 300
Ok(status) == status >= 200 /\ status < 300
\* mutant: a rate limit is final as well
FinalAnd429(status) == Ok(status) \/ (status >= 400 /\ status < 500)
Final(status) == Ok(status) \/ (status >= 400 /\ status < 500 /\ status # 429)

AttemptsLeft(i) == go[i].attempt < MaxAttempts

\* the delivery is brought up to date, and the goroutine ends or sleeps
Note(i) ==
    /\ Goes(i, "note", IF ~Final(go[i].status) /\ AttemptsLeft(i) THEN "sleep" ELSE "done")
    /\ deliveries' = [deliveries EXCEPT
         ![i] = [@ EXCEPT !.attempts = go[i].attempt, !.last_status = go[i].status,
                          !.delivered = Ok(go[i].status)]]
    /\ UNCHANGED <<endpoints, eps, todo, received>>

Wake(i) ==
    /\ go[i].pc = "sleep"
    /\ go' = [go EXCEPT ![i].pc = "post", ![i].attempt = @ + 1]
    /\ UNCHANGED <<endpoints, eps, todo, deliveries, received>>

-----------------------------------------------------------------------------
Deliver(i) == PostAnswered(i) \/ PostUnheard(i) \/ PostLost(i) \/ Note(i) \/ Wake(i)

DispatchNext ==
    \/ \E e \in Endpoints : Register(e)
    \/ \E ev \in Events : Dispatch(ev) \/ Launch(ev)
    \/ \E i \in DOMAIN go : Deliver(i)

DispatchSpec == DispatchInit /\ [][DispatchNext]_dispatchVars

\* the dispatching request and the goroutines go on: the client's timeout ends
\* every request, and every sleep ends
DispatchFairness ==
    /\ \A ev \in Events : WF_dispatchVars(Launch(ev))
    /\ WF_dispatchVars(\E i \in DOMAIN go : Deliver(i))

-----------------------------------------------------------------------------
(* Properties.                                                                *)

\* Type invariant of the deliveries and the goroutines, which come in pairs;
\* no delivery takes more than MaxAttempts attempts.
DispatchTypeOK ==
    /\ endpoints \in Seq(Endpoints)
    /\ eps \in [Events -> Seq(Endpoints)] /\ todo \in [Events -> Seq(Endpoints)]
    /\ deliveries \in Seq([endpoint : Endpoints, event : Events, attempts : 0 .. MaxAttempts,
                           delivered : BOOLEAN, last_status : Answers \cup {0}])
    /\ go \in Seq([pc : {"post", "note", "sleep", "done"}, ep : Endpoints,
                   attempt : 1 .. MaxAttempts, status : Answers \cup {0}])
    /\ Len(go) = Len(deliveries)
    /\ received \in [Endpoints -> [Events -> Seq(Answers)]]

\* A delivery ends as its endpoint answered: what is listed as delivered was
\* received and accepted, and what is not was refused or had all its attempts.
EndsAsAnswered == \A i \in DOMAIN deliveries :
    /\ deliveries[i].delivered => InSeq(200, received[deliveries[i].endpoint][deliveries[i].event])
    /\ go[i].pc = "done" =>
         deliveries[i].delivered \/ deliveries[i].last_status = 404 \/ deliveries[i].attempts = MaxAttempts

Listed(e, ev) == \E i \in DOMAIN deliveries :
    deliveries[i].endpoint = e /\ deliveries[i].event = ev /\ go[i].pc = "done" /\ go[i].ep = e

\* Every endpoint that was registered when an event was dispatched is tried,
\* and its delivery ends, whatever the others answer and whoever registers.
EveryoneIsTried == \A e \in Endpoints, ev \in Events : InSeq(e, eps[ev]) ~> Listed(e, ev)
=============================================================================
