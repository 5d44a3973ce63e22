---------------------------- MODULE LedgerService ----------------------------
(* The ledger's HTTP server (server.go, idempotency.go) and the callers of    *)
(* the Ruby SDK (client.rb): every attempt of a call is served by a handler   *)
(* of its own, which may still be running when the caller has timed out and   *)
(* sent the next attempt.                                                     *)
EXTENDS Ledger

CONSTANTS
    Calls,      \* calls of create_charge and refund_charge
    Keys,       \* idempotency keys
    Requests,   \* what a call may ask for
    NoRequest,  \* no request
    MaxRetries  \* max_retries: attempts after the first

\* A refund may name a charge that does not exist, and a body that is no
\* JSON is answered like an invalid amount.
ASSUME ServiceAssumption ==
    /\ Requests \subseteq [op : {"charge"}, merchant : Merchants \cup {NoMerchant}, amount : Amounts]
                          \cup [op : {"refund"}, charge : ChargeIds \cup {NoMerchant}, amount : Amounts]
    /\ NoRequest \notin Requests \cup Keys
    /\ MaxRetries \in Nat

\* The handler <<c, n>> serves the n-th attempt of call c.
Handlers == Calls \X (1 .. MaxRetries + 1)

VARIABLES
    asked,     \* asked[c]: key and request of call c
    stage,     \* stage[c]: idle, sending, waiting or ended
    attempt,   \* attempt[c]: number of the attempt
    told,      \* told[c]: what the call returned or raised
    idem,      \* entries: owner of each key, stored response, done channel
    phase,     \* phase[h]: where handler h is
    response,  \* response[h]: what it recorded to answer
    dispatched \* the events handed to the webhook dispatcher, in order

vars == <<ledger, asked, stage, attempt, told, idem, phase, response, dispatched>>

\* A response is the status with, for a 201, the number of the event that made
\* the object in its body.
Created(n) == [status |-> 201, event |-> n]
Refused(status) == [status |-> status, event |-> 0]
Invalid == Refused(400)
Missing == Refused(404)
Conflict == Refused(422)
NoAnswer == Refused(0)
GaveUp == Refused(1)   \* ConnectionError, or the error of a 429, 500, 502, 503 or 504

NotAsked == [key |-> NoRequest, request |-> NoRequest]
NoEntry == [owner |-> NoRequest, done |-> FALSE, answer |-> NoAnswer]

Init ==
    /\ LedgerInit
    /\ asked = [c \in Calls |-> NotAsked]
    /\ stage = [c \in Calls |-> "idle"]
    /\ attempt = [c \in Calls |-> 1]
    /\ told = [c \in Calls |-> NoAnswer]
    /\ idem = [k \in Keys |-> NoEntry]
    /\ phase = [h \in Handlers |-> "off"]
    /\ response = [h \in Handlers |-> NoAnswer]
    /\ dispatched = <<>>

callVars == <<asked, stage, attempt, told>>
serverVars == <<idem, phase, response, dispatched>>

-----------------------------------------------------------------------------
(* client.rb: request, perform                                                *)

\* The id in a refund's path is one the ledger gave out, or a wrong one.
Plausible(r) == r.op = "refund" => r.charge \in {NoMerchant} \cup {c \in ChargeIds : Exists(c)}

Start(c, k, r) ==
    /\ stage[c] = "idle"
    /\ Plausible(r)
    /\ asked' = [asked EXCEPT ![c] = [key |-> k, request |-> r]]
    /\ stage' = [stage EXCEPT ![c] = "sending"]
    /\ UNCHANGED <<ledger, attempt, told, serverVars>>

\* The request reaches the server.
Send(c) ==
    /\ stage[c] = "sending"
    /\ stage' = [stage EXCEPT ![c] = "waiting"]
    /\ phase' = [phase EXCEPT ![<<c, attempt[c]>>] = "begin"]
    /\ UNCHANGED <<ledger, asked, attempt, told, idem, response, dispatched>>

\* A connection error or a retryable status: the call tries again with the
\* same key, or gives up.
Fails(c) ==
    /\ IF attempt[c] <= MaxRetries
         THEN /\ attempt' = [attempt EXCEPT ![c] = attempt[c] + 1]
              /\ stage' = [stage EXCEPT ![c] = "sending"]
              /\ UNCHANGED told
         ELSE /\ told' = [told EXCEPT ![c] = GaveUp]
              /\ stage' = [stage EXCEPT ![c] = "ended"]
              /\ UNCHANGED attempt
    /\ UNCHANGED <<ledger, asked, serverVars>>

LoseRequest(c) == stage[c] = "sending" /\ Fails(c)

\* The response is late or lost; whatever handler there is goes on.
LoseResponse(c) == stage[c] = "waiting" /\ Fails(c)

-----------------------------------------------------------------------------
(* idempotency.go: Begin and Finish; server.go: idempotent                    *)

Key(h) == asked[h[1]].key
Request(h) == asked[h[1]].request

Moves(h, from, to) == phase[h] = from /\ phase' = [phase EXCEPT ![h] = to]
Answers(h, answer) == response' = [response EXCEPT ![h] = answer]

\* mutant: the key is claimed whoever owns it
BeginAlways(h) ==
    /\ Moves(h, "begin", "execute")
    /\ idem' = [idem EXCEPT ![Key(h)] = [owner |-> Request(h), done |-> FALSE, answer |-> NoAnswer]]
    /\ UNCHANGED <<ledger, callVars, response, dispatched>>
BeginFirst(h) ==
    /\ Moves(h, "begin", "execute")
    /\ idem[Key(h)].owner = NoRequest
    /\ idem' = [idem EXCEPT ![Key(h)] = [owner |-> Request(h), done |-> FALSE, answer |-> NoAnswer]]
    /\ UNCHANGED <<ledger, callVars, response, dispatched>>

BeginConflict(h) ==
    /\ Moves(h, "begin", "reply")
    /\ idem[Key(h)].owner \notin {NoRequest, Request(h)}
    /\ Answers(h, Conflict)
    /\ UNCHANGED <<ledger, callVars, idem, dispatched>>

\* mutant: the fingerprints are not compared
BeginReplayAny(h) ==
    /\ Moves(h, "begin", "await")
    /\ idem[Key(h)].owner # NoRequest
    /\ UNCHANGED <<ledger, callVars, idem, response, dispatched>>
BeginReplay(h) ==
    /\ Moves(h, "begin", "await")
    /\ idem[Key(h)].owner = Request(h)
    /\ UNCHANGED <<ledger, callVars, idem, response, dispatched>>

\* <-e.done
Replay(h) ==
    /\ Moves(h, "await", "reply")
    /\ idem[Key(h)].done
    /\ Answers(h, idem[Key(h)].answer)
    /\ UNCHANGED <<ledger, callVars, idem, dispatched>>

\* mutant: the done channel is not closed
FinishUnsignalled(h) ==
    /\ Moves(h, "finish", "reply")
    /\ UNCHANGED <<ledger, callVars, idem, response, dispatched>>
\* deferred: runs however the handler ends, before the response is flushed
Finish(h) ==
    /\ Moves(h, "finish", "reply")
    /\ idem' = [idem EXCEPT ![Key(h)] = [owner |-> idem[Key(h)].owner, done |-> TRUE,
                                         answer |-> response[h]]]
    /\ UNCHANGED <<ledger, callVars, response, dispatched>>

\* The response reaches the caller if it still waits for this attempt.
Reply(h) ==
    /\ Moves(h, "reply", "off")
    /\ IF stage[h[1]] = "waiting" /\ attempt[h[1]] = h[2]
         THEN /\ stage' = [stage EXCEPT ![h[1]] = "ended"]
              /\ told' = [told EXCEPT ![h[1]] = response[h]]
         ELSE UNCHANGED <<stage, told>>
    /\ UNCHANGED <<ledger, asked, attempt, idem, response, dispatched>>

-----------------------------------------------------------------------------
(* server.go: createCharge and refund                                         *)

Succeeds(h) ==
    /\ Moves(h, "execute", "dispatch")
    /\ Answers(h, Created(Latest + 1))

ExecuteCharge(h) ==
    /\ Succeeds(h)
    /\ Request(h).op = "charge"
    /\ \E c \in ChargeIds : CreateCharge(c, Request(h).merchant, Request(h).amount)
    /\ UNCHANGED <<callVars, idem, dispatched>>

ExecuteRefund(h) ==
    /\ Succeeds(h)
    /\ Request(h).op = "refund"
    /\ Request(h).charge \in ChargeIds
    /\ Refund(Request(h).charge, Request(h).amount)
    /\ UNCHANGED <<callVars, idem, dispatched>>

RefusalOf(r) ==
    CASE r.op = "charge" -> IF ChargeInvalid(r.merchant, r.amount) THEN Invalid ELSE NoAnswer
      [] r.op = "refund" ->
           IF RefundInvalid(r.amount) THEN Invalid
           ELSE IF r.charge = NoMerchant THEN Missing
           ELSE IF ~Exists(r.charge) THEN Missing
           ELSE IF RefundTooLarge(r.charge, r.amount) THEN Invalid ELSE NoAnswer

ExecuteRefused(h) ==
    /\ Moves(h, "execute", "finish")
    /\ RefusalOf(Request(h)) # NoAnswer
    /\ Answers(h, RefusalOf(Request(h)))
    /\ UNCHANGED <<ledger, callVars, idem, dispatched>>

\* webhooks.go: Dispatch, after the ledger's lock is released
Dispatch(h) ==
    /\ Moves(h, "dispatch", "finish")
    /\ dispatched' = Append(dispatched, response[h].event)
    /\ UNCHANGED <<ledger, callVars, idem, response>>

-----------------------------------------------------------------------------
Execute(h) == ExecuteCharge(h) \/ ExecuteRefund(h) \/ ExecuteRefused(h)
Serve(h) ==
    \/ BeginFirst(h) \/ BeginConflict(h) \/ BeginReplay(h) \/ Replay(h)
    \/ Execute(h) \/ Dispatch(h) \/ Finish(h) \/ Reply(h)
Carry(c) == Send(c) \/ LoseRequest(c)

Next ==
    \/ \E c \in Calls, k \in Keys, r \in Requests : Start(c, k, r)
    \/ \E c \in Calls : Carry(c) \/ LoseResponse(c)
    \/ \E h \in Handlers : Serve(h)

Spec == Init /\ [][Next]_vars

-----------------------------------------------------------------------------
(* Properties.                                                                *)

Responses == [status : {0, 1, 201, 400, 404, 422}, event : 0 .. MaxEvents]
Asks == [key : Keys, request : Requests] \cup {NotAsked}
Entries == [owner : Requests \cup {NoRequest}, done : BOOLEAN, answer : Responses]
Phases == {"off", "begin", "await", "execute", "dispatch", "finish", "reply"}

\* Type invariant of the calls, the key table and the handlers.
TypeOK ==
    /\ LedgerTypeOK
    /\ asked \in [Calls -> Asks]
    /\ stage \in [Calls -> {"idle", "sending", "waiting", "ended"}]
    /\ attempt \in [Calls -> 1 .. MaxRetries + 1]
    /\ told \in [Calls -> Responses]
    /\ idem \in [Keys -> Entries]
    /\ phase \in [Handlers -> Phases]
    /\ response \in [Handlers -> Responses]
    /\ dispatched \in Seq(1 .. MaxEvents)

\* What executing the owner of key k gave so far: it is in the table once
\* Finish has run, and with the handler that executes it before.
Holding(h) == phase[h] \in {"dispatch", "finish"}
Runs(h, k) == Holding(h) /\ Key(h) = k
Outcome(k) ==
    IF idem[k].done THEN idem[k].answer
    ELSE IF \E h \in Handlers : Runs(h, k) THEN response[CHOOSE h \in Handlers : Runs(h, k)]
    ELSE NoAnswer

IsEventOf(n, r) ==
    /\ n \in DOMAIN events
    /\ events[n].amount = r.amount
    /\ IF r.op = "charge"
         THEN events[n].type = "charge.succeeded" /\ events[n].merchant = r.merchant
         ELSE events[n].type = "charge.refunded" /\ events[n].charge = r.charge

\* A call is told the truth: a success is an event the ledger made for that
\* very request, and it has been handed to the webhooks once; a conflict means
\* another request owns the key; a refusal is what the key's owner got.
ToldTheTruth ==
    \A c \in Calls : LET k == asked[c].key
                         r == asked[c].request IN
        /\ told[c].status = 201 =>
             /\ IsEventOf(told[c].event, r)
             /\ Cardinality({i \in DOMAIN dispatched : dispatched[i] = told[c].event}) = 1
        /\ told[c] = Conflict => idem[k].owner # r
        /\ told[c].status \in {201, 400, 404} => idem[k].done /\ told[c] = idem[k].answer

\* At most one handler at a time executes for a key, and none once the key's
\* response is stored.
Running(h) == phase[h] \in {"execute", "dispatch", "finish"}
OneRunner ==
    \A h \in Handlers : Running(h) =>
        /\ idem[Key(h)].owner = Request(h) /\ ~idem[Key(h)].done
        /\ \A g \in Handlers \ {h} : Running(g) => Key(g) # Key(h)

\* No duplicate waits for ever: whoever waits for a key's done channel waits for
\* a handler under way that will close it, unless it is closed already.
WaitersHaveRunner ==
    \A h \in Handlers : phase[h] = "await" =>
        idem[Key(h)].done \/ \E g \in Handlers : Running(g) /\ Key(g) = Key(h)

Idem == INSTANCE IdempotentCalls
    WITH Effects <- {Created(n) : n \in 1 .. MaxEvents},
         Refusals <- {Invalid, Missing},
         owner <- [k \in Keys |-> idem[k].owner],
         outcome <- [k \in Keys |-> Outcome(k)],
         effects <- {Created(n) : n \in 1 .. Latest}

\* "The payment is created at most once": however often a call is retried and
\* however its attempts overlap, the server and its callers implement the promise
\* of the idempotency keys, in which every event is the outcome of one key.
ImplementsIdempotentCalls == Idem!Spec
=============================================================================
