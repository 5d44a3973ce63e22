------------------------- MODULE LedgerServiceProofs -------------------------
(* Theorems about the ledger's server and its callers: one execution per      *)
(* idempotency key, and the promise of the keys implemented.                  *)
EXTENDS LedgerProofs

-----------------------------------------------------------------------------
(* The inductive invariant.                                                   *)

\* Calls and the handlers of their attempts keep in step: no handler runs for
\* an attempt that was not sent, so no attempt is ever served twice.
CallsInStep ==
    \A c \in Calls :
        /\ stage[c] = "idle" <=> asked[c] = NotAsked
        /\ stage[c] # "ended" => told[c] = NoAnswer
        /\ \A n \in 1 .. MaxRetries + 1 :
              n > attempt[c] \/ (n = attempt[c] /\ stage[c] \in {"idle", "sending"})
                 => phase[<<c, n>>] = "off"

\* What a handler holds is what the key table will let it say.
HandlersInStep ==
    \A h \in Handlers :
        /\ phase[h] # "off" => asked[h[1]] # NotAsked
        /\ phase[h] = "await" => idem[Key(h)].owner = Request(h)
        /\ phase[h] = "dispatch" => response[h].event \in 1 .. Latest
        /\ Holding(h) => response[h] # NoAnswer
        /\ phase[h] = "reply" =>
              \/ response[h] = Conflict /\ idem[Key(h)].owner \notin {NoRequest, Request(h)}
              \/ /\ idem[Key(h)].owner = Request(h) /\ idem[Key(h)].done
                 /\ response[h] = idem[Key(h)].answer

\* A stored response is one, and belongs to an owner.
KeysInStep ==
    \A k \in Keys :
        idem[k].done => idem[k].answer # NoAnswer /\ idem[k].owner # NoRequest

IInv == TypeOK /\ CallsInStep /\ HandlersInStep /\ KeysInStep /\ OneRunner

\* A handler that runs serves a call with a key and a request.
LEMMA Serving ==
    ASSUME IInv, NEW h \in Handlers
    PROVE  /\ h[1] \in Calls /\ h[2] \in 1 .. MaxRetries + 1 /\ h = <<h[1], h[2]>>
           /\ phase[h] # "off" => /\ Key(h) \in Keys /\ Request(h) \in Requests
                                  /\ Request(h) # NoRequest
                                  /\ stage[h[1]] # "idle"
<1>1. h[1] \in Calls /\ h[2] \in 1 .. MaxRetries + 1 /\ h = <<h[1], h[2]>>
  BY DEF Handlers
<1>2. ASSUME phase[h] # "off" PROVE asked[h[1]] \in [key : Keys, request : Requests]
  <2>1. asked[h[1]] \in Asks /\ asked[h[1]] # NotAsked
    BY <1>1, <1>2 DEF IInv, TypeOK, HandlersInStep
  <2> QED BY <2>1 DEF Asks
<1>3. ASSUME phase[h] # "off"
      PROVE  /\ Key(h) \in Keys /\ Request(h) \in Requests /\ Request(h) # NoRequest
             /\ stage[h[1]] # "idle"
  <2>1. Key(h) \in Keys /\ Request(h) \in Requests
    BY <1>2, <1>3 DEF Key, Request
  <2>2. stage[h[1]] # "idle"
    BY <1>1, <1>3 DEF IInv, CallsInStep, HandlersInStep
  <2> QED BY <2>1, <2>2, ServiceAssumption
<1> QED BY <1>1, <1>3

\* The statuses the server answers with.
LEMMA ResponseTypes ==
    /\ {Invalid, Missing, Conflict, NoAnswer, GaveUp} \subseteq Responses
    /\ Invalid # NoAnswer /\ Missing # NoAnswer /\ Conflict # NoAnswer /\ GaveUp # NoAnswer
    /\ Invalid # Conflict /\ Missing # Conflict
    /\ \A n \in 1 .. MaxEvents : /\ Created(n) \in Responses /\ Created(n) # NoAnswer
                                 /\ Created(n) # Conflict /\ Created(n).event = n
  BY LedgerAssumption
     DEF Invalid, Missing, Conflict, NoAnswer, GaveUp, Refused, Created, Responses

\* Executing a request is a step of the ledger that records one event.
LEMMA ExecutionIsLedgerStep ==
    ASSUME IInv, NEW h \in Handlers, ExecuteCharge(h) \/ ExecuteRefund(h)
    PROVE  /\ LedgerNext /\ LedgerTypeOK'
           /\ Latest \in Nat /\ Latest' = Latest + 1 /\ Latest + 1 \in 1 .. MaxEvents
           /\ phase[h] = "execute" /\ phase' = [phase EXCEPT ![h] = "dispatch"]
           /\ response' = [response EXCEPT ![h] = Created(Latest + 1)]
           /\ UNCHANGED <<asked, stage, attempt, told, idem, dispatched>>
<1>1. phase[h] = "execute"
  BY DEF ExecuteCharge, ExecuteRefund, Succeeds, Moves
<1>2. Request(h) \in Requests
  BY <1>1, Serving
<1>3. Request(h).amount \in Amounts
  BY <1>2, ServiceAssumption
<1>4. events \in Seq(EventRecords) /\ LedgerTypeOK /\ Latest \in Nat
  BY DEF IInv, TypeOK, LedgerTypeOK, Latest
<1>5. CASE ExecuteCharge(h)
  <2>1. PICK c \in ChargeIds : CreateCharge(c, Request(h).merchant, Request(h).amount)
    BY <1>5 DEF ExecuteCharge
  <2>2. Request(h).merchant \in Merchants \cup {NoMerchant}
    BY <2>1 DEF CreateCharge, ChargeInvalid
  <2>3. LedgerNext
    BY <1>3, <2>1, <2>2 DEF LedgerNext
  <2>4. LedgerTypeOK'
    BY <1>3, <1>4, <2>1, <2>2, ChargeStep
  <2>5. Latest < MaxEvents /\ Latest' = Latest + 1
    BY <1>4, <2>1 DEF CreateCharge, Record, Latest
  <2> QED BY <1>1, <1>4, <1>5, <2>3, <2>4, <2>5, LedgerAssumption
          DEF ExecuteCharge, Succeeds, Moves, Answers, callVars
<1>6. CASE ExecuteRefund(h)
  <2>1. Request(h).charge \in ChargeIds /\ Refund(Request(h).charge, Request(h).amount)
    BY <1>6 DEF ExecuteRefund
  <2>2. LedgerNext
    BY <1>3, <2>1 DEF LedgerNext
  <2>3. LedgerTypeOK'
    BY <1>3, <1>4, <2>1, RefundStep
  <2>4. Latest < MaxEvents /\ Latest' = Latest + 1
    BY <1>4, <2>1 DEF Refund, Record, Latest
  <2> QED BY <1>1, <1>4, <1>6, <2>2, <2>3, <2>4, LedgerAssumption
          DEF ExecuteRefund, Succeeds, Moves, Answers, callVars
<1> QED BY <1>5, <1>6

\* Every other step leaves the ledger alone.
LEMMA LedgerOrNot ==
    ASSUME IInv, [Next]_vars
    PROVE  \/ UNCHANGED ledger
           \/ \E h \in Handlers : ExecuteCharge(h) \/ ExecuteRefund(h)
  BY DEF Next, vars, Carry, Serve, Execute, Start, Send, LoseRequest, LoseResponse, Fails, BeginFirst,
         BeginConflict, BeginReplay, Replay, Finish, Reply, ExecuteRefused, Dispatch

-----------------------------------------------------------------------------
(* One lemma per kind of step: the invariant is preserved.                    *)

LEMMA LedgerKept ==
    ASSUME TypeOK, UNCHANGED ledger
    PROVE  LedgerTypeOK' /\ Latest' = Latest
  BY DEF TypeOK, LedgerTypeOK, ledger, Latest

\* A call starts: its handlers are all off, so nobody's key changes.
LEMMA StartStep ==
    ASSUME IInv, NEW c \in Calls, NEW k \in Keys, NEW r \in Requests, Start(c, k, r)
    PROVE  IInv'
<1>1. /\ stage[c] = "idle" /\ UNCHANGED <<ledger, attempt, told, idem, phase, response, dispatched>>
      /\ asked' = [asked EXCEPT ![c] = [key |-> k, request |-> r]]
      /\ stage' = [stage EXCEPT ![c] = "sending"]
  BY DEF Start, serverVars
<1>2. asked \in [Calls -> Asks] /\ stage \in [Calls -> {"idle", "sending", "waiting", "ended"}]
  BY DEF IInv, TypeOK
<1>3. [key |-> k, request |-> r] \in Asks \ {NotAsked}
  BY ServiceAssumption DEF Asks, NotAsked
<1>4. TypeOK'
  BY <1>1, <1>2, <1>3, LedgerKept DEF IInv, TypeOK
<1>5. CallsInStep'
  BY <1>1, <1>2, <1>3 DEF IInv, CallsInStep
<1>6. \A h \in Handlers : phase[h] # "off" => h[1] # c /\ Key(h)' = Key(h) /\ Request(h)' = Request(h)
  <2> TAKE h \in Handlers
  <2>1. phase[h] # "off" => h[1] # c
    BY <1>1, Serving
  <2> QED BY <1>1, <1>2, <2>1, Serving DEF Key, Request
<1>7. HandlersInStep'
  <2>1. \A h \in Handlers : phase[h] # "off" => asked'[h[1]] # NotAsked
    BY <1>1, <1>2, <1>6, Serving DEF IInv, HandlersInStep
  <2>2. Latest' = Latest
    BY <1>1, LedgerKept DEF IInv
  <2> QED BY <1>1, <1>6, <2>1, <2>2 DEF IInv, HandlersInStep, Holding
<1>8. KeysInStep' /\ OneRunner'
  BY <1>1, <1>6 DEF IInv, KeysInStep, OneRunner, Running
<1> QED BY <1>4, <1>5, <1>7, <1>8 DEF IInv

\* The request of an attempt arrives: its handler was off.
LEMMA SendStep ==
    ASSUME IInv, NEW c \in Calls, Send(c)
    PROVE  IInv'
<1> DEFINE h == <<c, attempt[c]>>
<1>1. /\ stage[c] = "sending" /\ UNCHANGED <<ledger, asked, attempt, told, idem, response, dispatched>>
      /\ stage' = [stage EXCEPT ![c] = "waiting"]
      /\ phase' = [phase EXCEPT ![h] = "begin"]
  BY DEF Send
<1>2. /\ stage \in [Calls -> {"idle", "sending", "waiting", "ended"}]
      /\ attempt \in [Calls -> 1 .. MaxRetries + 1]
      /\ phase \in [Handlers -> Phases]
  BY DEF IInv, TypeOK
<1>3. h \in Handlers /\ phase[h] = "off" /\ h[1] = c
  BY <1>1, <1>2 DEF IInv, CallsInStep, Handlers
<1>4. TypeOK'
  BY <1>1, <1>2, <1>3, LedgerKept DEF IInv, TypeOK, Phases
<1>5. CallsInStep'
  <2> SUFFICES ASSUME NEW d \in Calls
               PROVE  /\ stage'[d] = "idle" <=> asked'[d] = NotAsked
                      /\ stage'[d] # "ended" => told'[d] = NoAnswer
                      /\ \A n \in 1 .. MaxRetries + 1 :
                           n > attempt'[d] \/ (n = attempt'[d] /\ stage'[d] \in {"idle", "sending"})
                             => phase'[<<d, n>>] = "off"
    BY DEF CallsInStep
  <2>1. CASE d = c
    <3>1. \A n \in 1 .. MaxRetries + 1 : n > attempt[c] => phase'[<<c, n>>] = phase[<<c, n>>]
      BY <1>1, <1>2, <1>3 DEF Handlers
    <3> QED BY <1>1, <1>2, <2>1, <3>1 DEF IInv, CallsInStep
  <2>2. CASE d # c
    <3>1. \A n \in 1 .. MaxRetries + 1 : phase'[<<d, n>>] = phase[<<d, n>>]
      BY <1>1, <1>2, <1>3, <2>2 DEF Handlers
    <3> QED BY <1>1, <1>2, <2>2, <3>1 DEF IInv, CallsInStep
  <2> QED BY <2>1, <2>2
<1> HIDE DEF h
<1>6. /\ \A g \in Handlers : Key(g)' = Key(g) /\ Request(g)' = Request(g)
      /\ \A g \in Handlers \ {h} : phase'[g] = phase[g]
      /\ phase'[h] = "begin"
      /\ Latest' = Latest
  BY <1>1, <1>2, <1>3, LedgerKept DEF Key, Request, IInv
<1>7. HandlersInStep'
  <2>1. asked'[h[1]] # NotAsked
    BY <1>1, <1>3 DEF IInv, CallsInStep
  <2> QED BY <1>1, <1>6, <2>1 DEF IInv, HandlersInStep, Holding
<1>8. KeysInStep' /\ OneRunner'
  BY <1>1, <1>6 DEF IInv, KeysInStep, OneRunner, Running
<1> QED BY <1>4, <1>5, <1>7, <1>8 DEF IInv

\* An attempt fails: the next one has no handler yet.
LEMMA FailsStep ==
    ASSUME IInv, NEW c \in Calls, LoseRequest(c) \/ LoseResponse(c)
    PROVE  IInv'
<1>1. /\ stage[c] \in {"sending", "waiting"} /\ UNCHANGED <<ledger, asked, idem, phase, response, dispatched>>
      /\ \/ /\ attempt[c] <= MaxRetries
            /\ attempt' = [attempt EXCEPT ![c] = attempt[c] + 1]
            /\ stage' = [stage EXCEPT ![c] = "sending"] /\ told' = told
         \/ /\ told' = [told EXCEPT ![c] = GaveUp]
            /\ stage' = [stage EXCEPT ![c] = "ended"] /\ attempt' = attempt
  BY DEF LoseRequest, LoseResponse, Fails, serverVars
<1>2. /\ stage \in [Calls -> {"idle", "sending", "waiting", "ended"}]
      /\ attempt \in [Calls -> 1 .. MaxRetries + 1]
      /\ told \in [Calls -> Responses]
  BY DEF IInv, TypeOK
<1>3. TypeOK'
  <2>1. attempt' \in [Calls -> 1 .. MaxRetries + 1]
    BY <1>1, <1>2, ServiceAssumption
  <2>2. told' \in [Calls -> Responses]
    BY <1>1, <1>2, ResponseTypes
  <2>3. stage' \in [Calls -> {"idle", "sending", "waiting", "ended"}]
    BY <1>1, <1>2
  <2> QED BY <1>1, <2>1, <2>2, <2>3, LedgerKept DEF IInv, TypeOK
<1>4. CallsInStep'
  <2> SUFFICES ASSUME NEW d \in Calls
               PROVE  /\ stage'[d] = "idle" <=> asked'[d] = NotAsked
                      /\ stage'[d] # "ended" => told'[d] = NoAnswer
                      /\ \A n \in 1 .. MaxRetries + 1 :
                           n > attempt'[d] \/ (n = attempt'[d] /\ stage'[d] \in {"idle", "sending"})
                             => phase'[<<d, n>>] = "off"
    BY DEF CallsInStep
  <2> QED BY <1>1, <1>2, ServiceAssumption DEF IInv, CallsInStep
<1>5. Latest' = Latest /\ \A g \in Handlers : Key(g)' = Key(g) /\ Request(g)' = Request(g)
  BY <1>1, LedgerKept DEF Key, Request, IInv
<1>6. HandlersInStep'
  BY <1>1, <1>5 DEF IInv, HandlersInStep, Holding
<1>7. KeysInStep' /\ OneRunner'
  BY <1>1, <1>5 DEF IInv, KeysInStep, OneRunner, Running
<1> QED BY <1>3, <1>4, <1>6, <1>7 DEF IInv

\* What every step of a running handler has in common.
LEMMA HandlerMoves ==
    ASSUME IInv, NEW h \in Handlers, NEW from \in Phases \ {"off"}, NEW to \in Phases,
           Moves(h, from, to), UNCHANGED <<asked, attempt>>
    PROVE  /\ phase[h] = from /\ phase'[h] = to
           /\ phase' \in [Handlers -> Phases]
           /\ \A g \in Handlers \ {h} : phase'[g] = phase[g]
           /\ \A g \in Handlers : Key(g)' = Key(g) /\ Request(g)' = Request(g)
           /\ Key(h) \in Keys /\ Request(h) \in Requests /\ Request(h) # NoRequest
           /\ h[1] \in Calls /\ asked[h[1]] # NotAsked
           /\ UNCHANGED <<stage, told>> => CallsInStep'
<1>1. phase \in [Handlers -> Phases]
  BY DEF IInv, TypeOK
<1>2. phase[h] = from /\ phase'[h] = to /\ \A g \in Handlers \ {h} : phase'[g] = phase[g]
  BY <1>1 DEF Moves
<1>3. \A g \in Handlers : phase[g] = "off" => phase'[g] = "off"
  BY <1>2
<1>4. \A c \in Calls, n \in 1 .. MaxRetries + 1 : phase[<<c, n>>] = "off" => phase'[<<c, n>>] = "off"
  BY <1>3 DEF Handlers
<1>5. UNCHANGED <<stage, told>> => CallsInStep'
  <2> SUFFICES ASSUME UNCHANGED <<stage, told>>, NEW d \in Calls
               PROVE  /\ stage'[d] = "idle" <=> asked'[d] = NotAsked
                      /\ stage'[d] # "ended" => told'[d] = NoAnswer
                      /\ \A n \in 1 .. MaxRetries + 1 :
                           n > attempt'[d] \/ (n = attempt'[d] /\ stage'[d] \in {"idle", "sending"})
                             => phase'[<<d, n>>] = "off"
    BY DEF CallsInStep
  <2> QED BY <1>4 DEF IInv, CallsInStep
<1> QED BY <1>1, <1>2, <1>5, Serving DEF Moves, Key, Request, IInv, HandlersInStep

\* The first handler of a key: nobody else runs for it.
LEMMA BeginFirstStep ==
    ASSUME IInv, NEW h \in Handlers, BeginFirst(h)
    PROVE  IInv'
<1> DEFINE e == [owner |-> Request(h), done |-> FALSE, answer |-> NoAnswer]
<1>1. /\ Moves(h, "begin", "execute") /\ idem[Key(h)].owner = NoRequest
      /\ idem' = [idem EXCEPT ![Key(h)] = e]
      /\ UNCHANGED <<ledger, asked, stage, attempt, told, response, dispatched>>
  BY DEF BeginFirst, callVars
<1>2. /\ phase[h] = "begin" /\ phase'[h] = "execute"
      /\ phase' \in [Handlers -> Phases]
      /\ \A g \in Handlers \ {h} : phase'[g] = phase[g]
      /\ \A g \in Handlers : Key(g)' = Key(g) /\ Request(g)' = Request(g)
      /\ Key(h) \in Keys /\ Request(h) \in Requests /\ Request(h) # NoRequest
      /\ asked[h[1]] # NotAsked
      /\ CallsInStep'
  BY <1>1, HandlerMoves DEF Phases
<1>3. idem \in [Keys -> Entries] /\ e \in Entries
  BY <1>2, ResponseTypes DEF IInv, TypeOK, Entries
<1>4. idem'[Key(h)] = e /\ \A k \in Keys \ {Key(h)} : idem'[k] = idem[k]
  BY <1>1, <1>2, <1>3
<1>5. TypeOK'
  BY <1>1, <1>2, <1>3, LedgerKept DEF IInv, TypeOK
<1>6. \A g \in Handlers : phase[g] # "off" => Key(g) \in Keys /\ Request(g) # NoRequest
  BY Serving
<1>8. \A g \in Handlers : Running(g) \/ phase[g] \in {"await", "reply"} => Key(g) # Key(h)
  BY <1>1, <1>6 DEF IInv, OneRunner, HandlersInStep, Running
<1>9. HandlersInStep'
  <2>1. Latest' = Latest
    BY <1>1, LedgerKept DEF IInv
  <2> QED BY <1>1, <1>2, <1>4, <1>6, <1>8, <2>1 DEF IInv, HandlersInStep, Holding, Running
<1>10. KeysInStep'
  BY <1>4 DEF IInv, KeysInStep
<1>11. OneRunner'
  BY <1>1, <1>2, <1>4, <1>6, <1>8 DEF IInv, OneRunner, Running
<1> QED BY <1>2, <1>5, <1>9, <1>10, <1>11 DEF IInv

\* A conflict, a duplicate that waits, and one that replays.
LEMMA DuplicateStep ==
    ASSUME IInv, NEW h \in Handlers, BeginConflict(h) \/ BeginReplay(h) \/ Replay(h)
    PROVE  IInv'
<1>1. PICK from \in {"begin", "await"}, to \in {"await", "reply"} :
        /\ Moves(h, from, to)
        /\ \/ /\ to = "reply" /\ response' = [response EXCEPT ![h] = Conflict]
              /\ idem[Key(h)].owner \notin {NoRequest, Request(h)}
           \/ to = "await" /\ response' = response /\ idem[Key(h)].owner = Request(h)
           \/ /\ from = "await" /\ to = "reply" /\ idem[Key(h)].done
              /\ response' = [response EXCEPT ![h] = idem[Key(h)].answer]
        /\ UNCHANGED <<ledger, asked, stage, attempt, told, idem, dispatched>>
  BY DEF BeginConflict, BeginReplay, Replay, callVars, Answers
<1>2. /\ phase[h] = from /\ phase'[h] = to
      /\ phase' \in [Handlers -> Phases]
      /\ \A g \in Handlers \ {h} : phase'[g] = phase[g]
      /\ \A g \in Handlers : Key(g)' = Key(g) /\ Request(g)' = Request(g)
      /\ Key(h) \in Keys
      /\ asked[h[1]] # NotAsked
      /\ CallsInStep'
  BY <1>1, HandlerMoves DEF Phases
<1>3. response \in [Handlers -> Responses] /\ idem[Key(h)].answer \in Responses
  BY <1>2 DEF IInv, TypeOK, Entries
<1>4. /\ response' \in [Handlers -> Responses]
      /\ \A g \in Handlers \ {h} : response'[g] = response[g]
      /\ to = "reply" => \/ response'[h] = Conflict /\ idem[Key(h)].owner \notin {NoRequest, Request(h)}
                        \/ /\ idem[Key(h)].owner = Request(h) /\ idem[Key(h)].done
                           /\ response'[h] = idem[Key(h)].answer
      /\ to = "await" => idem[Key(h)].owner = Request(h)
  BY <1>1, <1>2, <1>3, ResponseTypes DEF IInv, HandlersInStep
<1>5. TypeOK'
  BY <1>1, <1>2, <1>4, LedgerKept DEF IInv, TypeOK
<1>6. HandlersInStep'
  <2>1. Latest' = Latest
    BY <1>1, LedgerKept DEF IInv
  <2> QED BY <1>1, <1>2, <1>4, <2>1 DEF IInv, HandlersInStep, Holding
<1>7. KeysInStep' /\ OneRunner'
  BY <1>1, <1>2 DEF IInv, KeysInStep, OneRunner, Running
<1> QED BY <1>2, <1>5, <1>6, <1>7 DEF IInv

\* The runner of a key executes its request, or refuses it.
LEMMA ExecuteStep ==
    ASSUME IInv, NEW h \in Handlers, Execute(h)
    PROVE  IInv'
<1>1. PICK to \in {"dispatch", "finish"}, answer \in Responses :
        /\ Moves(h, "execute", to)
        /\ answer # NoAnswer
        /\ response' = [response EXCEPT ![h] = answer]
        /\ UNCHANGED <<asked, stage, attempt, told, idem, dispatched>>
        /\ LedgerTypeOK' /\ Latest \in Nat
        /\ Latest' = Latest \/ Latest' = Latest + 1
        /\ to = "dispatch" => answer.event \in 1 .. Latest'
  <2>1. CASE ExecuteRefused(h)
    <3>1. RefusalOf(Request(h)) \in {Invalid, Missing}
      <4>1. phase[h] = "execute"
        BY <2>1 DEF ExecuteRefused, Moves
      <4>2. Request(h) \in Requests
        BY <4>1, Serving
      <4>3. Request(h).op \in {"charge", "refund"}
        BY <4>2, ServiceAssumption
      <4> QED BY <2>1, <4>3 DEF ExecuteRefused, RefusalOf
    <3>2. LedgerTypeOK' /\ Latest' = Latest /\ Latest \in Nat
      BY <2>1, LedgerKept DEF ExecuteRefused, IInv, TypeOK, LedgerTypeOK, Latest
    <3> QED BY <2>1, <3>1, <3>2, ResponseTypes DEF ExecuteRefused, Answers, callVars
  <2>2. CASE ExecuteCharge(h) \/ ExecuteRefund(h)
    <3>1. /\ LedgerTypeOK'
          /\ Latest \in Nat /\ Latest' = Latest + 1 /\ Latest + 1 \in 1 .. MaxEvents
          /\ Moves(h, "execute", "dispatch")
          /\ response' = [response EXCEPT ![h] = Created(Latest + 1)]
          /\ UNCHANGED <<asked, stage, attempt, told, idem, dispatched>>
      BY <2>2, ExecutionIsLedgerStep DEF Moves
    <3> DEFINE answer == Created(Latest + 1)
    <3>2. answer \in Responses /\ answer # NoAnswer /\ answer.event = Latest + 1
      BY <3>1, ResponseTypes
    <3>3. answer.event \in 1 .. Latest' /\ response' = [response EXCEPT ![h] = answer]
      BY <3>1, <3>2
    <3> HIDE DEF answer
    <3> QED BY <3>1, <3>2, <3>3
  <2> QED BY <2>1, <2>2 DEF Execute
<1>2. /\ phase[h] = "execute" /\ phase'[h] = to
      /\ phase' \in [Handlers -> Phases]
      /\ \A g \in Handlers \ {h} : phase'[g] = phase[g]
      /\ \A g \in Handlers : Key(g)' = Key(g) /\ Request(g)' = Request(g)
      /\ asked[h[1]] # NotAsked
      /\ CallsInStep'
  BY <1>1, HandlerMoves DEF Phases
<1>3. /\ response' \in [Handlers -> Responses]
      /\ \A g \in Handlers \ {h} : response'[g] = response[g]
      /\ response'[h] = answer
  BY <1>1 DEF IInv, TypeOK
<1>4. TypeOK'
  BY <1>1, <1>2, <1>3 DEF IInv, TypeOK
<1>5. HandlersInStep'
  BY <1>1, <1>2, <1>3 DEF IInv, HandlersInStep, Holding
<1>6. KeysInStep' /\ OneRunner'
  BY <1>1, <1>2 DEF IInv, KeysInStep, OneRunner, Running
<1> QED BY <1>2, <1>4, <1>5, <1>6 DEF IInv

\* The event is handed to the webhooks.
LEMMA DispatchStep ==
    ASSUME IInv, NEW h \in Handlers, Dispatch(h)
    PROVE  IInv'
<1>1. /\ Moves(h, "dispatch", "finish")
      /\ dispatched' = Append(dispatched, response[h].event)
      /\ UNCHANGED <<ledger, asked, stage, attempt, told, idem, response>>
  BY DEF Dispatch, callVars
<1>2. /\ phase[h] = "dispatch" /\ phase'[h] = "finish"
      /\ phase' \in [Handlers -> Phases]
      /\ \A g \in Handlers \ {h} : phase'[g] = phase[g]
      /\ \A g \in Handlers : Key(g)' = Key(g) /\ Request(g)' = Request(g)
      /\ asked[h[1]] # NotAsked
      /\ CallsInStep'
  BY <1>1, HandlerMoves DEF Phases
<1>3. LedgerTypeOK' /\ Latest' = Latest
  BY <1>1, LedgerKept DEF IInv
<1>4. dispatched' \in Seq(1 .. MaxEvents)
  <2>1. response[h] \in Responses /\ response[h].event \in 1 .. Latest /\ Latest \in Nat
    BY <1>2 DEF IInv, TypeOK, HandlersInStep, LedgerTypeOK, Latest
  <2>2. response[h].event \in 1 .. MaxEvents
    BY <2>1, LedgerAssumption DEF Responses
  <2> QED BY <1>1, <2>2 DEF IInv, TypeOK
<1>5. TypeOK'
  BY <1>1, <1>2, <1>3, <1>4 DEF IInv, TypeOK
<1>6. HandlersInStep'
  BY <1>1, <1>2, <1>3 DEF IInv, HandlersInStep, Holding
<1>7. KeysInStep' /\ OneRunner'
  BY <1>1, <1>2 DEF IInv, KeysInStep, OneRunner, Running
<1> QED BY <1>2, <1>5, <1>6, <1>7 DEF IInv

\* The runner stores its response; nobody else ran for the key.
LEMMA FinishStep ==
    ASSUME IInv, NEW h \in Handlers, Finish(h)
    PROVE  IInv'
<1> DEFINE e == [owner |-> idem[Key(h)].owner, done |-> TRUE, answer |-> response[h]]
<1>1. /\ Moves(h, "finish", "reply")
      /\ idem' = [idem EXCEPT ![Key(h)] = e]
      /\ UNCHANGED <<ledger, asked, stage, attempt, told, response, dispatched>>
  BY DEF Finish, callVars
<1>2. /\ phase[h] = "finish" /\ phase'[h] = "reply"
      /\ phase' \in [Handlers -> Phases]
      /\ \A g \in Handlers \ {h} : phase'[g] = phase[g]
      /\ \A g \in Handlers : Key(g)' = Key(g) /\ Request(g)' = Request(g)
      /\ Key(h) \in Keys
      /\ asked[h[1]] # NotAsked
      /\ CallsInStep'
  BY <1>1, HandlerMoves DEF Phases
<1>3. idem \in [Keys -> Entries] /\ e \in Entries
  BY <1>2 DEF IInv, TypeOK, Entries
<1>4. idem'[Key(h)] = e /\ \A k \in Keys \ {Key(h)} : idem'[k] = idem[k]
  BY <1>1, <1>2, <1>3
<1>5. /\ idem[Key(h)].owner = Request(h) /\ ~idem[Key(h)].done
      /\ response[h] # NoAnswer
      /\ \A g \in Handlers \ {h} : Running(g) => Key(g) # Key(h)
  BY <1>2 DEF IInv, OneRunner, Running, HandlersInStep, Holding
<1>6. \A g \in Handlers : phase[g] # "off" => Key(g) \in Keys
  BY Serving
<1>7. \A k \in Keys : idem'[k].owner = idem[k].owner
  BY <1>4
<1>8. TypeOK'
  BY <1>1, <1>2, <1>3, LedgerKept DEF IInv, TypeOK
<1>9. HandlersInStep'
  <2>1. Latest' = Latest
    BY <1>1, LedgerKept DEF IInv
  <2>2. \A g \in Handlers \ {h} : phase[g] = "reply" =>
          \/ response[g] = Conflict /\ idem'[Key(g)].owner \notin {NoRequest, Request(g)}
          \/ /\ idem'[Key(g)].owner = Request(g) /\ idem'[Key(g)].done
             /\ response[g] = idem'[Key(g)].answer
    BY <1>4, <1>5, <1>6, <1>7 DEF IInv, HandlersInStep
  <2> QED BY <1>1, <1>2, <1>4, <1>5, <1>6, <1>7, <2>1, <2>2 DEF IInv, HandlersInStep, Holding
<1>10. KeysInStep'
  <2>1. Request(h) # NoRequest
    BY <1>2, Serving
  <2> QED BY <1>4, <1>5, <2>1 DEF IInv, KeysInStep
<1>11. OneRunner'
  BY <1>1, <1>2, <1>4, <1>5, <1>6, <1>7 DEF IInv, OneRunner, Running
<1> QED BY <1>2, <1>8, <1>9, <1>10, <1>11 DEF IInv

\* The response reaches the call, or nobody.
LEMMA ReplyStep ==
    ASSUME IInv, NEW h \in Handlers, Reply(h)
    PROVE  IInv'
<1>1. /\ Moves(h, "reply", "off")
      /\ \/ /\ stage[h[1]] = "waiting" /\ attempt[h[1]] = h[2]
            /\ stage' = [stage EXCEPT ![h[1]] = "ended"]
            /\ told' = [told EXCEPT ![h[1]] = response[h]]
         \/ UNCHANGED <<stage, told>>
      /\ UNCHANGED <<ledger, asked, attempt, idem, response, dispatched>>
  BY DEF Reply
<1>2. /\ phase[h] = "reply" /\ phase'[h] = "off"
      /\ phase' \in [Handlers -> Phases]
      /\ \A g \in Handlers \ {h} : phase'[g] = phase[g]
      /\ \A g \in Handlers : Key(g)' = Key(g) /\ Request(g)' = Request(g)
      /\ h[1] \in Calls
      /\ UNCHANGED <<stage, told>> => CallsInStep'
  BY <1>1, HandlerMoves DEF Phases
<1>3. /\ stage \in [Calls -> {"idle", "sending", "waiting", "ended"}]
      /\ told \in [Calls -> Responses] /\ response[h] \in Responses
  BY DEF IInv, TypeOK
<1>4. TypeOK'
  <2>1. stage' \in [Calls -> {"idle", "sending", "waiting", "ended"}] /\ told' \in [Calls -> Responses]
    BY <1>1, <1>2, <1>3
  <2> QED BY <1>1, <1>2, <2>1, LedgerKept DEF IInv, TypeOK
<1>5. \A c \in Calls, n \in 1 .. MaxRetries + 1 : phase[<<c, n>>] = "off" => phase'[<<c, n>>] = "off"
  BY <1>2 DEF Handlers
<1>6. CallsInStep'
  <2> SUFFICES ASSUME NEW d \in Calls
               PROVE  /\ stage'[d] = "idle" <=> asked'[d] = NotAsked
                      /\ stage'[d] # "ended" => told'[d] = NoAnswer
                      /\ \A n \in 1 .. MaxRetries + 1 :
                           n > attempt'[d] \/ (n = attempt'[d] /\ stage'[d] \in {"idle", "sending"})
                             => phase'[<<d, n>>] = "off"
    BY DEF CallsInStep
  <2> QED BY <1>1, <1>2, <1>3, <1>5 DEF IInv, CallsInStep
<1>7. Latest' = Latest
  BY <1>1, LedgerKept DEF IInv
<1>8. HandlersInStep'
  BY <1>1, <1>2, <1>7 DEF IInv, HandlersInStep, Holding
<1>9. KeysInStep' /\ OneRunner'
  BY <1>1, <1>2 DEF IInv, KeysInStep, OneRunner, Running
<1> QED BY <1>4, <1>6, <1>8, <1>9 DEF IInv

-----------------------------------------------------------------------------
(* The theorems.                                                              *)

\* The calls, the key table and the handlers keep in step.
THEOREM Invariance == Spec => []IInv
<1>1. Init => IInv
  <2> SUFFICES ASSUME Init PROVE IInv
    OBVIOUS
  <2> USE DEF Init
  <2>1. NoEntry \in Entries /\ NotAsked \in Asks /\ NoAnswer \in Responses /\ 1 \in 1 .. MaxRetries + 1
    BY ResponseTypes, ServiceAssumption DEF NoEntry, Entries, Asks
  <2>2. LedgerTypeOK
    <3>1. NoCharge \in ChargeRecords
      BY LedgerAssumption DEF NoCharge, ChargeRecords, Int64
    <3> QED BY <3>1 DEF LedgerInit, LedgerTypeOK
  <2>3. TypeOK
    BY <2>1, <2>2 DEF TypeOK, Phases
  <2>4. CallsInStep
    BY DEF CallsInStep, Handlers
  <2>5. HandlersInStep /\ OneRunner
    BY DEF HandlersInStep, Holding, OneRunner, Running
  <2>6. KeysInStep
    BY DEF KeysInStep, NoEntry
  <2> QED BY <2>3, <2>4, <2>5, <2>6 DEF IInv
<1>2. IInv /\ [Next]_vars => IInv'
  <2> SUFFICES ASSUME IInv, [Next]_vars PROVE IInv'
    OBVIOUS
  <2>1. CASE UNCHANGED vars
    <3>1. UNCHANGED <<ledger, asked, stage, attempt, told, idem, phase, response, dispatched>>
      BY <2>1 DEF vars
    <3>2. Latest' = Latest /\ \A h \in Handlers : Key(h)' = Key(h) /\ Request(h)' = Request(h)
      BY <3>1, LedgerKept DEF IInv, Key, Request
    <3>3. TypeOK' /\ CallsInStep' /\ KeysInStep'
      BY <3>1, LedgerKept DEF IInv, TypeOK, CallsInStep, KeysInStep
    <3>4. HandlersInStep' /\ OneRunner'
      BY <3>1, <3>2 DEF IInv, HandlersInStep, OneRunner, Holding, Running
    <3> QED BY <3>3, <3>4 DEF IInv
  <2>2. CASE Next
    BY <2>2, StartStep, SendStep, FailsStep, BeginFirstStep, DuplicateStep, ExecuteStep, DispatchStep,
       FinishStep, ReplyStep
       DEF Next, Carry, Serve
  <2> QED BY <2>1, <2>2
<1> QED BY <1>1, <1>2, PTL DEF Spec

\* The calls, the key table, the handlers and the ledger keep their types.
THEOREM ServiceTypeCorrect == Spec => []TypeOK
<1>1. IInv => TypeOK
  BY DEF IInv
<1> QED BY <1>1, Invariance, PTL

\* At most one handler runs for a key, and none once its response is stored.
THEOREM OneRunnerPerKey == Spec => []OneRunner
<1>1. IInv => OneRunner
  BY DEF IInv
<1> QED BY <1>1, Invariance, PTL

\* What the server does to the ledger is what the ledger allows.
THEOREM ServiceUsesLedger == Spec => LedgerSpec
<1>1. Init => LedgerInit
  BY DEF Init
<1>2. IInv /\ [Next]_vars => [LedgerNext]_ledger
  BY LedgerOrNot, ExecutionIsLedgerStep
<1> QED BY <1>1, <1>2, Invariance, PTL DEF Spec, LedgerSpec

\* However calls are retried and overlap, refunds stay within their charge.
THEOREM ServiceRefundsStayInRange ==
    ASSUME SumsFit
    PROVE  Spec => []RefundedInRange
BY ServiceUsesLedger, RefundsStayInRange, PTL

-----------------------------------------------------------------------------
(* Nobody waits for nobody.                                                   *)

\* A key that is claimed and has no response yet is worked for by a handler.
OwnedHasRunner ==
    \A k \in Keys : idem[k].owner # NoRequest /\ ~idem[k].done =>
        \E h \in Handlers : Running(h) /\ Key(h) = k

\* Runners go on running for their keys: what most steps come to.
LEMMA RunnersKept ==
    ASSUME OwnedHasRunner, UNCHANGED idem,
           \A h \in Handlers : Running(h) => Running(h)' /\ Key(h)' = Key(h)
    PROVE  OwnedHasRunner'
  BY DEF OwnedHasRunner

\* The steps of the callers move no runner.
LEMMA CallersKeepRunners ==
    ASSUME IInv, OwnedHasRunner,
           \/ \E c \in Calls, k \in Keys, r \in Requests : Start(c, k, r)
           \/ \E c \in Calls : Carry(c) \/ LoseResponse(c)
    PROVE  OwnedHasRunner'
<1>1. ASSUME NEW c \in Calls, NEW k \in Keys, NEW r \in Requests, Start(c, k, r)
      PROVE  OwnedHasRunner'
  <2>1. /\ stage[c] = "idle" /\ UNCHANGED <<idem, phase>>
        /\ asked' = [asked EXCEPT ![c] = [key |-> k, request |-> r]]
    BY <1>1 DEF Start, serverVars
  <2>2. \A h \in Handlers : Running(h) => h[1] \in Calls /\ h[1] # c
    BY <2>1, Serving DEF Running
  <2>3. \A h \in Handlers : Running(h) => Running(h)' /\ Key(h)' = Key(h)
    BY <2>1, <2>2 DEF Running, Key, IInv, TypeOK
  <2> QED BY <2>1, <2>3, RunnersKept
<1>2. ASSUME NEW c \in Calls, Send(c) PROVE OwnedHasRunner'
  <2>1. /\ stage[c] = "sending" /\ UNCHANGED <<asked, idem>>
        /\ phase' = [phase EXCEPT ![<<c, attempt[c]>>] = "begin"]
    BY <1>2 DEF Send
  <2>2. phase[<<c, attempt[c]>>] = "off"
    BY <2>1 DEF IInv, TypeOK, CallsInStep
  <2>3. \A h \in Handlers : Running(h) => Running(h)' /\ Key(h)' = Key(h)
    BY <2>1, <2>2 DEF Running, Key, IInv, TypeOK
  <2> QED BY <2>1, <2>3, RunnersKept
<1>3. ASSUME NEW c \in Calls, LoseRequest(c) \/ LoseResponse(c) PROVE OwnedHasRunner'
  <2>1. UNCHANGED <<asked, idem, phase>>
    BY <1>3 DEF LoseRequest, LoseResponse, Fails, serverVars
  <2> QED BY <2>1, RunnersKept DEF Running, Key
<1> QED BY <1>1, <1>2, <1>3 DEF Carry

\* Nor does a handler that runs for no key, or goes on running for its own.
LEMMA OtherHandlersKeepRunners ==
    ASSUME IInv, OwnedHasRunner, NEW h \in Handlers,
           \/ BeginConflict(h) \/ BeginReplay(h) \/ Replay(h)
           \/ Execute(h) \/ Dispatch(h) \/ Reply(h)
    PROVE  OwnedHasRunner'
<1>1. PICK from \in Phases \ {"off", "finish"}, to \in Phases :
        /\ phase[h] = from /\ phase' = [phase EXCEPT ![h] = to]
        /\ from \in {"execute", "dispatch"} => to \in {"dispatch", "finish"}
  <2>1. CASE BeginConflict(h) \/ BeginReplay(h) \/ Replay(h) \/ Reply(h)
    BY <2>1 DEF BeginConflict, BeginReplay, Replay, Reply, Moves, Phases
  <2>2. CASE Execute(h) \/ Dispatch(h)
    BY <2>2 DEF Execute, ExecuteCharge, ExecuteRefund, ExecuteRefused, Succeeds, Dispatch, Moves, Phases
  <2> QED BY <2>1, <2>2
<1>2. UNCHANGED <<asked, idem>>
  BY DEF BeginConflict, BeginReplay, Replay, Reply, Execute, ExecuteCharge, ExecuteRefund,
         ExecuteRefused, Dispatch, callVars
<1>3. \A g \in Handlers : Running(g) => Running(g)' /\ Key(g)' = Key(g)
  BY <1>1, <1>2 DEF Running, Key, IInv, TypeOK
<1> QED BY <1>2, <1>3, RunnersKept

\* Whoever claims a key runs for it.
LEMMA ClaimingRuns ==
    ASSUME IInv, OwnedHasRunner, NEW h \in Handlers, BeginFirst(h)
    PROVE  OwnedHasRunner'
<1>1. /\ phase[h] = "begin" /\ phase' = [phase EXCEPT ![h] = "execute"]
      /\ UNCHANGED asked
      /\ \A k \in Keys \ {Key(h)} : idem'[k] = idem[k]
  BY DEF BeginFirst, Moves, callVars, IInv, TypeOK
<1>2. Running(h)' /\ Key(h)' = Key(h)
  BY <1>1 DEF Running, Key, IInv, TypeOK
<1>3. \A g \in Handlers : Running(g) => Running(g)' /\ Key(g)' = Key(g)
  BY <1>1 DEF Running, Key, IInv, TypeOK
<1> QED BY <1>1, <1>2, <1>3 DEF OwnedHasRunner

\* Whoever stops running has stored a response.
LEMMA FinishingStores ==
    ASSUME IInv, OwnedHasRunner, NEW h \in Handlers, Finish(h)
    PROVE  OwnedHasRunner'
<1>1. /\ phase[h] = "finish" /\ phase' = [phase EXCEPT ![h] = "reply"]
      /\ UNCHANGED asked
      /\ idem'[Key(h)].done \/ Key(h) \notin Keys
      /\ \A k \in Keys \ {Key(h)} : idem'[k] = idem[k]
  BY DEF Finish, Moves, callVars, IInv, TypeOK
<1>2. \A g \in Handlers : Running(g) /\ Key(g) # Key(h) => Running(g)' /\ Key(g)' = Key(g)
  BY <1>1 DEF Running, Key, IInv, TypeOK
<1>3. ASSUME NEW k \in Keys, idem'[k].owner # NoRequest, ~idem'[k].done
      PROVE  \E g \in Handlers : Running(g)' /\ Key(g)' = k
  <2>1. k # Key(h) /\ idem'[k] = idem[k]
    BY <1>1, <1>3
  <2>2. PICK g \in Handlers : Running(g) /\ Key(g) = k
    BY <1>3, <2>1 DEF OwnedHasRunner
  <2> QED BY <1>2, <2>1, <2>2
<1> QED BY <1>3 DEF OwnedHasRunner

\* No duplicate waits for a channel that nobody will close: the key it waits for
\* has its response, or a handler is at work for it.
THEOREM NobodyWaitsInVain == Spec => []WaitersHaveRunner
<1>1. Init => OwnedHasRunner
  BY DEF Init, OwnedHasRunner, NoEntry
<1>2. IInv /\ OwnedHasRunner /\ [Next]_vars => OwnedHasRunner'
  <2> SUFFICES ASSUME IInv, OwnedHasRunner, [Next]_vars PROVE OwnedHasRunner'
    OBVIOUS
  <2>1. CASE UNCHANGED vars
    <3>1. UNCHANGED <<asked, idem, phase>>
      BY <2>1 DEF vars
    <3> QED BY <3>1, RunnersKept DEF Running, Key
  <2>2. CASE \/ \E c \in Calls, k \in Keys, r \in Requests : Start(c, k, r)
             \/ \E c \in Calls : Carry(c) \/ LoseResponse(c)
    BY <2>2, CallersKeepRunners
  <2>3. CASE \E h \in Handlers : Serve(h)
    BY <2>3, OtherHandlersKeepRunners, ClaimingRuns, FinishingStores DEF Serve
  <2> QED BY <2>1, <2>2, <2>3 DEF Next
<1>3. IInv /\ OwnedHasRunner => WaitersHaveRunner
  <2> SUFFICES ASSUME IInv, OwnedHasRunner, NEW h \in Handlers, phase[h] = "await"
               PROVE  idem[Key(h)].done \/ \E g \in Handlers : Running(g) /\ Key(g) = Key(h)
    BY DEF WaitersHaveRunner
  <2>1. Key(h) \in Keys /\ idem[Key(h)].owner # NoRequest
    BY Serving DEF IInv, HandlersInStep
  <2> QED BY <2>1 DEF OwnedHasRunner
<1> QED BY <1>1, <1>2, <1>3, Invariance, PTL DEF Spec

-----------------------------------------------------------------------------
(* The promise of the idempotency keys.                                       *)

\* The outcome of a key is the stored response or what its runner holds.
OutcomesAre ==
    \A k \in Keys :
        /\ idem[k].done => Outcome(k) = idem[k].answer
        /\ \A h \in Handlers : Runs(h, k) => Outcome(k) = response[h] /\ ~idem[k].done
        /\ ~idem[k].done /\ (\A h \in Handlers : ~Runs(h, k)) => Outcome(k) = NoAnswer

LEMMA OutcomeNow == IInv => OutcomesAre
<1> SUFFICES ASSUME IInv, NEW k \in Keys
             PROVE  /\ idem[k].done => Outcome(k) = idem[k].answer
                    /\ \A h \in Handlers : Runs(h, k) => Outcome(k) = response[h] /\ ~idem[k].done
                    /\ ~idem[k].done /\ (\A h \in Handlers : ~Runs(h, k)) => Outcome(k) = NoAnswer
  BY DEF OutcomesAre
<1>1. ASSUME NEW h \in Handlers, Runs(h, k)
      PROVE  Outcome(k) = response[h] /\ ~idem[k].done
  <2>1. Running(h) /\ Key(h) = k /\ ~idem[k].done
    BY <1>1 DEF Runs, Holding, Running, IInv, OneRunner
  <2> DEFINE g == CHOOSE g \in Handlers : Runs(g, k)
  <2>2. g \in Handlers /\ Runs(g, k)
    BY <1>1
  <2>3. Running(g) /\ Key(g) = k
    BY <2>2 DEF Runs, Holding, Running
  <2>4. g = h
    BY <2>1, <2>2, <2>3 DEF IInv, OneRunner
  <2> QED BY <1>1, <2>1, <2>4 DEF Outcome
<1> QED BY <1>1 DEF Outcome

LEMMA OutcomeNext == IInv' => OutcomesAre'
BY OutcomeNow, PTL

\* Steps that neither store a response nor take or release a runner.
LEMMA OutcomesKept ==
    ASSUME IInv, IInv', UNCHANGED idem,
           \A h \in Handlers : Holding(h)' <=> Holding(h),
           \A h \in Handlers : Holding(h) => Key(h)' = Key(h) /\ response'[h] = response[h]
    PROVE  \A k \in Keys : Outcome(k)' = Outcome(k)
<1> TAKE k \in Keys
<1>1. \A h \in Handlers : Runs(h, k)' <=> Runs(h, k)
  BY DEF Runs
<1>2. CASE idem[k].done
  BY <1>2, OutcomeNow, OutcomeNext DEF OutcomesAre
<1>3. CASE ~idem[k].done
  <2>1. CASE \A h \in Handlers : ~Runs(h, k)
    BY <1>1, <1>3, <2>1, OutcomeNow, OutcomeNext DEF OutcomesAre
  <2>2. CASE \E h \in Handlers : Runs(h, k)
    <3>1. PICK h \in Handlers : Runs(h, k)
      BY <2>2
    <3>2. Outcome(k) = response[h] /\ Outcome(k)' = response'[h]
      BY <1>1, <3>1, OutcomeNow, OutcomeNext DEF OutcomesAre
    <3> QED BY <3>1, <3>2 DEF Runs
  <2> QED BY <2>1, <2>2
<1> QED BY <1>2, <1>3

\* The state of the promise, as the server and its callers realise it.
owners == [k \in Keys |-> idem[k].owner]
outcomes == [k \in Keys |-> Outcome(k)]
effects == {Created(n) : n \in 1 .. Latest}

\* A key that somebody asks for is taken by the first handler that begins.
LEMMA OwnStep ==
    ASSUME IInv, IInv', NEW h \in Handlers, NEW c \in Calls, c = h[1], BeginFirst(h)
    PROVE  Idem!Own(c)
<1>1. /\ phase[h] = "begin" /\ phase' = [phase EXCEPT ![h] = "execute"]
      /\ idem[Key(h)].owner = NoRequest
      /\ idem' = [idem EXCEPT ![Key(h)] = [owner |-> Request(h), done |-> FALSE, answer |-> NoAnswer]]
      /\ UNCHANGED <<ledger, asked, told, response>>
  BY DEF BeginFirst, Moves, callVars
<1>2. Key(h) \in Keys /\ asked[c] # NotAsked
  BY <1>1, Serving DEF IInv, HandlersInStep
<1>3. idem \in [Keys -> Entries]
  BY DEF IInv, TypeOK
<1>4. owners' = [owners EXCEPT ![Key(h)] = Request(h)]
  BY <1>1, <1>2, <1>3 DEF owners
<1>5. outcomes' = outcomes
  <2>1. \A g \in Handlers, k \in Keys : Runs(g, k)' <=> Runs(g, k)
    BY <1>1 DEF Runs, Holding, Key, IInv, TypeOK
  <2>2. \A g \in Handlers : ~Runs(g, Key(h))
    BY <1>1, Serving DEF Runs, Holding, Running, IInv, OneRunner
  <2>3. ~idem[Key(h)].done
    BY <1>1, <1>2 DEF IInv, KeysInStep
  <2>4. \A k \in Keys \ {Key(h)} : idem'[k] = idem[k]
    BY <1>1, <1>2, <1>3
  <2>5. \A k \in Keys : Outcome(k)' = Outcome(k)
    <3> TAKE k \in Keys
    <3>1. CASE k = Key(h)
      BY <1>1, <1>2, <1>3, <2>1, <2>2, <2>3, <3>1, OutcomeNow, OutcomeNext DEF OutcomesAre
    <3>2. CASE k # Key(h) /\ idem[k].done
      BY <2>4, <3>2, OutcomeNow, OutcomeNext DEF OutcomesAre
    <3>3. CASE k # Key(h) /\ ~idem[k].done
      <4>1. CASE \A g \in Handlers : ~Runs(g, k)
        BY <2>1, <2>4, <3>3, <4>1, OutcomeNow, OutcomeNext DEF OutcomesAre
      <4>2. CASE \E g \in Handlers : Runs(g, k)
        BY <1>1, <2>1, <4>2, OutcomeNow, OutcomeNext DEF OutcomesAre
      <4> QED BY <4>1, <4>2
    <3> QED BY <3>1, <3>2, <3>3
  <2> QED BY <2>5 DEF outcomes
<1>6. Latest' = Latest
  BY <1>1, LedgerKept DEF IInv
<1>7. owners[asked[c].key] = NoRequest
  BY <1>1, <1>2 DEF owners, Key
<1> QED
  BY <1>1, <1>2, <1>4, <1>5, <1>6, <1>7
     DEF Idem!Own, Idem!NotAsked, NotAsked, owners, outcomes, Key, Request

\* Executing the request, or refusing it, decides the outcome of its key.
LEMMA ExecuteDecides ==
    ASSUME IInv, IInv', NEW h \in Handlers, NEW k \in Keys, k = Key(h), Execute(h)
    PROVE  Idem!Execute(k)
<1> DEFINE answer == response'[h]
<1>1. /\ phase[h] = "execute" /\ phase'[h] \in {"dispatch", "finish"}
      /\ \A g \in Handlers \ {h} : phase'[g] = phase[g] /\ response'[g] = response[g]
      /\ UNCHANGED <<asked, told, idem>>
      /\ \/ answer \in {Invalid, Missing} /\ Latest' = Latest
         \/ answer = Created(Latest + 1) /\ Latest' = Latest + 1 /\ Latest + 1 \in 1 .. MaxEvents
      /\ Latest \in Nat
  <2>0. response \in [Handlers -> Responses] /\ phase \in [Handlers -> Phases]
        /\ Latest \in Nat
    BY DEF IInv, TypeOK, LedgerTypeOK, Latest
  <2>1. CASE ExecuteRefused(h)
    <3>1. phase[h] = "execute"
      BY <2>1 DEF ExecuteRefused, Moves
    <3>2. Request(h) \in Requests
      BY <3>1, Serving
    <3>3. Request(h).op \in {"charge", "refund"}
      BY <3>2, ServiceAssumption
    <3>4. RefusalOf(Request(h)) \in {Invalid, Missing}
      BY <2>1, <3>3 DEF ExecuteRefused, RefusalOf
    <3>5. Latest' = Latest
      BY <2>1, LedgerKept DEF ExecuteRefused, IInv
    <3> QED BY <2>0, <2>1, <3>4, <3>5 DEF ExecuteRefused, Moves, Answers, callVars
  <2>2. CASE ExecuteCharge(h) \/ ExecuteRefund(h)
    <3>1. /\ Latest' = Latest + 1 /\ Latest + 1 \in 1 .. MaxEvents
          /\ phase[h] = "execute" /\ phase' = [phase EXCEPT ![h] = "dispatch"]
          /\ response' = [response EXCEPT ![h] = Created(Latest + 1)]
          /\ UNCHANGED <<asked, told, idem>>
      BY <2>2, ExecutionIsLedgerStep
    <3> QED BY <2>0, <3>1
  <2> QED BY <2>1, <2>2 DEF Execute
<1>2. idem[k].owner = Request(h) /\ ~idem[k].done /\ Request(h) # NoRequest
  BY <1>1, Serving DEF IInv, OneRunner, Running
<1>3. \A g \in Handlers \ {h} : Runs(g, k) => FALSE
  BY <1>1 DEF IInv, OneRunner, Running, Runs, Holding
<1>4. \A g \in Handlers : Key(g)' = Key(g)
  BY <1>1 DEF Key
<1>5. Outcome(k) = NoAnswer
  <2>1. ~Runs(h, k)
    BY <1>1 DEF Runs, Holding
  <2> QED BY <1>2, <1>3, <2>1, OutcomeNow DEF OutcomesAre
<1>6. Outcome(k)' = answer
  <2>1. Runs(h, k)'
    BY <1>1, <1>4 DEF Runs, Holding
  <2> QED BY <2>1, OutcomeNext DEF OutcomesAre
<1>7. ASSUME NEW j \in Keys, j # k PROVE Outcome(j)' = Outcome(j)
  <2>1. \A g \in Handlers : Runs(g, j)' <=> Runs(g, j)
    BY <1>1, <1>4, <1>7 DEF Runs, Holding
  <2>2. \A g \in Handlers : Runs(g, j) => g # h
    BY <1>7 DEF Runs
  <2>3. CASE idem[j].done
    BY <1>1, <2>3, OutcomeNow, OutcomeNext DEF OutcomesAre
  <2>4. CASE ~idem[j].done /\ \A g \in Handlers : ~Runs(g, j)
    BY <1>1, <2>1, <2>4, OutcomeNow, OutcomeNext DEF OutcomesAre
  <2>5. CASE \E g \in Handlers : Runs(g, j)
    BY <1>1, <2>1, <2>2, <2>5, OutcomeNow, OutcomeNext DEF OutcomesAre
  <2> QED BY <2>3, <2>4, <2>5
<1> HIDE DEF answer
<1>8. outcomes' = [outcomes EXCEPT ![k] = answer]
  BY <1>6, <1>7 DEF outcomes
<1>9. outcomes[k] = NoAnswer /\ owners[k] # NoRequest /\ owners' = owners
  BY <1>1, <1>2, <1>5 DEF outcomes, owners
<1>10. CASE answer \in {Invalid, Missing} /\ Latest' = Latest
  <2>1. effects' = effects
    BY <1>10 DEF effects
  <2> QED BY <1>1, <1>8, <1>9, <1>10, <2>1 DEF Idem!Execute, owners, outcomes, effects
<1>11. CASE answer = Created(Latest + 1) /\ Latest' = Latest + 1 /\ Latest + 1 \in 1 .. MaxEvents
  <2>1. answer \in {Created(n) : n \in 1 .. MaxEvents}
    BY <1>11
  <2>2. \A n \in 1 .. Latest : Created(n) # answer
    BY <1>11, <1>1 DEF Created
  <2>3. answer \notin effects
    BY <2>2 DEF effects
  <2>4. effects' = effects \cup {answer}
    <3>1. 1 .. Latest' = (1 .. Latest) \cup {Latest + 1}
      BY <1>1, <1>11
    <3> QED BY <1>11, <3>1 DEF effects
  <2> QED BY <1>1, <1>8, <1>9, <2>1, <2>3, <2>4 DEF Idem!Execute, owners, outcomes, effects
<1> QED BY <1>1, <1>10, <1>11 DEF answer

\* A call is told what its key gave, that its key is taken, or nothing.
LEMMA ReplyTells ==
    ASSUME IInv, IInv', NEW h \in Handlers, NEW c \in Calls, c = h[1], Reply(h), told' # told
    PROVE  Idem!Tell(c)
<1>1. /\ phase[h] = "reply" /\ stage[c] = "waiting"
      /\ told' = [told EXCEPT ![c] = response[h]]
      /\ phase' = [phase EXCEPT ![h] = "off"]
      /\ UNCHANGED <<ledger, asked, idem, response>>
  BY DEF Reply, Moves
<1>2. /\ asked[c] # NotAsked /\ told[c] = NoAnswer /\ Key(h) \in Keys
      /\ \/ response[h] = Conflict /\ idem[Key(h)].owner \notin {NoRequest, Request(h)}
         \/ /\ idem[Key(h)].owner = Request(h) /\ idem[Key(h)].done
            /\ response[h] = idem[Key(h)].answer /\ response[h] # NoAnswer
  BY <1>1, Serving DEF IInv, HandlersInStep, CallsInStep, KeysInStep
<1>3. idem[Key(h)].done => Outcome(Key(h)) = idem[Key(h)].answer
  BY <1>2, OutcomeNow DEF OutcomesAre
<1>4. outcomes' = outcomes /\ owners' = owners /\ effects' = effects
  <2>1. \A g \in Handlers : (Holding(g)' <=> Holding(g)) /\ Key(g)' = Key(g)
    BY <1>1 DEF Holding, Key, IInv, TypeOK
  <2>2. \A k \in Keys : Outcome(k)' = Outcome(k)
    BY <1>1, <2>1, OutcomesKept
  <2> QED BY <1>1, <2>2, LedgerKept DEF outcomes, owners, effects, IInv
<1>5. /\ owners[asked[c].key] = idem[Key(h)].owner /\ outcomes[asked[c].key] = Outcome(Key(h))
      /\ asked[c].request = Request(h)
  BY <1>2 DEF owners, outcomes, Key, Request
<1> QED
  BY <1>1, <1>2, <1>3, <1>4, <1>5 DEF Idem!Tell, Idem!NotAsked, NotAsked, owners, outcomes, effects

LEMMA GivingUpTells ==
    ASSUME IInv, IInv', NEW c \in Calls, LoseRequest(c) \/ LoseResponse(c), told' # told
    PROVE  Idem!Tell(c)
<1>1. /\ stage[c] \in {"sending", "waiting"} /\ told' = [told EXCEPT ![c] = GaveUp]
      /\ UNCHANGED <<ledger, asked, idem, phase, response>>
  BY DEF LoseRequest, LoseResponse, Fails, serverVars
<1>2. asked[c] # NotAsked /\ told[c] = NoAnswer
  BY <1>1 DEF IInv, CallsInStep
<1>3. outcomes' = outcomes /\ owners' = owners /\ effects' = effects
  <2>1. \A g \in Handlers : (Holding(g)' <=> Holding(g)) /\ Key(g)' = Key(g)
    BY <1>1 DEF Holding, Key
  <2>2. \A k \in Keys : Outcome(k)' = Outcome(k)
    BY <1>1, <2>1, OutcomesKept
  <2> QED BY <1>1, <2>2, LedgerKept DEF outcomes, owners, effects, IInv
<1> QED BY <1>1, <1>2, <1>3 DEF Idem!Tell, Idem!NotAsked, NotAsked, owners, outcomes, effects

LEMMA StartAsks ==
    ASSUME IInv, IInv', NEW c \in Calls, NEW k \in Keys, NEW r \in Requests, Start(c, k, r)
    PROVE  Idem!Ask(c, k, r)
<1>1. /\ stage[c] = "idle" /\ asked' = [asked EXCEPT ![c] = [key |-> k, request |-> r]]
      /\ UNCHANGED <<ledger, told, idem, phase, response>>
  BY DEF Start, serverVars
<1>2. asked[c] = NotAsked /\ asked \in [Calls -> Asks]
  BY <1>1 DEF IInv, CallsInStep, TypeOK
<1>3. outcomes' = outcomes /\ owners' = owners /\ effects' = effects
  <2>1. \A g \in Handlers : Holding(g)' <=> Holding(g)
    BY <1>1 DEF Holding
  <2>2. \A g \in Handlers : Holding(g) => Key(g)' = Key(g)
    <3> TAKE g \in Handlers
    <3>1. Holding(g) => g[1] \in Calls /\ g[1] # c
      BY <1>1, Serving DEF Holding
    <3> QED BY <1>1, <1>2, <3>1 DEF Key
  <2>3. \A j \in Keys : Outcome(j)' = Outcome(j)
    BY <1>1, <2>1, <2>2, OutcomesKept
  <2> QED BY <1>1, <2>3, LedgerKept DEF outcomes, owners, effects, IInv
<1> QED BY <1>1, <1>2, <1>3 DEF Idem!Ask, Idem!NotAsked, NotAsked, owners, outcomes, effects

\* The other steps are invisible to those who rely on the promise.
Invisible == UNCHANGED <<asked, owners, outcomes, effects, told>>

LEMMA InvisibleSteps ==
    ASSUME IInv, IInv', UNCHANGED <<ledger, asked, told>>, UNCHANGED idem,
           \A g \in Handlers : (Holding(g)' <=> Holding(g)) /\ (Holding(g) => response'[g] = response[g])
    PROVE  Invisible
<1>1. \A g \in Handlers : Key(g)' = Key(g)
  BY DEF Key
<1>2. \A k \in Keys : Outcome(k)' = Outcome(k)
  BY <1>1, OutcomesKept
<1> QED BY <1>2, LedgerKept DEF Invisible, outcomes, owners, effects, IInv

LEMMA FinishIsInvisible ==
    ASSUME IInv, IInv', NEW h \in Handlers, Finish(h)
    PROVE  Invisible
<1>1. /\ phase[h] = "finish" /\ phase' = [phase EXCEPT ![h] = "reply"]
      /\ idem' = [idem EXCEPT ![Key(h)] = [owner |-> idem[Key(h)].owner, done |-> TRUE,
                                           answer |-> response[h]]]
      /\ UNCHANGED <<ledger, asked, told, response>>
  BY DEF Finish, Moves, callVars
<1>2. Key(h) \in Keys /\ Runs(h, Key(h))
  BY <1>1, Serving DEF Runs, Holding
<1>3. idem \in [Keys -> Entries] /\ phase \in [Handlers -> Phases]
  BY DEF IInv, TypeOK
<1>4. owners' = owners
  BY <1>1, <1>2, <1>3 DEF owners
<1>5. Outcome(Key(h)) = response[h]
  BY <1>2, OutcomeNow DEF OutcomesAre
<1>6. idem'[Key(h)].done /\ idem'[Key(h)].answer = response[h]
  BY <1>1, <1>2, <1>3
<1>7. \A k \in Keys : Outcome(k)' = Outcome(k)
  <2> TAKE k \in Keys
  <2>1. CASE k = Key(h)
    BY <1>2, <1>5, <1>6, <2>1, OutcomeNext DEF OutcomesAre
  <2>2. CASE k # Key(h)
    <3>1. idem'[k] = idem[k]
      BY <1>1, <1>2, <1>3, <2>2
    <3>2. \A g \in Handlers : Runs(g, k)' <=> Runs(g, k)
      BY <1>1, <1>3, <2>2 DEF Runs, Holding, Key
    <3>3. CASE idem[k].done
      BY <3>1, <3>3, OutcomeNow, OutcomeNext DEF OutcomesAre
    <3>4. CASE ~idem[k].done /\ \A g \in Handlers : ~Runs(g, k)
      BY <3>1, <3>2, <3>4, OutcomeNow, OutcomeNext DEF OutcomesAre
    <3>5. CASE \E g \in Handlers : Runs(g, k)
      BY <1>1, <3>2, <3>5, OutcomeNow, OutcomeNext DEF OutcomesAre
    <3> QED BY <3>3, <3>4, <3>5
  <2> QED BY <2>1, <2>2
<1> QED BY <1>1, <1>4, <1>7, LedgerKept DEF Invisible, outcomes, effects, IInv

\* The server and its callers implement the promise of the keys.
THEOREM IdempotentCallsImplemented == Spec => ImplementsIdempotentCalls
<1>1. Init => Idem!Init
  <2> SUFFICES ASSUME Init PROVE Idem!Init
    OBVIOUS
  <2>1. [k \in Keys |-> idem[k].owner] = [k \in Keys |-> NoRequest]
    BY DEF Init, NoEntry
  <2>2. [k \in Keys |-> Outcome(k)] = [k \in Keys |-> NoAnswer]
    BY DEF Init, NoEntry, Outcome, Runs, Holding
  <2>3. {Created(n) : n \in 1 .. Latest} = {}
    BY DEF Init, LedgerInit, Latest
  <2> QED BY <2>1, <2>2, <2>3 DEF Init, Idem!Init, Idem!NotAsked, NotAsked
<1>2. IInv /\ IInv' /\ [Next]_vars => [Idem!Next]_Idem!vars
  <2> SUFFICES ASSUME IInv, IInv', [Next]_vars PROVE [Idem!Next]_Idem!vars
    OBVIOUS
  <2>1. Invisible => UNCHANGED Idem!vars
    BY DEF Invisible, Idem!vars, owners, outcomes, effects
  <2>2. ASSUME NEW c \in Calls, NEW k \in Keys, NEW r \in Requests, Start(c, k, r)
        PROVE  Idem!Next
    BY <2>2, StartAsks DEF Idem!Next
  <2>3. ASSUME NEW c \in Calls, Send(c) PROVE Invisible
    <3>1. phase' = [phase EXCEPT ![<<c, attempt[c]>>] = "begin"] /\ phase[<<c, attempt[c]>>] = "off"
          /\ UNCHANGED <<ledger, asked, told, idem, response>>
      BY <2>3 DEF Send, IInv, CallsInStep, TypeOK
    <3>2. \A g \in Handlers : Holding(g)' <=> Holding(g)
      BY <3>1 DEF Holding, IInv, TypeOK
    <3> QED BY <3>1, <3>2, InvisibleSteps
  <2>4. ASSUME NEW c \in Calls, LoseRequest(c) \/ LoseResponse(c)
        PROVE  Invisible \/ Idem!Next
    <3>1. CASE told' # told
      <4>1. Idem!Tell(c)
        BY <2>4, <3>1, GivingUpTells
      <4> QED BY <4>1 DEF Idem!Next
    <3>2. CASE told' = told
      <4>1. UNCHANGED <<ledger, asked, told, idem, phase, response>>
        BY <2>4, <3>2 DEF LoseRequest, LoseResponse, Fails, serverVars
      <4> QED BY <4>1, InvisibleSteps DEF Holding
    <3> QED BY <3>1, <3>2
  <2>5. ASSUME NEW h \in Handlers, NEW c \in Calls, c = h[1], NEW k, k = Key(h), Serve(h)
        PROVE  Invisible \/ Idem!Next
    <3>1. CASE BeginFirst(h)
      <4>1. Idem!Own(c)
        BY <2>5, <3>1, OwnStep
      <4> QED BY <4>1 DEF Idem!Next
    <3>2. CASE BeginConflict(h) \/ BeginReplay(h) \/ Replay(h)
      <4>1. /\ \E to \in {"await", "reply"} : phase' = [phase EXCEPT ![h] = to]
            /\ phase[h] \in {"begin", "await"}
            /\ UNCHANGED <<ledger, asked, told, idem>>
            /\ response' = response \/ \E answer : response' = [response EXCEPT ![h] = answer]
        BY <3>2 DEF BeginConflict, BeginReplay, Replay, Moves, Answers, callVars
      <4>2. \A g \in Handlers : (Holding(g)' <=> Holding(g)) /\ (Holding(g) => response'[g] = response[g])
        BY <4>1 DEF Holding, IInv, TypeOK
      <4> QED BY <4>1, <4>2, InvisibleSteps
    <3>3. CASE Execute(h)
      <4>1. phase[h] = "execute"
        BY <3>3 DEF Execute, ExecuteCharge, ExecuteRefund, ExecuteRefused, Succeeds, Moves
      <4>2. k \in Keys
        BY <2>5, <4>1, Serving
      <4>3. Idem!Execute(k)
        BY <2>5, <3>3, <4>2, ExecuteDecides
      <4> QED BY <4>2, <4>3 DEF Idem!Next
    <3>4. CASE Dispatch(h)
      <4>1. /\ phase[h] = "dispatch" /\ phase' = [phase EXCEPT ![h] = "finish"]
            /\ UNCHANGED <<ledger, asked, told, idem, response>>
        BY <3>4 DEF Dispatch, Moves, callVars
      <4>2. \A g \in Handlers : Holding(g)' <=> Holding(g)
        BY <4>1 DEF Holding, IInv, TypeOK
      <4> QED BY <4>1, <4>2, InvisibleSteps
    <3>5. CASE Finish(h)
      BY <3>5, FinishIsInvisible
    <3>6. CASE Reply(h)
      <4>1. CASE told' # told
        <5>1. Idem!Tell(c)
          BY <2>5, <3>6, <4>1, ReplyTells
        <5> QED BY <5>1 DEF Idem!Next
      <4>2. CASE told' = told
        <5>1. /\ phase[h] = "reply" /\ phase' = [phase EXCEPT ![h] = "off"]
              /\ UNCHANGED <<ledger, asked, told, idem, response>>
          BY <3>6, <4>2 DEF Reply, Moves
        <5>2. \A g \in Handlers : Holding(g)' <=> Holding(g)
          BY <5>1 DEF Holding, IInv, TypeOK
        <5> QED BY <5>1, <5>2, InvisibleSteps
      <4> QED BY <4>1, <4>2
    <3> QED BY <2>5, <3>1, <3>2, <3>3, <3>4, <3>5, <3>6 DEF Serve
  <2>6. CASE UNCHANGED vars
    <3>1. UNCHANGED <<ledger, asked, told, idem, phase, response>>
      BY <2>6 DEF vars
    <3>2. Invisible
      BY <3>1, InvisibleSteps DEF Holding
    <3> QED BY <2>1, <3>2
  <2>7. ASSUME NEW h \in Handlers, Serve(h) PROVE Invisible \/ Idem!Next
    BY <2>5, <2>7, Serving
  <2> QED BY <2>1, <2>2, <2>3, <2>4, <2>6, <2>7 DEF Next, Carry
<1> QED BY <1>1, <1>2, Invariance, PTL DEF Spec, Idem!Spec, ImplementsIdempotentCalls


-----------------------------------------------------------------------------
(* A call is told the truth.                                                  *)

Sent(n) == \E i \in DOMAIN dispatched : dispatched[i] = n

\* An answer that is no conflict; a success is an event of the request that
\* made it, and was handed to the webhooks.
Truthful(answer, r) ==
    /\ answer.status \in {201, 400, 404}
    /\ answer.status = 201 => IsEventOf(answer.event, r) /\ Sent(answer.event)

TruthOfKeys == \A k \in Keys : idem[k].done => Truthful(idem[k].answer, idem[k].owner)

\* Between the ledger's lock and the webhooks an event is one handler's.
TruthOfHandlers ==
    \A h \in Handlers :
        /\ phase[h] = "finish" => Truthful(response[h], Request(h))
        /\ phase[h] = "dispatch" =>
             /\ response[h].status = 201 /\ IsEventOf(response[h].event, Request(h))
             /\ ~Sent(response[h].event)
             /\ \A g \in Handlers \ {h} : phase[g] = "dispatch" => response[g].event # response[h].event

SentOnce ==
    /\ \A i \in DOMAIN dispatched : dispatched[i] \in 1 .. Latest
    /\ \A i, j \in DOMAIN dispatched : dispatched[i] = dispatched[j] => i = j

TruthOfCalls ==
    \A c \in Calls :
        LET k == asked[c].key
            r == asked[c].request
        IN /\ told[c].status \in {201, 400, 404} =>
                /\ k \in Keys /\ idem[k].done
                /\ idem[k].owner = r /\ told[c] = idem[k].answer
           /\ told[c] = Conflict => k \in Keys /\ idem[k].owner \notin {NoRequest, r}

TruthInv == IInv /\ TruthOfKeys /\ TruthOfHandlers /\ SentOnce /\ TruthOfCalls

\* Neither the ledger nor the dispatcher takes anything back.
Grows == /\ \A n, r : IsEventOf(n, r) => IsEventOf(n, r)'
         /\ \A n : Sent(n) => Sent(n)'

LEMMA TruthGrows ==
    ASSUME Grows
    PROVE  \A answer, r : Truthful(answer, r) => Truthful(answer, r)'
  BY DEF Grows, Truthful

LEMMA NothingTakenBack ==
    ASSUME UNCHANGED <<ledger, dispatched>>
    PROVE  /\ \A n, r : IsEventOf(n, r)' <=> IsEventOf(n, r)
           /\ \A n : Sent(n)' <=> Sent(n)
           /\ SentOnce => SentOnce'
           /\ Grows
  BY DEF ledger, IsEventOf, Sent, SentOnce, Latest, Grows

\* The responses that are not about a key's answer.
LEMMA PlainResponses ==
    /\ NoAnswer.status = 0 /\ GaveUp.status = 1 /\ Conflict.status = 422
    /\ Invalid.status = 400 /\ Missing.status = 404
    /\ \A n : Created(n).status = 201 /\ Created(n).event = n
    /\ GaveUp # Conflict /\ NoAnswer # Conflict
  BY DEF NoAnswer, GaveUp, Conflict, Invalid, Missing, Refused, Created

LEMMA StartTruth ==
    ASSUME TruthInv, NEW c \in Calls, NEW k \in Keys, NEW r \in Requests, Start(c, k, r)
    PROVE  TruthOfKeys' /\ TruthOfHandlers' /\ SentOnce' /\ TruthOfCalls'
<1>1. /\ stage[c] = "idle" /\ UNCHANGED <<ledger, told, idem, phase, response, dispatched>>
      /\ asked' = [asked EXCEPT ![c] = [key |-> k, request |-> r]]
  BY DEF Start, serverVars
<1>2. asked \in [Calls -> Asks] /\ told[c] = NoAnswer
  BY <1>1 DEF TruthInv, IInv, TypeOK, CallsInStep
<1>3. \A h \in Handlers : phase[h] # "off" => Request(h)' = Request(h)
  <2> TAKE h \in Handlers
  <2>1. phase[h] # "off" => h[1] \in Calls /\ h[1] # c
    BY <1>1, Serving DEF TruthInv
  <2> QED BY <1>1, <1>2, <2>1 DEF Request
<1>4. TruthOfKeys' /\ SentOnce'
  BY <1>1, NothingTakenBack, TruthGrows DEF TruthInv, TruthOfKeys
<1>5. TruthOfHandlers'
  BY <1>1, <1>3, NothingTakenBack, TruthGrows DEF TruthInv, TruthOfHandlers
<1>6. TruthOfCalls'
  <2>1. \A d \in Calls \ {c} : asked'[d] = asked[d]
    BY <1>1, <1>2
  <2>2. told'[c].status = 0 /\ told'[c] # Conflict
    BY <1>1, <1>2, PlainResponses
  <2> QED BY <1>1, <2>1, <2>2 DEF TruthInv, TruthOfCalls
<1> QED BY <1>4, <1>5, <1>6

\* Steps that neither execute, nor dispatch, nor store an answer.
LEMMA QuietTruth ==
    ASSUME TruthInv, UNCHANGED <<ledger, asked, idem, dispatched>>,
           \A h \in Handlers : phase'[h] \in {"dispatch", "finish"} =>
               phase[h] = phase'[h] /\ response'[h] = response[h]
    PROVE  TruthOfKeys' /\ TruthOfHandlers' /\ SentOnce' /\ (told' = told => TruthOfCalls')
<1>1. TruthOfKeys' /\ SentOnce'
  BY NothingTakenBack, TruthGrows DEF TruthInv, TruthOfKeys
<1>2. \A h \in Handlers : Request(h)' = Request(h)
  BY DEF Request
<1>3. TruthOfHandlers'
  BY <1>2, NothingTakenBack, TruthGrows DEF TruthInv, TruthOfHandlers
<1>4. told' = told => TruthOfCalls'
  BY DEF TruthInv, TruthOfCalls
<1> QED BY <1>1, <1>3, <1>4

LEMMA FailsTruth ==
    ASSUME TruthInv, NEW c \in Calls, LoseRequest(c) \/ LoseResponse(c)
    PROVE  TruthOfKeys' /\ TruthOfHandlers' /\ SentOnce' /\ TruthOfCalls'
<1>1. /\ UNCHANGED <<ledger, asked, idem, phase, response, dispatched>>
      /\ told' = told \/ told' = [told EXCEPT ![c] = GaveUp]
  BY DEF LoseRequest, LoseResponse, Fails, serverVars
<1>2. TruthOfKeys' /\ TruthOfHandlers' /\ SentOnce' /\ (told' = told => TruthOfCalls')
  BY <1>1, QuietTruth
<1>3. CASE told' = [told EXCEPT ![c] = GaveUp]
  <2>1. \A d \in Calls : told'[d] = told[d] \/ told'[d] = GaveUp
    BY <1>3 DEF TruthInv, IInv, TypeOK
  <2>2. TruthOfCalls'
    BY <1>1, <2>1, PlainResponses DEF TruthInv, TruthOfCalls
  <2> QED BY <1>2, <2>2
<1> QED BY <1>1, <1>2, <1>3

LEMMA ReplyTruth ==
    ASSUME TruthInv, NEW h \in Handlers, Reply(h)
    PROVE  TruthOfKeys' /\ TruthOfHandlers' /\ SentOnce' /\ TruthOfCalls'
<1> DEFINE c == h[1]
<1>1. /\ phase[h] = "reply" /\ phase' = [phase EXCEPT ![h] = "off"]
      /\ told' = told \/ told' = [told EXCEPT ![c] = response[h]]
      /\ UNCHANGED <<ledger, asked, idem, response, dispatched>>
  BY DEF Reply, Moves
<1>2. phase \in [Handlers -> Phases] /\ told \in [Calls -> Responses]
  BY DEF TruthInv, IInv, TypeOK
<1>3. TruthOfKeys' /\ TruthOfHandlers' /\ SentOnce' /\ (told' = told => TruthOfCalls')
  <2>1. \A g \in Handlers : phase'[g] \in {"dispatch", "finish"} =>
          phase[g] = phase'[g] /\ response'[g] = response[g]
    BY <1>1, <1>2
  <2> QED BY <1>1, <2>1, QuietTruth
<1>4. CASE told' = [told EXCEPT ![c] = response[h]]
  <2>1. c \in Calls /\ Key(h) \in Keys /\ Request(h) # NoRequest
    BY <1>1, Serving DEF TruthInv
  <2>2. \/ response[h] = Conflict /\ idem[Key(h)].owner \notin {NoRequest, Request(h)}
        \/ /\ idem[Key(h)].owner = Request(h) /\ idem[Key(h)].done
           /\ response[h] = idem[Key(h)].answer
    BY <1>1 DEF TruthInv, IInv, HandlersInStep
  <2>3. idem[Key(h)].done => idem[Key(h)].answer # Conflict
    BY <2>1, PlainResponses DEF TruthInv, TruthOfKeys, Truthful
  <2>4. told'[c] = response[h] /\ \A d \in Calls \ {c} : told'[d] = told[d]
    BY <1>2, <1>4, <2>1
  <2>5. Key(h) = asked[c].key /\ Request(h) = asked[c].request
    BY DEF Key, Request
  <2>6. Conflict.status \notin {201, 400, 404}
    BY PlainResponses
  <2> HIDE DEF c
  <2>7. ASSUME NEW d \in Calls
        PROVE  LET k == asked[d].key
                   r == asked[d].request
               IN /\ told'[d].status \in {201, 400, 404} =>
                       /\ k \in Keys /\ idem[k].done
                       /\ idem[k].owner = r /\ told'[d] = idem[k].answer
                  /\ told'[d] = Conflict => k \in Keys /\ idem[k].owner \notin {NoRequest, r}
    <3>1. CASE d = c
      BY <2>1, <2>2, <2>3, <2>4, <2>5, <2>6, <3>1
    <3>2. CASE d # c
      BY <2>4, <3>2 DEF TruthInv, TruthOfCalls
    <3> QED BY <3>1, <3>2
  <2>8. TruthOfCalls'
    BY <1>1, <2>7 DEF TruthOfCalls
  <2> QED BY <1>3, <2>8
<1> QED BY <1>1, <1>3, <1>4

LEMMA ClaimTruth ==
    ASSUME TruthInv, NEW h \in Handlers, BeginFirst(h)
    PROVE  TruthOfKeys' /\ TruthOfHandlers' /\ SentOnce' /\ TruthOfCalls'
<1> DEFINE e == [owner |-> Request(h), done |-> FALSE, answer |-> NoAnswer]
<1>1. /\ phase[h] = "begin" /\ phase' = [phase EXCEPT ![h] = "execute"]
      /\ idem[Key(h)].owner = NoRequest /\ idem' = [idem EXCEPT ![Key(h)] = e]
      /\ UNCHANGED <<ledger, asked, told, response, dispatched>>
  BY DEF BeginFirst, Moves, callVars
<1>2. phase \in [Handlers -> Phases] /\ idem \in [Keys -> Entries] /\ Key(h) \in Keys
  BY <1>1, Serving DEF TruthInv, IInv, TypeOK
<1>3. idem'[Key(h)] = e /\ ~e.done /\ \A k \in Keys \ {Key(h)} : idem'[k] = idem[k]
  BY <1>1, <1>2
<1> HIDE DEF e
<1>4. \A a, r : Truthful(a, r)' <=> Truthful(a, r)
  BY <1>1, NothingTakenBack DEF Truthful
<1>5. TruthOfKeys'
  BY <1>3, <1>4 DEF TruthInv, TruthOfKeys
<1>6. \A g \in Handlers : /\ Request(g)' = Request(g)
                          /\ phase'[g] \in {"dispatch", "finish"} => phase[g] = phase'[g]
  BY <1>1, <1>2 DEF Request
<1>7. TruthOfHandlers'
  BY <1>1, <1>4, <1>6, NothingTakenBack DEF TruthInv, TruthOfHandlers
<1>8. ~idem[Key(h)].done
  BY <1>1, <1>2 DEF TruthInv, IInv, KeysInStep
<1>9. TruthOfCalls'
  BY <1>1, <1>3, <1>8 DEF TruthInv, TruthOfCalls
<1> QED BY <1>1, <1>5, <1>7, <1>9, NothingTakenBack DEF TruthInv

LEMMA RefusalTruth ==
    ASSUME TruthInv, NEW h \in Handlers, ExecuteRefused(h)
    PROVE  TruthOfKeys' /\ TruthOfHandlers' /\ SentOnce' /\ TruthOfCalls'
<1>1. /\ phase[h] = "execute" /\ phase' = [phase EXCEPT ![h] = "finish"]
      /\ response' = [response EXCEPT ![h] = RefusalOf(Request(h))]
      /\ RefusalOf(Request(h)) # NoAnswer
      /\ UNCHANGED <<ledger, asked, told, idem, dispatched>>
  BY DEF ExecuteRefused, Moves, Answers, callVars
<1>2. RefusalOf(Request(h)) \in {Invalid, Missing}
  <2>1. Request(h) \in Requests
    BY <1>1, Serving DEF TruthInv
  <2>2. Request(h).op \in {"charge", "refund"}
    BY <2>1, ServiceAssumption
  <2> QED BY <1>1, <2>2 DEF RefusalOf
<1>3. phase \in [Handlers -> Phases] /\ response \in [Handlers -> Responses]
  BY DEF TruthInv, IInv, TypeOK
<1>4. /\ phase'[h] = "finish" /\ response'[h] = RefusalOf(Request(h))
      /\ \A g \in Handlers \ {h} : phase'[g] = phase[g] /\ response'[g] = response[g]
      /\ \A g \in Handlers : Request(g)' = Request(g)
  BY <1>1, <1>3 DEF Request
<1>5. \A r : Truthful(RefusalOf(Request(h)), r)
  BY <1>2, PlainResponses DEF Truthful
<1>6. \A a, r : Truthful(a, r)' <=> Truthful(a, r)
  BY <1>1, NothingTakenBack DEF Truthful
<1>7. TruthOfHandlers'
  <2>1. Truthful(response'[h], Request(h))
    BY <1>4, <1>5
  <2> QED BY <1>1, <1>4, <1>6, <2>1, NothingTakenBack DEF TruthInv, TruthOfHandlers
<1>8. TruthOfKeys' /\ TruthOfCalls'
  BY <1>1, <1>6 DEF TruthInv, TruthOfKeys, TruthOfCalls
<1> QED BY <1>1, <1>7, <1>8, NothingTakenBack DEF TruthInv

\* The ledger appends the event of the request, and nothing else changes.
LEMMA EventMade ==
    ASSUME TruthInv, NEW h \in Handlers, ExecuteCharge(h) \/ ExecuteRefund(h)
    PROVE  /\ Grows
           /\ \A n, r : n = Latest + 1 /\ r = Request(h) => IsEventOf(n, r)'
<1>1. PICK e : /\ events' = Append(events, e) /\ e \in EventRecords
               /\ e.amount = Request(h).amount
               /\ IF Request(h).op = "charge"
                    THEN e.type = "charge.succeeded" /\ e.merchant = Request(h).merchant
                    ELSE e.type = "charge.refunded" /\ e.charge = Request(h).charge
  <2>1. phase[h] = "execute"
    BY DEF ExecuteCharge, ExecuteRefund, Succeeds, Moves
  <2>2. Request(h) \in Requests /\ Request(h).amount \in Amounts /\ LedgerTypeOK
    BY <2>1, Serving, ServiceAssumption DEF TruthInv, IInv, TypeOK
  <2>3. CASE ExecuteCharge(h)
    <3>1. PICK c \in ChargeIds : CreateCharge(c, Request(h).merchant, Request(h).amount)
      BY <2>3 DEF ExecuteCharge
    <3>2. Request(h).merchant \in Merchants /\ Request(h).op = "charge"
      BY <2>3, <3>1 DEF CreateCharge, ChargeInvalid, ExecuteCharge
    <3> DEFINE e == [type |-> "charge.succeeded", charge |-> c,
                     merchant |-> Request(h).merchant, amount |-> Request(h).amount]
    <3>3. events' = Append(events, e)
      BY <3>1 DEF CreateCharge, Record
    <3>4. e \in EventRecords
      BY <2>2, <3>2 DEF EventRecords, EventTypes
    <3>5. e.type = "charge.succeeded" /\ e.merchant = Request(h).merchant /\ e.amount = Request(h).amount
      OBVIOUS
    <3> HIDE DEF e
    <3> QED BY <3>2, <3>3, <3>4, <3>5
  <2>4. CASE ExecuteRefund(h)
    <3>1. /\ Request(h).op = "refund" /\ Request(h).charge \in ChargeIds
          /\ Refund(Request(h).charge, Request(h).amount)
      BY <2>4 DEF ExecuteRefund
    <3> DEFINE c == Request(h).charge
               e == [type |-> "charge.refunded", charge |-> c,
                     merchant |-> charges[c].merchant, amount |-> Request(h).amount]
    <3>2. events' = Append(events, e)
      BY <3>1 DEF Refund, Record
    <3>3. charges[c].merchant \in Merchants
      BY <2>2, <3>1, ChargeFields DEF Refund, Exists
    <3>4. e \in EventRecords
      BY <2>2, <3>1, <3>3 DEF EventRecords, EventTypes
    <3>5. e.type = "charge.refunded" /\ e.charge = c /\ e.amount = Request(h).amount
      OBVIOUS
    <3> HIDE DEF e
    <3> QED BY <3>1, <3>2, <3>4, <3>5
  <2> QED BY <2>3, <2>4
<1>2. asked' = asked /\ dispatched' = dispatched
  BY DEF ExecuteCharge, ExecuteRefund, callVars
<1>3. /\ Latest \in Nat /\ DOMAIN events = 1 .. Latest /\ DOMAIN events' = 1 .. Latest + 1
      /\ \A n \in 1 .. Latest : events'[n] = events[n]
      /\ events'[Latest + 1] = e
  BY <1>1 DEF TruthInv, IInv, TypeOK, LedgerTypeOK, Latest
<1>4. \A n, r : IsEventOf(n, r) => IsEventOf(n, r)'
  BY <1>3 DEF IsEventOf
<1>5. \A n : Sent(n)' <=> Sent(n)
  BY <1>2 DEF Sent
<1>6. Latest + 1 \in DOMAIN events'
  BY <1>3
<1>7. Request(h)' = Request(h)
  BY <1>2 DEF Request
<1> QED BY <1>1, <1>3, <1>4, <1>5, <1>6, <1>7 DEF Grows, IsEventOf


LEMMA ExecutionTruth ==
    ASSUME TruthInv, NEW h \in Handlers, ExecuteCharge(h) \/ ExecuteRefund(h)
    PROVE  TruthOfKeys' /\ TruthOfHandlers' /\ SentOnce' /\ TruthOfCalls'
<1>1. /\ Latest \in Nat /\ Latest' = Latest + 1
      /\ phase[h] = "execute" /\ phase' = [phase EXCEPT ![h] = "dispatch"]
      /\ response' = [response EXCEPT ![h] = Created(Latest + 1)]
      /\ UNCHANGED <<asked, told, idem, dispatched>>
  BY ExecutionIsLedgerStep DEF TruthInv
<1>2. Grows /\ \A n, r : n = Latest + 1 /\ r = Request(h) => IsEventOf(n, r)'
  BY EventMade
<1>3. phase \in [Handlers -> Phases] /\ response \in [Handlers -> Responses]
  BY DEF TruthInv, IInv, TypeOK
<1>4. /\ phase'[h] = "dispatch" /\ response'[h].status = 201 /\ response'[h].event = Latest + 1
      /\ \A g \in Handlers \ {h} : phase'[g] = phase[g] /\ response'[g] = response[g]
  BY <1>1, <1>3, PlainResponses
<1>5. \A g \in Handlers : Request(g)' = Request(g)
  BY <1>1 DEF Request
<1>6. \A n : Sent(n)' <=> Sent(n)
  BY <1>1 DEF Sent
<1>7. SentOnce' /\ ~Sent(Latest + 1)
  BY <1>1 DEF TruthInv, SentOnce, Sent
<1>8. \A g \in Handlers : phase[g] = "dispatch" => response[g].event # Latest + 1
  BY <1>1 DEF TruthInv, IInv, HandlersInStep
<1>9. TruthOfHandlers'
  <2> SUFFICES ASSUME NEW g \in Handlers
               PROVE  /\ phase'[g] = "finish" => Truthful(response[g], Request(g))'
                      /\ phase'[g] = "dispatch" =>
                           /\ response'[g].status = 201 /\ IsEventOf(response[g].event, Request(g))'
                           /\ ~Sent(response[g].event)'
                           /\ \A f \in Handlers \ {g} :
                                phase'[f] = "dispatch" => response'[f].event # response'[g].event
    BY DEF TruthOfHandlers
  <2>1. CASE g = h
    <3>1. IsEventOf(response[h].event, Request(h))'
      BY <1>2, <1>4, <1>5
    <3>2. ~Sent(response[h].event)'
      BY <1>4, <1>6, <1>7
    <3> QED BY <1>4, <1>8, <2>1, <3>1, <3>2
  <2>2. CASE g # h
    <3>1. phase[g] = "finish" => Truthful(response[g], Request(g))'
      BY <1>2, <1>4, <1>5, <2>2, TruthGrows DEF TruthInv, TruthOfHandlers
    <3>2. phase[g] = "dispatch" =>
             /\ response[g].status = 201 /\ IsEventOf(response[g].event, Request(g))'
             /\ ~Sent(response[g].event)'
      BY <1>2, <1>4, <1>5, <1>6, <2>2 DEF TruthInv, TruthOfHandlers, Grows
    <3>3. phase[g] = "dispatch" =>
             \A f \in Handlers \ {g} : phase'[f] = "dispatch" => response'[f].event # response'[g].event
      BY <1>4, <1>8, <2>2 DEF TruthInv, TruthOfHandlers
    <3> QED BY <1>4, <2>2, <3>1, <3>2, <3>3
  <2> QED BY <2>1, <2>2
<1>10. TruthOfKeys' /\ TruthOfCalls'
  BY <1>1, <1>2, TruthGrows DEF TruthInv, TruthOfKeys, TruthOfCalls
<1> QED BY <1>7, <1>9, <1>10

LEMMA DispatchTruth ==
    ASSUME TruthInv, NEW h \in Handlers, Dispatch(h)
    PROVE  TruthOfKeys' /\ TruthOfHandlers' /\ SentOnce' /\ TruthOfCalls'
<1> DEFINE n == response[h].event
<1>1. /\ phase[h] = "dispatch" /\ phase' = [phase EXCEPT ![h] = "finish"]
      /\ dispatched' = Append(dispatched, n)
      /\ UNCHANGED <<ledger, asked, told, idem, response>>
  BY DEF Dispatch, Moves, callVars
<1>2. phase \in [Handlers -> Phases] /\ dispatched \in Seq(1 .. MaxEvents) /\ Latest' = Latest
  BY <1>1, LedgerKept DEF TruthInv, IInv, TypeOK
<1>3. /\ n \in 1 .. Latest /\ response[h].status = 201 /\ IsEventOf(n, Request(h)) /\ ~Sent(n)
      /\ \A g \in Handlers \ {h} : phase[g] = "dispatch" => response[g].event # n
  BY <1>1 DEF TruthInv, TruthOfHandlers, IInv, HandlersInStep
<1> HIDE DEF n
<1>4. dispatched \in Seq(1 .. MaxEvents) /\ n \in 1 .. MaxEvents
  <2>1. response[h] \in Responses
    BY <1>2 DEF TruthInv, IInv, TypeOK
  <2>2. response[h].event \in 0 .. MaxEvents /\ Latest \in Nat /\ MaxEvents \in Nat
    BY <2>1, LedgerAssumption DEF Responses, TruthInv, IInv, TypeOK, LedgerTypeOK, Latest
  <2> QED BY <1>2, <1>3, <2>2 DEF n
<1> DEFINE L == Len(dispatched)
<1>5. /\ L \in Nat /\ DOMAIN dispatched = 1 .. L /\ DOMAIN dispatched' = 1 .. L + 1
      /\ \A i \in 1 .. L : dispatched'[i] = dispatched[i]
      /\ dispatched'[L + 1] = n
  BY <1>1, <1>4
<1> HIDE DEF L
<1>6. \A m : Sent(m)' <=> Sent(m) \/ m = n
  <2> TAKE m
  <2>1. Sent(m) => Sent(m)'
    BY <1>5 DEF Sent
  <2>2. m = n => Sent(m)'
    <3>1. L + 1 \in DOMAIN dispatched'
      BY <1>5
    <3> QED BY <1>5, <3>1 DEF Sent
  <2>3. Sent(m)' => Sent(m) \/ m = n
    <3>1. DOMAIN dispatched' = DOMAIN dispatched \cup {L + 1}
      BY <1>5
    <3> QED BY <1>5, <3>1 DEF Sent
  <2> QED BY <2>1, <2>2, <2>3
<1>7. \A m, r : IsEventOf(m, r)' <=> IsEventOf(m, r)
  BY <1>1 DEF ledger, IsEventOf
<1>8. Grows
  BY <1>6, <1>7 DEF Grows
<1>9. SentOnce'
  <2>1. \A i \in 1 .. L : dispatched[i] \in 1 .. Latest /\ dispatched[i] # n
    BY <1>3, <1>5 DEF TruthInv, SentOnce, Sent
  <2>2. \A i \in DOMAIN dispatched' : dispatched'[i] \in 1 .. Latest'
    BY <1>2, <1>3, <1>5, <2>1
  <2>3. ASSUME NEW i \in DOMAIN dispatched', NEW j \in DOMAIN dispatched', dispatched'[i] = dispatched'[j]
        PROVE  i = j
    <3>1. CASE i \in 1 .. L /\ j \in 1 .. L
      BY <1>5, <2>3, <3>1 DEF TruthInv, SentOnce
    <3>2. CASE i = L + 1 \/ j = L + 1
      BY <1>5, <2>1, <2>3, <3>2
    <3> QED BY <1>5, <3>1, <3>2
  <2> QED BY <2>2, <2>3 DEF SentOnce
<1>10. /\ phase'[h] = "finish" /\ \A g \in Handlers \ {h} : phase'[g] = phase[g]
       /\ \A g \in Handlers : Request(g)' = Request(g)
  BY <1>1, <1>2 DEF Request
<1>11. TruthOfHandlers'
  <2>1. Truthful(response[h], Request(h))'
    <3>1. response'[h] = response[h] /\ response[h].event = n /\ Request(h)' = Request(h)
      BY <1>1, <1>10 DEF n
    <3>2. response'[h].status = 201 /\ response'[h].event = n
      BY <1>3, <3>1
    <3>3. IsEventOf(response[h].event, Request(h))' /\ Sent(response[h].event)'
      BY <1>3, <1>6, <1>7, <3>1
    <3> QED BY <3>2, <3>3 DEF Truthful
  <2> SUFFICES ASSUME NEW g \in Handlers, g # h
               PROVE  /\ phase'[g] = "finish" => Truthful(response[g], Request(g))'
                      /\ phase'[g] = "dispatch" =>
                           /\ response'[g].status = 201 /\ IsEventOf(response[g].event, Request(g))'
                           /\ ~Sent(response[g].event)'
                           /\ \A f \in Handlers \ {g} :
                                phase'[f] = "dispatch" => response'[f].event # response'[g].event
    BY <1>10, <2>1 DEF TruthOfHandlers
  <2>2. response'[g] = response[g] /\ phase'[g] = phase[g] /\ Request(g)' = Request(g)
    BY <1>1, <1>10
  <2>3. phase[g] = "finish" => Truthful(response[g], Request(g))'
    BY <1>8, <2>2, TruthGrows DEF TruthInv, TruthOfHandlers
  <2>4. phase[g] = "dispatch" =>
           /\ response[g].status = 201 /\ IsEventOf(response[g].event, Request(g))'
           /\ ~Sent(response[g].event)'
    BY <1>3, <1>6, <1>7, <2>2 DEF TruthInv, TruthOfHandlers
  <2>5. phase[g] = "dispatch" =>
           \A f \in Handlers \ {g} : phase'[f] = "dispatch" => response'[f].event # response'[g].event
    BY <1>1, <1>10, <2>2 DEF TruthInv, TruthOfHandlers
  <2> QED BY <2>2, <2>3, <2>4, <2>5
<1>12. TruthOfKeys' /\ TruthOfCalls'
  BY <1>1, <1>8, TruthGrows DEF TruthInv, TruthOfKeys, TruthOfCalls
<1> QED BY <1>9, <1>11, <1>12

LEMMA FinishTruth ==
    ASSUME TruthInv, NEW h \in Handlers, Finish(h)
    PROVE  TruthOfKeys' /\ TruthOfHandlers' /\ SentOnce' /\ TruthOfCalls'
<1> DEFINE e == [owner |-> idem[Key(h)].owner, done |-> TRUE, answer |-> response[h]]
<1>1. /\ phase[h] = "finish" /\ phase' = [phase EXCEPT ![h] = "reply"]
      /\ idem' = [idem EXCEPT ![Key(h)] = e]
      /\ UNCHANGED <<ledger, asked, told, response, dispatched>>
  BY DEF Finish, Moves, callVars
<1>2. phase \in [Handlers -> Phases] /\ idem \in [Keys -> Entries] /\ Key(h) \in Keys
  BY <1>1, Serving DEF TruthInv, IInv, TypeOK
<1>3. /\ idem'[Key(h)] = e /\ e.answer = response[h] /\ e.owner = idem[Key(h)].owner
      /\ \A k \in Keys \ {Key(h)} : idem'[k] = idem[k]
  BY <1>1, <1>2
<1> HIDE DEF e
<1>4. idem[Key(h)].owner = Request(h) /\ ~idem[Key(h)].done
  BY <1>1 DEF TruthInv, IInv, OneRunner, Running
<1>5. \A a, r : Truthful(a, r)' <=> Truthful(a, r)
  BY <1>1, NothingTakenBack DEF Truthful
<1>6. TruthOfKeys'
  <2>1. Truthful(response[h], Request(h))
    BY <1>1 DEF TruthInv, TruthOfHandlers
  <2>2. ASSUME NEW k \in Keys, idem'[k].done PROVE Truthful(idem'[k].answer, idem'[k].owner)
    <3>1. CASE k = Key(h)
      BY <1>3, <1>4, <2>1, <3>1
    <3>2. CASE k # Key(h)
      BY <1>3, <2>2, <3>2 DEF TruthInv, TruthOfKeys
    <3> QED BY <3>1, <3>2
  <2> QED BY <1>5, <2>2 DEF TruthOfKeys
<1>7. \A g \in Handlers : /\ Request(g)' = Request(g)
                          /\ phase'[g] \in {"dispatch", "finish"} => phase[g] = phase'[g]
  BY <1>1, <1>2 DEF Request
<1>8. TruthOfHandlers'
  BY <1>1, <1>5, <1>7, NothingTakenBack DEF TruthInv, TruthOfHandlers
<1>9. TruthOfCalls'
  <2>1. \A k \in Keys : idem'[k].owner = idem[k].owner /\ (idem[k].done => idem'[k] = idem[k])
    BY <1>3, <1>4
  <2> QED BY <1>1, <2>1 DEF TruthInv, TruthOfCalls
<1> QED BY <1>1, <1>6, <1>8, <1>9, NothingTakenBack DEF TruthInv

\* A call is told the truth: a success is an event the ledger made for that very
\* request, handed to the webhooks exactly once; a conflict means another request
\* owns the key; a refusal is what the key's owner got.
THEOREM CallsAreToldTheTruth == Spec => []ToldTheTruth
<1> DEFINE Truth == TruthOfKeys /\ TruthOfHandlers /\ SentOnce /\ TruthOfCalls
<1>1. Init => Truth
  <2> SUFFICES ASSUME Init PROVE Truth
    OBVIOUS
  <2> USE DEF Init
  <2>1. TruthOfKeys
    BY DEF TruthOfKeys, NoEntry
  <2>2. TruthOfHandlers
    BY DEF TruthOfHandlers
  <2>3. SentOnce
    BY DEF SentOnce
  <2>4. TruthOfCalls
    BY PlainResponses DEF TruthOfCalls
  <2> QED BY <2>1, <2>2, <2>3, <2>4
<1>2. IInv /\ Truth /\ [Next]_vars => Truth'
  <2> SUFFICES ASSUME TruthInv, [Next]_vars PROVE Truth'
    BY DEF TruthInv
  <2>1. ASSUME NEW c \in Calls, NEW k \in Keys, NEW r \in Requests, Start(c, k, r) PROVE Truth'
    BY <2>1, StartTruth
  <2>2. ASSUME NEW c \in Calls, LoseRequest(c) \/ LoseResponse(c) PROVE Truth'
    BY <2>2, FailsTruth
  <2>3. ASSUME NEW c \in Calls, Send(c) PROVE Truth'
    <3>1. phase' = [phase EXCEPT ![<<c, attempt[c]>>] = "begin"]
          /\ UNCHANGED <<ledger, asked, told, idem, response, dispatched>>
      BY <2>3 DEF Send
    <3>2. phase \in [Handlers -> Phases]
      BY DEF TruthInv, IInv, TypeOK
    <3>3. \A h \in Handlers : phase'[h] \in {"dispatch", "finish"} =>
            phase[h] = phase'[h] /\ response'[h] = response[h]
      BY <3>1, <3>2
    <3> QED BY <3>1, <3>3, QuietTruth
  <2>4. ASSUME NEW h \in Handlers, BeginConflict(h) \/ BeginReplay(h) \/ Replay(h) PROVE Truth'
    <3>1. PICK to \in {"await", "reply"} :
            /\ phase[h] \in {"begin", "await"} /\ phase' = [phase EXCEPT ![h] = to]
            /\ response' = response \/ \E answer : response' = [response EXCEPT ![h] = answer]
            /\ UNCHANGED <<ledger, asked, told, idem, dispatched>>
      BY <2>4 DEF BeginConflict, BeginReplay, Replay, Moves, Answers, callVars
    <3>2. phase \in [Handlers -> Phases] /\ response \in [Handlers -> Responses]
      BY DEF TruthInv, IInv, TypeOK
    <3>3. \A g \in Handlers : phase'[g] \in {"dispatch", "finish"} =>
            phase[g] = phase'[g] /\ response'[g] = response[g]
      BY <3>1, <3>2
    <3> QED BY <3>1, <3>3, QuietTruth
  <2>5. ASSUME NEW h \in Handlers, Serve(h) PROVE Truth'
    BY <2>4, <2>5, ClaimTruth, RefusalTruth, ExecutionTruth, DispatchTruth, FinishTruth, ReplyTruth
       DEF Serve, Execute
  <2>6. CASE UNCHANGED vars
    <3>1. UNCHANGED <<ledger, asked, told, idem, phase, response, dispatched>>
      BY <2>6 DEF vars
    <3> QED BY <3>1, QuietTruth
  <2> QED BY <2>1, <2>2, <2>3, <2>5, <2>6 DEF Next, Carry
<1>3. IInv /\ Truth => ToldTheTruth
  <2> SUFFICES ASSUME TruthInv, NEW c \in Calls
               PROVE  LET k == asked[c].key
                          r == asked[c].request
                      IN /\ told[c].status = 201 =>
                              /\ IsEventOf(told[c].event, r)
                              /\ Cardinality({i \in DOMAIN dispatched : dispatched[i] = told[c].event}) = 1
                         /\ told[c] = Conflict => idem[k].owner # r
                         /\ told[c].status \in {201, 400, 404} => idem[k].done /\ told[c] = idem[k].answer
    BY DEF TruthInv, ToldTheTruth
  <2> DEFINE k == asked[c].key
             r == asked[c].request
             n == told[c].event
  <2>1. /\ told[c].status \in {201, 400, 404} =>
             /\ k \in Keys /\ idem[k].done /\ idem[k].owner = r /\ told[c] = idem[k].answer
        /\ told[c] = Conflict => k \in Keys /\ idem[k].owner \notin {NoRequest, r}
    BY DEF TruthInv, TruthOfCalls
  <2>2. told[c].status = 201 => IsEventOf(n, r) /\ Sent(n)
    BY <2>1 DEF TruthInv, TruthOfKeys, Truthful
  <2>3. told[c].status = 201 => Cardinality({i \in DOMAIN dispatched : dispatched[i] = n}) = 1
    <3> SUFFICES ASSUME told[c].status = 201
                 PROVE  Cardinality({i \in DOMAIN dispatched : dispatched[i] = n}) = 1
      OBVIOUS
    <3>1. PICK i \in DOMAIN dispatched : dispatched[i] = n
      BY <2>2 DEF Sent
    <3>2. {j \in DOMAIN dispatched : dispatched[j] = n} = {i}
      BY <3>1 DEF TruthInv, SentOnce
    <3> QED BY <3>2, FS_Singleton
  <2> QED BY <2>1, <2>2, <2>3
<1> QED BY <1>1, <1>2, <1>3, Invariance, PTL DEF Spec

\* However calls are retried and overlap, the ledger's books agree ...
THEOREM ServiceBooksAgree == Spec => []BooksAgree
  BY ServiceUsesLedger, BooksAlwaysAgree, PTL

\* ... and, as long as no sum overflows, the refunds recorded of a charge are
\* what it says was refunded and never exceed it.
THEOREM ServiceRefundsNeverExceed ==
    ASSUME SumsFit
    PROVE  Spec => []RefundsBounded
  BY ServiceUsesLedger, RefundsNeverExceed, PTL
=============================================================================
