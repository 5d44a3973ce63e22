--------------------------- MODULE IdempotentCalls ---------------------------
(* What an Idempotency-Key promises: the first request to use a key owns it   *)
(* and is executed once; whoever asks with that key and that request is told  *)
(* the outcome of that execution, and whoever asks with the key for something *)
(* else is told it conflicts.  A caller may also give up without an answer.   *)
EXTENDS Naturals

CONSTANTS Calls, Keys, Requests, Effects, Refusals, NoRequest, NoAnswer, Conflict, GaveUp

VARIABLES
    asked,    \* asked[c]: the key and the request of call c
    owner,    \* owner[k]: the request that owns key k
    outcome,  \* outcome[k]: what executing it gave
    effects,  \* the effects there have been
    told      \* told[c]: what call c was told

vars == <<asked, owner, outcome, effects, told>>

NotAsked == [key |-> NoRequest, request |-> NoRequest]

Init ==
    /\ asked = [c \in Calls |-> NotAsked]
    /\ owner = [k \in Keys |-> NoRequest]
    /\ outcome = [k \in Keys |-> NoAnswer]
    /\ effects = {}
    /\ told = [c \in Calls |-> NoAnswer]

Ask(c, k, r) ==
    /\ asked[c] = NotAsked
    /\ asked' = [asked EXCEPT ![c] = [key |-> k, request |-> r]]
    /\ UNCHANGED <<owner, outcome, effects, told>>

Own(c) ==
    /\ asked[c] # NotAsked
    /\ owner[asked[c].key] = NoRequest
    /\ owner' = [owner EXCEPT ![asked[c].key] = asked[c].request]
    /\ UNCHANGED <<asked, outcome, effects, told>>

Execute(k) ==
    /\ owner[k] # NoRequest
    /\ outcome[k] = NoAnswer
    /\ \/ \E e \in Effects \ effects :
            /\ outcome' = [outcome EXCEPT ![k] = e]
            /\ effects' = effects \cup {e}
       \/ \E f \in Refusals :
            /\ outcome' = [outcome EXCEPT ![k] = f]
            /\ UNCHANGED effects
    /\ UNCHANGED <<asked, owner, told>>

Tell(c) ==
    /\ asked[c] # NotAsked
    /\ told[c] = NoAnswer
    /\ \/ /\ owner[asked[c].key] = asked[c].request
          /\ outcome[asked[c].key] # NoAnswer
          /\ told' = [told EXCEPT ![c] = outcome[asked[c].key]]
       \/ /\ owner[asked[c].key] \notin {NoRequest, asked[c].request}
          /\ told' = [told EXCEPT ![c] = Conflict]
       \/ told' = [told EXCEPT ![c] = GaveUp]
    /\ UNCHANGED <<asked, owner, outcome, effects>>

Next ==
    \/ \E c \in Calls, k \in Keys, r \in Requests : Ask(c, k, r)
    \/ \E c \in Calls : Own(c) \/ Tell(c)
    \/ \E k \in Keys : Execute(k)

Spec == Init /\ [][Next]_vars
=============================================================================
