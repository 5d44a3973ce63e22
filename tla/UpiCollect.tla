------------------------------ MODULE UpiCollect ------------------------------
(* indiastack/upi.py and api.py: UPI collect requests.  A request thread      *)
(* first finds the service, making it if it is the first to ask; a collect    *)
(* request then waits for the payer's approval for at most TTL, which is      *)
(* applied lazily, when somebody looks.  All of it lives in memory.           *)
EXTENDS IndiaStackClock

CONSTANTS
    Collects,   \* the ids uuid4 can give
    Keys,       \* idempotency keys
    NoKey,      \* a request without one
    Services,   \* the CollectService objects that can be made
    NoService,  \* extensions["upi_collect"] is not set
    NoCollect,  \* no collect request
    Warm,       \* whether the service was made before the threads start
    TTL         \* COLLECT_TTL_SECONDS

ASSUME CollectAssumption ==
    /\ NoKey \notin Keys /\ NoCollect \notin Collects /\ NoService \notin Services
    /\ Warm \in BOOLEAN /\ (Warm => Services # {})
    /\ TTL \in Nat

VARIABLES
    slot,   \* current_app.extensions["upi_collect"]
    made,   \* the services made so far
    rec,    \* rec[c]: the record of collect request c and the service it is in
    byKey,  \* byKey[s]: _by_key of service s
    pc,     \* pc[w]: where thread w is
    svc,    \* svc[w]: the service w found
    at,     \* at[w]: the collect request w approves
    asked   \* asked[w]: when w looked at it

vars == <<slot, made, rec, byKey, now, pc, svc, at, asked>>

_TRANSITIONS == [PENDING |-> {"SUCCESS", "FAILED", "EXPIRED"},
                 SUCCESS |-> {}, FAILED |-> {}, EXPIRED |-> {}]
Outcomes == {"SUCCESS", "FAILED"}   \* what the paise digits of the amount decide

NoRecord == [home |-> NoService, key |-> NoKey, outcome |-> "FAILED", status |-> "none", created |-> 0]
Records == [home : Services, key : Keys \cup {NoKey}, outcome : Outcomes,
            status : DOMAIN _TRANSITIONS, created : 0 .. MaxTime]

Init ==
    /\ IF Warm THEN \E s \in Services : slot = s /\ made = {s}
               ELSE slot = NoService /\ made = {}
    /\ rec = [c \in Collects |-> NoRecord]
    /\ byKey = [s \in Services |-> [k \in Keys |-> NoCollect]]
    /\ now = 0
    /\ pc = [w \in Threads |-> "idle"]
    /\ svc = [w \in Threads |-> NoService]
    /\ at = [w \in Threads |-> NoCollect]
    /\ asked = [w \in Threads |-> 0]

Tick ==
    /\ ClockTicks
    /\ UNCHANGED <<slot, made, rec, byKey, pc, svc, at, asked>>

-----------------------------------------------------------------------------
(* api.py: _svc                                                               *)

Goes(w, from, to) == pc[w] = from /\ pc' = [pc EXCEPT ![w] = to]
Uses(w, s) == svc' = [svc EXCEPT ![w] = s]

FindService(w) ==
    /\ slot # NoService
    /\ Goes(w, "idle", "serve")
    /\ Uses(w, slot)
    /\ UNCHANGED <<slot, made, rec, byKey, now, at, asked>>

FindNone(w) ==
    /\ slot = NoService
    /\ Goes(w, "idle", "make")
    /\ UNCHANGED <<slot, made, rec, byKey, now, svc, at, asked>>

MakeService(w) ==
    /\ Goes(w, "make", "serve")
    /\ \E s \in Services \ made : slot' = s /\ made' = made \cup {s} /\ Uses(w, s)
    /\ UNCHANGED <<rec, byKey, now, at, asked>>

-----------------------------------------------------------------------------
(* upi.py: CollectService                                                     *)

Known(w, c) == rec[c].home # NoService /\ rec[c].home = svc[w]

\* mutant: keys are not looked up
KeyForgotten(w, k) == FALSE
KeyUsed(w, k) == k # NoKey /\ byKey[svc[w]][k] # NoCollect

Create(w, k, c, outcome) ==
    /\ Goes(w, "serve", "idle")
    /\ ~KeyUsed(w, k)
    /\ rec[c] = NoRecord
    /\ rec' = [rec EXCEPT ![c] = [home |-> svc[w], key |-> k, outcome |-> outcome,
                                  status |-> "PENDING", created |-> now]]
    /\ byKey' = IF k = NoKey THEN byKey ELSE [byKey EXCEPT ![svc[w]][k] = c]
    /\ UNCHANGED <<slot, made, now, svc, at, asked>>

\* a repeated key is answered with its record; an unknown id with a 404
AnswerOnly(w) ==
    /\ Goes(w, "serve", "idle")
    /\ (\E k \in Keys : KeyUsed(w, k)) \/ (\E c \in Collects : ~Known(w, c))
    /\ UNCHANGED <<slot, made, rec, byKey, now, svc, at, asked>>

\* mutant: never expired
NeverLate(c) == FALSE
Late(c) == now - rec[c].created > TTL

\* get: a pending request is found expired by whoever looks at it too late
LookAt(c) ==
    rec' = [rec EXCEPT ![c].status = IF rec[c].status = "PENDING" /\ Late(c) THEN "EXPIRED" ELSE @]

Get(w, c) ==
    /\ Goes(w, "serve", "idle")
    /\ Known(w, c)
    /\ LookAt(c)
    /\ UNCHANGED <<slot, made, byKey, now, svc, at, asked>>

\* approve looks at the request and releases the lock
ApproveGet(w, c) ==
    /\ Goes(w, "serve", "move")
    /\ Known(w, c)
    /\ LookAt(c)
    /\ at' = [at EXCEPT ![w] = c]
    /\ asked' = [asked EXCEPT ![w] = now]
    /\ UNCHANGED <<slot, made, byKey, now, svc>>

\* mutant: every move is legal
MayAlwaysMove(c, to) == TRUE
MayMove(c, to) == to \in _TRANSITIONS[rec[c].status]

\* _move takes the lock again
ApproveMove(w) ==
    /\ Goes(w, "move", "idle")
    /\ MayMove(at[w], rec[at[w]].outcome)
    /\ rec' = [rec EXCEPT ![at[w]].status = rec[at[w]].outcome]
    /\ at' = [at EXCEPT ![w] = NoCollect]
    /\ UNCHANGED <<slot, made, byKey, now, svc, asked>>

ApproveRefused(w) ==
    /\ Goes(w, "move", "idle")
    /\ ~MayMove(at[w], rec[at[w]].outcome)
    /\ at' = [at EXCEPT ![w] = NoCollect]
    /\ UNCHANGED <<slot, made, rec, byKey, now, svc, asked>>

-----------------------------------------------------------------------------
Step(w) ==
    \/ FindService(w) \/ FindNone(w) \/ MakeService(w) \/ AnswerOnly(w)
    \/ ApproveMove(w) \/ ApproveRefused(w)
    \/ \E c \in Collects :
        \/ Get(w, c) \/ ApproveGet(w, c)
        \/ \E k \in Keys \cup {NoKey}, outcome \in Outcomes : Create(w, k, c, outcome)

Next == Tick \/ \E w \in Threads : Step(w)

Spec == Init /\ [][Next]_vars

-----------------------------------------------------------------------------
(* Properties.                                                                *)

\* Type invariant of the service slot, the records and the threads; the keys
\* lead to the records that were made for them.
TypeOK ==
    /\ slot \in Services \cup {NoService} /\ made \subseteq Services
    /\ rec \in [Collects -> Records \cup {NoRecord}]
    /\ byKey \in [Services -> [Keys -> Collects \cup {NoCollect}]]
    /\ \A s \in Services, k \in Keys : byKey[s][k] # NoCollect =>
         rec[byKey[s][k]].home = s /\ rec[byKey[s][k]].key = k
    /\ now \in 0 .. MaxTime
    /\ pc \in [Threads -> {"idle", "make", "serve", "move"}]
    /\ svc \in [Threads -> Services \cup {NoService}]
    /\ at \in [Threads -> Collects \cup {NoCollect}]
    /\ asked \in [Threads -> 0 .. MaxTime]

Ended(c) == rec[c].status \in {"SUCCESS", "FAILED", "EXPIRED"}

\* A request that succeeded, failed or expired stays so: two approvals that
\* both looked while it was pending do not both move it, and an approval that
\* looked in time does not revive one that another thread found expired.
EndedStays == [][\A c \in Collects : Ended(c) => rec'[c] = rec[c]]_vars

Approved(c) == rec[c].status = "PENDING" /\ rec'[c].status \in Outcomes

\* An approval that reaches the service after the ten minutes never goes
\* through, although only the approvals and lookups themselves expire requests.
LateApprovalsFail ==
    [][\A c \in Collects : Approved(c) =>
         \E w \in Threads : at[w] = c /\ asked[w] - rec[c].created <= TTL]_vars

SharesKey(c, d) == rec[c].key # NoKey /\ rec[c].key = rec[d].key

\* Within one service an idempotency key stands for one collect request,
\* whichever threads use it at once.
OneCollectPerKeyAndService ==
    \A c, d \in Collects : SharesKey(c, d) /\ rec[c].home = rec[d].home => c = d

-----------------------------------------------------------------------------
(* What the documents or comments say of this code and the code does not do. *)

\* "Idempotency-Key replay": a key stands for one collect request.
OneCollectPerKey == \A c, d \in Collects : SharesKey(c, d) => c = d

\* "A 10-minute expiry": nothing succeeds or fails after it.
ApprovedInTime == [][\A c \in Collects : Approved(c) => now <= rec[c].created + TTL]_vars
=============================================================================
