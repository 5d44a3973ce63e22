---------------------------- MODULE ScreeningCases ----------------------------
(* screening/api.py and screening/cases.py: a request to screen a subject     *)
(* looks for its idempotency key, asks the vendors, and files a case when the *)
(* answer is risky; analysts decide cases.  A step is one statement, or the   *)
(* statements from a first write to the commit.  What the vendors answer is a *)
(* parameter here; how it is obtained is in VendorOrchestrator.               *)
EXTENDS Integers, Sequences, FiniteSets

CONSTANTS
    Keys,       \* values of the Idempotency-Key header
    EmptyKey,   \* the header without a value: ""
    NoKey,      \* no header, NULL in the table
    Subjects,   \* who is screened
    Threads,    \* request threads
    MaxCases,   \* bound on the cases filed and being filed
    MaxEvents   \* bound on the entries of an audit trail an analyst adds to

ASSUME CasesAssumption ==
    /\ EmptyKey \notin Keys /\ NoKey \notin Keys /\ EmptyKey # NoKey
    /\ MaxCases \in Nat /\ MaxEvents \in Nat

VARIABLES
    cases,  \* screening_cases by case_id, each with its case_events
    pc,     \* pc[w]: where thread w is
    asked,  \* asked[w]: the request thread w serves
    told    \* the answers to screening requests so far

vars == <<cases, pc, asked, told>>

Headers == Keys \cup {EmptyKey, NoKey}
Results == {"low", "risky", "degraded"}

NeedsCase(result) == result \in {"risky", "degraded"}

_TRANSITIONS == [open |-> {"cleared", "escalated"}, escalated |-> {"cleared", "open"}, cleared |-> {}]
Decisions == {"clear", "escalate", "reopen"}
Target(decision) ==
    CASE decision = "clear" -> "cleared" [] decision = "escalate" -> "escalated" [] OTHER -> "open"

Request(k, s) == [key |-> k, subject |-> s, result |-> "none"]
Decision(id, d, seen) == [id |-> id, decision |-> d, seen |-> seen]
Nothing == Decision(0, "none", "none")

Init ==
    /\ cases = <<>>
    /\ pc = [w \in Threads |-> "idle"]
    /\ asked = [w \in Threads |-> Nothing]
    /\ told = {}

Goes(w, from, to) == pc[w] = from /\ pc' = [pc EXCEPT ![w] = to]
Ends(w, from) == Goes(w, from, "idle") /\ asked' = [asked EXCEPT ![w] = Nothing]
Tell(k, s, result, id) == told' = told \cup {[key |-> k, subject |-> s, result |-> result, id |-> id]}

IsKey(k) == k \in Keys   \* "if idem:" is false for None and for ""
WithKey(k) == {id \in DOMAIN cases : cases[id].key = k}
InFlight == {w \in Threads : pc[w] \in {"vendors", "find", "insert"}}

-----------------------------------------------------------------------------
(* POST /api/screen                                                           *)

\* by_key finds a case: its result is the answer
ScreenReplay(w, k, s) == \E id \in WithKey(k) :
    /\ pc[w] = "idle" /\ IsKey(k)
    /\ Tell(k, s, cases[id].result, id)
    /\ UNCHANGED <<cases, pc, asked>>

ScreenNew(w, k, s) ==
    /\ Goes(w, "idle", "vendors")
    /\ IsKey(k) => WithKey(k) = {}
    /\ Len(cases) + Cardinality(InFlight) < MaxCases
    /\ asked' = [asked EXCEPT ![w] = Request(k, s)]
    /\ UNCHANGED <<cases, told>>

VendorsClean(w) ==
    /\ Ends(w, "vendors")
    /\ \E result \in Results :
        ~NeedsCase(result) /\ Tell(asked[w].key, asked[w].subject, result, 0)
    /\ UNCHANGED cases

VendorsRisky(w) ==
    /\ Goes(w, "vendors", IF IsKey(asked[w].key) THEN "find" ELSE "insert")
    /\ \E result \in Results :
        NeedsCase(result) /\ asked' = [asked EXCEPT ![w].result = result]
    /\ UNCHANGED <<cases, told>>

\* create, with the answer screen makes of it: the result is this request's
\* own, the case the one create returned
AnswerWith(w, id) == Tell(asked[w].key, asked[w].subject, asked[w].result, id)

CreateFinds(w) ==
    /\ Ends(w, "find")
    /\ \E id \in WithKey(asked[w].key) : AnswerWith(w, id)
    /\ UNCHANGED cases

CreateFindsNone(w) ==
    /\ Goes(w, "find", "insert")
    /\ WithKey(asked[w].key) = {}
    /\ UNCHANGED <<cases, asked, told>>

\* mutant: idem_key is not UNIQUE
CollidesNever(k) == FALSE
Collides(k) == k # NoKey /\ WithKey(k) # {}

CreateInserts(w) ==
    /\ Ends(w, "insert")
    /\ ~Collides(asked[w].key)
    /\ cases' = Append(cases, [key |-> asked[w].key, subject |-> asked[w].subject,
                               result |-> asked[w].result, status |-> "open", events |-> <<"created">>])
    /\ AnswerWith(w, Len(cases) + 1)

CreateCollides(w) ==
    /\ Ends(w, "insert")
    /\ Collides(asked[w].key)
    /\ \E id \in WithKey(asked[w].key) : AnswerWith(w, id)
    /\ UNCHANGED cases

-----------------------------------------------------------------------------
(* POST /api/cases/<id>/decision                                              *)

DecideReads(w, id, d) ==
    /\ Goes(w, "idle", "update")
    /\ Target(d) \in _TRANSITIONS[cases[id].status]
    /\ Len(cases[id].events) < MaxEvents
    /\ asked' = [asked EXCEPT ![w] = Decision(id, d, cases[id].status)]
    /\ UNCHANGED <<cases, told>>

\* mutant: the update is not conditional
UnchangedOrNot(id, seen) == TRUE
UnchangedSince(id, seen) == cases[id].status = seen

DecideWrites(w) ==
  LET id == asked[w].id IN
    /\ Ends(w, "update")
    /\ UnchangedSince(id, asked[w].seen)
    /\ cases' = [cases EXCEPT ![id].status = Target(asked[w].decision),
                              ![id].events = Append(@, asked[w].decision)]
    /\ UNCHANGED told

DecideLoses(w) ==
    /\ Ends(w, "update")
    /\ ~UnchangedSince(asked[w].id, asked[w].seen)
    /\ UNCHANGED <<cases, told>>

-----------------------------------------------------------------------------
\* the database stays locked for too long: the transaction is rolled back
LockTimeout(w) ==
    /\ \E from \in {"insert", "update"} : Ends(w, from)
    /\ UNCHANGED <<cases, told>>

\* the process is killed and started again; what is committed stays
Crash ==
    /\ pc' = [w \in Threads |-> "idle"]
    /\ asked' = [w \in Threads |-> Nothing]
    /\ UNCHANGED <<cases, told>>

Step(w) ==
    \/ VendorsClean(w) \/ VendorsRisky(w)
    \/ CreateFinds(w) \/ CreateFindsNone(w) \/ CreateInserts(w) \/ CreateCollides(w)
    \/ DecideWrites(w) \/ DecideLoses(w) \/ LockTimeout(w)
    \/ \E k \in Headers, s \in Subjects : ScreenReplay(w, k, s) \/ ScreenNew(w, k, s)
    \/ \E id \in DOMAIN cases, d \in Decisions : DecideReads(w, id, d)

Next == Crash \/ \E w \in Threads : Step(w)

Spec == Init /\ [][Next]_vars

-----------------------------------------------------------------------------
(* Properties.                                                                *)

CaseRecords == [key : Headers, subject : Subjects, result : Results, status : DOMAIN _TRANSITIONS,
                events : Seq({"created"} \cup Decisions)]
Requests == [key : Headers, subject : Subjects, result : Results \cup {"none"}]
DecisionRequests == [id : Nat, decision : Decisions, seen : DOMAIN _TRANSITIONS]

\* Type invariant of the cases, of what each thread is asked, and of the
\* answers: a thread about to file has a result that needs a case, one about to
\* decide has a case that exists.
TypeOK ==
    /\ cases \in Seq(CaseRecords)
    /\ pc \in [Threads -> {"idle", "vendors", "find", "insert", "update"}]
    /\ asked \in [Threads -> Requests \cup DecisionRequests \cup {Nothing}]
    /\ \A w \in Threads :
        /\ w \in InFlight => asked[w] \in Requests
        /\ pc[w] \in {"find", "insert"} => NeedsCase(asked[w].result)
        /\ pc[w] = "update" => asked[w] \in DecisionRequests /\ asked[w].id \in DOMAIN cases
    /\ told \subseteq [key : Headers, subject : Subjects, result : Results, id : 0 .. Len(cases)]

\* However many requests with one key are screened at once, one case is filed.
OneCasePerKey == \A i, j \in DOMAIN cases :
    cases[i].key \in Keys /\ cases[i].key = cases[j].key => i = j

StatusAfter(event) == IF event = "created" THEN "open" ELSE Target(event)

\* The audit trail tells how a case came to its status: it is a path of legal
\* decisions from its creation, whichever analysts decided at once, and across
\* timeouts and restarts.
AuditIsPath == \A id \in DOMAIN cases : LET e == cases[id].events IN
    /\ e[1] = "created" /\ cases[id].status = StatusAfter(e[Len(e)])
    /\ \A i \in 1 .. Len(e) - 1 : StatusAfter(e[i + 1]) \in _TRANSITIONS[StatusAfter(e[i])]

-----------------------------------------------------------------------------
(* What the documents or comments say of this code and the code does not do. *)

\* "Replays return the stored result": an answer that names a case tells the
\* result stored with it.
AnswersMatchCase == \A a \in told : IsKey(a.key) /\ a.id # 0 => cases[a.id].result = a.result

\* "Without calling vendors again": no key that was answered is screened again.
VendorsOncePerKey == [][\A w \in Threads : pc[w] = "idle" /\ pc'[w] = "vendors" /\ IsKey(asked'[w].key) =>
    ~\E a \in told : a.key = asked'[w].key]_vars

\* "Medium-risk results and degraded checks open a case": whoever sends no key
\* is told of a case about their own subject.
OwnCase == \A a \in told : ~IsKey(a.key) /\ a.id # 0 => cases[a.id].subject = a.subject
=============================================================================
