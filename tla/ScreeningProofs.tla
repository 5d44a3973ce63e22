---------------------------- MODULE ScreeningProofs ----------------------------
(* Theorems about screening/: the cases that are filed and decided, for any   *)
(* number of threads, keys and crashes, and the calls, breakers and worker    *)
(* pool of the orchestrator, for any number of screenings, vendors, workers   *)
(* and tries; and the scores of names, for any letters and lengths.           *)
EXTENDS ScreeningCases, VendorOrchestrator, NameMatcher, SumsProofs

-----------------------------------------------------------------------------
(* Lists.                                                                     *)

LEMMA ListAppend ==
    ASSUME NEW S, NEW l \in Seq(S), NEW e \in S, NEW longer, longer = Append(l, e)
    PROVE  /\ longer \in Seq(S) /\ Len(longer) = Len(l) + 1 /\ Len(l) \in Nat
           /\ DOMAIN longer = 1 .. Len(l) + 1 /\ DOMAIN l = 1 .. Len(l)
           /\ longer[Len(l) + 1] = e /\ \A i \in 1 .. Len(l) : longer[i] = l[i]
  OBVIOUS

LEMMA ListUpdate ==
    ASSUME NEW S, NEW l \in Seq(S), NEW e \in S, NEW i \in DOMAIN l, NEW new, new = [l EXCEPT ![i] = e]
    PROVE  /\ new \in Seq(S) /\ Len(new) = Len(l) /\ DOMAIN new = DOMAIN l
           /\ new[i] = e /\ \A j \in DOMAIN l \ {i} : new[j] = l[j]
  OBVIOUS

LEMMA ListTail ==
    ASSUME NEW S, NEW l \in Seq(S), l # <<>>, NEW rest, rest = Tail(l)
    PROVE  /\ rest \in Seq(S) /\ Len(l) \in Nat \ {0} /\ DOMAIN l = 1 .. Len(l) /\ DOMAIN rest = 1 .. Len(l) - 1
           /\ Head(l) = l[1] /\ Head(l) \in S /\ \A i \in 1 .. Len(l) - 1 : rest[i] = l[i + 1]
  OBVIOUS

-----------------------------------------------------------------------------
(* Screening cases.                                                           *)

\* Whoever is about to decide a case chose a legal decision for the status seen.
ChoicesAreLegal == \A w \in Threads : pc[w] = "update" => Target(asked[w].decision) \in _TRANSITIONS[asked[w].seen]

\* Every case has the entry that created it.
TrailsBegin == \A id \in DOMAIN cases : cases[id].events # <<>>

CasesInv == TypeOK /\ ChoicesAreLegal /\ TrailsBegin /\ OneCasePerKey /\ AuditIsPath

Events == {"created"} \cup Decisions

LEMMA CasesFacts ==
    /\ DOMAIN _TRANSITIONS = {"open", "escalated", "cleared"}
    /\ Nothing \notin DecisionRequests /\ Nothing \notin Requests
    /\ Requests \cap DecisionRequests = {}
    /\ \A d \in Decisions : StatusAfter(d) = Target(d) /\ Target(d) \in DOMAIN _TRANSITIONS
    /\ StatusAfter("created") = "open"
    /\ \A r \in Results : NeedsCase(r) => r \in {"risky", "degraded"}
    /\ ~NeedsCase("none")
  BY CasesAssumption DEF _TRANSITIONS, Nothing, Decision, DecisionRequests, Requests, Decisions, StatusAfter, Target, NeedsCase

LEMMA CasesStart == Init => CasesInv
<1> SUFFICES ASSUME Init PROVE CasesInv
  OBVIOUS
<1>1. cases = <<>> /\ DOMAIN cases = {} /\ cases \in Seq(CaseRecords)
  BY DEF Init
<1>2. TypeOK
  BY <1>1 DEF Init, TypeOK, InFlight
<1>3. ChoicesAreLegal /\ TrailsBegin /\ OneCasePerKey /\ AuditIsPath
  BY <1>1 DEF Init, ChoicesAreLegal, TrailsBegin, OneCasePerKey, AuditIsPath
<1> QED BY <1>2, <1>3 DEF CasesInv

\* What a thread may be asked while it is at p, when there are the cases cs.
AskedAt(p, a, cs) ==
    /\ p \in {"idle", "vendors", "find", "insert", "update"}
    /\ a \in Requests \cup DecisionRequests \cup {Nothing}
    /\ p \in {"vendors", "find", "insert"} => a \in Requests
    /\ p \in {"find", "insert"} => NeedsCase(a.result)
    /\ p = "update" => a \in DecisionRequests /\ a.id \in DOMAIN cs /\ Target(a.decision) \in _TRANSITIONS[a.seen]

\* The threads' part of the invariant, thread by thread.
LEMMA ThreadByThread ==
    /\ TypeOK /\ ChoicesAreLegal => \A w \in Threads : AskedAt(pc[w], asked[w], cases)
    /\ (TypeOK /\ ChoicesAreLegal)' <=>
         /\ cases' \in Seq(CaseRecords)
         /\ pc' \in [Threads -> {"idle", "vendors", "find", "insert", "update"}]
         /\ asked' \in [Threads -> Requests \cup DecisionRequests \cup {Nothing}]
         /\ told' \subseteq [key : Headers, subject : Subjects, result : Results, id : 0 .. Len(cases')]
         /\ \A w \in Threads : AskedAt(pc'[w], asked'[w], cases')
  BY DEF TypeOK, ChoicesAreLegal, AskedAt, InFlight

\* A step that leaves the cases alone and moves one thread.
LEMMA ThreadMoves ==
    ASSUME CasesInv, NEW w \in Threads, UNCHANGED cases,
           \E to, a : /\ pc' = [pc EXCEPT ![w] = to] /\ asked' = [asked EXCEPT ![w] = a] /\ AskedAt(to, a, cases),
           told' \subseteq [key : Headers, subject : Subjects, result : Results, id : 0 .. Len(cases)]
    PROVE  CasesInv'
<1>1. PICK to, a : pc' = [pc EXCEPT ![w] = to] /\ asked' = [asked EXCEPT ![w] = a] /\ AskedAt(to, a, cases)
  OBVIOUS
<1>2. /\ pc \in [Threads -> {"idle", "vendors", "find", "insert", "update"}]
      /\ asked \in [Threads -> Requests \cup DecisionRequests \cup {Nothing}] /\ cases \in Seq(CaseRecords)
      /\ \A x \in Threads : AskedAt(pc[x], asked[x], cases)
  BY ThreadByThread DEF CasesInv, TypeOK
<1>3. to \in {"idle", "vendors", "find", "insert", "update"} /\ a \in Requests \cup DecisionRequests \cup {Nothing}
  BY <1>1 DEF AskedAt
<1>4. \A x \in Threads : AskedAt(pc'[x], asked'[x], cases)
  <2> TAKE x \in Threads
  <2>1. CASE x = w
    BY <1>1, <1>2, <2>1
  <2>2. CASE x # w
    BY <1>1, <1>2, <2>2
  <2> QED BY <2>1, <2>2
<1>5. (TypeOK /\ ChoicesAreLegal)'
  BY <1>1, <1>2, <1>3, <1>4, ThreadByThread
<1>6. TrailsBegin' /\ OneCasePerKey' /\ AuditIsPath'
  BY DEF CasesInv, TrailsBegin, OneCasePerKey, AuditIsPath
<1> QED BY <1>5, <1>6 DEF CasesInv

\* What is said of one more case keeps the answers' type.
LEMMA Tells ==
    ASSUME CasesInv, NEW k \in Headers, NEW s \in Subjects, NEW result \in Results, NEW id,
           id \in 0 .. Len(cases), Tell(k, s, result, id)
    PROVE  told' \subseteq [key : Headers, subject : Subjects, result : Results, id : 0 .. Len(cases)]
  BY DEF CasesInv, TypeOK, Tell

LEMMA WithKeyIds ==
    ASSUME CasesInv, NEW k, NEW id \in WithKey(k)
    PROVE  id \in 1 .. Len(cases) /\ id \in 0 .. Len(cases) /\ cases[id] \in CaseRecords /\ cases[id].key = k
<1>1. cases \in Seq(CaseRecords) /\ id \in DOMAIN cases /\ cases[id].key = k
  BY DEF CasesInv, TypeOK, WithKey
<1> QED BY <1>1

LEMMA ScreenReplayStep ==
    ASSUME CasesInv, NEW w \in Threads, NEW k \in Headers, NEW s \in Subjects, ScreenReplay(w, k, s)
    PROVE  CasesInv'
<1>1. PICK id \in WithKey(k) : Tell(k, s, cases[id].result, id) /\ UNCHANGED <<cases, pc, asked>>
  BY DEF ScreenReplay
<1>2. told' \subseteq [key : Headers, subject : Subjects, result : Results, id : 0 .. Len(cases)]
  BY <1>1, WithKeyIds, Tells DEF CaseRecords
<1> QED BY <1>1, <1>2 DEF CasesInv, TypeOK, ChoicesAreLegal, TrailsBegin, OneCasePerKey, AuditIsPath, InFlight

LEMMA ScreenNewStep ==
    ASSUME CasesInv, NEW w \in Threads, NEW k \in Headers, NEW s \in Subjects, ScreenNew(w, k, s)
    PROVE  CasesInv'
<1>1. AskedAt("vendors", Request(k, s), cases)
  BY DEF AskedAt, Request, Requests
<1> QED BY <1>1, ThreadMoves DEF ScreenNew, Goes, CasesInv, TypeOK

\* A thread that ends is asked nothing any more.
LEMMA EndsStep ==
    ASSUME CasesInv, NEW w \in Threads, NEW from, Ends(w, from), UNCHANGED cases,
           told' \subseteq [key : Headers, subject : Subjects, result : Results, id : 0 .. Len(cases)]
    PROVE  CasesInv'
<1>1. AskedAt("idle", Nothing, cases)
  BY DEF AskedAt
<1> QED BY <1>1, ThreadMoves DEF Ends, Goes

\* What a thread past the vendors was asked.
LEMMA AskedRequest ==
    ASSUME CasesInv, NEW w \in Threads
    PROVE  /\ pc[w] \in {"vendors", "find", "insert"} =>
                asked[w] \in Requests /\ asked[w].key \in Headers /\ asked[w].subject \in Subjects
           /\ pc[w] \in {"find", "insert"} => asked[w].result \in Results
<1>1. AskedAt(pc[w], asked[w], cases)
  BY ThreadByThread DEF CasesInv
<1> QED BY <1>1 DEF AskedAt, Requests, NeedsCase, Results

LEMMA VendorsStep ==
    ASSUME CasesInv, NEW w \in Threads, VendorsClean(w) \/ VendorsRisky(w)
    PROVE  CasesInv'
<1>1. CASE VendorsClean(w)
  <2>1. PICK result \in Results : Tell(asked[w].key, asked[w].subject, result, 0) /\ Ends(w, "vendors") /\ UNCHANGED cases
    BY <1>1 DEF VendorsClean
  <2>2. pc[w] = "vendors" /\ 0 \in 0 .. Len(cases)
    BY <2>1 DEF Ends, Goes, CasesInv, TypeOK
  <2>3. told' \subseteq [key : Headers, subject : Subjects, result : Results, id : 0 .. Len(cases)]
    BY <2>1, <2>2, AskedRequest, Tells
  <2> QED BY <2>1, <2>3, EndsStep
<1>2. CASE VendorsRisky(w)
  <2>1. PICK result \in Results : NeedsCase(result) /\ asked' = [asked EXCEPT ![w].result = result]
    BY <1>2 DEF VendorsRisky
  <2>2. PICK to \in {"find", "insert"} : Goes(w, "vendors", to) /\ UNCHANGED <<cases, told>>
    BY <1>2 DEF VendorsRisky
  <2>3. asked[w] \in Requests
    BY <2>2, AskedRequest DEF Goes
  <2> DEFINE a == [asked[w] EXCEPT !.result = result]
  <2>4. a \in Requests /\ a.result = result /\ asked' = [asked EXCEPT ![w] = a]
    BY <2>1, <2>3 DEF Requests
  <2>5. AskedAt(to, a, cases)
    BY <2>1, <2>2, <2>4 DEF AskedAt
  <2> QED BY <2>2, <2>4, <2>5, ThreadMoves DEF Goes, CasesInv, TypeOK
<1> QED BY <1>1, <1>2

LEMMA CreateAnswersStep ==
    ASSUME CasesInv, NEW w \in Threads, CreateFinds(w) \/ CreateCollides(w)
    PROVE  CasesInv'
<1>1. PICK id \in WithKey(asked[w].key) : Tell(asked[w].key, asked[w].subject, asked[w].result, id)
  BY DEF CreateFinds, CreateCollides, AnswerWith
<1>2. PICK from \in {"find", "insert"} : Ends(w, from) /\ pc[w] = from /\ UNCHANGED cases
  BY DEF CreateFinds, CreateCollides, Ends, Goes
<1>3. told' \subseteq [key : Headers, subject : Subjects, result : Results, id : 0 .. Len(cases)]
  BY <1>1, <1>2, AskedRequest, WithKeyIds, Tells
<1> QED BY <1>2, <1>3, EndsStep

LEMMA CreateFindsNoneStep ==
    ASSUME CasesInv, NEW w \in Threads, CreateFindsNone(w)
    PROVE  CasesInv'
<1>1. pc[w] = "find" /\ pc' = [pc EXCEPT ![w] = "insert"] /\ UNCHANGED <<cases, asked, told>>
  BY DEF CreateFindsNone, Goes
<1>2. asked \in [Threads -> Requests \cup DecisionRequests \cup {Nothing}] /\ AskedAt("insert", asked[w], cases)
  BY <1>1, ThreadByThread DEF CasesInv, TypeOK, AskedAt
<1>3. asked' = [asked EXCEPT ![w] = asked[w]]
  BY <1>1, <1>2
<1> QED BY <1>1, <1>2, <1>3, ThreadMoves DEF CasesInv, TypeOK

\* Nobody else has the key of the case that is filed.
LEMMA CreateInsertsStep ==
    ASSUME CasesInv, NEW w \in Threads, CreateInserts(w)
    PROVE  CasesInv'
<1> DEFINE new == [key |-> asked[w].key, subject |-> asked[w].subject,
                   result |-> asked[w].result, status |-> "open", events |-> <<"created">>]
<1>1. /\ pc[w] = "insert" /\ pc' = [pc EXCEPT ![w] = "idle"] /\ asked' = [asked EXCEPT ![w] = Nothing]
      /\ ~Collides(asked[w].key) /\ cases' = Append(cases, new)
      /\ Tell(asked[w].key, asked[w].subject, asked[w].result, Len(cases) + 1)
  BY DEF CreateInserts, Ends, Goes, AnswerWith
<1>2. asked[w].key \in Headers /\ asked[w].subject \in Subjects /\ asked[w].result \in Results
  BY <1>1, AskedRequest
<1>3. <<"created">> \in Seq({"created"} \cup Decisions) /\ Len(<<"created">>) = 1
  OBVIOUS
<1>4. new \in CaseRecords
  BY <1>2, <1>3, CasesFacts DEF CaseRecords
<1>5. new.key = asked[w].key /\ new.status = "open" /\ new.events = <<"created">>
  OBVIOUS
<1> HIDE DEF new
<1>6. /\ cases \in Seq(CaseRecords) /\ cases' \in Seq(CaseRecords) /\ Len(cases') = Len(cases) + 1 /\ Len(cases) \in Nat
      /\ DOMAIN cases' = 1 .. Len(cases) + 1 /\ DOMAIN cases = 1 .. Len(cases)
      /\ cases'[Len(cases) + 1] = new /\ \A i \in 1 .. Len(cases) : cases'[i] = cases[i]
  BY <1>1, <1>4, ListAppend DEF CasesInv, TypeOK
<1>7. (TypeOK /\ ChoicesAreLegal)'
  <2>1. told' \subseteq [key : Headers, subject : Subjects, result : Results, id : 0 .. Len(cases')]
    BY <1>1, <1>2, <1>6 DEF CasesInv, TypeOK, Tell
  <2>2. /\ pc' \in [Threads -> {"idle", "vendors", "find", "insert", "update"}]
        /\ asked' \in [Threads -> Requests \cup DecisionRequests \cup {Nothing}]
    BY <1>1 DEF CasesInv, TypeOK
  <2>3. \A x \in Threads : AskedAt(pc'[x], asked'[x], cases')
    <3> TAKE x \in Threads
    <3>1. CASE x = w
      BY <1>1, <3>1 DEF CasesInv, TypeOK, AskedAt
    <3>2. CASE x # w
      <4>1. AskedAt(pc[x], asked[x], cases) /\ pc'[x] = pc[x] /\ asked'[x] = asked[x]
        BY <1>1, <3>2, ThreadByThread DEF CasesInv, TypeOK
      <4> QED BY <1>6, <4>1 DEF AskedAt
    <3> QED BY <3>1, <3>2
  <2> QED BY <1>6, <2>1, <2>2, <2>3, ThreadByThread
<1>8. TrailsBegin'
  <2> SUFFICES ASSUME NEW id \in DOMAIN cases' PROVE cases'[id].events # <<>>
    BY DEF TrailsBegin
  <2>1. CASE id = Len(cases) + 1
    <3>1. cases'[id].events = <<"created">>
      BY <1>5, <1>6, <2>1
    <3>2. <<"created">> # <<>>
      OBVIOUS
    <3> QED BY <3>1, <3>2
  <2>2. CASE id \in 1 .. Len(cases)
    BY <1>6, <2>2 DEF CasesInv, TrailsBegin
  <2> QED BY <1>6, <2>1, <2>2
<1>9. OneCasePerKey'
  <2>1. new.key \in Keys => \A i \in 1 .. Len(cases) : cases[i].key # new.key
    BY <1>1, <1>5, <1>6, CasesAssumption DEF Collides, WithKey
  <2> QED BY <1>6, <2>1 DEF CasesInv, OneCasePerKey
<1>10. AuditIsPath'
  <2> SUFFICES ASSUME NEW id \in DOMAIN cases'
               PROVE  LET e == cases'[id].events IN
                      /\ e[1] = "created" /\ cases'[id].status = StatusAfter(e[Len(e)])
                      /\ \A i \in 1 .. Len(e) - 1 : StatusAfter(e[i + 1]) \in _TRANSITIONS[StatusAfter(e[i])]
    BY DEF AuditIsPath
  <2>1. CASE id = Len(cases) + 1
    <3>1. cases'[id].events = <<"created">> /\ cases'[id].status = StatusAfter("created")
      BY <1>5, <1>6, <2>1, CasesFacts
    <3>2. <<"created">>[1] = "created" /\ 1 .. Len(<<"created">>) - 1 = {}
      BY <1>3
    <3> QED BY <1>3, <3>1, <3>2
  <2>2. CASE id \in 1 .. Len(cases)
    BY <1>6, <2>2 DEF CasesInv, AuditIsPath
  <2> QED BY <1>6, <2>1, <2>2
<1> QED BY <1>7, <1>8, <1>9, <1>10 DEF CasesInv

LEMMA DecideReadsStep ==
    ASSUME CasesInv, NEW w \in Threads, NEW id \in DOMAIN cases, NEW d \in Decisions, DecideReads(w, id, d)
    PROVE  CasesInv'
<1>1. cases \in Seq(CaseRecords) /\ cases[id] \in CaseRecords /\ id \in Nat
  BY DEF CasesInv, TypeOK
<1>2. Decision(id, d, cases[id].status) \in DecisionRequests
  BY <1>1 DEF Decision, DecisionRequests, CaseRecords
<1>3. AskedAt("update", Decision(id, d, cases[id].status), cases)
  BY <1>2 DEF AskedAt, Decision, DecideReads
<1> QED BY <1>3, ThreadMoves DEF DecideReads, Goes, CasesInv, TypeOK

\* The status is still the one the decision is legal for.
LEMMA DecideWritesStep ==
    ASSUME CasesInv, NEW w \in Threads, DecideWrites(w)
    PROVE  CasesInv'
<1> DEFINE id == asked[w].id
           d == asked[w].decision
           trail == cases[id].events
           longer == Append(trail, d)
           new == [cases[id] EXCEPT !.status = Target(d), !.events = longer]
<1>1. /\ pc[w] = "update" /\ pc' = [pc EXCEPT ![w] = "idle"] /\ asked' = [asked EXCEPT ![w] = Nothing]
      /\ cases[id].status = asked[w].seen /\ UNCHANGED told
  BY DEF DecideWrites, Ends, Goes, UnchangedSince
<1>2. AskedAt(pc[w], asked[w], cases)
  BY ThreadByThread DEF CasesInv
<1>3. /\ id \in DOMAIN cases /\ d \in Decisions /\ Target(d) \in _TRANSITIONS[cases[id].status]
      /\ cases \in Seq(CaseRecords) /\ cases[id] \in CaseRecords
  BY <1>1, <1>2 DEF AskedAt, DecisionRequests, CasesInv, TypeOK
<1>4. trail \in Seq(Events) /\ trail # <<>> /\ Events = {"created"} \cup Decisions
  BY <1>3 DEF CaseRecords, Events, CasesInv, TrailsBegin
<1>5. /\ longer \in Seq(Events) /\ Len(longer) = Len(trail) + 1 /\ Len(trail) \in Nat \ {0}
      /\ longer[Len(trail) + 1] = d /\ \A i \in 1 .. Len(trail) : longer[i] = trail[i]
  <2> HIDE DEF trail
  <2>1. d \in Events /\ Len(trail) \in Nat /\ (Len(trail) = 0 => trail = <<>>)
    BY <1>3, <1>4
  <2> QED BY <1>4, <2>1
<1>6. cases' = [cases EXCEPT ![id] = new]
  BY <1>3 DEF DecideWrites
<1> HIDE DEF longer
<1>7. new \in CaseRecords /\ new.key = cases[id].key /\ new.status = Target(d) /\ new.events = longer
  BY <1>3, <1>4, <1>5, CasesFacts DEF CaseRecords
<1> HIDE DEF new
<1>8. /\ cases' \in Seq(CaseRecords) /\ Len(cases') = Len(cases) /\ DOMAIN cases' = DOMAIN cases
      /\ cases'[id] = new /\ \A j \in DOMAIN cases \ {id} : cases'[j] = cases[j]
  BY <1>3, <1>6, <1>7, ListUpdate
<1>9. (TypeOK /\ ChoicesAreLegal)'
  <2>1. /\ pc' \in [Threads -> {"idle", "vendors", "find", "insert", "update"}]
        /\ asked' \in [Threads -> Requests \cup DecisionRequests \cup {Nothing}]
    BY <1>1 DEF CasesInv, TypeOK
  <2>2. \A x \in Threads : AskedAt(pc'[x], asked'[x], cases')
    <3> TAKE x \in Threads
    <3>1. CASE x = w
      BY <1>1, <3>1 DEF CasesInv, TypeOK, AskedAt
    <3>2. CASE x # w
      <4>1. AskedAt(pc[x], asked[x], cases) /\ pc'[x] = pc[x] /\ asked'[x] = asked[x]
        BY <1>1, <3>2, ThreadByThread DEF CasesInv, TypeOK
      <4> QED BY <1>8, <4>1 DEF AskedAt
    <3> QED BY <3>1, <3>2
  <2> QED BY <1>1, <1>8, <2>1, <2>2, ThreadByThread DEF CasesInv, TypeOK
<1>10. TrailsBegin'
  <2>1. longer # <<>>
    BY <1>5
  <2> QED BY <1>7, <1>8, <2>1 DEF CasesInv, TrailsBegin
<1>11. OneCasePerKey'
  <2>1. \A j \in DOMAIN cases : cases'[j].key = cases[j].key
    BY <1>7, <1>8
  <2> QED BY <1>8, <2>1 DEF CasesInv, OneCasePerKey
<1>12. AuditIsPath'
  <2> SUFFICES ASSUME NEW j \in DOMAIN cases'
               PROVE  LET e == cases'[j].events IN
                      /\ e[1] = "created" /\ cases'[j].status = StatusAfter(e[Len(e)])
                      /\ \A i \in 1 .. Len(e) - 1 : StatusAfter(e[i + 1]) \in _TRANSITIONS[StatusAfter(e[i])]
    BY DEF AuditIsPath
  <2>1. CASE j # id
    BY <1>8, <2>1 DEF CasesInv, AuditIsPath
  <2>2. CASE j = id
    <3>1. /\ trail[1] = "created" /\ cases[id].status = StatusAfter(trail[Len(trail)])
          /\ \A i \in 1 .. Len(trail) - 1 : StatusAfter(trail[i + 1]) \in _TRANSITIONS[StatusAfter(trail[i])]
      BY <1>3 DEF CasesInv, AuditIsPath
    <3>2. longer[1] = "created"
      BY <1>5, <3>1, SMTT(20)
    <3>3. cases'[j].status = StatusAfter(longer[Len(longer)]) /\ cases'[j].events = longer
      BY <1>3, <1>5, <1>7, <1>8, <2>2, CasesFacts
    <3>4. ASSUME NEW i \in 1 .. Len(longer) - 1
          PROVE  StatusAfter(longer[i + 1]) \in _TRANSITIONS[StatusAfter(longer[i])]
      <4>1. CASE i = Len(trail)
        <5>1. longer[i + 1] = d /\ longer[i] = trail[Len(trail)]
          BY <1>5, <4>1
        <5> QED BY <1>3, <3>1, <5>1, CasesFacts
      <4>2. CASE i \in 1 .. Len(trail) - 1
        <5>1. longer[i + 1] = trail[i + 1] /\ longer[i] = trail[i]
          <6> HIDE DEF trail
          <6>1. i \in 1 .. Len(trail) /\ i + 1 \in 1 .. Len(trail)
            BY <1>5, <4>2
          <6> QED BY <1>5, <6>1
        <5> QED BY <3>1, <4>2, <5>1
      <4> QED BY <1>5, <4>1, <4>2
    <3> QED BY <3>2, <3>3, <3>4
  <2> QED BY <2>1, <2>2
<1> QED BY <1>9, <1>10, <1>11, <1>12 DEF CasesInv

LEMMA CasesStep ==
    ASSUME CasesInv, [Next]_vars
    PROVE  CasesInv'
<1>1. CASE UNCHANGED vars
  BY <1>1 DEF vars, CasesInv, TypeOK, ChoicesAreLegal, TrailsBegin, OneCasePerKey, AuditIsPath, InFlight
<1>2. CASE Crash
  BY <1>2 DEF Crash, CasesInv, TypeOK, ChoicesAreLegal, TrailsBegin, OneCasePerKey, AuditIsPath, InFlight
<1>3. ASSUME NEW w \in Threads, Step(w) PROVE CasesInv'
  <2>1. CASE VendorsClean(w) \/ VendorsRisky(w)
    BY <2>1, VendorsStep
  <2>2. CASE CreateFinds(w) \/ CreateCollides(w)
    BY <2>2, CreateAnswersStep
  <2>3. CASE CreateFindsNone(w)
    BY <2>3, CreateFindsNoneStep
  <2>4. CASE CreateInserts(w)
    BY <2>4, CreateInsertsStep
  <2>5. CASE DecideWrites(w)
    BY <2>5, DecideWritesStep
  <2>6. CASE DecideLoses(w) \/ LockTimeout(w)
    BY <2>6, EndsStep DEF DecideLoses, LockTimeout, CasesInv, TypeOK
  <2>7. ASSUME NEW k \in Headers, NEW s \in Subjects, ScreenReplay(w, k, s) \/ ScreenNew(w, k, s) PROVE CasesInv'
    BY <2>7, ScreenReplayStep, ScreenNewStep
  <2>8. ASSUME NEW id \in DOMAIN cases, NEW d \in Decisions, DecideReads(w, id, d) PROVE CasesInv'
    BY <2>8, DecideReadsStep
  <2> QED BY <1>3, <2>1, <2>2, <2>3, <2>4, <2>5, <2>6, <2>7, <2>8 DEF Step
<1> QED BY <1>1, <1>2, <1>3 DEF Next

LEMMA CasesInvariance == Spec => []CasesInv
<1>1. CasesInv /\ [Next]_vars => CasesInv'
  BY CasesStep
<1> QED BY CasesStart, <1>1, PTL DEF Spec

\* Cases, audit trails and answers keep their types, a thread about to decide
\* has a case that exists, and one about to file has a result that needs a case.
THEOREM CasesTypeCorrect == Spec => []TypeOK
<1>1. CasesInv => TypeOK
  BY DEF CasesInv
<1> QED BY CasesInvariance, <1>1, PTL

\* One case per idempotency key, for any number of requests screened at once.
THEOREM CasesAreFiledOnce == Spec => []OneCasePerKey
<1>1. CasesInv => OneCasePerKey
  BY DEF CasesInv
<1> QED BY CasesInvariance, <1>1, PTL

\* The audit trail of every case is a path of legal decisions to its status,
\* for any number of analysts who decide at once.
THEOREM TrailsAreLegal == Spec => []AuditIsPath
<1>1. CasesInv => AuditIsPath
  BY DEF CasesInv
<1> QED BY CasesInvariance, <1>1, PTL

-----------------------------------------------------------------------------
(* The orchestrator: calls, breakers and the pool.                            *)

Calls == [pc : {"start", "wait", "backoff", "done"}, attempt : 0 .. MaxAttempts,
          got : Answers \cup {"none"}, status : Statuses \cup {"none"}]
Breakers == [failures : Nat, opened : {"no", "cooling", "cooled"}]

Mine(s, v) == [screen |-> s, vendor |-> v, attempt |-> call[s][v].attempt]
Queued(t) == \E i \in DOMAIN queue : queue[i] = t
InPool(t) == t \in running \/ Queued(t)

\* A call that has not begun made no try, and one that sleeps has one left.
TriesLeft == \A s \in Screens, v \in Vendors :
    /\ call[s][v].pc = "start" => call[s][v].attempt = 0
    /\ call[s][v].pc = "backoff" => call[s][v].attempt < MaxAttempts

\* No task is in the pool twice.
PoolHoldsOnce ==
    /\ IsFiniteSet(running)
    /\ \A i, j \in DOMAIN queue : queue[i] = queue[j] => i = j
    /\ \A i \in DOMAIN queue : queue[i] \notin running

\* The pool has no try that its call has not come to.
NoTryAhead ==
    /\ \A t \in running : t.attempt <= call[t.screen][t.vendor].attempt
    /\ \A i \in DOMAIN queue : queue[i].attempt <= call[queue[i].screen][queue[i].vendor].attempt

VendorInv == VendorTypeOK /\ OpenMeansFailing /\ TriesLeft /\ PoolHoldsOnce /\ NoTryAhead /\ TryIsUnderWay

\* The invariant, part by part: the breakers, the calls, and the pool.
BreakersInv == breaker \in [Vendors -> Breakers] /\ OpenMeansFailing
CallsInv == call \in [Screens -> [Vendors -> Calls]] /\ TriesLeft
PoolInv ==
    /\ queue \in Seq(Tasks) /\ running \subseteq Tasks /\ Cardinality(running) <= Workers
    /\ PoolHoldsOnce /\ NoTryAhead
    /\ \A s \in Screens, v \in Vendors :
         call[s][v].pc = "wait" => (call[s][v].got = "none" <=> InPool(Mine(s, v)))

LEMMA VendorParts ==
    /\ VendorInv <=> BreakersInv /\ CallsInv /\ PoolInv
    /\ VendorInv' <=> BreakersInv' /\ CallsInv' /\ PoolInv'
  BY DEF VendorInv, VendorTypeOK, BreakersInv, Breakers, CallsInv, Calls, PoolInv, TryIsUnderWay, InPool, Queued, Mine

LEMMA VendorsStart == VendorInit => VendorInv
<1> SUFFICES ASSUME VendorInit PROVE VendorInv
  OBVIOUS
<1>1. queue = <<>> /\ DOMAIN queue = {} /\ queue \in Seq(Tasks) /\ running = {}
  BY DEF VendorInit
<1>2. BreakersInv
  BY OrchestratorAssumption DEF VendorInit, BreakersInv, Breakers, OpenMeansFailing, Closed
<1>3. CallsInv
  BY OrchestratorAssumption DEF VendorInit, CallsInv, Calls, TriesLeft, FirstCall, Answers, Statuses
<1>4. PoolInv
  <2>1. IsFiniteSet(running) /\ Cardinality(running) = 0
    BY <1>1, FS_EmptySet
  <2>2. \A s \in Screens, v \in Vendors : call[s][v].pc = "start"
    BY DEF VendorInit, FirstCall
  <2> QED BY <1>1, <2>1, <2>2, OrchestratorAssumption DEF PoolInv, PoolHoldsOnce, NoTryAhead
<1> QED BY <1>2, <1>3, <1>4, VendorParts

-----------------------------------------------------------------------------
(* What each kind of write does to the parts.                                 *)

\* A success closes the breaker, a failure counts and may open it.
LEMMA RecordKeeps ==
    ASSUME BreakersInv, NEW v \in Vendors, NEW ok \in BOOLEAN, Record(v, ok)
    PROVE  BreakersInv'
<1>1. Closed \in Breakers /\ Closed.opened = "no" /\ Closed.failures < Threshold
  BY OrchestratorAssumption DEF Closed, Breakers
<1>2. breaker[v] \in Breakers /\ (breaker[v].opened # "no" <=> breaker[v].failures >= Threshold)
  BY DEF BreakersInv, OpenMeansFailing
<1>3. /\ Recorded(v, ok) \in Breakers
      /\ Recorded(v, ok).opened # "no" <=> Recorded(v, ok).failures >= Threshold
  <2>1. CASE ok
    BY <1>1, <2>1, OrchestratorAssumption DEF Recorded, Breakers
  <2>2. CASE ~ok
    BY <1>2, <2>2, OrchestratorAssumption DEF Recorded, Breakers
  <2> QED BY <2>1, <2>2
<1>4. breaker' = [breaker EXCEPT ![v] = Recorded(v, ok)]
  BY DEF Record
<1> QED BY <1>3, <1>4 DEF BreakersInv, OpenMeansFailing

LEMMA CoolDownKeeps ==
    ASSUME BreakersInv, NEW v \in Vendors, CoolDown(v)
    PROVE  BreakersInv'
<1>1. breaker[v] \in Breakers /\ (breaker[v].opened # "no" <=> breaker[v].failures >= Threshold)
  BY DEF BreakersInv, OpenMeansFailing
<1> DEFINE new == [breaker[v] EXCEPT !.opened = "cooled"]
<1>2. new \in Breakers /\ new.opened = "cooled" /\ new.failures = breaker[v].failures
  BY <1>1 DEF Breakers
<1>3. breaker' = [breaker EXCEPT ![v] = new] /\ breaker[v].opened = "cooling"
  BY DEF CoolDown
<1> QED BY <1>1, <1>2, <1>3 DEF BreakersInv, OpenMeansFailing

\* One call changes.
CallBecomes(s, v, c) == call' = [call EXCEPT ![s][v] = c]

LEMMA OneCallChanges ==
    ASSUME CallsInv, NEW s \in Screens, NEW v \in Vendors, NEW c \in Calls, CallBecomes(s, v, c)
    PROVE  /\ call' \in [Screens -> [Vendors -> Calls]] /\ call'[s][v] = c
           /\ \A x \in Screens, y \in Vendors : ~(x = s /\ y = v) => call'[x][y] = call[x][y]
  BY DEF CallsInv, CallBecomes

\* A call that stops waiting, or gets an answer to something else than its own
\* try, leaves the pool as it is.
LEMMA CallLeavesPool ==
    ASSUME CallsInv, PoolInv, NEW s \in Screens, NEW v \in Vendors, NEW c \in Calls, CallBecomes(s, v, c),
           c.attempt = call[s][v].attempt, c.pc # "wait", c.pc # "start",
           c.pc = "backoff" => c.attempt < MaxAttempts, UNCHANGED <<queue, running>>
    PROVE  CallsInv' /\ PoolInv'
<1>1. /\ call' \in [Screens -> [Vendors -> Calls]] /\ call'[s][v] = c
      /\ \A x \in Screens, y \in Vendors : ~(x = s /\ y = v) => call'[x][y] = call[x][y]
  BY OneCallChanges
<1>2. \A x \in Screens, y \in Vendors : call'[x][y].attempt = call[x][y].attempt
  BY <1>1
<1>3. CallsInv'
  BY <1>1 DEF CallsInv, TriesLeft
<1>4. NoTryAhead'
  <2>1. \A t \in Tasks : t.screen \in Screens /\ t.vendor \in Vendors
    BY DEF Tasks
  <2>2. \A i \in DOMAIN queue : queue[i] \in Tasks
    BY DEF PoolInv
  <2> QED BY <1>2, <2>1, <2>2 DEF PoolInv, NoTryAhead
<1>5. ASSUME NEW x \in Screens, NEW y \in Vendors, call'[x][y].pc = "wait"
      PROVE  call'[x][y].got = "none" <=> InPool(Mine(x, y))'
  <2>1. call'[x][y] = call[x][y]
    BY <1>1, <1>5
  <2>2. InPool(Mine(x, y))' <=> InPool(Mine(x, y))
    BY <2>1 DEF InPool, Queued, Mine
  <2> QED BY <1>5, <2>1, <2>2 DEF PoolInv
<1> QED BY <1>3, <1>4, <1>5 DEF PoolInv, PoolHoldsOnce

LEMMA NextTry ==
    ASSUME NEW b \in Calls, b.attempt \in 0 .. MaxAttempts - 1, NEW c,
           c = [b EXCEPT !.pc = "wait", !.attempt = b.attempt + 1, !.got = "none"]
    PROVE  c \in Calls /\ c.pc = "wait" /\ c.attempt = b.attempt + 1 /\ c.got = "none"
<1>1. b.attempt + 1 \in 0 .. MaxAttempts
  BY OrchestratorAssumption
<1> QED BY <1>1 DEF Calls

\* A try is submitted: it is one more than any try of its call in the pool.
LEMMA SubmitKeeps ==
    ASSUME CallsInv, PoolInv, NEW s \in Screens, NEW v \in Vendors,
           call[s][v].pc \in {"start", "backoff"}, Submit(s, v), UNCHANGED running
    PROVE  CallsInv' /\ PoolInv'
<1> DEFINE c == [call[s][v] EXCEPT !.pc = "wait", !.attempt = @ + 1, !.got = "none"]
           t == Task(s, v)
<1>1. call[s][v] \in Calls /\ call[s][v].attempt \in 0 .. MaxAttempts - 1
  BY OrchestratorAssumption DEF CallsInv, TriesLeft, Calls
<1>2. c \in Calls /\ c.pc = "wait" /\ c.attempt = call[s][v].attempt + 1 /\ c.got = "none"
  BY <1>1, NextTry
<1>3. CallBecomes(s, v, c) /\ queue' = Append(queue, t)
  <2>1. call' = [call EXCEPT ![s][v] = c]
    BY DEF Submit
  <2> QED BY <2>1 DEF Submit, CallBecomes
<1>4. t \in Tasks /\ t.screen = s /\ t.vendor = v /\ t.attempt = call[s][v].attempt + 1
  BY <1>1, OrchestratorAssumption DEF Task, Tasks
<1> HIDE DEF c, t
<1>5. /\ call' \in [Screens -> [Vendors -> Calls]] /\ call'[s][v] = c
      /\ \A x \in Screens, y \in Vendors : ~(x = s /\ y = v) => call'[x][y] = call[x][y]
  BY <1>2, <1>3, OneCallChanges
<1>6. /\ queue \in Seq(Tasks) /\ queue' \in Seq(Tasks) /\ Len(queue) \in Nat
      /\ DOMAIN queue' = 1 .. Len(queue) + 1 /\ DOMAIN queue = 1 .. Len(queue)
      /\ queue'[Len(queue) + 1] = t /\ \A i \in 1 .. Len(queue) : queue'[i] = queue[i] /\ queue[i] \in Tasks
  BY <1>3, <1>4, ListAppend DEF PoolInv
<1>7. CallsInv'
  BY <1>2, <1>5 DEF CallsInv, TriesLeft
<1>8. \A x \in Screens, y \in Vendors :
        /\ call[x][y].attempt \in Nat /\ call'[x][y].attempt \in Nat
        /\ call[x][y].attempt <= call'[x][y].attempt
  <2>1. \A b \in Calls : b.attempt \in Nat
    BY OrchestratorAssumption DEF Calls
  <2>2. \A x \in Screens, y \in Vendors : call[x][y] \in Calls /\ call'[x][y] \in Calls
    BY <1>5 DEF CallsInv
  <2>3. \A x \in Screens, y \in Vendors : call'[x][y] = call[x][y] \/ call'[x][y].attempt = call[x][y].attempt + 1
    BY <1>2, <1>5
  <2> QED BY <2>1, <2>2, <2>3
<1>9. \A u \in Tasks : u.screen \in Screens /\ u.vendor \in Vendors /\ u.attempt \in Nat
  BY DEF Tasks
<1>10. t \notin running /\ ~Queued(t)
  BY <1>1, <1>4, <1>6 DEF PoolInv, NoTryAhead, Queued, Calls
<1>11. NoTryAhead'
  <2>1. \A u \in running : u \in Tasks
    BY DEF PoolInv
  <2>2. \A u \in running : u.attempt <= call'[u.screen][u.vendor].attempt
    BY <1>8, <1>9, <2>1 DEF PoolInv, NoTryAhead
  <2>3. \A i \in 1 .. Len(queue) : queue[i].attempt <= call'[queue[i].screen][queue[i].vendor].attempt
    <3> TAKE i \in 1 .. Len(queue)
    <3>1. queue[i] \in Tasks /\ queue[i].attempt <= call[queue[i].screen][queue[i].vendor].attempt
      BY <1>6 DEF PoolInv, NoTryAhead
    <3> QED BY <1>8, <1>9, <3>1
  <2>4. t.attempt <= call'[t.screen][t.vendor].attempt
    BY <1>2, <1>4, <1>5, <1>8
  <2> QED BY <1>6, <2>2, <2>3, <2>4 DEF NoTryAhead
<1>12. PoolHoldsOnce'
  BY <1>6, <1>10 DEF PoolInv, PoolHoldsOnce, Queued
<1>13. ASSUME NEW x \in Screens, NEW y \in Vendors, call'[x][y].pc = "wait"
       PROVE  call'[x][y].got = "none" <=> InPool(Mine(x, y))'
  <2>1. \A u : Queued(u)' <=> Queued(u) \/ u = t
    BY <1>6 DEF Queued
  <2>2. CASE x = s /\ y = v
    <3>1. Mine(x, y)' = t
      BY <1>2, <1>4, <1>5, <2>2 DEF Mine, Task, t
    <3> QED BY <1>2, <1>5, <2>1, <2>2, <3>1 DEF InPool, Queued
  <2>3. CASE ~(x = s /\ y = v)
    <3>1. call'[x][y] = call[x][y] /\ Mine(x, y)' = Mine(x, y)
      BY <1>5, <2>3 DEF Mine
    <3>2. Mine(x, y) # t
      BY <1>4, <2>3 DEF Mine
    <3>3. Queued(Mine(x, y))' <=> Queued(Mine(x, y))
      BY <2>1, <3>1, <3>2 DEF Queued
    <3>4. InPool(Mine(x, y))' <=> InPool(Mine(x, y))
      BY <3>1, <3>3 DEF InPool
    <3> QED BY <1>13, <3>1, <3>4 DEF PoolInv
  <2> QED BY <2>2, <2>3
<1> QED BY <1>6, <1>7, <1>11, <1>12, <1>13 DEF PoolInv

\* A worker takes the first task: it stays in the pool.
LEMMA TakeKeeps ==
    ASSUME CallsInv, PoolInv, Take
    PROVE  CallsInv' /\ PoolInv'
<1>1. /\ queue \in Seq(Tasks) /\ queue # <<>> /\ Cardinality(running) < Workers
      /\ running' = running \cup {Head(queue)} /\ queue' = Tail(queue) /\ UNCHANGED call
  BY DEF PoolInv, Take
<1>2. /\ queue' \in Seq(Tasks) /\ Len(queue) \in Nat \ {0} /\ DOMAIN queue = 1 .. Len(queue)
      /\ DOMAIN queue' = 1 .. Len(queue) - 1 /\ Head(queue) = queue[1] /\ Head(queue) \in Tasks
      /\ \A i \in 1 .. Len(queue) - 1 : queue'[i] = queue[i + 1]
  BY <1>1, ListTail
<1>3. \A t : InPool(t)' <=> InPool(t)
  <2> TAKE t
  <2>1. ASSUME Queued(t) PROVE InPool(t)'
    <3>1. PICK i \in 1 .. Len(queue) : queue[i] = t
      BY <1>2, <2>1 DEF Queued
    <3>2. CASE i = 1
      BY <1>1, <1>2, <3>1, <3>2 DEF InPool
    <3>3. CASE i # 1
      <4>1. i - 1 \in DOMAIN queue' /\ queue'[i - 1] = t
        BY <1>2, <3>1, <3>3
      <4> QED BY <4>1 DEF InPool, Queued
    <3> QED BY <3>2, <3>3
  <2>2. ASSUME Queued(t)' PROVE Queued(t)
    <3>1. PICK i \in 1 .. Len(queue) - 1 : queue'[i] = t
      BY <1>2, <2>2 DEF Queued
    <3>2. i + 1 \in DOMAIN queue /\ queue[i + 1] = t
      BY <1>2, <3>1
    <3> QED BY <3>2 DEF Queued
  <2>3. t \in running' <=> t \in running \/ t = queue[1]
    BY <1>1, <1>2
  <2>4. Queued(queue[1])
    BY <1>2 DEF Queued
  <2> QED BY <2>1, <2>2, <2>3, <2>4 DEF InPool
<1>4. running' \subseteq Tasks /\ Cardinality(running') <= Workers /\ IsFiniteSet(running')
  <2>1. IsFiniteSet(running) /\ running \subseteq Tasks /\ Cardinality(running) \in Nat
    BY FS_CardinalityType DEF PoolInv, PoolHoldsOnce
  <2>2. IsFiniteSet(running') /\ Cardinality(running') <= Cardinality(running) + 1
    <3>1. /\ IsFiniteSet(running \cup {Head(queue)})
          /\ Cardinality(running \cup {Head(queue)}) =
               IF Head(queue) \in running THEN Cardinality(running) ELSE Cardinality(running) + 1
      BY <2>1, FS_AddElement, Zenon
    <3> QED BY <1>1, <2>1, <3>1
  <2>3. Cardinality(running') \in Nat
    BY <2>2, FS_CardinalityType
  <2> QED BY <1>1, <1>2, <2>1, <2>2, <2>3, OrchestratorAssumption
<1>5. PoolHoldsOnce'
  <2>1. ASSUME NEW i \in DOMAIN queue', NEW j \in DOMAIN queue', queue'[i] = queue'[j] PROVE i = j
    <3>1. i + 1 \in DOMAIN queue /\ j + 1 \in DOMAIN queue /\ queue[i + 1] = queue[j + 1]
      BY <1>2, <2>1
    <3> QED BY <1>2, <3>1 DEF PoolInv, PoolHoldsOnce
  <2>2. ASSUME NEW i \in DOMAIN queue' PROVE queue'[i] \notin running'
    <3>1. i + 1 \in DOMAIN queue /\ 1 \in DOMAIN queue /\ i + 1 # 1 /\ queue'[i] = queue[i + 1]
      BY <1>2
    <3>2. queue[i + 1] # queue[1] /\ queue[i + 1] \notin running
      BY <3>1 DEF PoolInv, PoolHoldsOnce
    <3> QED BY <1>1, <1>2, <3>1, <3>2
  <2> QED BY <1>4, <2>1, <2>2 DEF PoolHoldsOnce
<1>6. NoTryAhead'
  <2>1. \A t : InPool(t) => t.attempt <= call[t.screen][t.vendor].attempt
    BY DEF PoolInv, NoTryAhead, InPool, Queued
  <2> QED BY <1>1, <1>3, <2>1 DEF NoTryAhead, InPool, Queued
<1>7. CallsInv'
  BY <1>1 DEF CallsInv, TriesLeft
<1>8. ASSUME NEW s \in Screens, NEW v \in Vendors, call'[s][v].pc = "wait"
      PROVE  call'[s][v].got = "none" <=> InPool(Mine(s, v))'
  <2>1. call[s][v].got = "none" <=> InPool(Mine(s, v))
    BY <1>1, <1>8 DEF PoolInv
  <2>2. InPool(Mine(s, v))' <=> (Mine(s, v) \in running' \/ \E i \in DOMAIN queue' : queue'[i] = Mine(s, v))
    BY <1>1 DEF InPool, Queued, Mine
  <2>3. InPool(Mine(s, v)) <=> (Mine(s, v) \in running' \/ \E i \in DOMAIN queue' : queue'[i] = Mine(s, v))
    BY <1>3 DEF InPool, Queued
  <2> QED BY <1>1, <2>1, <2>2, <2>3
<1> QED BY <1>2, <1>4, <1>5, <1>6, <1>7, <1>8 DEF PoolInv

\* A task ends: it leaves the pool, and its call has the answer if it waits for
\* that very try.
LEMMA FinishKeeps ==
    ASSUME CallsInv, PoolInv, NEW t \in running, NEW answer \in Answers, Finish(t, answer)
    PROVE  CallsInv' /\ PoolInv'
<1> DEFINE s == t.screen
           v == t.vendor
           c == [call[s][v] EXCEPT !.got = answer]
<1>1. /\ t \in Tasks /\ s \in Screens /\ v \in Vendors /\ call[s][v] \in Calls
      /\ running' = running \ {t} /\ UNCHANGED queue /\ answer # "none"
  BY DEF PoolInv, CallsInv, Tasks, Finish, Answers
<1>2. \A i \in DOMAIN queue : queue[i] # t /\ queue[i] \in Tasks
  BY DEF PoolInv, PoolHoldsOnce
<1>3. running' \subseteq Tasks /\ Cardinality(running') <= Workers /\ IsFiniteSet(running')
  <2>1. IsFiniteSet(running) /\ running \subseteq Tasks /\ Cardinality(running) <= Workers
    BY DEF PoolInv, PoolHoldsOnce
  <2>2. IsFiniteSet(running') /\ Cardinality(running') <= Cardinality(running)
    BY <1>1, <2>1, FS_Subset
  <2>3. Cardinality(running) \in Nat /\ Cardinality(running') \in Nat
    BY <2>1, <2>2, FS_CardinalityType
  <2> QED BY <1>1, <2>1, <2>2, <2>3, OrchestratorAssumption
<1>4. PoolHoldsOnce'
  BY <1>1, <1>3 DEF PoolInv, PoolHoldsOnce
<1>5. \A u : (u \in running' \/ \E i \in DOMAIN queue' : queue'[i] = u) <=> InPool(u) /\ u # t
  BY <1>1, <1>2 DEF InPool, Queued
<1>6. ASSUME NEW x \in Screens, NEW y \in Vendors, Mine(x, y) = t
      PROVE  x = s /\ y = v /\ t.attempt = call[s][v].attempt
  BY <1>6 DEF Mine
<1>7. CASE Awaited(t)
  <2>1. c \in Calls /\ c.got = answer /\ c.pc = "wait" /\ c.attempt = t.attempt /\ call[s][v].attempt = t.attempt
    BY <1>1, <1>7 DEF Awaited, Calls
  <2>2. CallBecomes(s, v, c)
    BY <1>7 DEF Finish, CallBecomes
  <2> HIDE DEF c
  <2>3. /\ call' \in [Screens -> [Vendors -> Calls]] /\ call'[s][v] = c
        /\ \A x \in Screens, y \in Vendors : ~(x = s /\ y = v) => call'[x][y] = call[x][y]
    BY <1>1, <2>1, <2>2, OneCallChanges
  <2>4. \A x \in Screens, y \in Vendors : call'[x][y].attempt = call[x][y].attempt
    BY <2>1, <2>3
  <2>5. CallsInv'
    BY <2>1, <2>3 DEF CallsInv, TriesLeft
  <2>6. NoTryAhead'
    <3>1. \A u \in Tasks : u.screen \in Screens /\ u.vendor \in Vendors
      BY DEF Tasks
    <3> QED BY <1>1, <1>2, <1>3, <2>4, <3>1 DEF PoolInv, NoTryAhead
  <2>7. ASSUME NEW x \in Screens, NEW y \in Vendors, call'[x][y].pc = "wait"
        PROVE  call'[x][y].got = "none" <=> InPool(Mine(x, y))'
    <3>1. Mine(x, y)' = Mine(x, y)
      BY <2>4 DEF Mine
    <3>2. InPool(Mine(x, y))' <=> InPool(Mine(x, y)) /\ Mine(x, y) # t
      BY <1>5, <3>1 DEF InPool, Queued
    <3>3. CASE x = s /\ y = v
      <4>1. Mine(x, y) = t
        BY <1>1, <2>1, <3>3 DEF Mine, Tasks
      <4> QED BY <1>1, <2>1, <2>3, <3>2, <3>3, <4>1
    <3>4. CASE ~(x = s /\ y = v)
      BY <1>6, <2>3, <2>7, <3>2, <3>4 DEF PoolInv
    <3> QED BY <3>3, <3>4
  <2> QED BY <1>1, <1>3, <1>4, <2>5, <2>6, <2>7 DEF PoolInv
<1>8. CASE ~Awaited(t)
  <2>1. UNCHANGED call
    BY <1>8 DEF Finish
  <2>2. CallsInv'
    BY <2>1 DEF CallsInv, TriesLeft
  <2>3. NoTryAhead'
    BY <1>1, <2>1 DEF PoolInv, NoTryAhead
  <2>4. ASSUME NEW x \in Screens, NEW y \in Vendors, call'[x][y].pc = "wait"
        PROVE  call'[x][y].got = "none" <=> InPool(Mine(x, y))'
    <3>1. Mine(x, y)' = Mine(x, y) /\ call'[x][y] = call[x][y]
      BY <2>1 DEF Mine
    <3>2. InPool(Mine(x, y))' <=> InPool(Mine(x, y)) /\ Mine(x, y) # t
      BY <1>5, <3>1 DEF InPool, Queued
    <3>3. Mine(x, y) # t
      BY <1>6, <1>8, <2>4, <3>1 DEF Awaited
    <3> QED BY <2>4, <3>1, <3>2, <3>3 DEF PoolInv
  <2> QED BY <1>1, <1>3, <1>4, <2>2, <2>3, <2>4 DEF PoolInv
<1> QED BY <1>7, <1>8

-----------------------------------------------------------------------------
(* The steps of a call.                                                       *)

\* A call that has a status is done.
LEMMA CallEndsKeeps ==
    ASSUME CallsInv, PoolInv, NEW s \in Screens, NEW v \in Vendors, NEW status \in Statuses, CallEnds(s, v, status),
           UNCHANGED <<queue, running>>
    PROVE  CallsInv' /\ PoolInv'
<1> DEFINE c == [call[s][v] EXCEPT !.pc = "done", !.status = status]
<1>1. call[s][v] \in Calls
  BY DEF CallsInv
<1>2. c \in Calls /\ c.pc = "done" /\ c.attempt = call[s][v].attempt
  BY <1>1 DEF Calls
<1>3. CallBecomes(s, v, c)
  BY <1>1 DEF CallEnds, CallBecomes, CallsInv, Calls
<1> HIDE DEF c
<1> QED BY <1>2, <1>3, CallLeavesPool

LEMMA FailedTryKeeps ==
    ASSUME BreakersInv, CallsInv, PoolInv, NEW s \in Screens, NEW v \in Vendors, NEW status \in Statuses,
           TryAgainOrEnd(s, v, status), UNCHANGED <<queue, running>>
    PROVE  BreakersInv' /\ CallsInv' /\ PoolInv'
<1>1. CASE call[s][v].attempt < MaxAttempts
  <2> DEFINE c == [call[s][v] EXCEPT !.pc = "backoff"]
  <2>1. call[s][v] \in Calls
    BY DEF CallsInv
  <2>2. c \in Calls /\ c.pc = "backoff" /\ c.attempt = call[s][v].attempt
    BY <2>1 DEF Calls
  <2>3. CallBecomes(s, v, c) /\ UNCHANGED breaker
    BY <1>1 DEF TryAgainOrEnd, CallBecomes, CallsInv
  <2> HIDE DEF c
  <2>4. CallsInv' /\ PoolInv'
    BY <1>1, <2>2, <2>3, CallLeavesPool
  <2> QED BY <2>3, <2>4 DEF BreakersInv, OpenMeansFailing
<1>2. CASE ~(call[s][v].attempt < MaxAttempts)
  BY <1>2, RecordKeeps, CallEndsKeeps DEF TryAgainOrEnd
<1> QED BY <1>1, <1>2

LEMMA CallKeeps ==
    ASSUME BreakersInv, CallsInv, PoolInv, NEW s \in Screens, NEW v \in Vendors, CallStep(s, v)
    PROVE  BreakersInv' /\ CallsInv' /\ PoolInv'
<1>1. {"ok", "error", "rejected", "timeout", "circuit_open"} = Statuses
  BY DEF Statuses
<1>2. CASE Skip(s, v)
  BY <1>1, <1>2, CallEndsKeeps DEF Skip, BreakersInv, OpenMeansFailing
<1>3. CASE Admit(s, v) \/ Retry(s, v)
  BY <1>3, SubmitKeeps DEF Admit, Retry, BreakersInv, OpenMeansFailing
<1>4. CASE Succeed(s, v) \/ Reject(s, v)
  BY <1>1, <1>4, CallEndsKeeps, RecordKeeps DEF Succeed, Reject
<1>5. CASE Error(s, v) \/ Timeout(s, v)
  BY <1>1, <1>5, FailedTryKeeps DEF Error, Timeout
<1> QED BY <1>2, <1>3, <1>4, <1>5 DEF CallStep

LEMMA VendorStep ==
    ASSUME VendorInv, [VendorNext]_vendorVars
    PROVE  VendorInv'
<1> USE VendorParts
<1>1. CASE UNCHANGED vendorVars
  BY <1>1 DEF vendorVars, VendorInv, VendorTypeOK, OpenMeansFailing, TriesLeft, PoolHoldsOnce, NoTryAhead, TryIsUnderWay
<1>2. CASE Take
  BY <1>2, TakeKeeps DEF Take, BreakersInv, OpenMeansFailing
<1>3. ASSUME NEW t \in running, NEW answer \in Answers, Finish(t, answer) PROVE VendorInv'
  BY <1>3, FinishKeeps DEF Finish, BreakersInv, OpenMeansFailing
<1>4. ASSUME NEW v \in Vendors, CoolDown(v) PROVE VendorInv'
  <2>1. UNCHANGED <<call, queue, running>>
    BY <1>4 DEF CoolDown
  <2>2. CallsInv' /\ PoolInv'
    BY <2>1 DEF CallsInv, TriesLeft, PoolInv, PoolHoldsOnce, NoTryAhead, InPool, Queued, Mine
  <2> QED BY <1>4, <2>2, CoolDownKeeps
<1>5. ASSUME NEW s \in Screens, NEW v \in Vendors, CallStep(s, v) PROVE VendorInv'
  BY <1>5, CallKeeps
<1> QED BY <1>1, <1>2, <1>3, <1>4, <1>5 DEF VendorNext, Over

LEMMA VendorInvariance == VendorSpec => []VendorInv
<1>1. VendorInv /\ [VendorNext]_vendorVars => VendorInv'
  BY VendorStep
<1> QED BY VendorsStart, <1>1, PTL DEF VendorSpec

\* Calls, breakers and the pool keep their types: no call makes more than
\* MaxAttempts tries, and no more than Workers tasks run at once.
THEOREM VendorsTypeCorrect == VendorSpec => []VendorTypeOK
<1>1. VendorInv => VendorTypeOK
  BY DEF VendorInv
<1> QED BY VendorInvariance, <1>1, PTL

\* A breaker is open exactly when it has counted Threshold failures, whichever
\* calls it let in before it opened end after it did.
THEOREM BreakersTellFailures == VendorSpec => []OpenMeansFailing
<1>1. VendorInv => OpenMeansFailing
  BY DEF VendorInv
<1> QED BY VendorInvariance, <1>1, PTL

\* What a call waits for is in the pool until it has answered, and no answer of
\* a try given up before is taken for it, for any number of workers and tries.
THEOREM WaitedForIsUnderWay == VendorSpec => []TryIsUnderWay
<1>1. VendorInv => TryIsUnderWay
  BY DEF VendorInv
<1> QED BY VendorInvariance, <1>1, PTL

\* The steps that are left, at most: of a call, with those of the tasks it will
\* submit; of a breaker that cools down; of a task that waits, or that runs.
CallLeft(c) ==
    CASE c.pc = "start" -> 6 * MaxAttempts + 1
      [] c.pc = "wait" -> 6 * (MaxAttempts - c.attempt) + 2
      [] c.pc = "backoff" -> 6 * (MaxAttempts - c.attempt)
      [] c.pc = "done" -> 0
Cools(b) == IF b.opened = "cooling" THEN 1 ELSE 0

Callings == Screens \X Vendors
CallsLeft == SumOver([p \in Callings |-> CallLeft(call[p[1]][p[2]])], Callings)
CoolsLeft == SumOver([v \in Vendors |-> Cools(breaker[v])], Vendors)
VendorsLeft == CallsLeft + CoolsLeft + 2 * Len(queue) + Cardinality(running)

LEMMA CallLeftNat == \A c \in Calls : CallLeft(c) \in Nat
<1> TAKE c \in Calls
<1>1. /\ c.attempt \in 0 .. MaxAttempts /\ MaxAttempts \in Nat
      /\ c.pc \in {"start", "wait", "backoff", "done"}
  BY OrchestratorAssumption DEF Calls
<1>2. 6 * (MaxAttempts - c.attempt) \in Nat /\ 6 * MaxAttempts + 1 \in Nat
  BY <1>1
<1>3. CASE c.pc = "start"
  BY <1>2, <1>3 DEF CallLeft
<1>4. CASE c.pc \in {"wait", "backoff"}
  BY <1>2, <1>4 DEF CallLeft
<1>5. CASE c.pc = "done"
  BY <1>5 DEF CallLeft
<1> QED BY <1>1, <1>3, <1>4, <1>5

LEMMA VendorSums ==
    ASSUME BreakersInv, CallsInv, PoolInv, IsFiniteSet(Screens), IsFiniteSet(Vendors)
    PROVE  /\ CallsLeft \in Nat /\ CoolsLeft \in Nat /\ Len(queue) \in Nat /\ Cardinality(running) \in Nat
           /\ \A p \in Callings : CallLeft(call[p[1]][p[2]]) \in Nat
           /\ IsFiniteSet(Callings)
<1>1. \A p \in Callings : CallLeft(call[p[1]][p[2]]) \in Nat
  <2>1. \A p \in Callings : call[p[1]][p[2]] \in Calls
    BY DEF Callings, CallsInv
  <2> QED BY <2>1, CallLeftNat
<1>2. IsFiniteSet(Callings)
  BY FS_Product DEF Callings
<1>3. CallsLeft \in Nat
  <2> DEFINE g == [p \in Callings |-> CallLeft(call[p[1]][p[2]])]
  <2>1. \A p \in Callings : g[p] \in Nat
    BY <1>1
  <2> HIDE DEF g
  <2>2. SumOver(g, Callings) \in Nat
    BY <1>2, <2>1, SumOfNats
  <2> QED BY <2>2 DEF CallsLeft, g
<1>4. CoolsLeft \in Nat
  <2> DEFINE g == [v \in Vendors |-> Cools(breaker[v])]
  <2>1. \A v \in Vendors : g[v] \in Nat
    BY DEF Cools
  <2> HIDE DEF g
  <2>2. SumOver(g, Vendors) \in Nat
    BY <2>1, SumOfNats
  <2> QED BY <2>2 DEF CoolsLeft, g
<1>5. Len(queue) \in Nat /\ Cardinality(running) \in Nat
  <2>1. queue \in Seq(Tasks) /\ IsFiniteSet(running)
    BY DEF PoolInv, PoolHoldsOnce
  <2> QED BY <2>1, FS_CardinalityType
<1> QED BY <1>1, <1>2, <1>3, <1>4, <1>5

\* What one call, and one breaker, do to the sums.
LEMMA OneCallOff ==
    ASSUME BreakersInv, CallsInv, PoolInv, IsFiniteSet(Screens), IsFiniteSet(Vendors),
           NEW s \in Screens, NEW v \in Vendors, NEW c \in Calls, CallBecomes(s, v, c)
    PROVE  CallsLeft' = CallsLeft - CallLeft(call[s][v]) + CallLeft(c)
<1> DEFINE g == [p \in Callings |-> CallLeft(call[p[1]][p[2]])]
           h == [p \in Callings |-> CallLeft(call'[p[1]][p[2]])]
           p0 == <<s, v>>
<1>1. /\ call'[s][v] = c
      /\ \A x \in Screens, y \in Vendors : ~(x = s /\ y = v) => call'[x][y] = call[x][y]
  BY OneCallChanges
<1>2. p0 \in Callings /\ g[p0] = CallLeft(call[s][v]) /\ h[p0] = CallLeft(c)
  BY <1>1 DEF Callings
<1>3. \A p \in Callings \ {p0} : h[p] = g[p]
  <2> TAKE p \in Callings \ {p0}
  <2>1. p[1] \in Screens /\ p[2] \in Vendors /\ p = <<p[1], p[2]>>
    BY DEF Callings
  <2>2. call'[p[1]][p[2]] = call[p[1]][p[2]]
    BY <1>1, <2>1
  <2> QED BY <2>2
<1>4. \A p \in Callings : g[p] \in Int
  BY VendorSums
<1>5. CallsLeft = SumOver(g, Callings) /\ CallsLeft' = SumOver(h, Callings)
  BY DEF CallsLeft, Callings
<1>6. h[p0] \in Int /\ IsFiniteSet(Callings)
  BY <1>2, CallLeftNat, VendorSums
<1> HIDE DEF g, h, p0
<1>7. SumOver(h, Callings) = SumOver(g, Callings) - g[p0] + h[p0]
  <2>1. OneChanged(Callings, g, h, p0)
    BY <1>2, <1>3, <1>4, <1>6 DEF OneChanged
  <2> QED BY <2>1, SumOneChanged
<1> QED BY <1>2, <1>5, <1>7

LEMMA OneBreakerOff ==
    ASSUME BreakersInv, IsFiniteSet(Vendors), NEW v \in Vendors, NEW b, breaker' = [breaker EXCEPT ![v] = b]
    PROVE  CoolsLeft' = CoolsLeft - Cools(breaker[v]) + Cools(b)
<1> DEFINE g == [y \in Vendors |-> Cools(breaker[y])]
           h == [y \in Vendors |-> Cools(breaker'[y])]
<1>1. breaker'[v] = b /\ \A y \in Vendors \ {v} : breaker'[y] = breaker[y]
  BY DEF BreakersInv
<1>2. g[v] = Cools(breaker[v]) /\ h[v] = Cools(b) /\ h[v] \in Int
  BY <1>1 DEF Cools
<1>3. \A y \in Vendors : g[y] \in Int
  BY DEF Cools
<1>4. \A y \in Vendors \ {v} : h[y] = g[y]
  BY <1>1
<1>5. CoolsLeft = SumOver(g, Vendors) /\ CoolsLeft' = SumOver(h, Vendors)
  BY DEF CoolsLeft
<1> HIDE DEF g, h
<1>6. SumOver(h, Vendors) = SumOver(g, Vendors) - g[v] + h[v]
  <2>1. OneChanged(Vendors, g, h, v)
    BY <1>2, <1>3, <1>4 DEF OneChanged
  <2> QED BY <2>1, SumOneChanged
<1> QED BY <1>2, <1>5, <1>6

\* A failure may open a breaker, which then cools down; a success does not.
LEMMA RecordCools ==
    ASSUME BreakersInv, CallsInv, PoolInv, IsFiniteSet(Screens), IsFiniteSet(Vendors),
           NEW v \in Vendors, NEW ok, Record(v, ok) \/ UNCHANGED breaker
    PROVE  CoolsLeft' \in Int /\ CoolsLeft' <= CoolsLeft + 1
<1>1. CoolsLeft \in Nat
  BY VendorSums
<1>2. CASE UNCHANGED breaker
  <2>1. CoolsLeft' = CoolsLeft
    BY <1>2 DEF CoolsLeft
  <2> QED BY <1>1, <2>1
<1>3. CASE Record(v, ok)
  <2>1. CoolsLeft' = CoolsLeft - Cools(breaker[v]) + Cools(Recorded(v, ok))
    BY <1>3, OneBreakerOff DEF Record
  <2>2. Cools(breaker[v]) \in {0, 1} /\ Cools(Recorded(v, ok)) \in {0, 1}
    BY DEF Cools
  <2> QED BY <1>1, <2>1, <2>2
<1> QED BY <1>2, <1>3

LEMMA LessIsLeft ==
    ASSUME NEW a \in Int, NEW b \in Int, NEW cools \in Int, NEW tasks \in Int, NEW asks \in Int,
           NEW a2 \in Int, NEW cools2 \in Int, NEW tasks2 \in Int,
           a2 = a - b, cools2 <= cools + 1, \/ tasks2 = tasks /\ b > 1
                                            \/ tasks2 = tasks + 1 /\ cools2 = cools /\ b > 2
    PROVE  a2 + cools2 + 2 * tasks2 + asks < a + cools + 2 * tasks + asks
  OBVIOUS

\* The steps of a call.
LEMMA CallStepEnds ==
    ASSUME BreakersInv, CallsInv, PoolInv, IsFiniteSet(Screens), IsFiniteSet(Vendors),
           NEW s \in Screens, NEW v \in Vendors, NEW c \in Calls, CallBecomes(s, v, c),
           NEW ok, Record(v, ok) \/ UNCHANGED breaker,
           CallLeft(c) + 1 < CallLeft(call[s][v]), UNCHANGED <<queue, running>>
    PROVE  VendorsLeft' < VendorsLeft
<1>1. CallsLeft' = CallsLeft - CallLeft(call[s][v]) + CallLeft(c)
  BY OneCallOff
<1>2. CoolsLeft' \in Int /\ CoolsLeft' <= CoolsLeft + 1
  BY RecordCools
<1>3. CallLeft(c) \in Nat /\ CallLeft(call[s][v]) \in Nat
  BY CallLeftNat DEF CallsInv
<1>4. CallsLeft \in Nat /\ CoolsLeft \in Nat /\ Len(queue) \in Nat /\ Cardinality(running) \in Nat
  BY VendorSums
<1>5. Len(queue)' = Len(queue) /\ Cardinality(running)' = Cardinality(running)
  OBVIOUS
<1> DEFINE b == CallLeft(call[s][v]) - CallLeft(c)
<1>6. b \in Int /\ b > 1 /\ CallsLeft' = CallsLeft - b /\ CallsLeft' \in Int
  BY <1>1, <1>3, <1>4
<1> HIDE DEF b
<1>7. CallsLeft' + CoolsLeft' + 2 * Len(queue) + Cardinality(running)
        < CallsLeft + CoolsLeft + 2 * Len(queue) + Cardinality(running)
  BY <1>2, <1>4, <1>6, LessIsLeft
<1> QED BY <1>5, <1>7 DEF VendorsLeft

LEMMA SubmitMovesOn ==
    ASSUME BreakersInv, CallsInv, PoolInv, IsFiniteSet(Screens), IsFiniteSet(Vendors),
           NEW s \in Screens, NEW v \in Vendors, call[s][v].pc \in {"start", "backoff"}, Submit(s, v),
           UNCHANGED <<breaker, running>>
    PROVE  VendorsLeft' < VendorsLeft
<1> DEFINE b == call[s][v]
           c == [b EXCEPT !.pc = "wait", !.attempt = b.attempt + 1, !.got = "none"]
<1>1. /\ b \in Calls /\ b.attempt \in 0 .. MaxAttempts - 1
      /\ b.pc = "start" => b.attempt = 0
  BY OrchestratorAssumption DEF CallsInv, TriesLeft, Calls
<1>2. c \in Calls /\ c.pc = "wait" /\ c.attempt = b.attempt + 1
  BY <1>1, NextTry
<1>3. CallBecomes(s, v, c) /\ queue' = Append(queue, Task(s, v)) /\ b.pc \in {"start", "backoff"}
  BY DEF Submit, CallBecomes
<1> HIDE DEF c, b
<1>4. CallLeft(c) + 2 < CallLeft(b)
  <2>1. CallLeft(c) = 6 * (MaxAttempts - (b.attempt + 1)) + 2 /\ MaxAttempts \in Nat
    BY <1>2, OrchestratorAssumption DEF CallLeft
  <2>2. CASE b.pc = "start"
    <3>1. CallLeft(b) = 6 * MaxAttempts + 1 /\ b.attempt = 0
      BY <1>1, <2>2 DEF CallLeft
    <3> QED BY <2>1, <3>1
  <2>3. CASE b.pc = "backoff"
    <3>1. CallLeft(b) = 6 * (MaxAttempts - b.attempt) /\ b.attempt \in Nat
      BY <1>1, <2>3 DEF CallLeft
    <3> QED BY <2>1, <3>1
  <2> QED BY <1>3, <2>2, <2>3
<1>5. CallsLeft' = CallsLeft - CallLeft(b) + CallLeft(c)
  BY <1>2, <1>3, OneCallOff DEF b
<1>6. Len(queue') = Len(queue) + 1
  BY <1>3 DEF PoolInv
<1>7. CoolsLeft' = CoolsLeft /\ Cardinality(running') = Cardinality(running)
  BY DEF CoolsLeft
<1>8. CallLeft(c) \in Nat /\ CallLeft(b) \in Nat
  BY <1>1, <1>2, CallLeftNat
<1>9. CallsLeft \in Nat /\ CoolsLeft \in Nat /\ Len(queue) \in Nat /\ Cardinality(running) \in Nat
  BY VendorSums
<1> DEFINE d == CallLeft(b) - CallLeft(c)
<1>10. d \in Int /\ d > 2 /\ CallsLeft' = CallsLeft - d /\ CallsLeft' \in Int
  BY <1>4, <1>5, <1>8, <1>9
<1> HIDE DEF d
<1>11. CallsLeft' + CoolsLeft + 2 * (Len(queue) + 1) + Cardinality(running)
         < CallsLeft + CoolsLeft + 2 * Len(queue) + Cardinality(running)
  BY <1>9, <1>10, LessIsLeft
<1> QED BY <1>6, <1>7, <1>11 DEF VendorsLeft

LEMMA EndMovesOn ==
    ASSUME BreakersInv, CallsInv, PoolInv, IsFiniteSet(Screens), IsFiniteSet(Vendors),
           NEW s \in Screens, NEW v \in Vendors, NEW status \in Statuses, CallEnds(s, v, status),
           call[s][v].pc \in {"start", "wait"},
           NEW ok, Record(v, ok) \/ UNCHANGED breaker, UNCHANGED <<queue, running>>
    PROVE  VendorsLeft' < VendorsLeft
<1> DEFINE b == call[s][v]
           c == [b EXCEPT !.pc = "done", !.status = status]
<1>1. b \in Calls /\ b.attempt \in 0 .. MaxAttempts /\ MaxAttempts \in Nat
  BY OrchestratorAssumption DEF CallsInv, Calls
<1>2. c \in Calls /\ c.pc = "done"
  BY <1>1 DEF Calls
<1>3. CallBecomes(s, v, c)
  BY DEF CallEnds, CallBecomes, CallsInv
<1>4. b.pc \in {"start", "wait"}
  OBVIOUS
<1> HIDE DEF c, b
<1>5. CallLeft(c) = 0
  BY <1>2 DEF CallLeft
<1>6. CallLeft(b) > 1
  <2>1. CASE b.pc = "start"
    BY <2>1, OrchestratorAssumption DEF CallLeft
  <2>2. CASE b.pc = "wait"
    BY <1>1, <2>2 DEF CallLeft
  <2> QED BY <1>4, <2>1, <2>2
<1>7. CallLeft(c) + 1 < CallLeft(b) /\ CallLeft(b) = CallLeft(call[s][v])
  <2>1. CallLeft(b) \in Nat
    BY <1>1, CallLeftNat
  <2> QED BY <1>5, <1>6, <2>1 DEF b
<1> QED BY <1>2, <1>3, <1>7, CallStepEnds

LEMMA FailedTryMovesOn ==
    ASSUME BreakersInv, CallsInv, PoolInv, IsFiniteSet(Screens), IsFiniteSet(Vendors),
           NEW s \in Screens, NEW v \in Vendors, NEW status \in Statuses, call[s][v].pc = "wait",
           TryAgainOrEnd(s, v, status), UNCHANGED <<queue, running>>
    PROVE  VendorsLeft' < VendorsLeft
<1>1. CASE call[s][v].attempt < MaxAttempts
  <2> DEFINE b == call[s][v]
             c == [b EXCEPT !.pc = "backoff"]
  <2>1. b \in Calls /\ b.attempt \in 0 .. MaxAttempts /\ MaxAttempts \in Nat /\ b.pc = "wait"
    BY OrchestratorAssumption DEF CallsInv, Calls
  <2>2. c \in Calls /\ c.pc = "backoff" /\ c.attempt = b.attempt
    BY <2>1 DEF Calls
  <2>3. CallBecomes(s, v, c) /\ UNCHANGED breaker
    BY <1>1 DEF TryAgainOrEnd, CallBecomes, CallsInv
  <2> HIDE DEF c, b
  <2>4. CallLeft(c) + 1 < CallLeft(b)
    BY <2>1, <2>2 DEF CallLeft
  <2>5. CallLeft(c) + 1 < CallLeft(call[s][v])
    BY <2>4 DEF b
  <2> QED BY <2>2, <2>3, <2>5, CallStepEnds
<1>2. CASE ~(call[s][v].attempt < MaxAttempts)
  BY <1>2, EndMovesOn DEF TryAgainOrEnd
<1> QED BY <1>1, <1>2

LEMMA CallMovesOn ==
    ASSUME BreakersInv, CallsInv, PoolInv, IsFiniteSet(Screens), IsFiniteSet(Vendors),
           NEW s \in Screens, NEW v \in Vendors, CallStep(s, v)
    PROVE  VendorsLeft' < VendorsLeft
<1>1. {"ok", "error", "rejected", "timeout", "circuit_open"} = Statuses
  BY DEF Statuses
<1>2. CASE Skip(s, v)
  BY <1>1, <1>2, EndMovesOn DEF Skip
<1>3. CASE Admit(s, v) \/ Retry(s, v)
  BY <1>3, SubmitMovesOn DEF Admit, Retry
<1>4. CASE Succeed(s, v) \/ Reject(s, v)
  BY <1>1, <1>4, EndMovesOn DEF Succeed, Reject
<1>5. CASE Error(s, v) \/ Timeout(s, v)
  BY <1>1, <1>5, FailedTryMovesOn DEF Error, Timeout
<1> QED BY <1>2, <1>3, <1>4, <1>5 DEF CallStep

\* The steps of the pool, and of a breaker that cools down.
LEMMA TakeMovesOn ==
    ASSUME BreakersInv, CallsInv, PoolInv, IsFiniteSet(Screens), IsFiniteSet(Vendors), Take
    PROVE  VendorsLeft' < VendorsLeft
<1>1. /\ queue \in Seq(Tasks) /\ queue # <<>> /\ queue' = Tail(queue)
      /\ running' = running \cup {Head(queue)} /\ IsFiniteSet(running) /\ UNCHANGED <<call, breaker>>
  BY DEF Take, PoolInv, PoolHoldsOnce
<1>2. Len(queue) \in Nat \ {0} /\ Len(queue') = Len(queue) - 1
  BY <1>1, ListTail
<1>3. Cardinality(running') \in Nat /\ Cardinality(running') <= Cardinality(running) + 1
  <2>1. /\ IsFiniteSet(running \cup {Head(queue)})
        /\ Cardinality(running \cup {Head(queue)})
             = IF Head(queue) \in running THEN Cardinality(running) ELSE Cardinality(running) + 1
    BY <1>1, FS_AddElement
  <2>2. Cardinality(running) \in Nat
    BY <1>1, FS_CardinalityType
  <2> QED BY <1>1, <2>1, <2>2
<1>4. CallsLeft' = CallsLeft /\ CoolsLeft' = CoolsLeft
  BY <1>1 DEF CallsLeft, CoolsLeft
<1>5. CallsLeft \in Nat /\ CoolsLeft \in Nat /\ Cardinality(running) \in Nat
  BY VendorSums
<1> QED BY <1>2, <1>3, <1>4, <1>5 DEF VendorsLeft

LEMMA FinishMovesOn ==
    ASSUME BreakersInv, CallsInv, PoolInv, IsFiniteSet(Screens), IsFiniteSet(Vendors),
           NEW t \in running, NEW answer \in Answers, Finish(t, answer)
    PROVE  VendorsLeft' < VendorsLeft
<1> DEFINE s == t.screen
           v == t.vendor
           b == call[s][v]
           c == [b EXCEPT !.got = answer]
<1>1. /\ t \in Tasks /\ s \in Screens /\ v \in Vendors /\ b \in Calls
      /\ running' = running \ {t} /\ UNCHANGED <<queue, breaker>> /\ IsFiniteSet(running)
  BY DEF PoolInv, PoolHoldsOnce, CallsInv, Tasks, Finish
<1>2. Cardinality(running') = Cardinality(running) - 1
  BY <1>1, FS_RemoveElement
<1>3. CallsLeft' = CallsLeft
  <2>1. CASE UNCHANGED call
    BY <2>1 DEF CallsLeft
  <2>2. CASE CallBecomes(s, v, c)
    <3>1. c \in Calls /\ c.pc = b.pc /\ c.attempt = b.attempt
      BY <1>1 DEF Calls
    <3> HIDE DEF c
    <3>2. CallLeft(c) = CallLeft(b)
      BY <3>1 DEF CallLeft
    <3>3. CallsLeft' = CallsLeft - CallLeft(b) + CallLeft(c)
      BY <1>1, <2>2, <3>1, OneCallOff
    <3>4. CallLeft(b) \in Nat /\ CallsLeft \in Nat
      BY <1>1, CallLeftNat, VendorSums
    <3> QED BY <3>2, <3>3, <3>4
  <2> QED BY <1>1, <2>1, <2>2 DEF Finish, CallBecomes, CallsInv
<1>4. CoolsLeft' = CoolsLeft
  BY <1>1 DEF CoolsLeft
<1>5. CallsLeft \in Nat /\ CoolsLeft \in Nat /\ Len(queue) \in Nat /\ Cardinality(running) \in Nat
  BY VendorSums
<1> QED BY <1>1, <1>2, <1>3, <1>4, <1>5 DEF VendorsLeft

LEMMA CoolDownMovesOn ==
    ASSUME BreakersInv, CallsInv, PoolInv, IsFiniteSet(Screens), IsFiniteSet(Vendors),
           NEW v \in Vendors, CoolDown(v)
    PROVE  VendorsLeft' < VendorsLeft
<1> DEFINE b == [breaker[v] EXCEPT !.opened = "cooled"]
<1>1. /\ breaker' = [breaker EXCEPT ![v] = b] /\ UNCHANGED <<call, queue, running>>
      /\ breaker[v] \in Breakers /\ breaker[v].opened = "cooling"
  BY DEF CoolDown, BreakersInv
<1>2. Cools(breaker[v]) = 1 /\ Cools(b) = 0
  BY <1>1 DEF Cools, Breakers
<1> HIDE DEF b
<1>3. CoolsLeft' = CoolsLeft - Cools(breaker[v]) + Cools(b)
  BY <1>1, OneBreakerOff
<1>4. CallsLeft' = CallsLeft
  BY <1>1 DEF CallsLeft
<1>5. CallsLeft \in Nat /\ CoolsLeft \in Nat /\ Len(queue) \in Nat /\ Cardinality(running) \in Nat
  BY VendorSums
<1> QED BY <1>1, <1>2, <1>3, <1>4, <1>5 DEF VendorsLeft

\* The screenings take a bounded number of steps, whatever the vendors do: every
\* step takes from a number that starts at six for each try that the calls may
\* make, and one for each call.
THEOREM ScreeningIsBounded ==
    ASSUME IsFiniteSet(Screens), IsFiniteSet(Vendors)
    PROVE  VendorSpec => [](VendorsLeft \in Nat) /\ [][VendorsLeft' < VendorsLeft]_vendorVars
<1>1. VendorInv => VendorsLeft \in Nat
  BY VendorParts, VendorSums DEF VendorsLeft
<1>2. VendorInv /\ [VendorNext]_vendorVars => [VendorsLeft' < VendorsLeft]_vendorVars
  <2> SUFFICES ASSUME VendorInv, VendorNext, vendorVars' # vendorVars PROVE VendorsLeft' < VendorsLeft
    OBVIOUS
  <2>1. BreakersInv /\ CallsInv /\ PoolInv
    BY VendorParts
  <2>2. ASSUME NEW t \in running, NEW answer \in Answers, Finish(t, answer) PROVE VendorsLeft' < VendorsLeft
    BY <2>1, <2>2, FinishMovesOn
  <2>3. ASSUME NEW v \in Vendors, CoolDown(v) PROVE VendorsLeft' < VendorsLeft
    BY <2>1, <2>3, CoolDownMovesOn
  <2>4. ASSUME NEW v \in Vendors, NEW s \in Screens, CallStep(s, v) PROVE VendorsLeft' < VendorsLeft
    BY <2>1, <2>4, CallMovesOn
  <2>5. CASE Take
    BY <2>1, <2>5, TakeMovesOn
  <2> QED BY <2>2, <2>3, <2>4, <2>5 DEF VendorNext, Over
<1> QED BY VendorInvariance, <1>1, <1>2, PTL DEF VendorSpec

\* A call that can go on by itself, by its answer or by its timeout, and a pool
\* with a worker that is free for a task or asks a healthy vendor.
CallGoesOn(s, v) ==
    \/ call[s][v].pc \in {"start", "backoff"}
    \/ call[s][v].pc = "wait" /\ (call[s][v].got # "none" \/ Overdue(s, v))
PoolGoesOn ==
    \/ queue # <<>> /\ Cardinality(running) < Workers
    \/ \E t \in running : t.vendor \in Healthy

\* Until every call is done, a call or the pool can go on: a call whose task waits
\* for a worker is overdue when no worker asks a healthy vendor.
THEOREM ScreeningIsNeverStuck ==
    VendorSpec => [](AllDone \/ PoolGoesOn \/ \E s \in Screens, v \in Vendors : CallGoesOn(s, v))
<1>1. VendorInv => (AllDone \/ PoolGoesOn \/ \E s \in Screens, v \in Vendors : CallGoesOn(s, v))
  <2> SUFFICES ASSUME VendorInv, ~PoolGoesOn, NEW s \in Screens, NEW v \in Vendors,
                      call[s][v].pc # "done", ~CallGoesOn(s, v)
               PROVE  FALSE
    BY DEF AllDone
  <2>1. BreakersInv /\ CallsInv /\ PoolInv
    BY VendorParts
  <2>2. call[s][v] \in Calls /\ call[s][v].pc = "wait" /\ call[s][v].got = "none" /\ ~Overdue(s, v)
    <3>1. call[s][v] \in Calls
      BY <2>1 DEF CallsInv
    <3> QED BY <3>1 DEF CallGoesOn, Calls
  <2>3. InPool(Mine(s, v))
    BY <2>1, <2>2 DEF PoolInv
  <2>4. CASE Mine(s, v) \in running
    <3>1. Mine(s, v).vendor = v
      BY DEF Mine
    <3>2. v \in Healthy
      BY <2>2, <2>4 DEF Overdue, Mine
    <3> QED BY <2>4, <3>1, <3>2 DEF PoolGoesOn
  <2>5. CASE Queued(Mine(s, v))
    <3>1. queue # <<>>
      <4>1. DOMAIN <<>> = {}
        OBVIOUS
      <4> QED BY <2>5, <4>1 DEF Queued
    <3>2. Cardinality(running) = Workers
      <4>1. Cardinality(running) \in Nat /\ Cardinality(running) <= Workers /\ Workers \in Nat
        BY <2>1, FS_CardinalityType, OrchestratorAssumption DEF PoolInv, PoolHoldsOnce
      <4> QED BY <3>1, <4>1 DEF PoolGoesOn
    <3>3. \A t \in running : t.vendor \notin Healthy
      BY DEF PoolGoesOn
    <3> QED BY <2>2, <2>5, <3>2, <3>3 DEF Overdue, Queued, Mine
  <2> QED BY <2>3, <2>4, <2>5 DEF InPool
<1> QED BY VendorInvariance, <1>1, PTL

-----------------------------------------------------------------------------
(* Names: the pairs of letters jaro matches do not depend on which word it    *)
(* walks, and the scores are fractions of 1 at most.                          *)

\* The pairs jaro matches, whatever order it finds them in: letters alike that
\* are within reach, each letter of a word in one pair at most, and no two
\* letters alike that would both sooner have had each other.
Stable(a, b, m) ==
    /\ m \subseteq (DOMAIN a) \X (DOMAIN b)
    /\ \A p \in m : Alike(a, b, p[1], p[2])
    /\ \A p, q \in m : p[1] = q[1] <=> p[2] = q[2]
    /\ \A i \in DOMAIN a, j \in DOMAIN b : Alike(a, b, i, j) =>
           \E p \in m : (p[1] = i /\ p[2] <= j) \/ (p[2] = j /\ p[1] <= i)

LEMMA Parts ==
    ASSUME NEW A, NEW B, NEW m, m \subseteq A \X B
    PROVE  \A p \in m : p[1] \in A /\ p[2] \in B /\ p = <<p[1], p[2]>>
<1> TAKE p \in m
<1>1. p \in A \X B
  OBVIOUS
<1> QED BY <1>1

LEMMA StableParts ==
    ASSUME NEW S, NEW a \in Seq(S), NEW b \in Seq(S), NEW m, Stable(a, b, m)
    PROVE  \A p \in m : /\ p[1] \in DOMAIN a /\ p[2] \in DOMAIN b /\ p = <<p[1], p[2]>>
                        /\ p[1] \in Nat /\ p[2] \in Nat
<1>1. DOMAIN a \subseteq Nat /\ DOMAIN b \subseteq Nat
  OBVIOUS
<1>2. m \subseteq (DOMAIN a) \X (DOMAIN b)
  BY DEF Stable
<1>3. \A p \in m : p[1] \in DOMAIN a /\ p[2] \in DOMAIN b /\ p = <<p[1], p[2]>>
  BY <1>2, Parts, Zenon
<1> QED BY <1>1, <1>3, Zenon

\* There is one such set of pairs at most: of the pairs two of them differ in,
\* one of the first letters would be kept from one set by a still earlier pair.
LEMMA OneStable ==
    ASSUME NEW S, NEW a \in Seq(S), NEW b \in Seq(S), NEW m, NEW w, Stable(a, b, m), Stable(a, b, w)
    PROVE  m = w
<1> DEFINE Apiece == {p \in m \cup w : p \notin m \/ p \notin w}
           At(p) == p[1] + p[2]
           Places == {At(p) : p \in Apiece}
<1>1. \A p \in m \cup w : /\ p[1] \in DOMAIN a /\ p[2] \in DOMAIN b /\ p = <<p[1], p[2]>>
                          /\ p[1] \in Nat /\ p[2] \in Nat
  BY StableParts, Zenon
<1>0. Apiece = {} => m = w
  <2> SUFFICES ASSUME m # w PROVE Apiece # {}
    OBVIOUS
  <2>1. PICK p : p \in m <=> p \notin w
    BY Zenon
  <2>2. p \in Apiece
    BY <2>1
  <2> QED BY <2>2
<1> SUFFICES ASSUME Apiece # {} PROVE FALSE
  BY <1>0
<1>2. Places \in SUBSET Nat /\ Places # {}
  <2>1. ASSUME NEW p \in Apiece PROVE p[1] \in Nat /\ p[2] \in Nat
    BY <1>1
  <2>2. ASSUME NEW p \in Apiece PROVE At(p) \in Nat
    BY <2>1
  <2>3. PICK p : p \in Apiece
    OBVIOUS
  <2>4. At(p) \in Places
    BY <2>3
  <2> HIDE DEF At, Apiece
  <2> QED BY <2>2, <2>4, Zenon
<1>3. PICK least \in Places : \A s \in Places : least <= s
  <2> HIDE DEF Places
  <2> QED BY <1>2, LeastNumber
<1>4. PICK p \in Apiece : least = At(p)
  OBVIOUS
<1>5. p[1] \in DOMAIN a /\ p[2] \in DOMAIN b /\ p = <<p[1], p[2]>> /\ p[1] \in Nat /\ p[2] \in Nat
  <2>1. p \in m \cup w
    BY <1>4
  <2> QED BY <1>1, <2>1
<1>6. ASSUME NEW x, NEW y, Stable(a, b, x), Stable(a, b, y), p \in x, p \notin y,
             (x = m /\ y = w) \/ (x = w /\ y = m)
      PROVE  FALSE
  <2>1. Alike(a, b, p[1], p[2])
    BY <1>6 DEF Stable
  <2>2. PICK q \in y : (q[1] = p[1] /\ q[2] <= p[2]) \/ (q[2] = p[2] /\ q[1] <= p[1])
    <3>1. \A i \in DOMAIN a, j \in DOMAIN b : Alike(a, b, i, j) =>
              \E q \in y : (q[1] = i /\ q[2] <= j) \/ (q[2] = j /\ q[1] <= i)
      BY <1>6, Zenon DEF Stable
    <3> QED BY <1>5, <2>1, <3>1, Zenon
  <2>3. q[1] \in Nat /\ q[2] \in Nat /\ q = <<q[1], q[2]>> /\ q \in m \cup w
    <3>1. q \in m \cup w
      BY <1>6
    <3> QED BY <1>1, <3>1, Zenon
  <2>4. q # p
    BY <1>6
  <2>5. At(q) < At(p)
    BY <1>5, <2>2, <2>3, <2>4
  <2>6. q \notin Apiece
    <3>1. q \in Apiece => At(q) \in Places
      OBVIOUS
    <3>2. At(q) \in Nat /\ At(p) \in Nat
      BY <1>5, <2>3
    <3> HIDE DEF At, Apiece, Places
    <3> QED BY <1>3, <1>4, <2>5, <3>1, <3>2
  <2>7. q \in x
    BY <1>6, <2>3, <2>6
  <2>8. q[1] = p[1] <=> q[2] = p[2]
    <3>1. \A u, v \in x : u[1] = v[1] <=> u[2] = v[2]
      BY <1>6, Zenon DEF Stable
    <3> QED BY <1>6, <2>7, <3>1, Zenon
  <2>9. q[1] = p[1] /\ q[2] = p[2]
    BY <2>2, <2>8, Zenon
  <2> QED BY <1>5, <2>3, <2>4, <2>9, Zenon
<1>7. (p \in m /\ p \notin w) \/ (p \in w /\ p \notin m)
  BY <1>4
<1> QED BY <1>6, <1>7

\* The rule is the same from either word.
Flipped(m) == {<<p[2], p[1]>> : p \in m}

LEMMA WindowBothWays ==
    ASSUME NEW S, NEW a \in Seq(S), NEW b \in Seq(S), NEW i \in DOMAIN a, NEW j \in DOMAIN b
    PROVE  Alike(a, b, i, j) <=> Alike(b, a, j, i)
<1>1. {Len(a), Len(b)} = {Len(b), Len(a)}
  OBVIOUS
<1>2. Window(a, b) = Window(b, a)
  BY <1>1 DEF Window
<1>3. i \in Nat /\ j \in Nat
  OBVIOUS
<1>4. Apart(i, j) = Apart(j, i)
  BY <1>3 DEF Apart
<1> QED BY <1>2, <1>4 DEF Alike

LEMMA FlippedParts ==
    ASSUME NEW m
    PROVE  /\ \A p \in m : <<p[2], p[1]>> \in Flipped(m)
           /\ \A q \in Flipped(m) : \E p \in m : q[1] = p[2] /\ q[2] = p[1] /\ q = <<p[2], p[1]>>
  BY DEF Flipped

LEMMA StableBothWays ==
    ASSUME NEW S, NEW a \in Seq(S), NEW b \in Seq(S), NEW m, Stable(a, b, m)
    PROVE  Stable(b, a, Flipped(m))
<1>1. \A q \in Flipped(m) : \E p \in m : q[1] = p[2] /\ q[2] = p[1] /\ q = <<p[2], p[1]>>
  BY FlippedParts
<1>3. \A p \in m : p[1] \in DOMAIN a /\ p[2] \in DOMAIN b
  BY StableParts, Zenon
<1>4. Flipped(m) \subseteq (DOMAIN b) \X (DOMAIN a)
  <2> DEFINE A == DOMAIN a
             B == DOMAIN b
  <2>1. \A p \in m : p[1] \in A /\ p[2] \in B
    BY <1>3
  <2> HIDE DEF A, B
  <2>2. Flipped(m) \subseteq B \X A
    BY <2>1 DEF Flipped
  <2> QED BY <2>2 DEF A, B
<1>5. \A q \in Flipped(m) : Alike(b, a, q[1], q[2])
  <2> TAKE q \in Flipped(m)
  <2>1. PICK p \in m : q[1] = p[2] /\ q[2] = p[1]
    BY <1>1
  <2>2. Alike(a, b, p[1], p[2])
    BY DEF Stable
  <2>3. Alike(b, a, p[2], p[1])
    BY <1>3, <2>2, WindowBothWays
  <2> QED BY <2>1, <2>3
<1>6. \A p, q \in Flipped(m) : p[1] = q[1] <=> p[2] = q[2]
  <2> TAKE p, q \in Flipped(m)
  <2>1. PICK x \in m : p[1] = x[2] /\ p[2] = x[1]
    BY <1>1
  <2>2. PICK y \in m : q[1] = y[2] /\ q[2] = y[1]
    BY <1>1
  <2>3. x[1] = y[1] <=> x[2] = y[2]
    BY DEF Stable
  <2> QED BY <2>1, <2>2, <2>3
<1>7. ASSUME NEW j \in DOMAIN b, NEW i \in DOMAIN a, Alike(b, a, j, i)
      PROVE  \E q \in Flipped(m) : (q[1] = j /\ q[2] <= i) \/ (q[2] = i /\ q[1] <= j)
  <2>1. Alike(a, b, i, j)
    BY <1>7, WindowBothWays
  <2>2. PICK p \in m : (p[1] = i /\ p[2] <= j) \/ (p[2] = j /\ p[1] <= i)
    BY <2>1 DEF Stable
  <2>3. <<p[2], p[1]>> \in Flipped(m)
    BY FlippedParts
  <2> QED BY <2>2, <2>3
<1> QED BY <1>4, <1>5, <1>6, <1>7 DEF Stable

-----------------------------------------------------------------------------
(* The loop of jaro finds them.                                               *)

\* What the loop has after the first n letters of a.
StableTo(a, b, n, m) ==
    /\ m \subseteq (1 .. n) \X (DOMAIN b)
    /\ \A p \in m : Alike(a, b, p[1], p[2])
    /\ \A p, q \in m : p[1] = q[1] <=> p[2] = q[2]
    /\ \A i \in 1 .. n, j \in DOMAIN b : Alike(a, b, i, j) =>
           \E p \in m : (p[1] = i /\ p[2] <= j) \/ (p[2] = j /\ p[1] <= i)

LEMMA LeastIsMin ==
    ASSUME NEW T \in SUBSET Nat, T # {}
    PROVE  Min(T) \in T /\ \A j \in T : Min(T) <= j
<1>1. \E i \in T : \A j \in T : i <= j
  BY LeastNumber
<1> QED BY <1>1 DEF Min

LEMMA MatchKeeps ==
    ASSUME NEW S, NEW a \in Seq(S), NEW b \in Seq(S), NEW n \in 1 .. Len(a), NEW m, StableTo(a, b, n - 1, m)
    PROVE  StableTo(a, b, n, Match(a, b, m, n))
<1> DEFINE B == DOMAIN b
           js == {j \in B : Alike(a, b, n, j) /\ \A p \in m : p[2] # j}
           L == 1 .. n - 1
           N == 1 .. n
           more == Match(a, b, m, n)
<1>0. /\ more = IF js = {} THEN m ELSE m \cup {<<n, Min(js)>>}
      /\ B \subseteq Nat /\ js \in SUBSET Nat
  BY DEF Match
<1>1. /\ L \subseteq N /\ n \in N /\ n \notin L /\ N = L \cup {n}
      /\ \A i \in L : i \in Nat /\ i < n
  OBVIOUS
<1>2. /\ m \subseteq L \X B
      /\ \A p \in m : Alike(a, b, p[1], p[2])
      /\ \A p, q \in m : p[1] = q[1] <=> p[2] = q[2]
      /\ \A i \in L, j \in B : Alike(a, b, i, j) =>
             \E p \in m : (p[1] = i /\ p[2] <= j) \/ (p[2] = j /\ p[1] <= i)
  BY Zenon DEF StableTo
<1>3. \A p \in m : p[1] \in L /\ p[2] \in B /\ p = <<p[1], p[2]>>
  <2> HIDE DEF B, L
  <2> QED BY <1>2, Parts
<1>4. \A j \in B : j \in js <=> Alike(a, b, n, j) /\ \A p \in m : p[2] # j
  OBVIOUS
<1>5. js # {} => /\ Min(js) \in js /\ Min(js) \in B
                 /\ \A j \in js : Min(js) <= j
  BY <1>0, LeastIsMin
<1> SUFFICES /\ more \subseteq N \X B
             /\ \A p \in more : Alike(a, b, p[1], p[2])
             /\ \A p, q \in more : p[1] = q[1] <=> p[2] = q[2]
             /\ \A i \in N, j \in B : Alike(a, b, i, j) =>
                    \E p \in more : (p[1] = i /\ p[2] <= j) \/ (p[2] = j /\ p[1] <= i)
  BY Zenon DEF StableTo
<1> HIDE DEF B, js, L, N, more
<1>6. ASSUME NEW j \in B, Alike(a, b, n, j), j \notin js
      PROVE  \E p \in m : p[2] = j /\ p[1] <= n
  <2>1. PICK p \in m : p[2] = j
    BY <1>4, <1>6, Zenon
  <2>2. p[1] \in Nat /\ p[1] < n
    BY <1>1, <1>3, Zenon
  <2> QED BY <2>1, <2>2
<1>7. CASE js = {}
  <2>1. more = m
    BY <1>0, <1>7
  <2>2. m \subseteq N \X B
    BY <1>1, <1>2
  <2>3. ASSUME NEW i \in N, NEW j \in B, Alike(a, b, i, j)
        PROVE  \E p \in m : (p[1] = i /\ p[2] <= j) \/ (p[2] = j /\ p[1] <= i)
    <3>1. CASE i \in L
      BY <1>2, <2>3, <3>1, Zenon
    <3>2. CASE i = n
      BY <1>6, <1>7, <2>3, <3>2, Zenon
    <3> QED BY <1>1, <3>1, <3>2, Zenon
  <2>4. \A p \in more : Alike(a, b, p[1], p[2])
    BY <1>2, <2>1, Zenon
  <2>5. \A p, q \in more : p[1] = q[1] <=> p[2] = q[2]
    BY <1>2, <2>1, Zenon
  <2>6. \A i \in N, j \in B : Alike(a, b, i, j) =>
            \E p \in more : (p[1] = i /\ p[2] <= j) \/ (p[2] = j /\ p[1] <= i)
    BY <2>1, <2>3, Zenon
  <2> QED BY <2>1, <2>2, <2>4, <2>5, <2>6
<1>8. CASE js # {}
  <2> DEFINE new == <<n, Min(js)>>
  <2>1. more = m \cup {new}
    BY <1>0, <1>8
  <2>2. new[1] = n /\ new[2] = Min(js) /\ new \in N \X B
    BY <1>1, <1>5, <1>8
  <2> HIDE DEF new
  <2>3. more \subseteq N \X B
    BY <1>1, <1>2, <2>1, <2>2
  <2>4. Alike(a, b, new[1], new[2]) /\ \A p \in m : p[2] # new[2] /\ p[1] # new[1]
    BY <1>1, <1>3, <1>4, <1>5, <1>8, <2>2, Zenon
  <2>5. \A p \in more : Alike(a, b, p[1], p[2])
    BY <1>2, <2>1, <2>4, Zenon
  <2>6. \A p, q \in more : p[1] = q[1] <=> p[2] = q[2]
    <3> SUFFICES ASSUME NEW p \in more, NEW q \in more
                 PROVE  p[1] = q[1] <=> p[2] = q[2]
      OBVIOUS
    <3>1. (p \in m \/ p = new) /\ (q \in m \/ q = new)
      BY <2>1
    <3>2. CASE p \in m /\ q \in m
      BY <1>2, <3>2, Zenon
    <3>3. CASE p \in m /\ q = new
      BY <2>4, <3>3, Zenon
    <3>4. CASE p = new /\ q \in m
      BY <2>4, <3>4, Zenon
    <3>5. CASE p = new /\ q = new
      BY <3>5, Zenon
    <3> QED BY <3>1, <3>2, <3>3, <3>4, <3>5, Zenon
  <2>7. ASSUME NEW i \in N, NEW j \in B, Alike(a, b, i, j)
        PROVE  \E p \in more : (p[1] = i /\ p[2] <= j) \/ (p[2] = j /\ p[1] <= i)
    <3>1. CASE i \in L
      BY <1>2, <2>1, <2>7, <3>1, Zenon
    <3>2. CASE i = n /\ j \notin js
      BY <1>6, <2>1, <2>7, <3>2, Zenon
    <3>3. CASE i = n /\ j \in js
      <4>1. new[1] = i /\ new[2] <= j /\ new \in more
        BY <1>5, <1>8, <2>1, <2>2, <3>3, Zenon
      <4> QED BY <4>1, Zenon
    <3> QED BY <1>1, <3>1, <3>2, <3>3, Zenon
  <2> QED BY <2>3, <2>5, <2>6, <2>7, Zenon
<1> QED BY <1>7, <1>8

\* The pairs after each letter of a are those after the letter before and what
\* that letter takes: such a function there is for words of any length.
Matches(a, b, n, upto) == upto = [i \in 0 .. n |-> IF i = 0 THEN {} ELSE Match(a, b, upto[i - 1], i)]

LEMMA MatchesExist ==
    ASSUME NEW a, NEW b
    PROVE  \A n \in Nat : \E upto : Matches(a, b, n, upto)
<1> DEFINE T == {n \in Nat : ~\E upto : Matches(a, b, n, upto)}
<1> SUFFICES ASSUME T # {} PROVE FALSE
  OBVIOUS
<1>1. PICK n \in T : \A k \in T : n <= k
  <2>1. T \in SUBSET Nat
    OBVIOUS
  <2> HIDE DEF T
  <2> QED BY <2>1, LeastNumber
<1>2. n \in Nat /\ ~\E upto : Matches(a, b, n, upto)
  OBVIOUS
<1>3. CASE n = 0
  <2> DEFINE none == [i \in 0 .. 0 |-> {}]
  <2>1. \A i \in 0 .. 0 : i = 0
    OBVIOUS
  <2>2. none = [i \in 0 .. 0 |-> IF i = 0 THEN {} ELSE Match(a, b, none[i - 1], i)]
    BY <2>1
  <2> HIDE DEF none
  <2> QED BY <1>2, <1>3, <2>2, Zenon DEF Matches
<1>4. CASE n # 0
  <2>1. n - 1 \in Nat /\ n - 1 \notin T
    BY <1>1, <1>2, <1>4
  <2>2. PICK less : Matches(a, b, n - 1, less)
    BY <2>1
  <2> DEFINE more == [i \in 0 .. n |-> IF i = n THEN Match(a, b, less[n - 1], n) ELSE less[i]]
  <2>3. ASSUME NEW i \in 0 .. n
        PROVE  more[i] = IF i = 0 THEN {} ELSE Match(a, b, more[i - 1], i)
    <3>1. i # n => i \in 0 .. n - 1
      BY <1>2
    <3>2. i # 0 => i - 1 \in 0 .. n - 1 /\ i - 1 # n /\ i - 1 \in 0 .. n
      BY <1>2
    <3>3. i # 0 => more[i - 1] = less[i - 1]
      BY <3>2
    <3>4. i # n => less[i] = IF i = 0 THEN {} ELSE Match(a, b, less[i - 1], i)
      BY <2>2, <3>1, Zenon DEF Matches
    <3>5. CASE i = n
      BY <1>4, <3>3, <3>5
    <3>6. CASE i # n
      <4>1. more[i] = less[i]
        BY <3>6
      <4> QED BY <3>3, <3>4, <3>6, <4>1, Zenon
    <3> QED BY <3>5, <3>6
  <2>4. more = [i \in 0 .. n |-> more[i]]
    OBVIOUS
  <2> HIDE DEF more
  <2>5. Matches(a, b, n, more)
    BY <2>3, <2>4 DEF Matches
  <2> QED BY <1>2, <2>5
<1> QED BY <1>3, <1>4

LEMMA MatchedIsStable ==
    ASSUME NEW S, NEW a \in Seq(S), NEW b \in Seq(S)
    PROVE  Stable(a, b, Matched(a, b))
<1> DEFINE upto == CHOOSE u : Matches(a, b, Len(a), u)
<1>1. Matched(a, b) = upto[Len(a)]
  BY DEF Matched, Matches
<1>2. Matches(a, b, Len(a), upto)
  <2>1. Len(a) \in Nat
    OBVIOUS
  <2> QED BY <2>1, MatchesExist
<1> HIDE DEF upto
<1> DEFINE T == {n \in 0 .. Len(a) : ~StableTo(a, b, n, upto[n])}
<1>3. T = {}
  <2> SUFFICES ASSUME T # {} PROVE FALSE
    OBVIOUS
  <2>1. PICK n \in T : \A k \in T : n <= k
    <3>1. T \in SUBSET Nat
      OBVIOUS
    <3> HIDE DEF T
    <3> QED BY <3>1, LeastNumber
  <2>2. n \in 0 .. Len(a) /\ ~StableTo(a, b, n, upto[n])
    OBVIOUS
  <2>3. upto[n] = IF n = 0 THEN {} ELSE Match(a, b, upto[n - 1], n)
    BY <1>2, <2>2, Zenon DEF Matches
  <2>4. CASE n = 0
    <3>1. upto[n] = {}
      BY <2>3, <2>4
    <3>2. 1 .. n = {}
      BY <2>4
    <3>3. StableTo(a, b, n, {})
      BY <3>2 DEF StableTo
    <3> QED BY <2>2, <3>1, <3>3
  <2>5. CASE n # 0
    <3>1. n - 1 \in 0 .. Len(a) /\ n \in 1 .. Len(a) /\ n - 1 < n
      BY <2>2, <2>5
    <3>2. n - 1 \notin T
      BY <2>1, <3>1
    <3>3. StableTo(a, b, n - 1, upto[n - 1])
      BY <3>1, <3>2
    <3> QED BY <2>2, <2>3, <2>5, <3>1, <3>3, MatchKeeps
  <2> QED BY <2>4, <2>5
<1>4. StableTo(a, b, Len(a), upto[Len(a)])
  <2>1. Len(a) \in 0 .. Len(a)
    OBVIOUS
  <2> QED BY <1>3, <2>1
<1>5. DOMAIN a = 1 .. Len(a)
  OBVIOUS
<1> QED BY <1>1, <1>4, <1>5 DEF Stable, StableTo

LEMMA MatchedBothWays ==
    ASSUME NEW S, NEW a \in Seq(S), NEW b \in Seq(S)
    PROVE  Matched(b, a) = Flipped(Matched(a, b))
<1>1. Stable(b, a, Matched(b, a))
  BY MatchedIsStable
<1>2. Stable(b, a, Flipped(Matched(a, b)))
  BY MatchedIsStable, StableBothWays
<1> QED BY <1>1, <1>2, OneStable

-----------------------------------------------------------------------------
(* What jaro makes of them is the same from either word.                      *)

LEMMA SameSize ==
    ASSUME NEW S, NEW T, IsFiniteSet(S), NEW f \in [S -> T], NEW g \in [T -> S],
           \A x \in S : g[f[x]] = x, \A y \in T : f[g[y]] = y
    PROVE  IsFiniteSet(T) /\ Cardinality(T) = Cardinality(S)
<1>1. \A x, y \in S : f[x] = f[y] => x = y
  <2> TAKE x, y \in S
  <2>1. g[f[x]] = x /\ g[f[y]] = y
    OBVIOUS
  <2> QED BY <2>1
<1>2. f \in Injection(S, T)
  BY <1>1 DEF Injection, IsInjective
<1>3. \A y \in T : \E x \in S : f[x] = y
  OBVIOUS
<1>4. f \in Surjection(S, T)
  BY <1>3 DEF Surjection
<1>5. ExistsBijection(S, T)
  BY <1>2, <1>4 DEF Bijection, ExistsBijection
<1> QED BY <1>5, FS_Bijection

LEMMA FlippedSize ==
    ASSUME NEW m, IsFiniteSet(m), \A p \in m : p = <<p[1], p[2]>>
    PROVE  Cardinality(Flipped(m)) = Cardinality(m)
<1> DEFINE T == Flipped(m)
<1>1. /\ \A p \in m : <<p[2], p[1]>> \in T
      /\ \A q \in T : \E p \in m : q[1] = p[2] /\ q[2] = p[1] /\ q = <<p[2], p[1]>>
  BY FlippedParts
<1> HIDE DEF T
<1>2. \A q \in T : q = <<q[1], q[2]>> /\ <<q[2], q[1]>> \in m
  <2> TAKE q \in T
  <2>1. PICK p \in m : q[1] = p[2] /\ q[2] = p[1] /\ q = <<p[2], p[1]>>
    BY <1>1
  <2>2. p = <<q[2], q[1]>>
    BY <2>1
  <2> QED BY <2>1, <2>2
<1> DEFINE f == [p \in m |-> <<p[2], p[1]>>]
           g == [q \in T |-> <<q[2], q[1]>>]
<1>3. f \in [m -> T] /\ g \in [T -> m]
  BY <1>1, <1>2
<1>4. ASSUME NEW p \in m PROVE g[f[p]] = p
  <2> DEFINE q == <<p[2], p[1]>>
  <2>1. q \in T /\ f[p] = q /\ q[1] = p[2] /\ q[2] = p[1]
    BY <1>1
  <2> HIDE DEF q
  <2>2. g[q] = <<q[2], q[1]>>
    BY <2>1
  <2> HIDE DEF f, g
  <2> QED BY <2>1, <2>2
<1>5. ASSUME NEW q \in T PROVE f[g[q]] = q
  <2> DEFINE p == <<q[2], q[1]>>
  <2>1. p \in m /\ g[q] = p /\ p[1] = q[2] /\ p[2] = q[1]
    BY <1>2
  <2> HIDE DEF p
  <2>2. f[p] = <<p[2], p[1]>>
    BY <2>1
  <2> HIDE DEF f, g
  <2> QED BY <1>2, <2>1, <2>2
<1> HIDE DEF f, g
<1>6. Cardinality(T) = Cardinality(m)
  BY <1>3, <1>4, <1>5, SameSize
<1> QED BY <1>6 DEF T

Firsts(m) == {p[1] : p \in m}
Seconds(m) == {p[2] : p \in m}

LEMMA FlippedSides ==
    ASSUME NEW m
    PROVE  Firsts(Flipped(m)) = Seconds(m) /\ Seconds(Flipped(m)) = Firsts(m)
<1> DEFINE T == Flipped(m)
<1>1. \A p \in m : \E q \in T : q[1] = p[2] /\ q[2] = p[1]
  <2> TAKE p \in m
  <2>1. <<p[2], p[1]>> \in T
    BY FlippedParts
  <2> QED BY <2>1
<1>2. \A q \in T : \E p \in m : q[1] = p[2] /\ q[2] = p[1]
  BY FlippedParts
<1> HIDE DEF T
<1>3. Firsts(T) = Seconds(m)
  BY <1>1, <1>2 DEF Firsts, Seconds
<1>4. Seconds(T) = Firsts(m)
  BY <1>1, <1>2 DEF Firsts, Seconds
<1> QED BY <1>3, <1>4 DEF T

\* a letter of a and one of b that stand at the same place of those matched
Odd(a, b, m, i, j) == Rank(Firsts(m), i) = Rank(Seconds(m), j) /\ a[i] # b[j]

LEMMA MisplacedIs ==
    ASSUME NEW a, NEW b, NEW m
    PROVE  Misplaced(a, b, m) = {p \in Firsts(m) \X Seconds(m) : Odd(a, b, m, p[1], p[2])}
  BY Zenon DEF Misplaced, Odd, Firsts, Seconds

LEMMA MisplacedBothWays ==
    ASSUME NEW a, NEW b, NEW m
    PROVE  Misplaced(b, a, Flipped(m)) = Flipped(Misplaced(a, b, m))
<1> DEFINE A == Firsts(m)
           B == Seconds(m)
           ours == Misplaced(a, b, m)
           theirs == Misplaced(b, a, Flipped(m))
<1>1. ASSUME NEW i, NEW j
      PROVE  Odd(b, a, Flipped(m), j, i) <=> Odd(a, b, m, i, j)
  BY FlippedSides DEF Odd
<1>2. theirs = {q \in B \X A : Odd(b, a, Flipped(m), q[1], q[2])}
  BY MisplacedIs, FlippedSides
<1>3. ours = {p \in A \X B : Odd(a, b, m, p[1], p[2])}
  BY MisplacedIs
<1> HIDE DEF A, B, ours, theirs
<1>4. \A q \in theirs : \E p \in ours : q = <<p[2], p[1]>>
  <2> TAKE q \in theirs
  <2>1. q = <<q[1], q[2]>> /\ q[1] \in B /\ q[2] \in A /\ Odd(b, a, Flipped(m), q[1], q[2])
    <3>1. theirs \subseteq B \X A /\ Odd(b, a, Flipped(m), q[1], q[2])
      BY <1>2, Zenon
    <3> QED BY <3>1, Parts
  <2>2. Odd(a, b, m, q[2], q[1])
    BY <1>1, <2>1
  <2> DEFINE p == <<q[2], q[1]>>
  <2>3. p[1] = q[2] /\ p[2] = q[1] /\ p \in A \X B
    BY <2>1
  <2> HIDE DEF p
  <2>4. p \in ours
    BY <1>3, <2>2, <2>3
  <2> QED BY <2>1, <2>3, <2>4
<1>5. \A p \in ours : <<p[2], p[1]>> \in theirs
  <2> TAKE p \in ours
  <2>1. p[1] \in A /\ p[2] \in B /\ Odd(a, b, m, p[1], p[2])
    BY <1>3
  <2>2. Odd(b, a, Flipped(m), p[2], p[1])
    BY <1>1, <2>1
  <2> DEFINE q == <<p[2], p[1]>>
  <2>3. q[1] = p[2] /\ q[2] = p[1] /\ q \in B \X A
    BY <2>1
  <2> HIDE DEF q
  <2>4. q \in theirs
    BY <1>2, <2>2, <2>3
  <2> QED BY <2>4 DEF q
<1>6. theirs = Flipped(ours)
  BY <1>4, <1>5 DEF Flipped
<1> QED BY <1>6 DEF ours, theirs

LEMMA MatchedFinite ==
    ASSUME NEW S, NEW a \in Seq(S), NEW b \in Seq(S)
    PROVE  /\ IsFiniteSet(Matched(a, b)) /\ \A p \in Matched(a, b) : p = <<p[1], p[2]>>
           /\ IsFiniteSet(Misplaced(a, b, Matched(a, b)))
           /\ \A p \in Misplaced(a, b, Matched(a, b)) : p = <<p[1], p[2]>>
<1> DEFINE m == Matched(a, b)
           A == DOMAIN a
           B == DOMAIN b
<1>1. m \subseteq A \X B
  BY MatchedIsStable DEF Stable
<1>2. \A p \in m : p[1] \in A /\ p[2] \in B /\ p = <<p[1], p[2]>>
  <2> HIDE DEF m, A, B
  <2> QED BY <1>1, Parts
<1>3. IsFiniteSet(A \X B)
  <2>1. A = 1 .. Len(a) /\ B = 1 .. Len(b) /\ Len(a) \in Int /\ Len(b) \in Int /\ 1 \in Int
    OBVIOUS
  <2>2. IsFiniteSet(A) /\ IsFiniteSet(B)
    <3> HIDE DEF A, B
    <3> QED BY <2>1, FS_Interval
  <2> HIDE DEF A, B
  <2> QED BY <2>2, FS_Product
<1> HIDE DEF m, A, B
<1>4. Misplaced(a, b, m) \subseteq A \X B
  BY <1>2 DEF Misplaced
<1>5. \A p \in Misplaced(a, b, m) : p = <<p[1], p[2]>>
  BY <1>4
<1>6. IsFiniteSet(m) /\ IsFiniteSet(Misplaced(a, b, m))
  BY <1>1, <1>3, <1>4, FS_Subset
<1> QED BY <1>2, <1>5, <1>6 DEF m

LEMMA OfMatchesBothWays ==
    ASSUME NEW S, NEW a \in Seq(S), NEW b \in Seq(S), NEW n \in Int, NEW t \in Int
    PROVE  OfMatches(a, b, n, t) = OfMatches(b, a, n, t)
<1>1. Len(a) \in Int /\ Len(b) \in Int
  OBVIOUS
<1> DEFINE x == Len(a)
           y == Len(b)
<1>2. x \in Int /\ y \in Int
  BY <1>1
<1> HIDE DEF x, y
<1>3. n * n * (x + y) + (n - t) * x * y = n * n * (y + x) + (n - t) * y * x
  BY <1>2
<1>4. 3 * x * y * n = 3 * y * x * n
  BY <1>2
<1> QED BY <1>3, <1>4, Zenon DEF OfMatches, x, y

\* jaro finds no difference between a word of the query and a word of the list.
LEMMA JaroBothWays ==
    ASSUME NEW S, NEW a \in Seq(S), NEW b \in Seq(S)
    PROVE  jaro(a, b) = jaro(b, a)
<1> DEFINE m == Matched(a, b)
           n == Cardinality(m)
           k == Cardinality(Misplaced(a, b, m))
<1>1. /\ IsFiniteSet(m) /\ \A p \in m : p = <<p[1], p[2]>>
      /\ IsFiniteSet(Misplaced(a, b, m)) /\ \A p \in Misplaced(a, b, m) : p = <<p[1], p[2]>>
  BY MatchedFinite
<1>2. n \in Nat /\ k \in Nat
  <2> HIDE DEF m
  <2> QED BY <1>1, FS_CardinalityType
<1>3. Matched(b, a) = Flipped(m)
  BY MatchedBothWays
<1>4. Misplaced(b, a, Flipped(m)) = Flipped(Misplaced(a, b, m))
  BY MisplacedBothWays
<1> HIDE DEF m
<1>5. Cardinality(Flipped(m)) = n /\ Cardinality(Flipped(Misplaced(a, b, m))) = k
  BY <1>1, FlippedSize
<1>6. jaro(b, a) = IF b = a THEN One ELSE OfMatches(b, a, n, k \div 2)
  BY <1>3, <1>4, <1>5, Zenon DEF jaro
<1>7. jaro(a, b) = IF a = b THEN One ELSE OfMatches(a, b, n, k \div 2)
  BY Zenon DEF jaro, m
<1>8. OfMatches(a, b, n, k \div 2) = OfMatches(b, a, n, k \div 2)
  <2>1. n \in Int /\ k \div 2 \in Int
    BY <1>2
  <2> HIDE DEF n, k
  <2> QED BY <2>1, OfMatchesBothWays
<1> QED BY <1>6, <1>7, <1>8, Zenon

LEMMA WinklerBothWays ==
    ASSUME NEW S, NEW a \in Seq(S), NEW b \in Seq(S)
    PROVE  jaro_winkler(a, b) = jaro_winkler(b, a)
<1>1. \A k \in 0 .. 4 :
         k <= Len(a) /\ k <= Len(b) /\ SubSeq(a, 1, k) = SubSeq(b, 1, k)
           <=> k <= Len(b) /\ k <= Len(a) /\ SubSeq(b, 1, k) = SubSeq(a, 1, k)
  BY Zenon
<1>2. {k \in 0 .. 4 : k <= Len(a) /\ k <= Len(b) /\ SubSeq(a, 1, k) = SubSeq(b, 1, k)}
        = {k \in 0 .. 4 : k <= Len(b) /\ k <= Len(a) /\ SubSeq(b, 1, k) = SubSeq(a, 1, k)}
  BY <1>1, Zenon
<1>3. Prefix(a, b) = Prefix(b, a)
  BY <1>2, Zenon DEF Prefix
<1> QED BY <1>3, JaroBothWays, Zenon DEF jaro_winkler

-----------------------------------------------------------------------------
(* The names asked about and listed.                                          *)

\* THEOREM: names are sequences of words, words sequences of letters.
THEOREM NamesTypeCorrect == NamesSpec => []NamesTypeOK
<1>1. NamesInit => NamesTypeOK
  BY DEF NamesInit, NamesTypeOK
<1>2. NamesTypeOK /\ [NamesNext]_nameVars => NamesTypeOK'
  <2> SUFFICES ASSUME NamesTypeOK, [NamesNext]_nameVars PROVE NamesTypeOK'
    OBVIOUS
  <2>1. query \in Seq(Seq(Letters)) /\ cand \in Seq(Seq(Letters))
    BY DEF NamesTypeOK
  <2>2. ASSUME NEW name \in Seq(Seq(Letters)), NEW l \in Letters
        PROVE  Longer(name, l) \subseteq Seq(Seq(Letters))
    <3>1. <<l>> \in Seq(Letters)
      OBVIOUS
    <3>2. Append(name, <<l>>) \in Seq(Seq(Letters))
      BY <3>1
    <3>3. CASE name = <<>>
      BY <3>2, <3>3 DEF Longer
    <3>4. CASE name # <<>>
      <4>1. Len(name) \in DOMAIN name /\ name[Len(name)] \in Seq(Letters)
        BY <3>4
      <4>2. Append(name[Len(name)], l) \in Seq(Letters)
        BY <4>1
      <4>3. [name EXCEPT ![Len(name)] = Append(@, l)] \in Seq(Seq(Letters))
        BY <4>1, <4>2
      <4> QED BY <3>2, <3>4, <4>3 DEF Longer
    <3> QED BY <3>3, <3>4
  <2>3. CASE UNCHANGED nameVars
    BY <2>1, <2>3 DEF nameVars, NamesTypeOK
  <2>4. ASSUME NEW l \in Letters, query' \in Longer(query, l), UNCHANGED cand
        PROVE  NamesTypeOK'
    BY <2>1, <2>2, <2>4 DEF NamesTypeOK
  <2>5. ASSUME NEW l \in Letters, cand' \in Longer(cand, l), UNCHANGED query
        PROVE  NamesTypeOK'
    BY <2>1, <2>2, <2>5 DEF NamesTypeOK
  <2> QED BY <2>3, <2>4, <2>5, Zenon DEF NamesNext
<1> QED BY <1>1, <1>2, PTL DEF NamesSpec

\* THEOREM: a word of the query is as like a word of the watchlist as that is
\* like it, whatever the words: jaro walks the first and takes what is free of
\* the second, and a walk of the second would have matched the same letters.
THEOREM NoMatterWhichIsWalked == NamesSpec => []WordsMatchBothWays
<1>1. NamesTypeOK => WordsMatchBothWays
  <2> SUFFICES ASSUME NamesTypeOK, NEW i \in DOMAIN query, NEW k \in DOMAIN cand
               PROVE  jaro_winkler(query[i], cand[k]) = jaro_winkler(cand[k], query[i])
    BY DEF WordsMatchBothWays
  <2>1. query \in Seq(Seq(Letters)) /\ cand \in Seq(Seq(Letters))
    BY DEF NamesTypeOK
  <2>2. query[i] \in Seq(Letters) /\ cand[k] \in Seq(Letters)
    BY <2>1
  <2> QED BY <2>2, WinklerBothWays
<1> QED BY <1>1, NamesTypeCorrect, PTL

-----------------------------------------------------------------------------
(* Fractions.                                                                 *)

Positive == Nat \ {0}

LEMMA MulOrder ==
    ASSUME NEW g \in Positive, NEW u \in Int, NEW v \in Int
    PROVE  (g * u <= g * v <=> u <= v) /\ (g * u = g * v <=> u = v) /\ g * u \in Int /\ g * v \in Int
<1>1. u < v => g * u < g * v
  <2> SUFFICES ASSUME u < v PROVE g * u < g * v
    OBVIOUS
  <2>1. PICK w \in Positive : v = u + w
    BY DEF Positive
  <2>2. g * v = g * u + g * w
    BY <2>1 DEF Positive
  <2>3. g * w > 0 /\ g * w \in Int /\ g * u \in Int
    BY DEF Positive
  <2> QED BY <2>2, <2>3
<1>2. v < u => g * v < g * u
  <2> SUFFICES ASSUME v < u PROVE g * v < g * u
    OBVIOUS
  <2>1. PICK w \in Positive : u = v + w
    BY DEF Positive
  <2>2. g * u = g * v + g * w
    BY <2>1 DEF Positive
  <2>3. g * w > 0 /\ g * w \in Int /\ g * v \in Int
    BY DEF Positive
  <2> QED BY <2>2, <2>3
<1>3. g * u \in Int /\ g * v \in Int
  BY DEF Positive
<1>4. u < v \/ v < u \/ u = v
  OBVIOUS
<1> QED BY <1>1, <1>2, <1>3, <1>4

\* The function that computes common divisors exists.
Greatest(D) == CHOOSE d \in D : \A e \in D : e <= d
Divides(d, x) == \E k \in Nat : x = d * k
Common(x, y) == {d \in Positive : Divides(d, x) /\ Divides(d, y)}

LEMMA DividesLess ==
    ASSUME NEW d \in Positive, NEW x \in Positive, Divides(d, x)
    PROVE  d <= x
<1>1. PICK k \in Nat : x = d * k
  BY DEF Divides
<1>2. k # 0
  BY <1>1 DEF Positive
<1>3. d * 1 <= d * k
  BY <1>2, MulOrder
<1> QED BY <1>1, <1>3 DEF Positive

LEMMA DivMod ==
    ASSUME NEW x \in Nat, NEW y \in Positive
    PROVE  /\ x % y \in 0 .. y - 1 /\ x \div y \in Nat
           /\ x = y * (x \div y) + (x % y)
<1>1. y \in Nat /\ y > 0
  BY DEF Positive
<1>2. x % y \in 0 .. y - 1 /\ x \div y \in Nat
  BY <1>1
<1>3. x = y * (x \div y) + (x % y)
  BY <1>1
<1> QED BY <1>2, <1>3

LEMMA DividesSum ==
    ASSUME NEW d \in Positive, NEW u \in Nat, NEW v \in Nat, Divides(d, u), Divides(d, v), NEW q \in Nat
    PROVE  /\ Divides(d, u * q + v)
           /\ u * q <= v => Divides(d, v - u * q)
<1>1. PICK k \in Nat : u = d * k
  BY DEF Divides
<1>2. PICK l \in Nat : v = d * l
  BY DEF Divides
<1>3. u * q + v = d * (k * q + l) /\ k * q + l \in Nat
  BY <1>1, <1>2 DEF Positive
<1>4. v - u * q = d * (l - k * q) /\ l - k * q \in Int
  BY <1>1, <1>2 DEF Positive
<1>5. u * q <= v => l - k * q \in Nat
  <2>1. d * 0 <= d * (l - k * q) <=> 0 <= l - k * q
    BY <1>4, MulOrder
  <2>2. d * 0 = 0 /\ u * q \in Nat
    BY DEF Positive
  <2> QED BY <1>4, <2>1, <2>2
<1> QED BY <1>3, <1>4, <1>5 DEF Divides

LEMMA CommonSteps ==
    ASSUME NEW x \in Nat, NEW y \in Positive
    PROVE  Common(x, y) = Common(y, x % y)
<1> DEFINE r == x % y
           q == x \div y
<1>1. r \in Nat /\ q \in Nat /\ x = y * q + r
  BY DivMod
<1> HIDE DEF r, q
<1>2. ASSUME NEW d \in Positive, Divides(d, y), Divides(d, r) PROVE Divides(d, x)
  <2>1. y \in Nat
    BY DEF Positive
  <2> QED BY <1>1, <1>2, <2>1, DividesSum
<1>3. ASSUME NEW d \in Positive, Divides(d, y), Divides(d, x) PROVE Divides(d, r)
  <2>1. y \in Nat /\ y * q \in Nat /\ y * q <= x /\ x - y * q = r
    BY <1>1 DEF Positive
  <2> QED BY <1>1, <1>3, <2>1, DividesSum
<1>4. Common(x, y) = Common(y, r)
  BY <1>2, <1>3 DEF Common
<1> QED BY <1>4 DEF r

GcdStep(g, p) == IF p[2] = 0 THEN p[1] ELSE g[<<p[2], p[1] % p[2]>>]

LEMMA GcdExists == \E g : g = [p \in Nat \X Nat |-> GcdStep(g, p)]
<1> DEFINE true == [p \in Nat \X Nat |-> IF p[2] = 0 THEN p[1] ELSE Greatest(Common(p[1], p[2]))]
<1>1. ASSUME NEW p \in Nat \X Nat PROVE true[p] = GcdStep(true, p)
  <2> DEFINE x == p[1]
             y == p[2]
  <2>1. x \in Nat /\ y \in Nat
    OBVIOUS
  <2>2. CASE y = 0
    BY <2>2 DEF GcdStep
  <2>3. CASE y # 0
    <3>1. y \in Positive /\ x % y \in Nat
      BY <2>1, <2>3, DivMod DEF Positive
    <3> DEFINE r == x % y
    <3>2. Common(x, y) = Common(y, r)
      BY <2>1, <3>1, CommonSteps
    <3> DEFINE next == <<y, r>>
    <3>3. next \in Nat \X Nat /\ next[1] = y /\ next[2] = r
      BY <2>1, <3>1
    <3>4. true[next] = IF r = 0 THEN y ELSE Greatest(Common(y, r))
      <4> HIDE DEF next
      <4> QED BY <3>3
    <3>5. true[p] = Greatest(Common(x, y))
      BY <2>3
    <3>6. GcdStep(true, p) = true[next]
      BY <2>3, Zenon DEF GcdStep
    <3> HIDE DEF true, next, r, x, y
    <3>7. CASE r = 0
      <4>1. y \in Common(y, r)
        <5>1. y = y * 1 /\ 0 = y * 0
          BY <2>1
        <5> QED BY <3>1, <3>7, <5>1 DEF Common, Divides
      <4>2. \A e \in Common(y, r) : e <= y
        BY <3>1, DividesLess DEF Common
      <4>3. Greatest(Common(y, r)) = y
        <5>1. \A d \in Common(y, r) : d \in Nat
          BY DEF Common, Positive
        <5> DEFINE D == Common(y, r)
        <5>2. y \in D /\ (\A e \in D : e <= y) /\ (\A d \in D : d \in Nat)
          BY <4>1, <4>2, <5>1
        <5> HIDE DEF D
        <5>3. Greatest(D) \in D /\ \A e \in D : e <= Greatest(D)
          BY <5>2 DEF Greatest
        <5> QED BY <5>2, <5>3 DEF D
      <4> QED BY <3>2, <3>4, <3>5, <3>6, <3>7, <4>3
    <3>8. CASE r # 0
      BY <3>2, <3>4, <3>5, <3>6, <3>8
    <3> QED BY <3>7, <3>8
  <2> QED BY <2>2, <2>3
<1>2. true = [p \in Nat \X Nat |-> true[p]]
  OBVIOUS
<1> HIDE DEF true
<1>3. true = [p \in Nat \X Nat |-> GcdStep(true, p)]
  BY <1>1, <1>2
<1> QED BY <1>3

LEMMA GcdSteps ==
    ASSUME NEW x \in Nat, NEW y \in Nat
    PROVE  gcd[<<x, y>>] = IF y = 0 THEN x ELSE gcd[<<y, x % y>>]
<1>1. gcd = CHOOSE g : g = [p \in Nat \X Nat |-> GcdStep(g, p)]
  BY Zenon DEF gcd, GcdStep
<1>2. gcd = [p \in Nat \X Nat |-> GcdStep(gcd, p)]
  BY <1>1, GcdExists
<1> DEFINE p == <<x, y>>
<1>3. p \in Nat \X Nat /\ p[1] = x /\ p[2] = y
  OBVIOUS
<1> HIDE DEF p
<1>4. gcd[p] = GcdStep(gcd, p)
  BY <1>2, <1>3, Zenon
<1>5. gcd[p] = IF y = 0 THEN x ELSE gcd[<<y, x % y>>]
  BY <1>3, <1>4, Zenon DEF GcdStep
<1> QED BY <1>5 DEF p

LEMMA GcdDivides ==
    \A y \in Nat : \A x \in Nat : x + y # 0 => gcd[<<x, y>>] \in Common(x, y)
<1> DEFINE T == {y \in Nat : \E x \in Nat : x + y # 0 /\ gcd[<<x, y>>] \notin Common(x, y)}
<1> SUFFICES ASSUME T # {} PROVE FALSE
  OBVIOUS
<1>1. PICK y \in T : \A k \in T : y <= k
  <2>1. T \in SUBSET Nat
    OBVIOUS
  <2> HIDE DEF T
  <2> QED BY <2>1, LeastNumber
<1>2. y \in Nat
  OBVIOUS
<1>3. PICK x \in Nat : x + y # 0 /\ gcd[<<x, y>>] \notin Common(x, y)
  OBVIOUS
<1>4. CASE y = 0
  <2>1. x \in Positive /\ x = x * 1 /\ 0 = x * 0
    BY <1>3, <1>4 DEF Positive
  <2>2. x \in Common(x, y)
    BY <1>4, <2>1 DEF Common, Divides
  <2> QED BY <1>3, <1>4, <2>2, GcdSteps
<1>5. CASE y # 0
  <2>1. y \in Positive
    BY <1>2, <1>5 DEF Positive
  <2> DEFINE r == x % y
  <2>2. r \in Nat /\ r < y
    BY <1>3, <2>1, DivMod DEF Positive
  <2>3. r \notin T
    <3> HIDE DEF T, r
    <3> QED BY <1>1, <1>2, <2>2
  <2>4. y + r # 0
    BY <1>2, <1>5, <2>2
  <2>5. gcd[<<y, r>>] \in Common(y, r)
    BY <1>2, <2>2, <2>3, <2>4
  <2>6. gcd[<<x, y>>] = gcd[<<y, r>>]
    BY <1>2, <1>3, <1>5, GcdSteps
  <2>7. Common(x, y) = Common(y, r)
    BY <1>3, <2>1, CommonSteps
  <2> QED BY <1>3, <2>5, <2>6, <2>7
<1> QED BY <1>4, <1>5

LEMMA DivExact ==
    ASSUME NEW g \in Positive, NEW k \in Nat
    PROVE  (g * k) \div g = k
<1> DEFINE x == g * k
           q == x \div g
           r == x % g
<1>1. x \in Nat
  BY DEF Positive
<1>2. q \in Nat /\ r \in 0 .. g - 1 /\ x = g * q + r
  <2> HIDE DEF x
  <2> QED BY <1>1, DivMod
<1>3. g * q <= g * k /\ g * k < g * q + g
  <2>1. g * q \in Int
    BY <1>2 DEF Positive
  <2> QED BY <1>2, <2>1 DEF Positive
<1> HIDE DEF q, r
<1>4. q <= k
  BY <1>2, <1>3, MulOrder
<1>5. g * (q + 1) = g * q + g /\ g * q \in Int /\ g * k \in Int
  BY <1>2 DEF Positive
<1>6. k + 1 <= q + 1
  <2>1. ~(g * (q + 1) <= g * k)
    BY <1>3, <1>5 DEF Positive
  <2>2. ~(q + 1 <= k)
    BY <1>2, <2>1, MulOrder
  <2> QED BY <1>2, <2>2
<1>7. q = k
  BY <1>2, <1>4, <1>6
<1> QED BY <1>7 DEF q

\* What a fraction of the model is: its value is kept, and a whole is One.
Fraction(x) == x.n \in Nat /\ x.d \in Positive
AtMost(x, k) == x.n <= k * x.d
Is(x, k) == x.n = k * x.d

LEMMA FracIs ==
    ASSUME NEW n \in Nat, NEW d \in Positive
    PROVE  LET x == Frac(n, d) IN
           /\ Fraction(x) /\ (x = One <=> Is(x, 1)) /\ (x = One <=> n = d)
           /\ \A k \in Nat : (AtMost(x, k) <=> n <= k * d) /\ (Is(x, k) <=> n = k * d)
<1> DEFINE g == gcd[<<n, d>>]
           x == Frac(n, d)
<1>1. g \in Common(n, d)
  BY GcdDivides DEF Positive
<1>2. g \in Positive /\ Divides(g, n) /\ Divides(g, d)
  BY <1>1 DEF Common
<1> HIDE DEF g
<1>3. PICK u \in Nat : n = g * u
  BY <1>2 DEF Divides
<1>4. PICK v \in Nat : d = g * v
  BY <1>2 DEF Divides
<1>5. x = [n |-> u, d |-> v]
  <2>1. n \div g = u /\ d \div g = v
    BY <1>2, <1>3, <1>4, DivExact
  <2> QED BY <2>1 DEF Frac, g
<1>6. v \in Positive
  BY <1>2, <1>4 DEF Positive
<1>7. x.n = u /\ x.d = v
  BY <1>5
<1>8. Fraction(x)
  BY <1>6, <1>7 DEF Fraction
<1>9. ASSUME NEW k \in Nat
      PROVE  (u <= k * v <=> n <= k * d) /\ (u = k * v <=> n = k * d)
  <2>1. k * v \in Int /\ g * (k * v) = k * d
    BY <1>2, <1>4 DEF Positive
  <2> QED BY <1>2, <1>3, <2>1, MulOrder
<1>10. \A k \in Nat : (AtMost(x, k) <=> n <= k * d) /\ (Is(x, k) <=> n = k * d)
  BY <1>7, <1>9 DEF AtMost, Is
<1>11. Is(x, 1) <=> n = d
  <2>1. 1 * d = d /\ 1 \in Nat
    BY DEF Positive
  <2> QED BY <1>10, <2>1
<1>12. x = One => n = d
  <2>1. x = One => u = 1 /\ v = 1
    BY <1>7 DEF One
  <2> QED BY <1>3, <1>4, <2>1
<1>13. n = d => x = One
  <2> SUFFICES ASSUME n = d PROVE x = One
    OBVIOUS
  <2>1. d % d = 0 /\ d # 0
    BY DEF Positive
  <2>2. gcd[<<d, d>>] = gcd[<<d, 0>>]
    <3>1. d \in Nat /\ d # 0
      BY DEF Positive
    <3>2. gcd[<<d, d>>] = gcd[<<d, d % d>>]
      BY <3>1, GcdSteps
    <3> QED BY <2>1, <3>2
  <2>3. gcd[<<d, 0>>] = d
    <3>1. d \in Nat /\ 0 \in Nat
      BY DEF Positive
    <3> QED BY <3>1, GcdSteps
  <2>4. g = d
    BY <2>2, <2>3 DEF g
  <2>5. d = d * u /\ d = d * v
    BY <1>3, <1>4, <2>4
  <2>6. d * 1 = d
    BY DEF Positive
  <2>7. u = 1 /\ v = 1
    <3>1. u \in Int /\ v \in Int /\ 1 \in Int
      BY <1>6
    <3>2. d * 1 = d * u /\ d * 1 = d * v
      BY <2>5, <2>6
    <3> QED BY <3>1, <3>2, MulOrder
  <2> QED BY <1>5, <2>7 DEF One
<1> HIDE DEF x
<1>14. Fraction(x) /\ (x = One <=> Is(x, 1)) /\ (x = One <=> n = d)
  BY <1>8, <1>11, <1>12, <1>13
<1> QED BY <1>10, <1>14 DEF x

-----------------------------------------------------------------------------
(* jaro is 1 of equal words alone.                                            *)

LEMMA FirstsSize ==
    ASSUME NEW m, IsFiniteSet(m), \A p \in m : p = <<p[1], p[2]>>, \A p, q \in m : p[1] = q[1] => p[2] = q[2]
    PROVE  IsFiniteSet(Firsts(m)) /\ Cardinality(Firsts(m)) = Cardinality(m)
<1> DEFINE I == Firsts(m)
           f == [p \in m |-> p[1]]
           g == [i \in I |-> CHOOSE p \in m : p[1] = i]
<1>1. \A p \in m : p[1] \in I
  BY DEF Firsts
<1>2. \A i \in I : g[i] \in m /\ g[i][1] = i
  <2> TAKE i \in I
  <2>1. \E p \in m : p[1] = i
    BY DEF Firsts
  <2> QED BY <2>1
<1>3. f \in [m -> I] /\ g \in [I -> m]
  BY <1>1, <1>2
<1>4. \A i \in I : f[g[i]] = i
  BY <1>2
<1>5. ASSUME NEW p \in m PROVE g[f[p]] = p
  <2>1. f[p] = p[1] /\ p[1] \in I
    BY <1>1
  <2>2. g[p[1]] \in m /\ g[p[1]][1] = p[1]
    BY <1>2, <2>1
  <2> HIDE DEF f, g, I
  <2>3. g[p[1]] = p
    BY <2>2
  <2> QED BY <2>1, <2>3
<1> HIDE DEF f, g, I
<1>6. IsFiniteSet(I) /\ Cardinality(I) = Cardinality(m)
  BY <1>3, <1>4, <1>5, SameSize
<1> QED BY <1>6 DEF I

LEMMA SecondsSize ==
    ASSUME NEW m, IsFiniteSet(m), \A p \in m : p = <<p[1], p[2]>>, \A p, q \in m : p[2] = q[2] => p[1] = q[1]
    PROVE  IsFiniteSet(Seconds(m)) /\ Cardinality(Seconds(m)) = Cardinality(m)
<1> DEFINE J == Seconds(m)
           f == [p \in m |-> p[2]]
           g == [j \in J |-> CHOOSE p \in m : p[2] = j]
<1>1. \A p \in m : p[2] \in J
  BY DEF Seconds
<1>2. \A j \in J : g[j] \in m /\ g[j][2] = j
  <2> TAKE j \in J
  <2>1. \E p \in m : p[2] = j
    BY DEF Seconds
  <2> QED BY <2>1
<1>3. f \in [m -> J] /\ g \in [J -> m]
  BY <1>1, <1>2
<1>4. \A j \in J : f[g[j]] = j
  BY <1>2
<1>5. ASSUME NEW p \in m PROVE g[f[p]] = p
  <2>1. f[p] = p[2] /\ p[2] \in J
    BY <1>1
  <2>2. g[p[2]] \in m /\ g[p[2]][2] = p[2]
    BY <1>2, <2>1
  <2> HIDE DEF f, g, J
  <2>3. g[p[2]] = p
    BY <2>2
  <2> QED BY <2>1, <2>3
<1> HIDE DEF f, g, J
<1>6. IsFiniteSet(J) /\ Cardinality(J) = Cardinality(m)
  BY <1>3, <1>4, <1>5, SameSize
<1> QED BY <1>6 DEF J

LEMMA UptoSize ==
    ASSUME NEW L \in Nat
    PROVE  IsFiniteSet(1 .. L) /\ Cardinality(1 .. L) = L
<1>1. IsFiniteSet(1 .. L) /\ Cardinality(1 .. L) = IF 1 > L THEN 0 ELSE L - 1 + 1
  BY FS_Interval
<1> QED BY <1>1

\* No word has more letters matched than it has letters.
LEMMA MatchedFits ==
    ASSUME NEW S, NEW a \in Seq(S), NEW b \in Seq(S)
    PROVE  LET m == Matched(a, b) IN
           /\ Cardinality(m) \in Nat
           /\ Firsts(m) \subseteq 1 .. Len(a) /\ Seconds(m) \subseteq 1 .. Len(b)
           /\ Cardinality(m) = Cardinality(Firsts(m)) /\ Cardinality(m) = Cardinality(Seconds(m))
           /\ Cardinality(m) <= Len(a) /\ Cardinality(m) <= Len(b)
           /\ Cardinality(m) = Len(a) => Firsts(m) = 1 .. Len(a)
           /\ Cardinality(m) = Len(b) => Seconds(m) = 1 .. Len(b)
<1> DEFINE m == Matched(a, b)
           n == Cardinality(m)
<1>1. IsFiniteSet(m) /\ \A p \in m : p = <<p[1], p[2]>>
  BY MatchedFinite
<1>2. /\ \A p \in m : p[1] \in 1 .. Len(a) /\ p[2] \in 1 .. Len(b)
      /\ \A p, q \in m : p[1] = q[1] <=> p[2] = q[2]
  <2>1. Stable(a, b, m)
    BY MatchedIsStable
  <2>2. DOMAIN a = 1 .. Len(a) /\ DOMAIN b = 1 .. Len(b)
    OBVIOUS
  <2>3. \A p \in m : p[1] \in DOMAIN a /\ p[2] \in DOMAIN b
    <3> HIDE DEF m
    <3> QED BY <2>1, StableParts
  <2>4. \A p, q \in m : p[1] = q[1] <=> p[2] = q[2]
    BY <2>1 DEF Stable
  <2> HIDE DEF m
  <2> QED BY <2>2, <2>3, <2>4
<1> HIDE DEF m
<1>3. Cardinality(Firsts(m)) = n /\ Cardinality(Seconds(m)) = n
  BY <1>1, <1>2, FirstsSize, SecondsSize
<1>4. n \in Nat
  BY <1>1, FS_CardinalityType
<1>5. Firsts(m) \subseteq 1 .. Len(a) /\ Seconds(m) \subseteq 1 .. Len(b)
  BY <1>2 DEF Firsts, Seconds
<1>6. /\ Len(a) \in Nat /\ Len(b) \in Nat
      /\ IsFiniteSet(1 .. Len(a)) /\ Cardinality(1 .. Len(a)) = Len(a)
      /\ IsFiniteSet(1 .. Len(b)) /\ Cardinality(1 .. Len(b)) = Len(b)
  <2>1. Len(a) \in Nat /\ Len(b) \in Nat
    OBVIOUS
  <2> QED BY <2>1, UptoSize
<1>7. n <= Len(a) /\ (n = Len(a) => Firsts(m) = 1 .. Len(a))
  BY <1>3, <1>5, <1>6, FS_Subset
<1>8. n <= Len(b) /\ (n = Len(b) => Seconds(m) = 1 .. Len(b))
  BY <1>3, <1>5, <1>6, FS_Subset
<1> QED BY <1>3, <1>4, <1>5, <1>7, <1>8 DEF m

\* The letters of a word that are matched come one after the other.
LEMMA RankTells ==
    ASSUME NEW L \in Nat, NEW is \in SUBSET (1 .. L), NEW i \in is, NEW j \in is, Rank(is, i) = Rank(is, j)
    PROVE  i = j
<1>1. ASSUME NEW x \in is, NEW y \in is, x < y PROVE Rank(is, x) < Rank(is, y)
  <2> DEFINE X == {k \in is : k < x}
             Y == {k \in is : k < y}
  <2>1. IsFiniteSet(is)
    <3>1. IsFiniteSet(1 .. L)
      BY FS_Interval
    <3> QED BY <3>1, FS_Subset
  <2>2. IsFiniteSet(X) /\ IsFiniteSet(Y) /\ IsFiniteSet(X \cup {x})
    <3>1. X \in SUBSET is /\ Y \in SUBSET is
      OBVIOUS
    <3> HIDE DEF X, Y
    <3> QED BY <2>1, <3>1, FS_Subset, FS_AddElement
  <2>3. x \notin X /\ X \cup {x} \subseteq Y
    <3>1. is \subseteq Nat
      OBVIOUS
    <3>2. \A k \in X : k \in Y
      BY <1>1, <3>1
    <3>3. x \in Y /\ x \notin X
      BY <1>1, <3>1
    <3> HIDE DEF X, Y
    <3> QED BY <3>2, <3>3
  <2> HIDE DEF X, Y
  <2>4. Cardinality(X \cup {x}) = Cardinality(X) + 1 /\ Cardinality(X \cup {x}) <= Cardinality(Y)
    BY <2>2, <2>3, FS_AddElement, FS_Subset
  <2>5. Cardinality(X) \in Nat /\ Cardinality(Y) \in Nat
    BY <2>2, FS_CardinalityType
  <2>6. Cardinality(X) < Cardinality(Y)
    BY <2>4, <2>5
  <2> QED BY <2>6 DEF Rank, X, Y
<1>2. \A x \in is : Rank(is, x) \in Nat
  <2> TAKE x \in is
  <2>1. IsFiniteSet(1 .. L)
    BY FS_Interval
  <2> DEFINE X == {k \in is : k < x}
  <2>2. X \in SUBSET (1 .. L)
    OBVIOUS
  <2> HIDE DEF X
  <2>3. Cardinality(X) \in Nat
    BY <2>1, <2>2, FS_Subset, FS_CardinalityType
  <2> QED BY <2>3 DEF Rank, X
<1>3. i \in Nat /\ j \in Nat /\ Rank(is, i) \in Nat
  BY <1>2
<1>4. ~(i < j) /\ ~(j < i)
  BY <1>1, <1>3
<1> QED BY <1>3, <1>4

LEMMA MisplacedFits ==
    ASSUME NEW S, NEW a \in Seq(S), NEW b \in Seq(S)
    PROVE  LET m == Matched(a, b)
               k == Cardinality(Misplaced(a, b, m))
           IN k \in Nat /\ k <= Cardinality(m)
<1> DEFINE m == Matched(a, b)
           I == Firsts(m)
           J == Seconds(m)
           M == Misplaced(a, b, m)
<1>1. /\ IsFiniteSet(M) /\ \A p \in M : p = <<p[1], p[2]>>
      /\ IsFiniteSet(m) /\ \A p \in m : p = <<p[1], p[2]>>
  BY MatchedFinite
<1>2. J \subseteq 1 .. Len(b) /\ Len(b) \in Nat /\ Cardinality(m) = Cardinality(I) /\ I \subseteq 1 .. Len(a)
  BY MatchedFits
<1>3. M = {p \in I \X J : Odd(a, b, m, p[1], p[2])}
  BY MisplacedIs
<1> HIDE DEF m, M, I, J
<1>4. M \subseteq I \X J
  BY <1>3
<1>5. \A p \in M : p[1] \in I /\ p[2] \in J
  BY <1>4, Parts
<1>6. ASSUME NEW p \in M, NEW q \in M, p[1] = q[1] PROVE p[2] = q[2]
  <2>1. Odd(a, b, m, p[1], p[2]) /\ Odd(a, b, m, q[1], q[2])
    BY <1>3, Zenon
  <2>2. Rank(J, p[2]) = Rank(J, q[2])
    BY <1>6, <2>1 DEF Odd, J
  <2> QED BY <1>2, <1>5, <2>2, RankTells
<1>7. Cardinality(Firsts(M)) = Cardinality(M)
  BY <1>1, <1>6, FirstsSize
<1>8. Firsts(M) \subseteq I
  BY <1>5 DEF Firsts
<1>9. IsFiniteSet(I)
  <2>1. Len(a) \in Int
    OBVIOUS
  <2>2. IsFiniteSet(1 .. Len(a))
    BY <2>1, FS_Interval
  <2> QED BY <1>2, <2>2, FS_Subset
<1>10. Cardinality(M) \in Nat /\ Cardinality(M) <= Cardinality(m)
  BY <1>1, <1>2, <1>7, <1>8, <1>9, FS_Subset, FS_CardinalityType
<1> QED BY <1>10 DEF m, M

\* Words all of whose letters are matched are equal or have two letters at least
\* out of place: one alone would be a letter that one word has oftener.
LEMMA NoOneMisplaced ==
    ASSUME NEW S, NEW a \in Seq(S), NEW b \in Seq(S), a # b, NEW L \in Nat, Len(a) = L, Len(b) = L,
           Cardinality(Matched(a, b)) = L
    PROVE  ~(Cardinality(Misplaced(a, b, Matched(a, b))) <= 1)
<1> DEFINE m == Matched(a, b)
           M == Misplaced(a, b, m)
           I == 1 .. L
<1>1. Firsts(m) = I /\ Seconds(m) = I
  BY MatchedFits
<1>2. /\ IsFiniteSet(m) /\ \A p \in m : p = <<p[1], p[2]>>
      /\ IsFiniteSet(M)
  BY MatchedFinite
<1>3. Stable(a, b, m)
  BY MatchedIsStable
<1>4. M = {p \in I \X I : Odd(a, b, m, p[1], p[2])}
  <2>1. M = {p \in Firsts(m) \X Seconds(m) : Odd(a, b, m, p[1], p[2])}
    BY MisplacedIs
  <2> HIDE DEF m, M
  <2> QED BY <1>1, <2>1
<1> HIDE DEF m, M
<1>5. \A i \in I : Odd(a, b, m, i, i) <=> a[i] # b[i]
  BY <1>1 DEF Odd
<1>6. PICK i \in I : a[i] # b[i]
  <2> SUFFICES ASSUME \A i \in I : a[i] = b[i] PROVE FALSE
    OBVIOUS
  <2>1. a = [k \in I |-> a[k]] /\ b = [k \in I |-> b[k]]
    OBVIOUS
  <2> HIDE DEF I
  <2>2. a = b
    BY <2>1
  <2> QED BY <2>2
<1> SUFFICES ASSUME Cardinality(M) <= 1 PROVE FALSE
  BY DEF M, m
<1>7. \A k \in I : a[k] # b[k] => <<k, k>> \in M
  <2> TAKE k \in I
  <2> DEFINE p == <<k, k>>
  <2>1. p \in I \X I /\ p[1] = k /\ p[2] = k
    OBVIOUS
  <2> HIDE DEF p, I
  <2>2. a[k] # b[k] => p \in M
    BY <1>4, <1>5, <2>1
  <2> QED BY <2>2 DEF p
<1>8. ASSUME NEW k \in I, a[k] # b[k] PROVE k = i
  <2>1. <<i, i>> \in M /\ <<k, k>> \in M
    BY <1>6, <1>7, <1>8
  <2>2. Cardinality(M) = 1
    <3>1. Cardinality(M) \in Nat /\ (Cardinality(M) = 0 <=> M = {})
      BY <1>2, FS_CardinalityType, FS_EmptySet
    <3> QED BY <2>1, <3>1
  <2>3. \E z : M = {z}
    BY <1>2, <2>2, FS_Singleton
  <2>4. <<i, i>> = <<k, k>>
    BY <2>1, <2>3
  <2> QED BY <2>4
<1> DEFINE x == a[i]
           mx == {p \in m : a[p[1]] = x}
           A == {k \in I : a[k] = x}
           B == {k \in I : b[k] = x}
<1>9. \A p \in m : b[p[2]] = a[p[1]]
  BY <1>3 DEF Stable, Alike
<1>10. \A p \in m : p[1] \in I /\ p[2] \in I
  BY <1>1 DEF Firsts, Seconds
<1>11. Firsts(mx) = A
  <2>1. \A k \in I : \E p \in m : p[1] = k
    BY <1>1 DEF Firsts
  <2> HIDE DEF I
  <2> QED BY <1>10, <2>1 DEF Firsts
<1>12. Seconds(mx) = B
  <2>1. \A k \in I : \E p \in m : p[2] = k
    BY <1>1 DEF Seconds
  <2> HIDE DEF I
  <2> QED BY <1>9, <1>10, <2>1 DEF Seconds
<1>13. /\ IsFiniteSet(mx) /\ \A p \in mx : p = <<p[1], p[2]>>
       /\ \A p, q \in mx : p[1] = q[1] <=> p[2] = q[2]
  <2>1. \A p, q \in m : p[1] = q[1] <=> p[2] = q[2]
    BY <1>3 DEF Stable
  <2>2. IsFiniteSet(mx)
    BY <1>2, FS_Subset
  <2> QED BY <1>2, <2>1, <2>2
<1>14. i \in A /\ i \notin B /\ A = B \cup {i}
  BY <1>6, <1>8
<1> HIDE DEF mx, A, B
<1>15. Cardinality(A) = Cardinality(B) /\ IsFiniteSet(B)
  BY <1>11, <1>12, <1>13, FirstsSize, SecondsSize
<1>16. Cardinality(A) = Cardinality(B) + 1 /\ Cardinality(B) \in Nat
  BY <1>14, <1>15, FS_AddElement, FS_CardinalityType
<1> QED BY <1>15, <1>16

LEMMA ShareOfMatches ==
    ASSUME NEW n \in Positive, NEW x \in Positive, NEW y \in Positive, n <= x, n <= y, NEW t \in Nat, t <= n
    PROVE  /\ n * n * (x + y) + (n - t) * x * y \in Nat /\ 3 * x * y * n \in Positive
           /\ n * n * (x + y) + (n - t) * x * y <= 3 * x * y * n
           /\ n * n * (x + y) + (n - t) * x * y = 3 * x * y * n <=> n = x /\ n = y /\ t = 0
<1> DEFINE q == (x * y) * n
           u == (n * x) * n
           v == (n * y) * n
           w == (x * y) * (n - t)
<1>1. /\ n \in Int /\ x \in Int /\ y \in Int /\ n > 0 /\ x > 0 /\ y > 0 /\ n - t \in Int /\ n - t >= 0
  BY DEF Positive
<1>2. n * x \in Positive /\ n * y \in Positive /\ x * y \in Positive
  <2>1. n * x \in Int /\ n * y \in Int /\ x * y \in Int
    BY <1>1
  <2>2. n * x > 0 /\ n * y > 0 /\ x * y > 0
    BY <1>1
  <2> QED BY <2>1, <2>2 DEF Positive
<1>3. q = (n * x) * y /\ q = (n * y) * x
  BY <1>1
<1>4. (u <= q <=> n <= y) /\ (u = q <=> n = y) /\ u \in Int /\ q \in Int
  BY <1>1, <1>2, <1>3, MulOrder
<1>5. (v <= q <=> n <= x) /\ (v = q <=> n = x) /\ v \in Int
  BY <1>1, <1>2, <1>3, MulOrder
<1>6. (w <= q <=> n - t <= n) /\ (w = q <=> n - t = n) /\ w \in Int
  BY <1>1, <1>2, MulOrder
<1>7. n * n * (x + y) + (n - t) * x * y = u + v + w /\ 3 * x * y * n = 3 * q
  BY <1>1
<1>8. u \in Nat /\ v \in Nat /\ w \in Nat /\ q \in Positive
  <2>1. (n * x) * 0 <= u /\ (n * y) * 0 <= v /\ (x * y) * 0 <= w /\ (x * y) * 1 <= q
    BY <1>1, <1>2, MulOrder
  <2>2. (n * x) * 0 = 0 /\ (n * y) * 0 = 0 /\ (x * y) * 0 = 0 /\ (x * y) * 1 >= 1
    BY <1>2 DEF Positive
  <2> HIDE DEF u, v, w, q
  <2> QED BY <1>4, <1>5, <1>6, <2>1, <2>2 DEF Positive
<1> HIDE DEF u, v, w, q
<1>9. u <= q /\ v <= q /\ w <= q
  BY <1>1, <1>4, <1>5, <1>6
<1>10. u + v + w \in Nat /\ 3 * q \in Positive /\ u + v + w <= 3 * q
  BY <1>8, <1>9 DEF Positive
<1>11. u + v + w = 3 * q <=> u = q /\ v = q /\ w = q
  BY <1>8, <1>9 DEF Positive
<1>12. n - t = n <=> t = 0
  BY <1>1
<1> QED BY <1>4, <1>5, <1>6, <1>7, <1>10, <1>11, <1>12

LEMMA ZeroIs == Fraction(Zero) /\ AtMost(Zero, 1) /\ ~Is(Zero, 1) /\ Zero # One
  BY DEF Zero, One, Fraction, AtMost, Is, Positive

LEMMA OneIs == Fraction(One) /\ AtMost(One, 1) /\ Is(One, 1)
  BY DEF One, Fraction, AtMost, Is, Positive

\* A share: a fraction of 1 at most, and 1 if P.
Share(x, P) == Fraction(x) /\ AtMost(x, 1) /\ (x = One <=> Is(x, 1)) /\ (x = One <=> P)

LEMMA JaroIsShare ==
    ASSUME NEW S, NEW a \in Seq(S), NEW b \in Seq(S)
    PROVE  Share(jaro(a, b), a = b)
<1> DEFINE m == Matched(a, b)
           n == Cardinality(m)
           k == Cardinality(Misplaced(a, b, m))
           t == k \div 2
<1>1. jaro(a, b) = IF a = b THEN One ELSE OfMatches(a, b, n, t)
  BY Zenon DEF jaro
<1>2. /\ n \in Nat /\ n <= Len(a) /\ n <= Len(b) /\ Len(a) \in Nat /\ Len(b) \in Nat
  BY MatchedFits
<1>3. k \in Nat /\ k <= n
  BY MisplacedFits
<1>4. a # b /\ n = Len(a) /\ n = Len(b) => ~(k <= 1)
  BY <1>2, NoOneMisplaced
<1> HIDE DEF m, n, k
<1>5. t \in Nat /\ t <= n /\ (t = 0 => k <= 1)
  BY <1>2, <1>3
<1> HIDE DEF t
<1>6. CASE a = b
  BY <1>1, <1>6, OneIs DEF Share
<1>7. CASE a # b /\ n = 0
  <2>1. jaro(a, b) = Zero
    BY <1>1, <1>7 DEF OfMatches
  <2> QED BY <1>7, <2>1, ZeroIs DEF Share
<1>8. CASE a # b /\ n # 0
  <2> DEFINE x == Len(a)
             y == Len(b)
             N == n * n * (x + y) + (n - t) * x * y
             D == 3 * x * y * n
  <2>1. jaro(a, b) = Frac(N, D)
    BY <1>1, <1>8 DEF OfMatches
  <2>2. n \in Positive /\ x \in Positive /\ y \in Positive
    BY <1>2, <1>8 DEF Positive
  <2>3. ~(n = x /\ n = y /\ t = 0)
    BY <1>4, <1>5, <1>8
  <2> HIDE DEF x, y
  <2>4. n <= x /\ n <= y
    BY <1>2 DEF x, y
  <2>5. N \in Nat /\ D \in Positive /\ N <= D /\ N # D
    BY <1>5, <2>2, <2>3, <2>4, ShareOfMatches
  <2> HIDE DEF N, D
  <2>6. LET z == Frac(N, D) IN
        /\ Fraction(z) /\ (z = One <=> Is(z, 1)) /\ (z = One <=> N = D)
        /\ \A i \in Nat : (AtMost(z, i) <=> N <= i * D) /\ (Is(z, i) <=> N = i * D)
    BY <2>5, FracIs
  <2>7. 1 * D = D
    BY <2>5 DEF Positive
  <2>8. AtMost(Frac(N, D), 1)
    BY <2>5, <2>6, <2>7
  <2> QED BY <1>8, <2>1, <2>5, <2>6, <2>8 DEF Share
<1> QED BY <1>6, <1>7, <1>8

-----------------------------------------------------------------------------
(* jaro_winkler, and the sum of the best of them.                             *)

LEMMA PrefixIs ==
    ASSUME NEW S, NEW a \in Seq(S), NEW b \in Seq(S)
    PROVE  Prefix(a, b) \in 0 .. 4
<1> DEFINE K == {k \in 0 .. 4 : k <= Len(a) /\ k <= Len(b) /\ SubSeq(a, 1, k) = SubSeq(b, 1, k)}
           left == {4 - k : k \in K}
<1>1. K \subseteq 0 .. 4
  OBVIOUS
<1>2. 0 \in K
  <2>1. SubSeq(a, 1, 0) = <<>> /\ SubSeq(b, 1, 0) = <<>> /\ 0 <= Len(a) /\ 0 <= Len(b)
    OBVIOUS
  <2> QED BY <2>1
<1> HIDE DEF K
<1>3. left \in SUBSET Nat /\ left # {}
  BY <1>1, <1>2
<1>4. PICK l \in left : \A j \in left : l <= j
  <2> HIDE DEF left
  <2> QED BY <1>3, LeastNumber
<1>5. PICK k \in K : l = 4 - k
  OBVIOUS
<1>6. \A j \in K : j <= k
  <2> TAKE j \in K
  <2>1. 4 - j \in left
    OBVIOUS
  <2>2. 4 - k <= 4 - j
    BY <1>4, <1>5, <2>1
  <2>3. j \in Int /\ k \in Int
    BY <1>1
  <2> QED BY <2>2, <2>3
<1>7. Max(K) \in K
  BY <1>6 DEF Max
<1> QED BY <1>1, <1>7 DEF Prefix, K

LEMMA FracIsShare ==
    ASSUME NEW n \in Nat, NEW d \in Positive, n <= d, NEW P, P \in BOOLEAN, P <=> n = d
    PROVE  Share(Frac(n, d), P)
<1> DEFINE x == Frac(n, d)
<1>1. /\ Fraction(x) /\ (x = One <=> Is(x, 1)) /\ (x = One <=> n = d)
      /\ \A k \in Nat : (AtMost(x, k) <=> n <= k * d) /\ (Is(x, k) <=> n = k * d)
  BY FracIs
<1> HIDE DEF x
<1>2. 1 * d = d /\ 1 \in Nat
  BY DEF Positive
<1>3. AtMost(x, 1)
  BY <1>1, <1>2
<1>4. x = One <=> P
  BY <1>1
<1> QED BY <1>1, <1>3, <1>4 DEF Share, x

LEMMA WinklerIsShare ==
    ASSUME NEW S, NEW a \in Seq(S), NEW b \in Seq(S)
    PROVE  Share(jaro_winkler(a, b), a = b)
<1> DEFINE j == jaro(a, b)
           p == Prefix(a, b)
           n == j.n
           d == j.d
           N == 10 * n + p * (d - n)
           D == 10 * d
<1>1. Fraction(j) /\ AtMost(j, 1) /\ (j = One <=> Is(j, 1)) /\ (j = One <=> a = b)
  BY JaroIsShare DEF Share
<1>2. n \in Nat /\ d \in Nat /\ d > 0 /\ n <= 1 * d /\ (n = 1 * d <=> a = b)
  <2> HIDE DEF j
  <2> QED BY <1>1 DEF Fraction, AtMost, Is, Positive
<1>3. p \in 0 .. 4
  BY PrefixIs
<1>4. jaro_winkler(a, b) = Frac(N, D)
  BY DEF jaro_winkler, Boosted
<1> HIDE DEF n, d, p
<1>5. n <= d /\ (n = d <=> a = b)
  BY <1>2
<1>6. /\ N \in Nat /\ D \in Nat /\ D > 0 /\ N <= D
      /\ N = D <=> n = d
  <2>1. CASE p = 0
    BY <1>2, <1>5, <2>1
  <2>2. CASE p = 1
    BY <1>2, <1>5, <2>2
  <2>3. CASE p = 2
    BY <1>2, <1>5, <2>3
  <2>4. CASE p = 3
    BY <1>2, <1>5, <2>4
  <2>5. CASE p = 4
    BY <1>2, <1>5, <2>5
  <2> QED BY <1>3, <2>1, <2>2, <2>3, <2>4, <2>5
<1>7. D \in Positive /\ (a = b <=> N = D) /\ (a = b) \in BOOLEAN
  BY <1>5, <1>6 DEF Positive
<1> HIDE DEF N, D
<1> QED BY <1>4, <1>6, <1>7, FracIsShare

LEMMA LessChains ==
    ASSUME NEW x, NEW y, NEW z, Fraction(x), Fraction(y), Fraction(z), Less(x, y), Less(y, z)
    PROVE  Less(x, z)
<1> DEFINE i == x.n
           j == y.n
           k == z.n
           u == x.d
           v == y.d
           w == z.d
<1>1. i \in Nat /\ j \in Nat /\ k \in Nat /\ u \in Positive /\ v \in Positive /\ w \in Positive
  BY DEF Fraction
<1>2. i * v < j * u /\ j * w < k * v
  BY DEF Less
<1> HIDE DEF i, j, k, u, v, w
<1>3. /\ i * v \in Int /\ j * u \in Int /\ j * w \in Int /\ k * v \in Int /\ i * w \in Int /\ k * u \in Int
      /\ u \in Int /\ v \in Int /\ w \in Int /\ i \in Int /\ j \in Int /\ k \in Int
  BY <1>1 DEF Positive
<1>4. ~(w * (j * u) <= w * (i * v)) /\ ~(u * (k * v) <= u * (j * w))
  BY <1>1, <1>2, <1>3, MulOrder
<1>5. /\ w * (j * u) = u * (j * w) /\ w * (i * v) = v * (i * w) /\ u * (k * v) = v * (k * u)
      /\ w * (j * u) \in Int /\ w * (i * v) \in Int /\ u * (k * v) \in Int
  BY <1>3
<1>6. ~(v * (k * u) <= v * (i * w))
  BY <1>4, <1>5
<1>7. ~(k * u <= i * w)
  BY <1>1, <1>3, <1>6, MulOrder
<1>8. i * w < k * u
  BY <1>3, <1>7
<1> QED BY <1>8 DEF Less, i, k, u, w

\* Of finitely many scores one is the best.
LEMMA SomeBest ==
    ASSUME NEW F, IsFiniteSet(F), F # {}, NEW score, \A i \in F : Fraction(score[i])
    PROVE  \E i \in F : \A k \in F : ~Less(score[i], score[k])
<1> DEFINE T == {A \in SUBSET F : A # {} /\ ~\E i \in A : \A k \in A : ~Less(score[i], score[k])}
<1>0. T = {} => \E i \in F : \A k \in F : ~Less(score[i], score[k])
  OBVIOUS
<1> SUFFICES ASSUME T # {} PROVE FALSE
  BY <1>0
<1>1. PICK A \in T : \A B \in T : B \subseteq A => B = A
  <2>1. T \in SUBSET (SUBSET F)
    OBVIOUS
  <2> HIDE DEF T
  <2> QED BY <2>1, SmallestSubset
<1>2. A \in SUBSET F /\ A # {} /\ ~\E i \in A : \A k \in A : ~Less(score[i], score[k])
  OBVIOUS
<1>3. PICK x \in A : TRUE
  BY <1>2
<1>4. ~Less(score[x], score[x])
  <2>1. Fraction(score[x])
    BY <1>2
  <2>2. score[x].n * score[x].d \in Int
    BY <2>1 DEF Fraction, Positive
  <2> QED BY <2>2 DEF Less
<1> DEFINE B == A \ {x}
<1>5. CASE B = {}
  <2>1. \A k \in A : k = x
    BY <1>5
  <2> HIDE DEF T, B
  <2> QED BY <1>2, <1>4, <2>1
<1>6. CASE B # {}
  <2>1. B \in SUBSET F /\ B \subseteq A /\ B # A
    BY <1>2
  <2>2. B \notin T
    <3> HIDE DEF T, B
    <3> QED BY <1>1, <2>1
  <2>3. PICK y \in B : \A k \in B : ~Less(score[y], score[k])
    <3> HIDE DEF B
    <3> QED BY <1>6, <2>1, <2>2
  <2>4. y \in A /\ \A k \in A : k = x \/ k \in B
    OBVIOUS
  <2> HIDE DEF T, B
  <2>5. Less(score[y], score[x])
    BY <1>2, <2>3, <2>4, Zenon
  <2>6. PICK k \in A : Less(score[x], score[k])
    BY <1>2, Zenon
  <2>7. k \in B
    BY <1>4, <2>4, <2>6
  <2>8. Fraction(score[x]) /\ Fraction(score[y]) /\ Fraction(score[k])
    BY <1>2, <2>4
  <2>9. Less(score[y], score[k])
    BY <2>5, <2>6, <2>8, LessChains
  <2> QED BY <2>3, <2>7, <2>9
<1> QED BY <1>5, <1>6

LEMMA BestIs ==
    ASSUME NEW F \in SUBSET Nat, IsFiniteSet(F), F # {}, NEW score, DOMAIN score = F,
           \A i \in F : Fraction(score[i])
    PROVE  BestOf(score) \in F /\ \A k \in F : ~Less(score[BestOf(score)], score[k])
<1> DEFINE K == {i \in F : \A k \in F : ~Less(score[i], score[k])}
<1>1. BestOf(score) = Min(K)
  BY DEF BestOf
<1>2. K \in SUBSET Nat /\ K # {}
  BY SomeBest
<1>3. Min(K) \in K
  <2> HIDE DEF K
  <2> QED BY <1>2, LeastIsMin
<1> QED BY <1>1, <1>3

LEMMA PlusIs ==
    ASSUME NEW x, NEW y, Fraction(x), Fraction(y), NEW k \in Nat, AtMost(x, k), AtMost(y, 1)
    PROVE  LET z == Plus(x, y) IN
           Fraction(z) /\ AtMost(z, k + 1) /\ (Is(z, k + 1) <=> Is(x, k) /\ Is(y, 1))
<1> DEFINE i == x.n
           j == y.n
           u == x.d
           v == y.d
           N == i * v + j * u
           D == u * v
<1>1. i \in Nat /\ j \in Nat /\ u \in Positive /\ v \in Positive /\ i <= k * u /\ j <= 1 * v
  BY DEF Fraction, AtMost
<1>2. /\ Plus(x, y) = Frac(N, D)
      /\ Is(x, k) <=> i = k * u
      /\ Is(y, 1) <=> j = 1 * v
  BY DEF Plus, Is
<1> HIDE DEF i, j, u, v
<1>3. /\ i \in Int /\ j \in Int /\ u \in Int /\ v \in Int /\ k * u \in Int /\ 1 * v = v
      /\ i * v \in Int /\ j * u \in Int /\ (k * u) * v \in Int /\ u * v \in Int
  BY <1>1 DEF Positive
<1>4. v * i <= v * (k * u) /\ (v * i = v * (k * u) <=> i = k * u)
  BY <1>1, <1>3, MulOrder
<1>5. u * j <= u * v /\ (u * j = u * v <=> j = v)
  BY <1>1, <1>3, MulOrder
<1>6. v * i = i * v /\ u * j = j * u /\ v * (k * u) + u * v = (k + 1) * D /\ v * (k * u) \in Int
  BY <1>3
<1>7. N <= (k + 1) * D /\ (N = (k + 1) * D <=> i = k * u /\ j = v)
  BY <1>3, <1>4, <1>5, <1>6
<1>8. N \in Nat /\ D \in Positive
  <2>1. i * v \in Nat /\ j * u \in Nat
    BY <1>1 DEF Positive
  <2>2. u * v > 0 /\ u * v \in Int
    BY <1>1 DEF Positive
  <2> QED BY <2>1, <2>2 DEF Positive
<1> HIDE DEF N, D
<1> DEFINE z == Frac(N, D)
<1>9. /\ Fraction(z)
      /\ \A l \in Nat : (AtMost(z, l) <=> N <= l * D) /\ (Is(z, l) <=> N = l * D)
  BY <1>8, FracIs
<1> HIDE DEF z
<1>10. k + 1 \in Nat
  OBVIOUS
<1>11. AtMost(z, k + 1) /\ (Is(z, k + 1) <=> N = (k + 1) * D)
  BY <1>7, <1>9, <1>10
<1> QED BY <1>2, <1>3, <1>7, <1>9, <1>11 DEF z

-----------------------------------------------------------------------------
(* The loop of token_set_score.                                               *)

\* the first n words have a like word each among those used
Perfect(short, long, n, used) ==
    \E g \in Bijection(1 .. n, used) : \A k \in 1 .. n : short[k] = long[g[k]]

LEMMA BijectionIs ==
    ASSUME NEW A, NEW B, NEW f
    PROVE  f \in Bijection(A, B) <=> /\ f \in [A -> B]
                                     /\ \A x, y \in A : f[x] = f[y] => x = y
                                     /\ \A y \in B : \E x \in A : f[x] = y
<1>1. f \in Injection(A, B) <=> f \in [A -> B] /\ \A x, y \in A : f[x] = f[y] => x = y
  BY DEF Injection, IsInjective
<1>2. f \in Surjection(A, B) <=> f \in [A -> B] /\ \A y \in B : \E x \in A : f[x] = y
  BY DEF Surjection
<1> QED BY <1>1, <1>2, Zenon DEF Bijection

\* Of names with the same words each word finds a like one that is still free.
LEMMA StillFree ==
    ASSUME NEW W, NEW short \in Seq(W), NEW long \in Seq(W), exact(short, long),
           NEW n \in 0 .. Len(short) - 1, NEW used, Perfect(short, long, n, used)
    PROVE  \E k \in DOMAIN long : k \notin used /\ long[k] = short[n + 1]
<1> DEFINE I == DOMAIN short
           J == DOMAIN long
           N == 1 .. n
           w == short[n + 1]
           V == {k \in I : short[k] = w}
<1> SUFFICES ASSUME \A k \in J : long[k] = w => k \in used PROVE FALSE
  OBVIOUS
<1>1. PICK f \in Bijection(I, J) : \A i \in I : short[i] = long[f[i]]
  BY DEF exact
<1>2. PICK g \in Bijection(N, used) : \A k \in N : short[k] = long[g[k]]
  BY DEF Perfect
<1>3. n + 1 \in I /\ n + 1 \notin N /\ N \subseteq I
  OBVIOUS
<1>4. n + 1 \in V /\ V \in SUBSET I
  BY <1>3
<1>5. IsFiniteSet(V)
  <2>1. I = 1 .. Len(short) /\ Len(short) \in Nat
    OBVIOUS
  <2> HIDE DEF V, I
  <2> QED BY <1>4, <2>1, UptoSize, FS_Subset
<1>6. f \in [I -> J] /\ \A x, y \in I : f[x] = f[y] => x = y
  <2> HIDE DEF I, J
  <2> QED BY <1>1, BijectionIs
<1>7. \A j \in used : \E c \in N : g[c] = j
  <2> HIDE DEF N
  <2> QED BY <1>2, BijectionIs
<1> DEFINE R == V \ {n + 1}
           h == [k \in V |-> CHOOSE c \in R : g[c] = f[k]]
<1>8. ASSUME NEW k \in V PROVE \E c \in R : g[c] = f[k]
  <2>1. k \in I /\ short[k] = w
    OBVIOUS
  <2> HIDE DEF I, J, N, w
  <2>2. f[k] \in J /\ long[f[k]] = w
    BY <1>1, <1>6, <2>1
  <2>3. PICK c \in N : g[c] = f[k]
    BY <1>7, <2>2
  <2>4. short[c] = w
    BY <1>2, <2>2, <2>3
  <2>5. c \in V /\ c # n + 1
    BY <1>3, <2>4
  <2> QED BY <2>3, <2>5
<1>9. h \in [V -> R] /\ \A k \in V : g[h[k]] = f[k]
  <2> HIDE DEF V, R
  <2> QED BY <1>8
<1> HIDE DEF h
<1>10. IsFiniteSet(R) /\ Cardinality(R) < Cardinality(V)
  <2> DEFINE e == n + 1
  <2>1. e \in V /\ R = V \ {e}
    BY <1>4
  <2> HIDE DEF V, R, e
  <2>2. IsFiniteSet(R) /\ Cardinality(R) = Cardinality(V) - 1
    BY <1>5, <2>1, FS_RemoveElement
  <2>3. Cardinality(V) \in Nat
    BY <1>5, FS_CardinalityType
  <2> QED BY <2>2, <2>3
<1>11. PICK x \in V, y \in V : x # y /\ h[x] = h[y]
  <2> HIDE DEF V, R
  <2> QED BY <1>5, <1>9, <1>10, FS_PigeonHole
<1>12. f[x] = f[y]
  <2> HIDE DEF V, R
  <2> QED BY <1>9, <1>11
<1> QED BY <1>4, <1>6, <1>11, <1>12

\* What the loop has after n words of the shorter name.
Paired(short, long, n, acc) ==
    /\ acc.used \subseteq DOMAIN long
    /\ Fraction(acc.total) /\ AtMost(acc.total, n)
    /\ Is(acc.total, n) => Perfect(short, long, n, acc.used)
    /\ exact(short, long) => Is(acc.total, n)

LEMMA PairedAtFirst ==
    ASSUME NEW short, NEW long
    PROVE  Paired(short, long, 0, [used |-> {}, total |-> Zero])
<1> DEFINE g == [k \in {} |-> 0]
<1>1. g \in Bijection({}, {})
  BY BijectionIs
<1>2. 1 .. 0 = {}
  OBVIOUS
<1>3. Perfect(short, long, 0, {})
  BY <1>1, <1>2 DEF Perfect
<1>4. Fraction(Zero) /\ AtMost(Zero, 0) /\ Is(Zero, 0)
  BY DEF Zero, Fraction, AtMost, Is, Positive
<1> QED BY <1>3, <1>4 DEF Paired

LEMMA PairKeeps ==
    ASSUME NEW S, NEW short \in Seq(Seq(S)), NEW long \in Seq(Seq(S)),
           NEW n \in 0 .. Len(short) - 1, NEW acc, Paired(short, long, n, acc)
    PROVE  Paired(short, long, n + 1, Pair(acc, short[n + 1], long))
<1> DEFINE J == DOMAIN long
           w == short[n + 1]
           F == {k \in J : Free(acc.used, k)}
           score == [i \in F |-> jaro_winkler(w, long[i])]
           best == BestOf(score)
           new == Pair(acc, w, long)
           x == acc.total
<1>1. /\ acc.used \subseteq J /\ Fraction(x) /\ AtMost(x, n)
      /\ Is(x, n) => Perfect(short, long, n, acc.used)
      /\ exact(short, long) => Is(x, n)
  BY DEF Paired
<1>2. F = J \ acc.used
  BY DEF Free
<1>3. new = IF \A i \in F : score[i] = Zero THEN acc
            ELSE [used |-> acc.used \cup {best}, total |-> Plus(x, score[best])]
  BY DEF Pair
<1>4. w \in Seq(S) /\ \A i \in J : long[i] \in Seq(S)
  OBVIOUS
<1>5. ASSUME NEW i \in F PROVE Share(score[i], w = long[i])
  <2>1. score[i] = jaro_winkler(w, long[i]) /\ long[i] \in Seq(S)
    BY <1>4
  <2> HIDE DEF w, score
  <2> QED BY <1>4, <2>1, WinklerIsShare
<1>6. J \in SUBSET Nat /\ IsFiniteSet(J) /\ n \in Nat
  <2>1. J = 1 .. Len(long) /\ Len(long) \in Nat
    OBVIOUS
  <2> HIDE DEF J
  <2> QED BY <2>1, UptoSize
<1>7. DOMAIN score = F
  OBVIOUS
<1> HIDE DEF score, new, F
<1>8. exact(short, long) => \E k \in F : score[k] = One
  <2> SUFFICES ASSUME exact(short, long) PROVE \E k \in F : score[k] = One
    OBVIOUS
  <2>1. Perfect(short, long, n, acc.used)
    BY <1>1
  <2>2. PICK k \in J : k \notin acc.used /\ long[k] = w
    <3> DEFINE W == Seq(S)
               used == acc.used
    <3>1. /\ short \in Seq(W) /\ long \in Seq(W) /\ Perfect(short, long, n, used)
          /\ exact(short, long) /\ n \in 0 .. Len(short) - 1
      BY <2>1
    <3> HIDE DEF W, used
    <3>2. \E k \in DOMAIN long : k \notin used /\ long[k] = short[n + 1]
      BY <3>1, StillFree
    <3> QED BY <3>2 DEF used
  <2>3. k \in F
    BY <1>2, <2>2
  <2>4. score[k] = One
    BY <1>5, <2>2, <2>3 DEF Share
  <2> QED BY <2>3, <2>4
<1> SUFFICES /\ new.used \subseteq J
             /\ Fraction(new.total) /\ AtMost(new.total, n + 1)
             /\ Is(new.total, n + 1) => Perfect(short, long, n + 1, new.used)
             /\ exact(short, long) => Is(new.total, n + 1)
  BY DEF Paired, new
<1>9. CASE \A i \in F : score[i] = Zero
  <2>1. new = acc
    BY <1>3, <1>9
  <2>2. ~exact(short, long)
    BY <1>8, <1>9, ZeroIs
  <2>3. AtMost(x, n + 1) /\ ~Is(x, n + 1)
    <3> DEFINE i == x.n
               d == x.d
    <3>1. i \in Nat /\ d \in Nat /\ d > 0 /\ i <= n * d
      BY <1>1 DEF Fraction, AtMost, Positive
    <3> HIDE DEF i, d
    <3>2. (n + 1) * d = n * d + d /\ n * d \in Int
      BY <1>6, <3>1
    <3>3. i <= (n + 1) * d /\ i # (n + 1) * d
      BY <3>1, <3>2
    <3> QED BY <3>3 DEF AtMost, Is, i, d
  <2> QED BY <1>1, <2>1, <2>2, <2>3
<1>10. CASE ~\A i \in F : score[i] = Zero
  <2>1. new = [used |-> acc.used \cup {best}, total |-> Plus(x, score[best])]
    BY <1>3, <1>10
  <2>2. /\ F \in SUBSET Nat /\ IsFiniteSet(F) /\ F # {}
        /\ \A i \in F : Fraction(score[i])
    <3>1. F \in SUBSET J
      BY <1>2
    <3>2. IsFiniteSet(F)
      BY <1>6, <3>1, FS_Subset
    <3> QED BY <1>5, <1>6, <1>10, <3>1, <3>2 DEF Share
  <2>3. best \in F /\ \A k \in F : ~Less(score[best], score[k])
    BY <1>7, <2>2, BestIs
  <2> HIDE DEF best, J, w
  <2> DEFINE y == score[best]
  <2>4. Fraction(y) /\ AtMost(y, 1) /\ (y = One <=> Is(y, 1)) /\ (y = One <=> w = long[best])
    BY <1>5, <2>3 DEF Share
  <2> HIDE DEF x, y
  <2>5. LET z == Plus(x, y) IN
        Fraction(z) /\ AtMost(z, n + 1) /\ (Is(z, n + 1) <=> Is(x, n) /\ Is(y, 1))
    BY <1>1, <1>6, <2>4, PlusIs
  <2>6. new.used = acc.used \cup {best} /\ new.total = Plus(x, y)
    BY <2>1 DEF y
  <2>7. new.used \subseteq J
    BY <1>1, <1>2, <2>3, <2>6
  <2>8. exact(short, long) => Is(y, 1)
    <3> SUFFICES ASSUME exact(short, long) PROVE Is(y, 1)
      OBVIOUS
    <3>1. PICK k \in F : score[k] = One
      BY <1>8
    <3>2. ~Less(y, One)
      BY <2>3, <3>1 DEF y
    <3>3. y.n \in Nat /\ y.d \in Nat /\ y.n <= 1 * y.d /\ ~(y.n * 1 < 1 * y.d)
      BY <2>4, <3>2 DEF Fraction, AtMost, Less, One, Positive
    <3>4. y.n = 1 * y.d
      BY <3>3
    <3> QED BY <3>4 DEF Is
  <2>9. ASSUME Is(x, n), Is(y, 1) PROVE Perfect(short, long, n + 1, new.used)
    <3> DEFINE N == 1 .. n
               M == 1 .. n + 1
    <3>1. PICK g \in Bijection(N, acc.used) : \A k \in N : short[k] = long[g[k]]
      BY <1>1, <2>9 DEF Perfect
    <3>2. n + 1 \in M /\ n + 1 \notin N /\ M = N \cup {n + 1}
      BY <1>6
    <3>3. best \notin acc.used /\ long[best] = short[n + 1]
      BY <1>2, <2>3, <2>4, <2>9 DEF w
    <3> HIDE DEF N, M
    <3>4. /\ g \in [N -> acc.used]
          /\ \A k, l \in N : g[k] = g[l] => k = l
          /\ \A j \in acc.used : \E k \in N : g[k] = j
      BY <3>1, BijectionIs
    <3> DEFINE U == new.used
               more == [k \in M |-> IF k = n + 1 THEN best ELSE g[k]]
    <3>5. /\ more[n + 1] = best /\ (\A k \in N : more[k] = g[k])
          /\ U = acc.used \cup {best}
      BY <2>6, <3>2
    <3>6. more \in [M -> U]
      BY <3>2, <3>4, <3>5
    <3> HIDE DEF more, U
    <3>7. \A k, l \in M : more[k] = more[l] => k = l
      BY <3>2, <3>3, <3>4, <3>5
    <3>8. \A j \in U : \E k \in M : more[k] = j
      BY <3>2, <3>4, <3>5
    <3>9. more \in Bijection(M, U)
      BY <3>6, <3>7, <3>8, BijectionIs
    <3>10. \A k \in M : short[k] = long[more[k]]
      BY <3>1, <3>2, <3>3, <3>5
    <3> QED BY <3>9, <3>10 DEF Perfect, M, U
  <2> QED BY <1>1, <2>5, <2>6, <2>7, <2>8, <2>9
<1> QED BY <1>9, <1>10

Start == [used |-> {}, total |-> Zero]
Pairs(short, long, n, upto) == upto = [i \in 0 .. n |-> IF i = 0 THEN Start ELSE Pair(upto[i - 1], short[i], long)]

LEMMA PairsExist ==
    ASSUME NEW short, NEW long
    PROVE  \A n \in Nat : \E upto : Pairs(short, long, n, upto)
<1> DEFINE T == {n \in Nat : ~\E upto : Pairs(short, long, n, upto)}
<1> SUFFICES ASSUME T # {} PROVE FALSE
  OBVIOUS
<1>1. PICK n \in T : \A k \in T : n <= k
  <2>1. T \in SUBSET Nat
    OBVIOUS
  <2> HIDE DEF T
  <2> QED BY <2>1, LeastNumber
<1>2. n \in Nat /\ ~\E upto : Pairs(short, long, n, upto)
  OBVIOUS
<1>3. CASE n = 0
  <2> DEFINE none == [i \in 0 .. 0 |-> Start]
  <2>1. \A i \in 0 .. 0 : i = 0
    OBVIOUS
  <2>2. none = [i \in 0 .. 0 |-> IF i = 0 THEN Start ELSE Pair(none[i - 1], short[i], long)]
    BY <2>1
  <2> HIDE DEF none
  <2> QED BY <1>2, <1>3, <2>2, Zenon DEF Pairs
<1>4. CASE n # 0
  <2>1. n - 1 \in Nat /\ n - 1 \notin T
    BY <1>1, <1>2, <1>4
  <2>2. PICK less : Pairs(short, long, n - 1, less)
    BY <2>1
  <2> DEFINE more == [i \in 0 .. n |-> IF i = n THEN Pair(less[n - 1], short[n], long) ELSE less[i]]
  <2>3. ASSUME NEW i \in 0 .. n
        PROVE  more[i] = IF i = 0 THEN Start ELSE Pair(more[i - 1], short[i], long)
    <3>1. i # n => i \in 0 .. n - 1
      BY <1>2
    <3>2. i # 0 => i - 1 \in 0 .. n - 1 /\ i - 1 # n /\ i - 1 \in 0 .. n
      BY <1>2
    <3>3. i # 0 => more[i - 1] = less[i - 1]
      BY <3>2
    <3>4. i # n => less[i] = IF i = 0 THEN Start ELSE Pair(less[i - 1], short[i], long)
      BY <2>2, <3>1, Zenon DEF Pairs
    <3>5. CASE i = n
      BY <1>4, <3>3, <3>5
    <3>6. CASE i # n
      <4>1. more[i] = less[i]
        BY <3>6
      <4> QED BY <3>3, <3>4, <3>6, <4>1, Zenon
    <3> QED BY <3>5, <3>6
  <2>4. more = [i \in 0 .. n |-> more[i]]
    OBVIOUS
  <2> HIDE DEF more
  <2>5. Pairs(short, long, n, more)
    BY <2>3, <2>4 DEF Pairs
  <2> QED BY <1>2, <2>5
<1> QED BY <1>3, <1>4

LEMMA MeanIs ==
    ASSUME NEW t, Fraction(t), NEW S \in Positive, NEW L \in Positive, S <= L, AtMost(t, S)
    PROVE  Share(Mean(t, S, L), Is(t, S) /\ S = L)
<1> DEFINE i == t.n
           d == t.d
           N == i * (3 * L + S)
           D == d * S * 4 * L
           u == 3 * L + S
           v == S * d
<1>1. i \in Nat /\ d \in Positive /\ i <= v /\ (Is(t, S) <=> i = v)
  BY DEF Fraction, AtMost, Is
<1>2. Mean(t, S, L) = Frac(N, D)
  BY DEF Mean
<1> HIDE DEF i, d
<1>3. u \in Positive /\ u <= 4 * L /\ (u = 4 * L <=> S = L) /\ u \in Int /\ 4 * L \in Int
  BY DEF Positive
<1>4. v \in Positive
  <2>1. S \in Int /\ d \in Int /\ S > 0 /\ d > 0
    BY <1>1 DEF Positive
  <2>2. v \in Int /\ v > 0
    BY <2>1
  <2> QED BY <2>2 DEF Positive
<1>5. N = u * i /\ D = v * (4 * L)
  <2>1. i \in Int /\ d \in Int /\ S \in Int /\ L \in Int
    BY <1>1 DEF Positive
  <2>2. N = u * i
    BY <2>1
  <2>3. D = v * (4 * L)
    BY <2>1
  <2> QED BY <2>2, <2>3
<1> HIDE DEF N, D, u, v
<1>6. i \in Int /\ v \in Int
  BY <1>1, <1>4 DEF Positive
<1>7. u * i <= u * v /\ (u * i = u * v <=> i = v) /\ u * i \in Int /\ u * v \in Int
  BY <1>1, <1>3, <1>6, MulOrder
<1>8. v * u <= v * (4 * L) /\ (v * u = v * (4 * L) <=> u = 4 * L) /\ v * (4 * L) \in Int
  BY <1>3, <1>4, MulOrder
<1>9. u * v = v * u
  BY <1>3, <1>6
<1>10. N <= D /\ (N = D <=> i = v /\ u = 4 * L)
  BY <1>5, <1>7, <1>8, <1>9
<1>11. N \in Nat
  <2>1. u * 0 <= u * i /\ u * 0 = 0
    BY <1>1, <1>3, <1>6, MulOrder
  <2> QED BY <1>5, <1>7, <2>1
<1>12. D \in Positive
  <2>1. v * 1 <= v * (4 * L) /\ v * 1 >= 1
    <3>1. 1 <= 4 * L /\ 1 \in Int
      BY DEF Positive
    <3>2. v * 1 = v /\ v >= 1
      BY <1>4 DEF Positive
    <3> QED BY <1>3, <1>4, <3>1, <3>2, MulOrder
  <2> QED BY <1>5, <1>6, <1>8, <2>1 DEF Positive
<1>13. Is(t, S) /\ S = L <=> N = D
  BY <1>1, <1>3, <1>10
<1> DEFINE P == Is(t, S) /\ S = L
<1>14. P \in BOOLEAN /\ (P <=> N = D)
  BY <1>13
<1> HIDE DEF P
<1>15. Share(Frac(N, D), P)
  BY <1>10, <1>11, <1>12, <1>14, FracIsShare
<1> QED BY <1>2, <1>15 DEF P

LEMMA ExactLengths ==
    ASSUME NEW W, NEW p \in Seq(W), NEW q \in Seq(W), exact(p, q)
    PROVE  Len(p) = Len(q)
<1> DEFINE I == DOMAIN p
           J == DOMAIN q
<1>1. /\ I = 1 .. Len(p) /\ J = 1 .. Len(q) /\ Len(p) \in Nat /\ Len(q) \in Nat
  OBVIOUS
<1>2. ExistsBijection(I, J)
  BY DEF exact, ExistsBijection
<1> HIDE DEF I, J
<1>3. Cardinality(I) = Len(p) /\ IsFiniteSet(I) /\ Cardinality(J) = Len(q)
  BY <1>1, UptoSize
<1>4. Cardinality(I) = Cardinality(J)
  BY <1>2, <1>3, FS_Bijection
<1> QED BY <1>3, <1>4

LEMMA PairingIsShare ==
    ASSUME NEW S, NEW short \in Seq(Seq(S)), NEW long \in Seq(Seq(S)), short # <<>>, Len(short) <= Len(long)
    PROVE  Share(Pairing(short, long), exact(short, long))
<1> DEFINE s == Len(short)
           l == Len(long)
           upto == CHOOSE u : Pairs(short, long, s, u)
           acc == upto[s]
<1>1. Pairing(short, long) = Mean(acc.total, s, l)
  BY Zenon DEF Pairing, Pairs, Start
<1>2. s \in Positive /\ l \in Positive /\ s <= l /\ s \in Nat
  BY DEF Positive
<1>3. Pairs(short, long, s, upto)
  BY <1>2, PairsExist
<1> HIDE DEF upto
<1> DEFINE T == {n \in 0 .. s : ~Paired(short, long, n, upto[n])}
<1>4. T = {}
  <2> SUFFICES ASSUME T # {} PROVE FALSE
    OBVIOUS
  <2>1. PICK n \in T : \A k \in T : n <= k
    <3>1. T \in SUBSET Nat
      OBVIOUS
    <3> HIDE DEF T
    <3> QED BY <3>1, LeastNumber
  <2>2. n \in 0 .. s /\ ~Paired(short, long, n, upto[n])
    OBVIOUS
  <2>3. upto[n] = IF n = 0 THEN Start ELSE Pair(upto[n - 1], short[n], long)
    BY <1>3, <2>2, Zenon DEF Pairs
  <2>4. CASE n = 0
    BY <2>2, <2>3, <2>4, PairedAtFirst DEF Start
  <2>5. CASE n # 0
    <3> DEFINE m == n - 1
    <3>1. m \in 0 .. s /\ m \in 0 .. Len(short) - 1 /\ m < n /\ m + 1 = n
      BY <1>2, <2>2, <2>5
    <3>2. m \notin T
      BY <2>1, <3>1
    <3>3. Paired(short, long, m, upto[m])
      BY <3>1, <3>2
    <3>4. upto[n] = Pair(upto[m], short[m + 1], long)
      BY <2>3, <2>5, <3>1
    <3> HIDE DEF m
    <3>5. Paired(short, long, m + 1, upto[n])
      BY <3>1, <3>3, <3>4, PairKeeps
    <3> QED BY <2>2, <3>1, <3>5
  <2> QED BY <2>4, <2>5
<1>5. Paired(short, long, s, acc)
  <2>1. s \in 0 .. s
    BY <1>2
  <2> QED BY <1>4, <2>1
<1>6. /\ acc.used \subseteq DOMAIN long /\ Fraction(acc.total) /\ AtMost(acc.total, s)
      /\ Is(acc.total, s) => Perfect(short, long, s, acc.used)
      /\ exact(short, long) => Is(acc.total, s)
  BY <1>5 DEF Paired
<1> HIDE DEF acc
<1>7. DOMAIN short = 1 .. s /\ DOMAIN long = 1 .. l
  OBVIOUS
<1> HIDE DEF s, l
<1>8. Is(acc.total, s) /\ s = l => exact(short, long)
  <2> SUFFICES ASSUME Is(acc.total, s), s = l PROVE exact(short, long)
    OBVIOUS
  <2> DEFINE I == 1 .. s
             J == acc.used
  <2>1. PICK g \in Bijection(I, J) : \A k \in I : short[k] = long[g[k]]
    BY <1>6 DEF Perfect
  <2>2. ExistsBijection(I, J) /\ IsFiniteSet(I) /\ Cardinality(I) = s
    BY <1>2, <2>1, UptoSize DEF ExistsBijection
  <2> HIDE DEF I, J
  <2>3. Cardinality(J) = Cardinality(I)
    BY <2>2, FS_Bijection
  <2>4. J \subseteq I
    BY <1>6, <1>7 DEF I, J
  <2>5. J = I
    BY <2>2, <2>3, <2>4, FS_Subset
  <2>6. DOMAIN short = I /\ DOMAIN long = I
    BY <1>7 DEF I
  <2> QED BY <2>1, <2>5, <2>6 DEF exact
<1>9. exact(short, long) => Is(acc.total, s) /\ s = l
  <2> DEFINE W == Seq(S)
  <2>1. short \in Seq(W) /\ long \in Seq(W)
    OBVIOUS
  <2> HIDE DEF W
  <2>2. exact(short, long) => s = l
    BY <2>1, ExactLengths DEF s, l
  <2> QED BY <1>6, <2>2
<1>10. Share(Mean(acc.total, s, l), Is(acc.total, s) /\ s = l)
  BY <1>2, <1>6, MeanIs
<1>11. Is(acc.total, s) /\ s = l <=> exact(short, long)
  BY <1>8, <1>9
<1> QED BY <1>1, <1>10, <1>11 DEF Share

LEMMA TokenSetIsShare ==
    ASSUME NEW S, NEW p \in Seq(Seq(S)), NEW q \in Seq(Seq(S)), p # <<>>, q # <<>>
    PROVE  Share(token_set_score(p, q), exact(p, q))
<1> DEFINE W == Seq(S)
<1>1. p \in Seq(W) /\ q \in Seq(W) /\ Len(p) \in Nat /\ Len(q) \in Nat
  OBVIOUS
<1>2. CASE Len(p) <= Len(q)
  <2>1. Share(Pairing(p, q), exact(p, q))
    BY <1>2, PairingIsShare
  <2> QED BY <1>2, <2>1 DEF token_set_score
<1>3. CASE ~(Len(p) <= Len(q))
  <2>1. Len(q) <= Len(p) /\ Len(p) # Len(q)
    BY <1>1, <1>3
  <2>2. Share(Pairing(q, p), exact(q, p))
    BY <2>1, PairingIsShare
  <2> HIDE DEF W
  <2>3. ~exact(p, q) /\ ~exact(q, p)
    BY <1>1, <2>1, ExactLengths
  <2>4. Share(Pairing(q, p), exact(p, q))
    BY <2>2, <2>3 DEF Share
  <2> QED BY <1>3, <2>4 DEF token_set_score
<1> QED BY <1>2, <1>3

\* THEOREM: a score is 1 at most, and 1 for names of the same words alone, by
\* whatever letters, words and order, words that sound alike aside.
THEOREM CertainOfTheSame == NamesSpec => []OnlySameNamesAreCertain
<1>1. NamesTypeOK => OnlySameNamesAreCertain
  <2> SUFFICES ASSUME NamesTypeOK, query # <<>>, cand # <<>>
               PROVE  LET s == token_set_score(query, cand) IN
                      /\ ~Less(One, s) /\ (s = One <=> exact(query, cand))
                      /\ score_against(query, cand) = One => exact(query, cand) \/ phonetic(query, cand)
    BY DEF OnlySameNamesAreCertain
  <2> DEFINE s == token_set_score(query, cand)
  <2>1. query \in Seq(Seq(Letters)) /\ cand \in Seq(Seq(Letters))
    BY DEF NamesTypeOK
  <2>2. Fraction(s) /\ AtMost(s, 1) /\ (s = One <=> exact(query, cand))
    BY <2>1, TokenSetIsShare DEF Share
  <2>3. score_against(query, cand) = One => exact(query, cand) \/ phonetic(query, cand)
    <3>1. ~exact(query, cand) /\ ~phonetic(query, cand) => score_against(query, cand) = s
      BY DEF score_against
    <3> HIDE DEF s
    <3> QED BY <2>2, <3>1
  <2> HIDE DEF s
  <2>4. ~Less(One, s)
    <3>1. s.n \in Nat /\ s.d \in Nat /\ s.n <= 1 * s.d
      BY <2>2 DEF Fraction, AtMost, Positive
    <3> QED BY <3>1 DEF Less, One
  <2> QED BY <2>2, <2>3, <2>4 DEF s
<1> QED BY <1>1, NamesTypeCorrect, PTL
=============================================================================
