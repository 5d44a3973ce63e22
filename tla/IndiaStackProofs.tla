--------------------------- MODULE IndiaStackProofs ---------------------------
(* Theorems about the two services of indiastack/, for any number of threads, *)
(* collect requests, mandates and references, and any interleaving of the two *)
(* lock sections of approve, transition and present_debit; and about its      *)
(* check digits, for numbers of any length; and about the figures it draws    *)
(* from a bank statement, for any account.                                    *)
EXTENDS UpiCollect, EnachMandate, Verhoeff, Statement, SumsProofs

-----------------------------------------------------------------------------
(* UPI collect requests.                                                      *)

\* A thread past _svc has a service, and one about to move a request has seen it.
ThreadsInStep ==
    \A w \in Threads :
        /\ pc[w] \in {"serve", "move"} => svc[w] \in Services
        /\ pc[w] = "move" => at[w] \in Collects /\ rec[at[w]] \in Records

\* Whoever is about to move a request looked at it in time, or found it ended.
LookedInTime ==
    \A w \in Threads : pc[w] = "move" /\ rec[at[w]].status = "PENDING" =>
        asked[w] - rec[at[w]].created <= TTL

\* Under its key, a service has the record that was made with it.
KeysLeadHome ==
    \A c \in Collects : rec[c] # NoRecord /\ rec[c].key # NoKey => byKey[rec[c].home][rec[c].key] = c

CollectInv == TypeOK /\ ThreadsInStep /\ LookedInTime /\ KeysLeadHome

LEMMA NoRecordIsNone ==
    /\ NoRecord \notin Records /\ NoRecord.home = NoService /\ NoRecord.key = NoKey
    /\ NoRecord.status = "none"
    /\ DOMAIN _TRANSITIONS = {"PENDING", "SUCCESS", "FAILED", "EXPIRED"}
    /\ \A r \in Records : r # NoRecord /\ r.home \in Services /\ r.home # NoService
  BY CollectAssumption DEF NoRecord, Records, _TRANSITIONS

\* A look changes nothing but the status of a pending request that is late.
LEMMA LookStep ==
    ASSUME CollectInv, NEW c \in Collects, NEW w \in Threads, Known(w, c), LookAt(c)
    PROVE  /\ rec[c] \in Records /\ rec' \in [Collects -> Records \cup {NoRecord}]
           /\ \A d \in Collects \ {c} : rec'[d] = rec[d]
           /\ \/ rec' = rec /\ ~(rec[c].status = "PENDING" /\ Late(c))
              \/ /\ rec[c].status = "PENDING" /\ Late(c)
                 /\ rec'[c] = [rec[c] EXCEPT !.status = "EXPIRED"] /\ rec'[c] \in Records
<1>1. rec \in [Collects -> Records \cup {NoRecord}] /\ rec[c] \in Records
  BY NoRecordIsNone DEF CollectInv, TypeOK, Known
<1>2. CASE rec[c].status = "PENDING" /\ Late(c)
  <2>1. rec' = [rec EXCEPT ![c] = [rec[c] EXCEPT !.status = "EXPIRED"]]
    BY <1>1, <1>2 DEF LookAt
  <2>2. [rec[c] EXCEPT !.status = "EXPIRED"] \in Records
    BY <1>1, NoRecordIsNone DEF Records
  <2> QED BY <1>1, <1>2, <2>1, <2>2
<1>3. CASE ~(rec[c].status = "PENDING" /\ Late(c))
  <2>1. [rec[c] EXCEPT !.status = rec[c].status] = rec[c]
    BY <1>1 DEF Records
  <2>2. rec' = [rec EXCEPT ![c] = rec[c]]
    BY <1>1, <1>3, <2>1 DEF LookAt
  <2>3. rec' = rec
    BY <1>1, <2>2
  <2> QED BY <1>1, <1>3, <2>3
<1> QED BY <1>2, <1>3

LEMMA CollectStarts == Init => CollectInv
<1> SUFFICES ASSUME Init PROVE CollectInv
  OBVIOUS
<1>1. TypeOK
  BY ClockAssumption, CollectAssumption, NoRecordIsNone DEF Init, TypeOK
<1>2. ThreadsInStep /\ LookedInTime /\ KeysLeadHome
  BY DEF Init, ThreadsInStep, LookedInTime, KeysLeadHome
<1> QED BY <1>1, <1>2 DEF CollectInv

\* The clock moves, or a thread finds or makes the service.
LEMMA ServiceStep ==
    ASSUME CollectInv, NEW w,
           \/ Tick
           \/ w \in Threads /\ (FindService(w) \/ FindNone(w) \/ MakeService(w) \/ AnswerOnly(w))
    PROVE  CollectInv' /\ UNCHANGED rec
<1>1. UNCHANGED <<rec, byKey, at, asked>> /\ (now' = now \/ Tick)
  BY DEF Tick, FindService, FindNone, MakeService, AnswerOnly
<1>2. pc' \in [Threads -> {"idle", "make", "serve", "move"}] /\ \A x \in Threads : pc'[x] = "move" => pc[x] = "move"
  BY DEF CollectInv, TypeOK, Tick, FindService, FindNone, MakeService, AnswerOnly, Goes
<1>3. /\ slot' \in Services \cup {NoService} /\ made' \subseteq Services
      /\ svc' \in [Threads -> Services \cup {NoService}]
      /\ \A x \in Threads : pc'[x] \in {"serve", "move"} => svc'[x] \in Services
  <2>1. CASE Tick \/ FindNone(w) \/ AnswerOnly(w)
    BY <2>1 DEF CollectInv, TypeOK, ThreadsInStep, Tick, FindNone, AnswerOnly, Goes
  <2>2. CASE FindService(w)
    BY <2>2 DEF CollectInv, TypeOK, ThreadsInStep, FindService, Goes, Uses
  <2>3. CASE MakeService(w)
    <3>1. PICK s \in Services : slot' = s /\ made' = made \cup {s} /\ svc' = [svc EXCEPT ![w] = s]
      BY <2>3 DEF MakeService, Uses
    <3> QED BY <2>3, <3>1 DEF CollectInv, TypeOK, ThreadsInStep, MakeService, Goes
  <2> QED BY <2>1, <2>2, <2>3
<1>4. TypeOK'
  <2>1. now' \in 0 .. MaxTime
    BY <1>1, ClockAssumption DEF CollectInv, TypeOK, Tick, ClockTicks
  <2> QED BY <1>1, <1>2, <1>3, <2>1 DEF CollectInv, TypeOK
<1>5. ThreadsInStep' /\ LookedInTime' /\ KeysLeadHome'
  BY <1>1, <1>2, <1>3 DEF CollectInv, ThreadsInStep, LookedInTime, KeysLeadHome
<1> QED BY <1>1, <1>4, <1>5 DEF CollectInv

\* A request gets a key that its service does not have yet.
LEMMA CreateStep ==
    ASSUME CollectInv, NEW w \in Threads, NEW k \in Keys \cup {NoKey}, NEW c \in Collects,
           NEW outcome \in Outcomes, Create(w, k, c, outcome)
    PROVE  CollectInv' /\ rec[c] = NoRecord /\ \A d \in Collects \ {c} : rec'[d] = rec[d]
<1> DEFINE new == [home |-> svc[w], key |-> k, outcome |-> outcome, status |-> "PENDING", created |-> now]
<1>1. svc[w] \in Services /\ pc[w] = "serve"
  BY DEF CollectInv, ThreadsInStep, Create, Goes
<1>2. new \in Records
  BY <1>1, NoRecordIsNone DEF CollectInv, TypeOK, Records
<1>3. /\ rec[c] = NoRecord /\ rec' = [rec EXCEPT ![c] = new]
      /\ byKey' = IF k = NoKey THEN byKey ELSE [byKey EXCEPT ![svc[w]][k] = c]
      /\ pc' = [pc EXCEPT ![w] = "idle"] /\ UNCHANGED <<slot, made, now, svc, at, asked>>
  BY DEF Create, Goes
<1>4. rec \in [Collects -> Records \cup {NoRecord}] /\ byKey \in [Services -> [Keys -> Collects \cup {NoCollect}]]
      /\ pc \in [Threads -> {"idle", "make", "serve", "move"}]
  BY DEF CollectInv, TypeOK
<1>5. \A s \in Services, l \in Keys : byKey[s][l] # c
  BY <1>3, <1>4, CollectAssumption, NoRecordIsNone DEF CollectInv, TypeOK
<1>6. TypeOK'
  <2>1. rec' \in [Collects -> Records \cup {NoRecord}] /\ byKey' \in [Services -> [Keys -> Collects \cup {NoCollect}]]
        /\ pc' \in [Threads -> {"idle", "make", "serve", "move"}]
    BY <1>1, <1>2, <1>3, <1>4
  <2>2. ASSUME NEW s \in Services, NEW l \in Keys, byKey'[s][l] # NoCollect
        PROVE  rec'[byKey'[s][l]].home = s /\ rec'[byKey'[s][l]].key = l
    <3>1. CASE s = svc[w] /\ l = k /\ k # NoKey
      BY <1>1, <1>3, <1>4, <3>1
    <3>2. CASE ~(s = svc[w] /\ l = k /\ k # NoKey)
      <4>1. byKey'[s][l] = byKey[s][l]
        BY <1>1, <1>3, <1>4, <3>2
      <4>2. rec'[byKey[s][l]] = rec[byKey[s][l]]
        BY <1>3, <1>4, <1>5, <2>2, <4>1
      <4> QED BY <2>2, <4>1, <4>2 DEF CollectInv, TypeOK
    <3> QED BY <3>1, <3>2
  <2> QED BY <1>3, <2>1, <2>2 DEF CollectInv, TypeOK
<1>7. \A d \in Collects \ {c} : rec'[d] = rec[d]
  BY <1>3, <1>4
<1>8. \A x \in Threads : pc'[x] = "move" => pc[x] = "move" /\ at[x] # c
  BY <1>1, <1>3, <1>4, NoRecordIsNone DEF CollectInv, ThreadsInStep
<1>9. ThreadsInStep' /\ LookedInTime'
  <2>1. \A x \in Threads : pc'[x] = "move" => rec'[at[x]] = rec[at[x]]
    BY <1>7, <1>8 DEF CollectInv, ThreadsInStep
  <2>2. \A x \in Threads : pc'[x] \in {"serve", "move"} => pc[x] \in {"serve", "move"}
    BY <1>3, <1>4
  <2> QED BY <1>3, <1>8, <2>1, <2>2 DEF CollectInv, ThreadsInStep, LookedInTime
<1>10. KeysLeadHome'
  <2> SUFFICES ASSUME NEW d \in Collects, rec'[d] # NoRecord, rec'[d].key # NoKey
               PROVE  byKey'[rec'[d].home][rec'[d].key] = d
    BY DEF KeysLeadHome
  <2>1. CASE d = c
    <3>1. rec'[d] = new
      BY <1>3, <1>4, <2>1
    <3>2. k # NoKey
      BY <3>1
    <3> QED BY <1>1, <1>3, <1>4, <2>1, <3>1, <3>2
  <2>2. CASE d # c
    <3>1. rec'[d] = rec[d] /\ rec[d] \in Records
      BY <1>4, <1>7, <2>2
    <3>2. byKey[rec[d].home][rec[d].key] = d /\ rec[d].home \in Services /\ rec[d].key \in Keys
      BY <3>1, NoRecordIsNone DEF CollectInv, KeysLeadHome, Records
    <3>3. k # NoKey => byKey[svc[w]][k] = NoCollect
      BY <1>3 DEF Create, KeyUsed
    <3>4. ~(rec[d].home = svc[w] /\ rec[d].key = k)
      BY <3>2, <3>3, CollectAssumption
    <3> QED BY <1>1, <1>3, <1>4, <3>1, <3>2, <3>4
  <2> QED BY <2>1, <2>2
<1> QED BY <1>3, <1>6, <1>7, <1>9, <1>10 DEF CollectInv

\* get, or the first lock section of approve.
LEMMA LookKeeps ==
    ASSUME CollectInv, NEW w \in Threads, NEW c \in Collects, Get(w, c) \/ ApproveGet(w, c)
    PROVE  CollectInv' /\ Known(w, c) /\ LookAt(c)
<1>1. Known(w, c) /\ LookAt(c) /\ UNCHANGED <<slot, made, byKey, now, svc>>
  BY DEF Get, ApproveGet
<1>2. /\ rec[c] \in Records /\ rec'[c] \in Records /\ rec' \in [Collects -> Records \cup {NoRecord}]
      /\ rec'[c].home = rec[c].home /\ rec'[c].key = rec[c].key /\ rec'[c].created = rec[c].created
      /\ rec'[c].status = "PENDING" => rec[c].status = "PENDING" /\ ~Late(c)
      /\ \A d \in Collects \ {c} : rec'[d] = rec[d]
  <2>1. rec[c] \in Records => LET new == [rec[c] EXCEPT !.status = "EXPIRED"]
                              IN  /\ new.status = "EXPIRED" /\ new.home = rec[c].home
                                  /\ new.key = rec[c].key /\ new.created = rec[c].created
    BY DEF Records
  <2>2. /\ rec[c] \in Records /\ rec'[c] \in Records /\ rec' \in [Collects -> Records \cup {NoRecord}]
        /\ rec'[c].home = rec[c].home /\ rec'[c].key = rec[c].key /\ rec'[c].created = rec[c].created
        /\ \A d \in Collects \ {c} : rec'[d] = rec[d]
    BY <1>1, <2>1, LookStep
  <2>3. rec'[c].status = "PENDING" => rec[c].status = "PENDING" /\ ~Late(c)
    BY <1>1, <2>1, <2>2, LookStep
  <2> QED BY <2>2, <2>3
<1>3. /\ pc' \in [Threads -> {"idle", "make", "serve", "move"}]
      /\ at' \in [Threads -> Collects \cup {NoCollect}] /\ asked' \in [Threads -> 0 .. MaxTime]
      /\ \A x \in Threads :
           /\ pc'[x] \in {"serve", "move"} => pc[x] \in {"serve", "move"}
           /\ pc'[x] = "move" => \/ pc[x] = "move" /\ at'[x] = at[x] /\ asked'[x] = asked[x]
                                 \/ at'[x] = c /\ asked'[x] = now
  BY DEF CollectInv, TypeOK, Get, ApproveGet, Goes
<1>4. TypeOK'
  <2>1. ASSUME NEW s \in Services, NEW k \in Keys, byKey[s][k] # NoCollect
        PROVE  rec'[byKey[s][k]].home = s /\ rec'[byKey[s][k]].key = k
    <3>1. byKey[s][k] \in Collects /\ rec[byKey[s][k]].home = s /\ rec[byKey[s][k]].key = k
      BY <2>1 DEF CollectInv, TypeOK
    <3> QED BY <1>2, <3>1
  <2> QED BY <1>1, <1>2, <1>3, <2>1 DEF CollectInv, TypeOK
<1>5. ThreadsInStep' /\ LookedInTime'
  <2> SUFFICES ASSUME NEW x \in Threads
               PROVE  /\ pc'[x] \in {"serve", "move"} => svc'[x] \in Services
                      /\ pc'[x] = "move" => /\ at'[x] \in Collects /\ rec'[at'[x]] \in Records
                                            /\ rec'[at'[x]].status = "PENDING" =>
                                                 asked'[x] - rec'[at'[x]].created <= TTL
    BY DEF ThreadsInStep, LookedInTime
  <2>1. pc'[x] \in {"serve", "move"} => svc'[x] \in Services
    BY <1>1, <1>3 DEF CollectInv, ThreadsInStep
  <2>2. CASE pc'[x] = "move" /\ at'[x] = c
    <3>1. CASE asked'[x] = now
      BY <1>1, <1>2, <2>1, <2>2, <3>1, CollectAssumption DEF Late, CollectInv, TypeOK, Records
    <3>2. CASE pc[x] = "move" /\ at'[x] = at[x] /\ asked'[x] = asked[x]
      BY <1>2, <2>1, <2>2, <3>2 DEF CollectInv, LookedInTime
    <3> QED BY <1>3, <2>2, <3>1, <3>2
  <2>3. CASE pc'[x] = "move" /\ at'[x] # c
    BY <1>2, <1>3, <2>1, <2>3 DEF CollectInv, ThreadsInStep, LookedInTime
  <2> QED BY <2>1, <2>2, <2>3
<1>6. KeysLeadHome'
  <2>1. ASSUME NEW d \in Collects PROVE rec'[d].home = rec[d].home /\ rec'[d].key = rec[d].key
                                         /\ (rec[d] = NoRecord => rec'[d] = NoRecord)
    BY <1>2, NoRecordIsNone
  <2> QED BY <1>1, <2>1 DEF CollectInv, KeysLeadHome
<1> QED BY <1>1, <1>4, <1>5, <1>6 DEF CollectInv

\* The second lock section: only a pending request moves.
LEMMA MoveStep ==
    ASSUME CollectInv, NEW w \in Threads, ApproveMove(w)
    PROVE  /\ CollectInv' /\ pc[w] = "move" /\ at[w] \in Collects /\ rec[at[w]].status = "PENDING"
           /\ \A d \in Collects \ {at[w]} : rec'[d] = rec[d]
<1> DEFINE c == at[w]
<1> DEFINE to == rec[c].outcome
<1>1. pc[w] = "move" /\ c \in Collects /\ rec[c] \in Records
  BY DEF CollectInv, ThreadsInStep, ApproveMove, Goes
<1>2. rec[c].status = "PENDING" /\ to \in Outcomes
  BY <1>1 DEF ApproveMove, MayMove, Records, _TRANSITIONS, Outcomes
<1>3. /\ rec' = [rec EXCEPT ![c].status = to] /\ rec \in [Collects -> Records \cup {NoRecord}]
      /\ at' = [at EXCEPT ![w] = NoCollect] /\ pc' = [pc EXCEPT ![w] = "idle"]
      /\ UNCHANGED <<slot, made, byKey, now, svc, asked>>
  BY DEF CollectInv, TypeOK, ApproveMove, Goes
<1>4. [rec[c] EXCEPT !.status = to] \in Records
  BY <1>1, <1>2, NoRecordIsNone DEF Records, Outcomes
<1>5. /\ rec' \in [Collects -> Records \cup {NoRecord}] /\ rec'[c] = [rec[c] EXCEPT !.status = to]
      /\ \A d \in Collects \ {c} : rec'[d] = rec[d]
  BY <1>1, <1>3, <1>4
<1>6. /\ rec'[c].home = rec[c].home /\ rec'[c].key = rec[c].key
      /\ rec'[c] \in Records /\ rec'[c].status # "PENDING"
  BY <1>1, <1>2, <1>4, <1>5 DEF Records, Outcomes
<1>7. /\ pc' \in [Threads -> {"idle", "make", "serve", "move"}] /\ at' \in [Threads -> Collects \cup {NoCollect}]
      /\ \A x \in Threads : /\ pc'[x] \in {"serve", "move"} => pc[x] \in {"serve", "move"}
                            /\ pc'[x] = "move" => pc[x] = "move" /\ at'[x] = at[x]
  BY <1>3 DEF CollectInv, TypeOK
<1>8. TypeOK'
  <2>1. ASSUME NEW s \in Services, NEW k \in Keys, byKey[s][k] # NoCollect
        PROVE  rec'[byKey[s][k]].home = s /\ rec'[byKey[s][k]].key = k
    <3>1. byKey[s][k] \in Collects /\ rec[byKey[s][k]].home = s /\ rec[byKey[s][k]].key = k
      BY <2>1 DEF CollectInv, TypeOK
    <3> QED BY <1>5, <1>6, <3>1
  <2> QED BY <1>3, <1>5, <1>7, <2>1 DEF CollectInv, TypeOK
<1>9. ThreadsInStep' /\ LookedInTime'
  BY <1>3, <1>5, <1>6, <1>7 DEF CollectInv, ThreadsInStep, LookedInTime
<1>10. KeysLeadHome'
  BY <1>1, <1>3, <1>5, <1>6, NoRecordIsNone DEF CollectInv, KeysLeadHome
<1> QED BY <1>1, <1>2, <1>5, <1>8, <1>9, <1>10 DEF CollectInv

LEMMA RefusedStep ==
    ASSUME CollectInv, NEW w \in Threads, ApproveRefused(w)
    PROVE  CollectInv' /\ UNCHANGED rec
<1>1. /\ pc' = [pc EXCEPT ![w] = "idle"] /\ at' = [at EXCEPT ![w] = NoCollect]
      /\ UNCHANGED <<slot, made, rec, byKey, now, svc, asked>>
  BY DEF ApproveRefused, Goes
<1>2. TypeOK' /\ \A x \in Threads : /\ pc'[x] \in {"serve", "move"} => pc[x] \in {"serve", "move"}
                                    /\ pc'[x] = "move" => pc[x] = "move" /\ at'[x] = at[x]
  BY <1>1 DEF CollectInv, TypeOK
<1>3. ThreadsInStep' /\ LookedInTime' /\ KeysLeadHome'
  BY <1>1, <1>2 DEF CollectInv, ThreadsInStep, LookedInTime, KeysLeadHome
<1> QED BY <1>1, <1>2, <1>3 DEF CollectInv

\* What a step can do to a record: make it, find it expired, or move it.
RecordMoves(c) ==
    \/ rec'[c] = rec[c]
    \/ rec[c] = NoRecord
    \/ rec[c].status = "PENDING" /\ rec'[c].status = "EXPIRED"
    \/ rec[c].status = "PENDING" /\ \E w \in Threads : pc[w] = "move" /\ at[w] = c

LEMMA CollectStep ==
    ASSUME CollectInv, [Next]_vars
    PROVE  CollectInv' /\ \A c \in Collects : RecordMoves(c)
<1>1. CASE UNCHANGED vars
  BY <1>1 DEF vars, CollectInv, TypeOK, ThreadsInStep, LookedInTime, KeysLeadHome, RecordMoves
<1>2. CASE Tick
  BY <1>2, ServiceStep DEF RecordMoves
<1>3. ASSUME NEW w \in Threads, FindService(w) \/ FindNone(w) \/ MakeService(w) \/ AnswerOnly(w)
      PROVE  CollectInv' /\ \A c \in Collects : RecordMoves(c)
  BY <1>3, ServiceStep DEF RecordMoves
<1>4. ASSUME NEW w \in Threads, NEW c \in Collects, Get(w, c) \/ ApproveGet(w, c)
      PROVE  CollectInv' /\ \A d \in Collects : RecordMoves(d)
  <2>1. CollectInv' /\ Known(w, c) /\ LookAt(c)
    BY <1>4, LookKeeps
  <2>2. rec[c] \in Records => [rec[c] EXCEPT !.status = "EXPIRED"].status = "EXPIRED"
    BY DEF Records
  <2> QED BY <2>1, <2>2, LookStep DEF RecordMoves
<1>5. ASSUME NEW w \in Threads, NEW c \in Collects, NEW k \in Keys \cup {NoKey}, NEW outcome \in Outcomes,
             Create(w, k, c, outcome)
      PROVE  CollectInv' /\ \A d \in Collects : RecordMoves(d)
  BY <1>5, CreateStep DEF RecordMoves
<1>6. ASSUME NEW w \in Threads, ApproveMove(w) PROVE CollectInv' /\ \A c \in Collects : RecordMoves(c)
  BY <1>6, MoveStep DEF RecordMoves
<1>7. ASSUME NEW w \in Threads, ApproveRefused(w) PROVE CollectInv' /\ \A c \in Collects : RecordMoves(c)
  BY <1>7, RefusedStep DEF RecordMoves
<1> QED BY <1>1, <1>2, <1>3, <1>4, <1>5, <1>6, <1>7 DEF Next, Step

LEMMA CollectInvariance == Spec => []CollectInv
<1>1. CollectInv /\ [Next]_vars => CollectInv'
  BY CollectStep
<1> QED BY CollectStarts, <1>1, PTL DEF Spec

\* Whatever threads do, the service slot, the records and the threads keep their types.
THEOREM CollectTypeCorrect == Spec => []TypeOK
<1>1. CollectInv => TypeOK
  BY DEF CollectInv
<1> QED BY CollectInvariance, <1>1, PTL

\* Two first requests with one key in one service: the second finds the first's
\* record, for any number of threads and services.
THEOREM KeysAreUsedOnce == Spec => []OneCollectPerKeyAndService
<1>1. CollectInv => OneCollectPerKeyAndService
  BY NoRecordIsNone DEF CollectInv, KeysLeadHome, OneCollectPerKeyAndService, SharesKey
<1> QED BY CollectInvariance, <1>1, PTL

\* An ended request is never touched again, by whichever approvals and looks
\* were under way when it ended.
THEOREM EndedStaysEnded == Spec => EndedStays
<1>1. CollectInv /\ [Next]_vars => [\A c \in Collects : Ended(c) => rec'[c] = rec[c]]_vars
  <2> SUFFICES ASSUME CollectInv, [Next]_vars, NEW c \in Collects, Ended(c) PROVE rec'[c] = rec[c]
    OBVIOUS
  <2> QED BY CollectStep, NoRecordIsNone DEF RecordMoves, Ended
<1> QED BY CollectInvariance, <1>1, PTL DEF Spec, EndedStays

\* What moves to its outcome was looked at in time by the thread that moves it.
THEOREM LateApprovalsAreRefused == Spec => LateApprovalsFail
<1>1. CollectInv /\ [Next]_vars =>
        [\A c \in Collects : Approved(c) => \E w \in Threads : at[w] = c /\ asked[w] - rec[c].created <= TTL]_vars
  <2> SUFFICES ASSUME CollectInv, [Next]_vars, NEW c \in Collects, Approved(c)
               PROVE  \E w \in Threads : at[w] = c /\ asked[w] - rec[c].created <= TTL
    OBVIOUS
  <2>1. PICK w \in Threads : pc[w] = "move" /\ at[w] = c /\ rec[c].status = "PENDING"
    BY CollectStep, NoRecordIsNone DEF RecordMoves, Approved, Outcomes
  <2> QED BY <2>1 DEF CollectInv, LookedInTime
<1> QED BY CollectInvariance, <1>1, PTL DEF Spec, LateApprovalsFail

-----------------------------------------------------------------------------
(* eNACH mandates.  Both invariants hold together inductively: a debit is     *)
(* appended in the lock section that has just looked for its reference.       *)
MandateInv == MandateTypeOK /\ RefsOnce

LEMMA MandateFacts ==
    /\ NoMandateRecord \notin MandateRecords
    /\ DOMAIN MANDATE_TRANSITIONS = {"INITIATED", "ACTIVE", "PAUSED", "REJECTED", "CANCELLED", "EXPIRED"}
    /\ Moves \cap Presentations = {}
    /\ Caps \subseteq Amounts
    /\ Nothing \notin Moves
  BY MandateAssumption DEF NoMandateRecord, MandateRecords, MANDATE_TRANSITIONS, Moves, Presentations, Caps,
     Nothing, Transition

\* What a step can do to a mandate: make it, move its status while it is not
\* closed, or record one debit, with the reason that follows from its status.
MandateMoves(m) ==
    \/ mandates'[m] = mandates[m]
    \/ mandates[m] = NoMandateRecord
    \/ ~Closed(m) /\ mandates'[m].debits = mandates[m].debits
    \/ \E d \in Presentations :
         /\ mandates'[m].status = mandates[m].status
         /\ mandates'[m].debits = Append(mandates[m].debits,
              [debit_ref |-> d.ref, amount |-> d.amount, reason |-> Reason(m, d), presented_at |-> now])

\* A look may end the mandate and changes nothing else.
LEMMA MandateLook ==
    ASSUME MandateInv, NEW m \in Mandates, LookAtMandate(m)
    PROVE  /\ mandates' \in [Mandates -> MandateRecords \cup {NoMandateRecord}]
           /\ RefsOnce' /\ \A n \in Mandates : MandateMoves(n)
           /\ \A n \in Mandates : mandates[n] # NoMandateRecord => mandates'[n] # NoMandateRecord
           /\ mandates[m] # NoMandateRecord
<1>1. mandates \in [Mandates -> MandateRecords \cup {NoMandateRecord}] /\ mandates[m] \in MandateRecords
  BY DEF MandateInv, MandateTypeOK, LookAtMandate
<1> DEFINE status == IF mandates[m].status \in {"ACTIVE", "PAUSED"} /\ Due(m) THEN "EXPIRED" ELSE mandates[m].status
           new == [mandates[m] EXCEPT !.status = status]
<1>2. mandates' = [mandates EXCEPT ![m] = new]
  BY DEF LookAtMandate
<1>3. new \in MandateRecords /\ new.debits = mandates[m].debits /\ (Closed(m) => new = mandates[m])
  BY <1>1, MandateFacts DEF MandateRecords, Closed
<1>4. /\ mandates' \in [Mandates -> MandateRecords \cup {NoMandateRecord}]
      /\ mandates'[m] = new /\ \A n \in Mandates \ {m} : mandates'[n] = mandates[n]
  BY <1>1, <1>2, <1>3
<1>5. \A n \in Mandates : mandates'[n].debits = mandates[n].debits
  BY <1>3, <1>4
<1>6. RefsOnce'
  BY <1>5 DEF MandateInv, RefsOnce
<1> QED BY <1>1, <1>3, <1>4, <1>6, MandateFacts DEF MandateMoves

LEMMA MandateStarts == MandateInit => MandateInv
<1> SUFFICES ASSUME MandateInit PROVE MandateInv
  OBVIOUS
<1>1. MandateTypeOK
  BY ClockAssumption, MandateFacts DEF MandateInit, MandateTypeOK
<1>2. RefsOnce
  BY DEF MandateInit, RefsOnce, NoMandateRecord
<1> QED BY <1>1, <1>2 DEF MandateInv

LEMMA MandateTickStep ==
    ASSUME MandateInv, MandateTick \/ UNCHANGED mandateVars
    PROVE  MandateInv' /\ UNCHANGED mandates
<1>1. UNCHANGED <<mandates, mpc, wanted>> /\ now' \in 0 .. MaxTime
  BY ClockAssumption DEF MandateInv, MandateTypeOK, MandateTick, ClockTicks, mandateVars
<1> QED BY <1>1 DEF MandateInv, MandateTypeOK, RefsOnce

LEMMA MandateCreate ==
    ASSUME MandateInv, NEW w \in Threads, NEW m \in Mandates, NEW cap \in Caps, CreateMandate(w, m, cap)
    PROVE  MandateInv' /\ \A n \in Mandates : MandateMoves(n)
<1> DEFINE new == [status |-> "INITIATED", max_amount |-> cap, expires_at |-> Expiry, debits |-> <<>>]
<1>1. /\ mandates[m] = NoMandateRecord /\ mandates' = [mandates EXCEPT ![m] = new]
      /\ UNCHANGED <<now, mpc, wanted>>
  BY DEF CreateMandate
<1>2. new \in MandateRecords /\ new.debits = <<>>
  BY MandateFacts, MandateAssumption, ClockAssumption DEF MandateInv, MandateTypeOK, MandateRecords, Expiry
<1>3. /\ mandates' \in [Mandates -> MandateRecords \cup {NoMandateRecord}]
      /\ mandates'[m] = new /\ \A n \in Mandates \ {m} : mandates'[n] = mandates[n]
  BY <1>1, <1>2 DEF MandateInv, MandateTypeOK
<1>4. MandateTypeOK'
  BY <1>1, <1>2, <1>3, MandateFacts DEF MandateInv, MandateTypeOK
<1>5. RefsOnce'
  BY <1>2, <1>3 DEF MandateInv, RefsOnce
<1> QED BY <1>1, <1>3, <1>4, <1>5 DEF MandateInv, MandateMoves

LEMMA MandateGet ==
    ASSUME MandateInv, NEW w \in Threads, NEW m \in Mandates, GetMandate(w, m)
    PROVE  MandateInv' /\ \A n \in Mandates : MandateMoves(n)
<1>1. LookAtMandate(m) /\ UNCHANGED <<now, mpc, wanted>>
  BY DEF GetMandate
<1>2. MandateTypeOK'
  BY <1>1, MandateLook, MandateFacts DEF MandateInv, MandateTypeOK, Moves, Presentations
<1> QED BY <1>1, <1>2, MandateLook DEF MandateInv

\* The first lock section of transition and of present_debit.
LEMMA MandateAsk ==
    ASSUME MandateInv, NEW w \in Threads, NEW m \in Mandates, NEW to \in {"move", "present"},
           NEW request \in Moves \cup Presentations, Ask(w, m, to, request), request.mid = m,
           to = "move" => request \in Moves, to = "present" => request \in Presentations
    PROVE  MandateInv' /\ \A n \in Mandates : MandateMoves(n)
<1>1. /\ LookAtMandate(m) /\ UNCHANGED now
      /\ mpc' = [mpc EXCEPT ![w] = to] /\ wanted' = [wanted EXCEPT ![w] = request]
  BY DEF Ask
<1>2. /\ mpc' \in [Threads -> {"idle", "move", "present"}]
      /\ wanted' \in [Threads -> Moves \cup Presentations \cup {Nothing}]
      /\ mpc'[w] = to /\ wanted'[w] = request
      /\ \A x \in Threads \ {w} : mpc'[x] = mpc[x] /\ wanted'[x] = wanted[x]
  BY <1>1 DEF MandateInv, MandateTypeOK
<1>3. ASSUME NEW x \in Threads
      PROVE  /\ mpc'[x] = "move" => wanted'[x] \in Moves
             /\ mpc'[x] = "present" => wanted'[x] \in Presentations
             /\ mpc'[x] # "idle" => mandates'[wanted'[x].mid] # NoMandateRecord
  <2>1. CASE x = w
    BY <1>1, <1>2, <2>1, MandateLook
  <2>2. CASE x # w
    <3>1. mpc[x] # "idle" => wanted[x].mid \in Mandates /\ mandates[wanted[x].mid] # NoMandateRecord
      BY DEF MandateInv, MandateTypeOK, Moves, Presentations
    <3> QED BY <1>1, <1>2, <2>2, <3>1, MandateLook DEF MandateInv, MandateTypeOK
  <2> QED BY <2>1, <2>2
<1>4. MandateTypeOK'
  BY <1>1, <1>2, <1>3, MandateLook DEF MandateInv, MandateTypeOK
<1> QED BY <1>1, <1>4, MandateLook DEF MandateInv

\* Whatever a second lock section decides, its thread is done.
LEMMA MandateAnswer ==
    ASSUME MandateInv, NEW w \in Threads, NEW from, Answer(w, from),
           mandates' \in [Mandates -> MandateRecords \cup {NoMandateRecord}],
           \A m \in Mandates : mandates[m] # NoMandateRecord => mandates'[m] # NoMandateRecord
    PROVE  MandateTypeOK'
<1>1. /\ mpc' = [mpc EXCEPT ![w] = "idle"] /\ wanted' = [wanted EXCEPT ![w] = Nothing] /\ UNCHANGED now
  BY DEF Answer
<1>2. /\ mpc' \in [Threads -> {"idle", "move", "present"}]
      /\ wanted' \in [Threads -> Moves \cup Presentations \cup {Nothing}]
      /\ \A x \in Threads : mpc'[x] # "idle" => mpc'[x] = mpc[x] /\ wanted'[x] = wanted[x]
  BY <1>1 DEF MandateInv, MandateTypeOK
<1>3. \A x \in Threads : mpc[x] # "idle" => wanted[x].mid \in Mandates /\ mandates[wanted[x].mid] # NoMandateRecord
  BY DEF MandateInv, MandateTypeOK, Moves, Presentations
<1> QED BY <1>1, <1>2, <1>3 DEF MandateInv, MandateTypeOK

LEMMA MandateMove ==
    ASSUME MandateInv, NEW w \in Threads, Move(w)
    PROVE  MandateInv' /\ \A n \in Mandates : MandateMoves(n)
<1> DEFINE m == wanted[w].mid
           to == wanted[w].to
           new == [mandates[m] EXCEPT !.status = to]
<1>1. /\ m \in Mandates /\ to \in _ACTIONS /\ mandates[m] \in MandateRecords
      /\ mandates \in [Mandates -> MandateRecords \cup {NoMandateRecord}]
  BY DEF MandateInv, MandateTypeOK, Move, Answer, Moves
<1>2. to \in MANDATE_TRANSITIONS[mandates[m].status] /\ mandates' = [mandates EXCEPT ![m] = new]
  BY DEF Move, MandateMayMove
<1>3. mandates[m].status \in {"INITIATED", "ACTIVE", "PAUSED"}
  BY <1>1, <1>2, MandateFacts DEF MANDATE_TRANSITIONS, MandateRecords
<1>4. new \in MandateRecords /\ new.debits = mandates[m].debits
  BY <1>1, MandateFacts DEF MandateRecords, _ACTIONS
<1>5. /\ mandates' \in [Mandates -> MandateRecords \cup {NoMandateRecord}]
      /\ mandates'[m] = new /\ \A n \in Mandates \ {m} : mandates'[n] = mandates[n]
  BY <1>1, <1>2, <1>4
<1>6. MandateTypeOK'
  BY <1>4, <1>5, MandateFacts, MandateAnswer DEF Move
<1>7. RefsOnce'
  <2>1. \A n \in Mandates : mandates'[n].debits = mandates[n].debits
    BY <1>4, <1>5
  <2> QED BY <2>1 DEF MandateInv, RefsOnce
<1> QED BY <1>1, <1>3, <1>4, <1>5, <1>6, <1>7 DEF MandateInv, MandateMoves, Closed

LEMMA MandateRefused ==
    ASSUME MandateInv, NEW w \in Threads, MoveRefused(w) \/ PresentAgain(w)
    PROVE  MandateInv' /\ UNCHANGED mandates
<1>1. UNCHANGED mandates /\ (Answer(w, "move") \/ Answer(w, "present"))
  BY DEF MoveRefused, PresentAgain
<1>2. MandateTypeOK'
  BY <1>1, MandateAnswer DEF MandateInv, MandateTypeOK
<1> QED BY <1>1, <1>2 DEF MandateInv, RefsOnce

LEMMA ReasonType ==
    ASSUME NEW m \in Mandates, mandates[m] \in MandateRecords, NEW d
    PROVE  Reason(m, d) \in Reasons /\ (mandates[m].status # "ACTIVE" => Reason(m, d) # "none")
<1>1. mandates[m].status \in {"INITIATED", "ACTIVE", "PAUSED", "CANCELLED", "EXPIRED"}
  BY MandateFacts DEF MandateRecords
<1> QED BY <1>1 DEF Reason, Reasons, StatusReason

\* A record with another list of debits, and a list with one debit more.
LEMMA WithDebits ==
    ASSUME NEW r \in MandateRecords, NEW ds \in Seq(DebitRecords), NEW new, new = [r EXCEPT !.debits = ds]
    PROVE  new \in MandateRecords /\ new.status = r.status /\ new.debits = ds
  BY DEF MandateRecords

LEMMA OneDebitMore ==
    ASSUME NEW ds \in Seq(DebitRecords), NEW d \in DebitRecords, NEW longer, longer = Append(ds, d)
    PROVE  /\ longer \in Seq(DebitRecords) /\ DOMAIN longer = 1 .. Len(ds) + 1 /\ Len(ds) \in Nat
           /\ longer[Len(ds) + 1] = d /\ \A i \in 1 .. Len(ds) : longer[i] = ds[i]
  OBVIOUS

LEMMA MandatePresent ==
    ASSUME MandateInv, NEW w \in Threads, Present(w)
    PROVE  MandateInv' /\ \A n \in Mandates : MandateMoves(n)
<1> DEFINE d == wanted[w]
           m == wanted[w].mid
           debits == mandates[m].debits
           debit == [debit_ref |-> d.ref, amount |-> d.amount, reason |-> Reason(m, d), presented_at |-> now]
           longer == Append(debits, debit)
           new == [mandates[m] EXCEPT !.debits = longer]
<1>1. /\ d \in Presentations /\ m \in Mandates /\ mandates[m] \in MandateRecords
      /\ mandates \in [Mandates -> MandateRecords \cup {NoMandateRecord}]
  BY DEF MandateInv, MandateTypeOK, Present, Answer, Presentations
<1>2. ~Presented(m, d.ref) /\ mandates' = [mandates EXCEPT ![m] = new]
  BY DEF Present
<1>3. debit \in DebitRecords
  BY <1>1, ReasonType DEF DebitRecords, Presentations, MandateInv, MandateTypeOK
<1>4. debits \in Seq(DebitRecords)
  BY <1>1 DEF MandateRecords
<1>10. /\ longer \in Seq(DebitRecords) /\ DOMAIN longer = 1 .. Len(debits) + 1 /\ Len(debits) \in Nat
       /\ longer[Len(debits) + 1].debit_ref = d.ref /\ \A i \in 1 .. Len(debits) : longer[i] = debits[i]
       /\ DOMAIN debits = 1 .. Len(debits)
  <2>1. debit.debit_ref = d.ref
    OBVIOUS
  <2>2. longer = Append(debits, debit)
    OBVIOUS
  <2> HIDE DEF debit, longer, debits
  <2>3. /\ longer \in Seq(DebitRecords) /\ DOMAIN longer = 1 .. Len(debits) + 1 /\ Len(debits) \in Nat
        /\ longer[Len(debits) + 1] = debit /\ \A i \in 1 .. Len(debits) : longer[i] = debits[i]
    BY <1>3, <1>4, <2>2, OneDebitMore
  <2>4. DOMAIN debits = 1 .. Len(debits)
    BY <1>4
  <2> QED BY <2>1, <2>3, <2>4
<1> HIDE DEF debit, longer
<1>5. new \in MandateRecords /\ new.status = mandates[m].status /\ new.debits = longer
  BY <1>1, <1>10, WithDebits
<1>6. /\ mandates' \in [Mandates -> MandateRecords \cup {NoMandateRecord}]
      /\ mandates'[m] = new /\ \A n \in Mandates \ {m} : mandates'[n] = mandates[n]
  BY <1>1, <1>2, <1>5
<1>7. MandateTypeOK'
  BY <1>5, <1>6, MandateFacts, MandateAnswer DEF Present
<1>11. mandates'[m].status = mandates[m].status /\ mandates'[m].debits = longer
  BY <1>5, <1>6
<1>12. MandateMoves(m)
  BY <1>1, <1>11 DEF MandateMoves, longer, debit
<1>8. RefsOnce'
  <2> SUFFICES ASSUME NEW n \in Mandates, NEW i \in DOMAIN mandates'[n].debits, NEW j \in DOMAIN mandates'[n].debits,
                      mandates'[n].debits[i].debit_ref = mandates'[n].debits[j].debit_ref
               PROVE  i = j
    BY DEF RefsOnce
  <2>1. CASE n # m
    BY <1>6, <2>1 DEF MandateInv, RefsOnce
  <2>2. CASE n = m
    <3>0. mandates'[n].debits = longer
      BY <1>11, <2>2
    <3>1. i \in 1 .. Len(debits) + 1 /\ j \in 1 .. Len(debits) + 1
      <4>1. i \in DOMAIN longer /\ j \in DOMAIN longer
        BY <3>0, Zenon
      <4> QED BY <1>10, <4>1, Zenon
    <3>2. \A k \in 1 .. Len(debits) : debits[k].debit_ref # d.ref
      BY <1>2, <1>10 DEF Presented
    <3>3. CASE i \in 1 .. Len(debits) /\ j \in 1 .. Len(debits)
      <4>1. longer[i] = debits[i] /\ longer[j] = debits[j]
        BY <1>10, <3>3
      <4>2. debits[i].debit_ref = debits[j].debit_ref
        BY <2>2, <3>0, <4>1
      <4>3. \A k, l \in DOMAIN debits : debits[k].debit_ref = debits[l].debit_ref => k = l
        BY <1>1 DEF MandateInv, RefsOnce
      <4> QED BY <1>10, <3>3, <4>2, <4>3
    <3>4. CASE i = Len(debits) + 1 \/ j = Len(debits) + 1
      <4>1. longer[i].debit_ref = longer[j].debit_ref
        BY <3>0
      <4> HIDE DEF debits
      <4> QED BY <1>10, <3>1, <3>2, <3>4, <4>1
    <3> QED BY <3>1, <3>3, <3>4
  <2> QED BY <2>1, <2>2
<1>9. \A n \in Mandates : MandateMoves(n)
  BY <1>6, <1>12 DEF MandateMoves
<1> QED BY <1>7, <1>8, <1>9 DEF MandateInv

LEMMA MandateStep ==
    ASSUME MandateInv, [MandateNext]_mandateVars
    PROVE  MandateInv' /\ \A m \in Mandates : MandateMoves(m)
<1>1. CASE MandateTick \/ UNCHANGED mandateVars
  BY <1>1, MandateTickStep DEF MandateMoves
<1>2. ASSUME NEW w \in Threads, Move(w) PROVE MandateInv' /\ \A m \in Mandates : MandateMoves(m)
  BY <1>2, MandateMove
<1>3. ASSUME NEW w \in Threads, MoveRefused(w) \/ PresentAgain(w)
      PROVE  MandateInv' /\ \A m \in Mandates : MandateMoves(m)
  BY <1>3, MandateRefused DEF MandateMoves
<1>4. ASSUME NEW w \in Threads, Present(w) PROVE MandateInv' /\ \A m \in Mandates : MandateMoves(m)
  BY <1>4, MandatePresent
<1>5. ASSUME NEW w \in Threads, NEW m \in Mandates, GetMandate(w, m)
      PROVE  MandateInv' /\ \A n \in Mandates : MandateMoves(n)
  BY <1>5, MandateGet
<1>6. ASSUME NEW w \in Threads, NEW m \in Mandates, NEW cap \in Caps, CreateMandate(w, m, cap)
      PROVE  MandateInv' /\ \A n \in Mandates : MandateMoves(n)
  BY <1>6, MandateCreate
<1>7. ASSUME NEW w \in Threads, NEW m \in Mandates, NEW to \in _ACTIONS, AskTransition(w, m, to)
      PROVE  MandateInv' /\ \A n \in Mandates : MandateMoves(n)
  <2>1. Transition(m, to) \in Moves /\ Transition(m, to).mid = m
    BY DEF Transition, Moves
  <2>2. Ask(w, m, "move", Transition(m, to))
    BY <1>7 DEF AskTransition
  <2> QED BY <2>1, <2>2, MandateAsk
<1>8. ASSUME NEW w \in Threads, NEW m \in Mandates, NEW amount \in Amounts, NEW notified \in 0 .. MaxTime,
             NEW ref \in Refs, AskDebit(w, m, amount, notified, ref)
      PROVE  MandateInv' /\ \A n \in Mandates : MandateMoves(n)
  <2>1. Debit(m, amount, notified, ref) \in Presentations /\ Debit(m, amount, notified, ref).mid = m
    BY DEF Debit, Presentations
  <2> QED BY <1>8, <2>1, MandateAsk DEF AskDebit
<1> QED BY <1>1, <1>2, <1>3, <1>4, <1>5, <1>6, <1>7, <1>8 DEF MandateNext

LEMMA MandateInvariance == MandateSpec => []MandateInv
<1>1. MandateInv /\ [MandateNext]_mandateVars => MandateInv'
  BY MandateStep
<1> QED BY MandateStarts, <1>1, PTL DEF MandateSpec

\* The mandates, their debits and what each thread wants keep their types, and
\* whoever is between its two lock sections has a mandate that exists.
THEOREM MandateTypeCorrect == MandateSpec => []MandateTypeOK
<1>1. MandateInv => MandateTypeOK
  BY DEF MandateInv
<1> QED BY MandateInvariance, <1>1, PTL

\* A reference is presented once under a mandate, for any number of threads
\* that present it at once.
THEOREM RefsArePresentedOnce == MandateSpec => []RefsOnce
<1>1. MandateInv => RefsOnce
  BY DEF MandateInv
<1> QED BY MandateInvariance, <1>1, PTL

\* A cancelled or expired mandate stays so and accepts no debit, not even from
\* a thread that looked at it while it was active.
THEOREM ClosedMandatesStayClosed == MandateSpec => ClosedStaysUndebited
<1>1. MandateInv /\ [MandateNext]_mandateVars =>
        [\A m \in Mandates : Closed(m) => mandates'[m].status = mandates[m].status /\ ~Accepts(m)]_mandateVars
  <2> SUFFICES ASSUME MandateInv, [MandateNext]_mandateVars, NEW m \in Mandates, Closed(m)
               PROVE  mandates'[m].status = mandates[m].status /\ ~Accepts(m)
    OBVIOUS
  <2>1. mandates[m] \in MandateRecords /\ mandates[m].debits \in Seq(DebitRecords)
    BY DEF MandateInv, MandateTypeOK, Closed, NoMandateRecord, MandateRecords
  <2>2. CASE mandates'[m] = mandates[m]
    BY <2>1, <2>2 DEF Accepts
  <2>3. CASE \E d \in Presentations :
               /\ mandates'[m].status = mandates[m].status
               /\ mandates'[m].debits = Append(mandates[m].debits,
                    [debit_ref |-> d.ref, amount |-> d.amount, reason |-> Reason(m, d), presented_at |-> now])
    <3>1. PICK d \in Presentations :
            /\ mandates'[m].status = mandates[m].status
            /\ mandates'[m].debits = Append(mandates[m].debits,
                 [debit_ref |-> d.ref, amount |-> d.amount, reason |-> Reason(m, d), presented_at |-> now])
      BY <2>3
    <3>2. Reason(m, d) # "none"
      BY <2>1, ReasonType DEF Closed
    <3> QED BY <2>1, <3>1, <3>2 DEF Accepts
  <2> QED BY <2>1, <2>2, <2>3, MandateStep, MandateFacts DEF MandateMoves
<1> QED BY MandateInvariance, <1>1, PTL DEF MandateSpec, ClosedStaysUndebited

-----------------------------------------------------------------------------
(* The Verhoeff checksum of a number of any length, for any tables that have   *)
(* the laws of the assumptions.                                               *)

USE DigitsAssumption

LEMMA ScanType ==
    ASSUME NEW s \in Scans, NEW i \in Nat, NEW x \in Digit
    PROVE  /\ Scan(s, i, x) \in Scans
           /\ Scan(s, i, x).c = _D[s.c][_P[i % 8][x]]
           /\ _P[i % 8][x] \in Digit
<1>1. i % 8 \in 0 .. 7
  OBVIOUS
<1>2. _P[i % 8][x] \in Digit
  BY <1>1, TablesAssumption
<1>3. _D[s.c][_P[i % 8][x]] \in Digit
  BY <1>2, TablesAssumption DEF Scans
<1> QED BY <1>2, <1>3 DEF Scan, Permuted, Scans, Mixed

LEMMA CheckDigitType ==
    ASSUME NEW c \in Digit, NEW i \in Nat, NEW x \in Digit
    PROVE  CheckDigitScan(c, i, x) \in Digit
<1>1. i % 8 \in 0 .. 7
  OBVIOUS
<1>2. _P[i % 8][x] \in Digit
  BY <1>1, TablesAssumption
<1> QED BY <1>2, TablesAssumption DEF CheckDigitScan, Place

LEMMA VerdictType ==
    ASSUME NEW s, NEW top
    PROVE  validate_aadhaar(s, top) \in Verdicts
BY DEF validate_aadhaar, Verdicts

\* The two scans keep their types, for a number of any length.
THEOREM IdTypeCorrect == IdSpec => []IdTypeOK
<1>1. IdInit => IdTypeOK
  BY DEF IdInit, IdTypeOK, Scans, NothingRead, NoVerdicts, Verdicts, Digit, Mixed
<1>2. IdTypeOK /\ [IdNext]_idVars => IdTypeOK'
  <2> SUFFICES ASSUME IdTypeOK, [IdNext]_idVars PROVE IdTypeOK'
    OBVIOUS
  <2>1. read \in Nat /\ read + 1 \in Nat
    BY DEF IdTypeOK
  <2>2. ASSUME NEW x \in Digit, NEW y \in Digit, ReadDigit(x, y) PROVE IdTypeOK'
    <3>1. issued' \in Scans /\ typed' \in Scans
      BY <2>1, <2>2, ScanType DEF ReadDigit, IdTypeOK
    <3>2. sum' \in Digit
      BY <2>1, <2>2, CheckDigitType DEF ReadDigit, IdTypeOK
    <3>3. verdicts' \in [issued : Verdicts, typed : Verdicts]
      BY <2>2, VerdictType DEF ReadDigit, Reads, NoVerdicts, Verdicts
    <3> QED BY <2>2, <3>1, <3>2, <3>3 DEF ReadDigit, Reads, IdTypeOK
  <2>3. ASSUME NEW x \in Digit, NEW y \in Digit, ReadSwapped(x, y) PROVE IdTypeOK'
    <3>1. /\ Scan(issued, read, x) \in Scans
          /\ Scan(typed, read, y) \in Scans
          /\ CheckDigitScan(sum, read, x) \in Digit
      BY <2>1, ScanType, CheckDigitType DEF IdTypeOK
    <3>2. issued' \in Scans /\ typed' \in Scans
      BY <2>1, <2>3, <3>1, ScanType DEF ReadSwapped
    <3>3. sum' \in Digit
      BY <2>1, <2>3, <3>1, CheckDigitType DEF ReadSwapped
    <3>4. verdicts' \in [issued : Verdicts, typed : Verdicts]
      BY <2>3, VerdictType DEF ReadSwapped, Reads, NoVerdicts, Verdicts
    <3> QED BY <2>3, <3>2, <3>3, <3>4 DEF ReadSwapped, Reads, IdTypeOK
  <2>4. CASE UNCHANGED idVars
    BY <2>4 DEF idVars, IdTypeOK
  <2> QED BY <2>2, <2>3, <2>4 DEF IdNext, Right, Wrong, Swapped
<1> QED BY <1>1, <1>2, PTL DEF IdSpec

-----------------------------------------------------------------------------
\* The check digit's contribution comes first, and the rest is verhoeff_check_digit's.
SumFollows == IF read = 0 THEN sum = 0 /\ issued.c = 0 ELSE issued.c = _D[first][sum]

\* One digit more keeps it so.
LEMMA SumStep ==
    ASSUME NEW s \in Scans, NEW f \in Digit, NEW c \in Digit, NEW i \in Nat, NEW x \in Digit,
           IF i = 0 THEN c = 0 /\ s.c = 0 ELSE s.c = _D[f][c]
    PROVE  Scan(s, i, x).c = _D[IF i = 0 THEN x ELSE f][CheckDigitScan(c, i, x)]
<1> DEFINE p == _P[i % 8][x]
<1>1. p \in Digit /\ Scan(s, i, x).c = _D[s.c][p]
  BY ScanType
<1>2. CASE i = 0
  <2>1. i % 8 = 0
    BY <1>2
  <2>2. p = x
    BY <2>1, PermutationAssumption
  <2>3. CheckDigitScan(c, i, x) = 0
    BY <1>2 DEF CheckDigitScan
  <2>4. _D[0][x] = x /\ _D[x][0] = x
    BY UnitAssumption DEF Digit
  <2> QED BY <1>1, <1>2, <2>2, <2>3, <2>4
<1>3. CASE i # 0
  <2>1. CheckDigitScan(c, i, x) = _D[c][p]
    BY <1>3 DEF CheckDigitScan, Place
  <2>2. _D[_D[f][c]][p] = _D[f][_D[c][p]]
    BY <1>1, AssociativeAssumption
  <2> QED BY <1>1, <1>3, <2>1, <2>2
<1> QED BY <1>2, <1>3

LEMMA SumsFollow == IdSpec => []SumFollows
<1>1. IdInit => SumFollows
  BY DEF IdInit, SumFollows, NothingRead
<1>2. IdTypeOK /\ SumFollows /\ [IdNext]_idVars => SumFollows'
  <2> SUFFICES ASSUME IdTypeOK, SumFollows, [IdNext]_idVars PROVE SumFollows'
    OBVIOUS
  <2>1. /\ read \in Nat /\ read + 1 \in Nat /\ read + 1 # 0 /\ read + 2 # 0
        /\ issued \in Scans /\ first \in Digit /\ sum \in Digit
        /\ IF read = 0 THEN sum = 0 /\ issued.c = 0 ELSE issued.c = _D[first][sum]
    BY DEF IdTypeOK, SumFollows
  <2>2. ASSUME NEW x \in Digit, NEW y \in Digit, ReadDigit(x, y) PROVE SumFollows'
    <3>1. issued'.c = _D[first'][sum']
      BY <2>1, <2>2, SumStep DEF ReadDigit, Reads
    <3> QED BY <2>1, <2>2, <3>1 DEF ReadDigit, Reads, SumFollows
  <2>3. ASSUME NEW x \in Digit, NEW y \in Digit, ReadSwapped(x, y) PROVE SumFollows'
    <3> DEFINE s1 == Scan(issued, read, x)
               c1 == CheckDigitScan(sum, read, x)
               f1 == IF read = 0 THEN x ELSE first
    <3>1. s1.c = _D[f1][c1]
      BY <2>1, SumStep
    <3>2. s1 \in Scans /\ c1 \in Digit /\ f1 \in Digit
      BY <2>1, ScanType, CheckDigitType
    <3> HIDE DEF s1, c1, f1
    <3>3. Scan(s1, read + 1, y).c = _D[f1][CheckDigitScan(c1, read + 1, y)]
      BY <2>1, <3>1, <3>2, SumStep
    <3>4. issued'.c = _D[first'][sum']
      BY <2>3, <3>3 DEF ReadSwapped, Reads, s1, c1, f1
    <3> QED BY <2>1, <2>3, <3>4 DEF ReadSwapped, Reads, SumFollows
  <2>4. CASE UNCHANGED idVars
    BY <2>4 DEF idVars, SumFollows
  <2> QED BY <2>2, <2>3, <2>4 DEF IdNext, Right, Wrong, Swapped
<1> QED BY <1>1, <1>2, IdTypeCorrect, PTL DEF IdSpec

\* Whatever the digits before it, the digit verhoeff_check_digit returns makes
\* verhoeff_valid true of the number, and it is the only one.
THEOREM CheckDigitIsUnique == IdSpec => []OneDigitCompletes
<1>1. IdTypeOK /\ SumFollows => OneDigitCompletes
  BY InverseAssumption DEF IdTypeOK, SumFollows, OneDigitCompletes
<1> QED BY <1>1, IdTypeCorrect, SumsFollow, PTL

-----------------------------------------------------------------------------
\* Until the slip the two scans agree; after it they never do again.
ScansPart == IF slip = "none" THEN typed = issued ELSE typed.c # issued.c

\* A valid number's checksum is right.
VerdictsHonest ==
    /\ verdicts.issued = "valid" => issued.c = 0
    /\ verdicts.typed = "valid" => typed.c = 0

\* The same digit keeps different sums different.
LEMMA SameDigit ==
    ASSUME NEW s \in Scans, NEW t \in Scans, NEW i \in Nat, NEW x \in Digit, s.c # t.c
    PROVE  Scan(s, i, x).c # Scan(t, i, x).c
<1> DEFINE p == _P[i % 8][x]
<1>1. s.c \in Digit /\ t.c \in Digit
  BY DEF Scans
<1>2. p \in Digit /\ Scan(s, i, x).c = _D[s.c][p] /\ Scan(t, i, x).c = _D[t.c][p]
  BY ScanType
<1> HIDE DEF p
<1> QED BY <1>1, <1>2, CancelAssumption

\* A wrong digit makes equal sums different.
LEMMA WrongDigit ==
    ASSUME NEW s \in Scans, NEW i \in Nat, NEW x \in Digit, NEW y \in Digit, x # y
    PROVE  Scan(s, i, x).c # Scan(s, i, y).c
<1> DEFINE p == _P[i % 8][x]
           q == _P[i % 8][y]
<1>1. s.c \in Digit /\ i % 8 \in 0 .. 7
  BY DEF Scans
<1>2. p # q
  BY <1>1, PermutationAssumption
<1>3. p \in Digit /\ Scan(s, i, x).c = _D[s.c][p]
  BY ScanType
<1>4. q \in Digit /\ Scan(s, i, y).c = _D[s.c][q]
  BY ScanType
<1> HIDE DEF p, q
<1> QED BY <1>1, <1>2, <1>3, <1>4, CancelAssumption

\* So do two neighbours swapped.
LEMMA SwappedDigits ==
    ASSUME NEW s \in Scans, NEW i \in Nat, NEW x \in Digit, NEW y \in Digit, x # y
    PROVE  Scan(Scan(s, i, x), i + 1, y).c # Scan(Scan(s, i, y), i + 1, x).c
<1> DEFINE k == i % 8
<1>1. s.c \in Digit /\ k \in 0 .. 7 /\ (i + 1) % 8 = (k + 1) % 8 /\ i + 1 \in Nat
  BY DEF Scans
<1>2. ASSUME NEW u \in Digit, NEW v \in Digit
      PROVE  Scan(Scan(s, i, u), i + 1, v).c = _D[_D[s.c][_P[k][u]]][_P[(k + 1) % 8][v]]
  <2>1. Scan(s, i, u) \in Scans /\ Scan(s, i, u).c = _D[s.c][_P[k][u]]
    BY ScanType
  <2> DEFINE t == Scan(s, i, u)
  <2> HIDE DEF t
  <2>2. Scan(t, i + 1, v).c = _D[t.c][_P[(i + 1) % 8][v]]
    BY <1>1, <2>1, ScanType DEF t
  <2> QED BY <1>1, <2>1, <2>2 DEF t
<1> HIDE DEF k
<1>3. _D[_D[s.c][_P[k][x]]][_P[(k + 1) % 8][y]] # _D[_D[s.c][_P[k][y]]][_P[(k + 1) % 8][x]]
  <2>1. \A c, u, v \in Digit :
            _D[_D[c][_P[k][u]]][_P[(k + 1) % 8][v]] = _D[_D[c][_P[k][v]]][_P[(k + 1) % 8][u]] => u = v
    BY <1>1, SwapAssumption
  <2> QED BY <1>1, <2>1
<1>4. /\ Scan(Scan(s, i, x), i + 1, y).c = _D[_D[s.c][_P[k][x]]][_P[(k + 1) % 8][y]]
      /\ Scan(Scan(s, i, y), i + 1, x).c = _D[_D[s.c][_P[k][y]]][_P[(k + 1) % 8][x]]
  BY <1>2
<1> QED BY <1>3, <1>4

LEMMA ScansPartOnce == IdSpec => [](ScansPart /\ VerdictsHonest)
<1>1. IdInit => ScansPart /\ VerdictsHonest
  BY DEF IdInit, ScansPart, VerdictsHonest, NoVerdicts
<1>2. IdTypeOK /\ ScansPart /\ VerdictsHonest /\ [IdNext]_idVars => (ScansPart /\ VerdictsHonest)'
  <2> SUFFICES ASSUME IdTypeOK, ScansPart, VerdictsHonest, [IdNext]_idVars
               PROVE  ScansPart' /\ VerdictsHonest'
    OBVIOUS
  <2>1. issued \in Scans /\ typed \in Scans /\ read \in Nat
    BY DEF IdTypeOK
  <2>2. ASSUME NEW n, NEW x, NEW top, Reads(n, x, top) PROVE VerdictsHonest'
    BY <2>2 DEF Reads, VerdictsHonest, NoVerdicts, validate_aadhaar
  <2>3. ASSUME NEW x \in Digit, Right(x) PROVE ScansPart'
    BY <2>1, <2>3, SameDigit DEF Right, ReadDigit, ScansPart
  <2>4. ASSUME NEW x \in Digit, NEW y \in Digit, Wrong(x, y) PROVE ScansPart'
    BY <2>1, <2>4, WrongDigit DEF Wrong, ReadDigit, ScansPart
  <2>5. ASSUME NEW x \in Digit, NEW y \in Digit, Swapped(x, y) PROVE ScansPart'
    BY <2>1, <2>5, SwappedDigits DEF Swapped, ReadSwapped, ScansPart
  <2>6. CASE UNCHANGED idVars
    BY <2>6 DEF idVars, ScansPart, VerdictsHonest
  <2> QED BY <2>2, <2>3, <2>4, <2>5, <2>6
          DEF IdNext, Right, Wrong, Swapped, ReadDigit, ReadSwapped
<1> QED BY <1>1, <1>2, IdTypeCorrect, PTL DEF IdSpec

\* In a number of any length, one wrong digit or one pair of neighbours swapped
\* is caught wherever it happens.
THEOREM SlipsCaught == IdSpec => []SlipsAreCaught
<1>1. ScansPart /\ VerdictsHonest => SlipsAreCaught
  BY DEF ScansPart, VerdictsHonest, SlipsAreCaught
<1> QED BY <1>1, ScansPartOnce, PTL

\* Both, for numbers of any length.
THEOREM CheckDigitsDoTheirJobs == IdSpec => []CheckDigitsWork
<1>1. SlipsAreCaught /\ OneDigitCompletes => CheckDigitsWork
  BY DEF CheckDigitsWork
<1> QED BY <1>1, SlipsCaught, CheckDigitIsUnique, PTL

-----------------------------------------------------------------------------
(* Statements.                                                                *)

\* what each row adds to the balance
Nets == [i \in DOMAIN account |-> account[i].credit - account[i].debit]

\* places[k] is where the file lists the k-th row that was booked.
Lists(places, rows, listed) ==
    /\ places \in [1 .. Len(rows) -> 1 .. Len(listed)]
    /\ \A k, l \in 1 .. Len(rows) : k # l => places[k] # places[l]
    /\ \A j \in 1 .. Len(listed) : \E k \in 1 .. Len(rows) : places[k] = j
    /\ \A k \in 1 .. Len(rows) : listed[places[k]] = rows[k]
    /\ \A k, l \in 1 .. Len(rows) : k < l /\ rows[k].date = rows[l].date => places[k] < places[l]

IsListing(places) == Lists(places, account, file)

\* An account is booked date by date, and a row's balance is what the rows up to
\* it leave of the opening balance.
DatesInOrder == \A k, l \in 1 .. Len(account) : k < l => account[k].date <= account[l].date
BalancesAddUp == \A k \in 1 .. Len(account) : account[k].balance = Opening + SumOver(Nets, 1 .. k)

RowsOK ==
    /\ account \in Seq(Row) /\ file \in Seq(Row)
    /\ Len(file) = Len(account) /\ Len(account) <= MaxRows

StatementInv ==
    /\ RowsOK /\ DatesInOrder /\ BalancesAddUp
    /\ \E places : IsListing(places)

LEMMA RowFields ==
    ASSUME NEW row \in Row
    PROVE  /\ row.date \in 1 .. Dates /\ row.date \in Int /\ row.balance \in Int
           /\ row.credit \in Nat /\ row.debit \in Nat
  BY StatementAssumption DEF Row

LEMMA Joins ==
    ASSUME NEW R, NEW s \in Seq(R), NEW t \in Seq(R), NEW u, u = s \o t
    PROVE  /\ u \in Seq(R) /\ Len(u) = Len(s) + Len(t)
           /\ \A j \in 1 .. Len(s) : u[j] = s[j]
           /\ \A j \in 1 .. Len(t) : u[Len(s) + j] = t[j]
  OBVIOUS

LEMMA Inserts ==
    ASSUME NEW R, NEW s \in Seq(R), NEW p \in 1 .. Len(s) + 1, NEW row \in R
    PROVE  /\ InsertAt(s, p, row) \in Seq(R) /\ Len(InsertAt(s, p, row)) = Len(s) + 1
           /\ InsertAt(s, p, row)[p] = row
           /\ \A j \in 1 .. Len(s) : InsertAt(s, p, row)[IF j < p THEN j ELSE j + 1] = s[j]
<1> DEFINE n == Len(s)
           front == SubSeq(s, 1, p - 1)
           back == SubSeq(s, p, n)
           one == <<row>>
<1>1. n \in Nat /\ p \in 1 .. n + 1
  OBVIOUS
<1>2. front \in Seq(R) /\ Len(front) = p - 1 /\ \A j \in 1 .. p - 1 : front[j] = s[j]
  BY <1>1
<1>3. back \in Seq(R) /\ Len(back) = n - p + 1 /\ \A j \in 1 .. n - p + 1 : back[j] = s[j + p - 1]
  BY <1>1
<1>4. one \in Seq(R) /\ Len(one) = 1 /\ one[1] = row
  OBVIOUS
<1>5. InsertAt(s, p, row) = front \o one \o back
  BY DEF InsertAt
<1> HIDE DEF front, back, one, n
<1> DEFINE head == front \o one
<1>6. head \in Seq(R) /\ Len(head) = p /\ head[p] = row /\ \A j \in 1 .. p - 1 : head[j] = s[j]
  <2>1. /\ head \in Seq(R) /\ Len(head) = Len(front) + Len(one)
        /\ \A j \in 1 .. Len(front) : head[j] = front[j]
        /\ \A j \in 1 .. Len(one) : head[Len(front) + j] = one[j]
    <3> HIDE DEF head
    <3>1. head = front \o one
      BY DEF head
    <3> DEFINE a == front
    <3>2. a \in Seq(R) /\ one \in Seq(R)
      BY <1>2, <1>4
    <3> HIDE DEF a
    <3> QED BY <3>1, <3>2, Joins DEF a
  <2> HIDE DEF head
  <2>2. head[(p - 1) + 1] = row
    <3>1. 1 \in 1 .. Len(one) /\ one[1] = row
      BY <1>4
    <3>2. head[Len(front) + 1] = row
      BY <2>1, <3>1
    <3> QED BY <1>2, <3>2
  <2>3. (p - 1) + 1 = p /\ Len(head) = p
    BY <1>1, <1>2, <1>4, <2>1
  <2>4. \A j \in 1 .. p - 1 : head[j] = s[j]
    BY <1>2, <2>1
  <2> QED BY <2>1, <2>2, <2>3, <2>4
<1> HIDE DEF head
<1> DEFINE all == head \o back
<1>7. /\ all \in Seq(R) /\ Len(all) = n + 1 /\ \A j \in 1 .. p : all[j] = head[j]
      /\ \A j \in 1 .. n - p + 1 : all[p + j] = back[j]
  <2>1. /\ all \in Seq(R) /\ Len(all) = Len(head) + Len(back)
        /\ \A j \in 1 .. Len(head) : all[j] = head[j]
        /\ \A j \in 1 .. Len(back) : all[Len(head) + j] = back[j]
    <3> HIDE DEF all
    <3>1. all = head \o back
      BY DEF all
    <3>2. head \in Seq(R) /\ back \in Seq(R)
      BY <1>3, <1>6
    <3> QED BY <3>1, <3>2, Joins
  <2> HIDE DEF all
  <2> QED BY <1>1, <1>3, <1>6, <2>1
<1> HIDE DEF all
<1>9. \A j \in 1 .. n : all[IF j < p THEN j ELSE j + 1] = s[j]
  <2> TAKE j \in 1 .. n
  <2>1. CASE j < p
    <3>1. j \in 1 .. p /\ j \in 1 .. p - 1
      BY <1>1, <2>1
    <3> QED BY <1>6, <1>7, <2>1, <3>1
  <2>2. CASE ~(j < p)
    <3> DEFINE i == j - p + 1
    <3>1. i \in 1 .. n - p + 1 /\ p + i = j + 1 /\ i + p - 1 = j
      BY <1>1, <2>2
    <3> HIDE DEF i
    <3> QED BY <1>3, <1>7, <2>2, <3>1
  <2> QED BY <2>1, <2>2
<1>10. p \in 1 .. p /\ all[p] = row
  BY <1>1, <1>6, <1>7
<1> QED BY <1>5, <1>7, <1>9, <1>10 DEF all, head, n

\* The sort by date, which keeps the order of the rows of one date, restores the
\* order in which they were booked.
LEMMA SortRestores ==
    ASSUME RowsOK, DatesInOrder, NEW places, IsListing(places)
    PROVE  parse_csv(file) = account
<1> DEFINE n == Len(account)
           UpTo(j) == {i \in DOMAIN file : Sorted(file, i, j)}
<1>1. /\ n \in Nat /\ DOMAIN file = 1 .. n /\ DOMAIN account = 1 .. n /\ Len(file) = n
      /\ account = [k \in 1 .. n |-> account[k]]
      /\ \A k \in 1 .. n : account[k] \in Row /\ account[k].date \in Int
  <2>1. \A k \in 1 .. n : account[k] \in Row
    BY DEF RowsOK
  <2> QED BY <2>1, RowFields DEF RowsOK
<1>2. /\ places \in [1 .. n -> 1 .. n]
      /\ \A k, l \in 1 .. n : k # l => places[k] # places[l]
      /\ \A j \in 1 .. n : \E k \in 1 .. n : places[k] = j
      /\ \A k \in 1 .. n : file[places[k]] = account[k]
      /\ \A k, l \in 1 .. n : k < l /\ account[k].date = account[l].date => places[k] < places[l]
  BY <1>1 DEF IsListing, Lists
<1>3. \A k, l \in 1 .. n : k < l => account[k].date <= account[l].date
  BY DEF DatesInOrder
<1> HIDE DEF n
<1>4. ASSUME NEW k \in 1 .. n, NEW l \in 1 .. n
      PROVE  Sorted(file, places[l], places[k]) <=> l <= k
  <2>1. file[places[l]].date = account[l].date /\ file[places[k]].date = account[k].date
        /\ account[l].date \in Int /\ account[k].date \in Int /\ places[l] \in Int /\ places[k] \in Int
        /\ k \in Int /\ l \in Int
    <3>1. file[places[l]].date = account[l].date /\ file[places[k]].date = account[k].date
      BY <1>2
    <3>2. places[l] \in 1 .. n /\ places[k] \in 1 .. n
      BY <1>2
    <3> QED BY <1>1, <3>1, <3>2
  <2> DEFINE a == account[l].date
             b == account[k].date
             p == places[l]
             q == places[k]
  <2>2. Sorted(file, p, q) <=> a < b \/ (a = b /\ p <= q)
    BY <2>1 DEF Sorted
  <2>3. (l < k => a <= b /\ (a = b => p < q)) /\ (k < l => b <= a /\ (a = b => q < p))
    BY <1>2, <1>3
  <2>4. l = k => a = b /\ p = q
    OBVIOUS
  <2>5. a \in Int /\ b \in Int /\ p \in Int /\ q \in Int
    BY <2>1
  <2> HIDE DEF a, b, p, q
  <2> SUFFICES Sorted(file, p, q) <=> l <= k
    BY DEF p, q
  <2>6. CASE l < k
    BY <2>1, <2>2, <2>3, <2>5, <2>6
  <2>7. CASE k < l
    BY <2>1, <2>2, <2>3, <2>5, <2>7
  <2>8. CASE k = l
    BY <2>1, <2>2, <2>4, <2>5, <2>8
  <2>9. l < k \/ k < l \/ k = l
    BY <2>1
  <2> QED BY <2>6, <2>7, <2>8, <2>9
<1>5. ASSUME NEW k \in 1 .. n
      PROVE  Cardinality(UpTo(places[k])) = k
  <2> DEFINE f == [l \in 1 .. k |-> places[l]]
  <2>1. \A l \in 1 .. k : l \in 1 .. n
    BY <1>1
  <2>2. \A i \in UpTo(places[k]) : \E l \in 1 .. k : f[l] = i
    <3> TAKE i \in UpTo(places[k])
    <3>1. PICK l \in 1 .. n : places[l] = i
      BY <1>1, <1>2
    <3>2. l <= k
      BY <1>4, <3>1
    <3> QED BY <1>1, <3>1, <3>2
  <2>3. \A l \in 1 .. k : f[l] \in UpTo(places[k])
    BY <1>1, <1>2, <1>4, <2>1
  <2>4. \A l, m \in 1 .. k : f[l] = f[m] => l = m
    BY <1>2, <2>1
  <2> DEFINE U == UpTo(places[k])
             D == 1 .. k
  <2>5. f \in [D -> U] /\ (\A i \in U : \E l \in D : f[l] = i) /\ (\A l, m \in D : f[l] = f[m] => l = m)
    BY <2>2, <2>3, <2>4
  <2> HIDE DEF UpTo, f, U, D
  <2>8. f \in Bijection(D, U)
    <3>1. f \in Injection(D, U)
      BY <2>5 DEF Injection, IsInjective
    <3>2. f \in Surjection(D, U)
      BY <2>5, Zenon DEF Surjection
    <3> QED BY <3>1, <3>2, Zenon DEF Bijection
  <2>6. ExistsBijection(1 .. k, UpTo(places[k]))
    BY <2>8 DEF ExistsBijection, D, U
  <2>7. k \in Nat
    BY <1>1
  <2> QED BY <2>6, <2>7, FS_CountingElements
<1>6. ASSUME NEW k \in 1 .. n
      PROVE  (CHOOSE j \in DOMAIN file : Cardinality(UpTo(j)) = k) = places[k]
  <2>1. places[k] \in DOMAIN file /\ Cardinality(UpTo(places[k])) = k
    BY <1>1, <1>2, <1>5
  <2>2. ASSUME NEW j \in DOMAIN file, Cardinality(UpTo(j)) = k PROVE j = places[k]
    <3>1. PICK l \in 1 .. n : places[l] = j
      BY <1>1, <1>2
    <3>2. Cardinality(UpTo(places[l])) = l
      BY <1>5
    <3> QED BY <2>2, <3>1, <3>2
  <2> HIDE DEF UpTo
  <2> QED BY <2>1, <2>2
<1>7. parse_csv(file) = [k \in 1 .. n |-> file[CHOOSE j \in DOMAIN file : Cardinality(UpTo(j)) = k]]
  BY <1>1 DEF parse_csv
<1> HIDE DEF UpTo
<1>8. parse_csv(file) = [k \in 1 .. n |-> account[k]]
  <2>1. \A k \in 1 .. n : file[CHOOSE j \in DOMAIN file : Cardinality(UpTo(j)) = k] = account[k]
    BY <1>2, <1>6
  <2> QED BY <1>7, <2>1
<1> QED BY <1>1, <1>8

LEMMA RowsFacts ==
    ASSUME RowsOK
    PROVE  /\ Len(account) \in Nat /\ DOMAIN account = 1 .. Len(account)
           /\ \A k \in 1 .. Len(account) : account[k] \in Row /\ account[k].date \in Int /\ account[k].balance \in Int
           /\ \A k \in 1 .. Len(account) : Nets[k] = account[k].credit - account[k].debit /\ Nets[k] \in Int
<1>1. Len(account) \in Nat /\ DOMAIN account = 1 .. Len(account) /\ \A k \in 1 .. Len(account) : account[k] \in Row
  BY DEF RowsOK
<1>2. \A k \in 1 .. Len(account) : Nets[k] = account[k].credit - account[k].debit
  BY <1>1 DEF Nets
<1>3. \A k \in 1 .. Len(account) : /\ account[k].date \in Int /\ account[k].balance \in Int
                                  /\ account[k].credit \in Int /\ account[k].debit \in Int
  <2> TAKE k \in 1 .. Len(account)
  <2> DEFINE row == account[k]
  <2>1. row \in Row
    BY <1>1
  <2> HIDE DEF row
  <2>2. row.date \in Int /\ row.balance \in Int /\ row.credit \in Int /\ row.debit \in Int
    BY <2>1, RowFields
  <2> QED BY <2>2 DEF row
<1> QED BY <1>1, <1>2, <1>3

LEMMA BalanceNow ==
    ASSUME RowsOK, BalancesAddUp
    PROVE  /\ SumOver(Nets, 1 .. Len(account)) \in Int
           /\ Balance(account) = Opening + SumOver(Nets, 1 .. Len(account)) /\ Balance(account) \in Int
<1> DEFINE n == Len(account)
<1>1. n \in Nat /\ \A k \in 1 .. n : Nets[k] \in Int
  BY RowsFacts
<1>2. SumOver(Nets, 1 .. n) \in Int
  <2>1. 1 \in Int /\ n \in Int /\ 1 .. n \in SUBSET (1 .. n)
    BY <1>1
  <2>2. IsFiniteSet(1 .. n)
    BY <2>1, FS_Interval
  <2> HIDE DEF n
  <2> QED BY <1>1, <2>1, <2>2, SumType
<1>3. CASE n = 0
  <2>1. account = <<>> /\ 1 .. n = {}
    BY <1>3 DEF RowsOK
  <2>2. SumOver(Nets, {}) = 0
    BY SumEmpty
  <2>3. Balance(account) = Opening
    BY <2>1 DEF Balance
  <2>4. SumOver(Nets, 1 .. n) = 0
    BY <2>1, <2>2
  <2> HIDE DEF n
  <2> QED BY <2>3, <2>4, StatementAssumption DEF n
<1>4. CASE n # 0
  <2>1. account # <<>> /\ n \in 1 .. n
    BY <1>1, <1>4
  <2>2. Balance(account) = account[n].balance
    BY <2>1 DEF Balance, Last
  <2>3. account[n].balance = Opening + SumOver(Nets, 1 .. n)
    BY <2>1 DEF BalancesAddUp
  <2> HIDE DEF n
  <2> QED BY <1>2, <2>2, <2>3, StatementAssumption DEF n
<1> QED BY <1>3, <1>4

\* rows2 and listed2 are rows and listed with one more row, booked last and
\* listed at a place after the rows of its date.
Grown(n, rows, listed, rows2, listed2, row, place) ==
    /\ n \in Nat /\ place \in 1 .. n + 1
    /\ Len(rows) = n /\ Len(listed) = n /\ Len(rows2) = n + 1 /\ Len(listed2) = n + 1
    /\ \A k \in 1 .. n : rows2[k] = rows[k]
    /\ rows2[n + 1] = row /\ listed2[place] = row
    /\ \A j \in 1 .. n : listed2[IF j < place THEN j ELSE j + 1] = listed[j]
    /\ \A i \in 1 .. n : listed[i].date = row.date => i < place

LEMMA ListedToo ==
    ASSUME NEW n, NEW rows, NEW listed, NEW rows2, NEW listed2, NEW row, NEW place,
           Grown(n, rows, listed, rows2, listed2, row, place), NEW p, Lists(p, rows, listed)
    PROVE  \E q : Lists(q, rows2, listed2)
<1> DEFINE Moved(j) == IF j < place THEN j ELSE j + 1
           q == [k \in 1 .. n + 1 |-> IF k = n + 1 THEN place ELSE Moved(p[k])]
<1>0. /\ n \in Nat /\ place \in 1 .. n + 1
      /\ Len(rows) = n /\ Len(listed) = n /\ Len(rows2) = n + 1 /\ Len(listed2) = n + 1
      /\ \A k \in 1 .. n : rows2[k] = rows[k]
      /\ rows2[n + 1] = row /\ listed2[place] = row
      /\ \A j \in 1 .. n : listed2[IF j < place THEN j ELSE j + 1] = listed[j]
      /\ \A i \in 1 .. n : listed[i].date = row.date => i < place
  BY DEF Grown
<1>1. /\ p \in [1 .. n -> 1 .. n]
      /\ \A k, l \in 1 .. n : k # l => p[k] # p[l]
      /\ \A j \in 1 .. n : \E k \in 1 .. n : p[k] = j
      /\ \A k \in 1 .. n : listed[p[k]] = rows[k]
      /\ \A k, l \in 1 .. n : k < l /\ rows[k].date = rows[l].date => p[k] < p[l]
  BY <1>0 DEF Lists
<1>2. /\ n \in Nat /\ place \in Int /\ n + 1 \in 1 .. n + 1
      /\ \A k \in 1 .. n : p[k] \in 1 .. n
      /\ \A k \in 1 .. n : p[k] \in Int /\ k \in 1 .. n + 1 /\ k # n + 1
      /\ \A k \in 1 .. n + 1 : k = n + 1 \/ k \in 1 .. n
  <2>1. \A k \in 1 .. n : p[k] \in 1 .. n
    BY <1>1
  <2>2. \A k \in 1 .. n : p[k] \in Int
    BY <2>1
  <2>3. n \in Nat /\ place \in Int /\ n + 1 \in 1 .. n + 1
        /\ \A k \in 1 .. n + 1 : k = n + 1 \/ k \in 1 .. n
    BY <1>0
  <2>4. \A k \in 1 .. n : k \in 1 .. n + 1 /\ k # n + 1
    BY <1>0
  <2> QED BY <2>1, <2>2, <2>3, <2>4
<1>3. q[n + 1] = place /\ \A k \in 1 .. n : q[k] = Moved(p[k])
  BY <1>2
<1>4. \A i, j \in 1 .. n : /\ Moved(i) \in 1 .. n + 1 /\ Moved(i) # place
                            /\ (i < j => Moved(i) < Moved(j)) /\ (i # j => Moved(i) # Moved(j))
  BY <1>0
<1>5. \A j \in 1 .. n + 1 : j # place => \E i \in 1 .. n : Moved(i) = j
  <2> TAKE j \in 1 .. n + 1
  <2>1. CASE j < place
    <3>1. j \in 1 .. n /\ Moved(j) = j
      BY <1>0, <2>1
    <3> QED BY <3>1
  <2>2. CASE j > place
    <3>1. j - 1 \in 1 .. n /\ Moved(j - 1) = j
      BY <1>0, <2>2
    <3> QED BY <3>1
  <2> QED BY <1>2, <2>1, <2>2
<1>6. \A j \in 1 .. n : listed2[Moved(j)] = listed[j] /\ (j < place => Moved(j) = j)
  BY <1>0
<1>7. q = [k \in 1 .. n + 1 |-> q[k]]
  OBVIOUS
<1> HIDE DEF Moved, q
<1>8. \A k \in 1 .. n + 1 : q[k] \in 1 .. n + 1
  <2> TAKE k \in 1 .. n + 1
  <2>1. CASE k = n + 1
    BY <1>0, <1>3, <2>1
  <2>2. CASE k \in 1 .. n
    BY <1>2, <1>3, <1>4, <2>2
  <2> QED BY <1>2, <2>1, <2>2
<1>9. \A k, l \in 1 .. n + 1 : k # l => q[k] # q[l]
  <2> SUFFICES ASSUME NEW k \in 1 .. n + 1, NEW l \in 1 .. n + 1, k # l PROVE q[k] # q[l]
    OBVIOUS
  <2>1. CASE k \in 1 .. n /\ l \in 1 .. n
    <3>1. p[k] \in 1 .. n /\ p[l] \in 1 .. n /\ p[k] # p[l]
      BY <1>1, <1>2, <2>1
    <3>2. Moved(p[k]) # Moved(p[l])
      BY <1>4, <3>1
    <3> QED BY <1>3, <2>1, <3>2
  <2>2. CASE k \in 1 .. n /\ l = n + 1
    BY <1>2, <1>3, <1>4, <2>2
  <2>3. CASE l \in 1 .. n /\ k = n + 1
    BY <1>2, <1>3, <1>4, <2>3
  <2> QED BY <1>2, <2>1, <2>2, <2>3
<1>10. \A j \in 1 .. n + 1 : \E k \in 1 .. n + 1 : q[k] = j
  <2> TAKE j \in 1 .. n + 1
  <2>1. CASE j = place
    BY <1>2, <1>3, <2>1
  <2>2. CASE j # place
    <3>1. PICK i \in 1 .. n : Moved(i) = j
      BY <1>5, <2>2
    <3>2. PICK k \in 1 .. n : p[k] = i
      BY <1>1
    <3> QED BY <1>2, <1>3, <3>1, <3>2
  <2> QED BY <2>1, <2>2
<1>11. \A k \in 1 .. n + 1 : listed2[q[k]] = rows2[k]
  <2> TAKE k \in 1 .. n + 1
  <2>1. CASE k = n + 1
    BY <1>0, <1>3, <2>1
  <2>2. CASE k \in 1 .. n
    <3>1. listed2[Moved(p[k])] = listed[p[k]] /\ listed[p[k]] = rows[k] /\ q[k] = Moved(p[k])
      BY <1>1, <1>2, <1>3, <1>6, <2>2
    <3> QED BY <1>0, <2>2, <3>1
  <2> QED BY <1>2, <2>1, <2>2
<1>12. \A k, l \in 1 .. n + 1 : k < l /\ rows2[k].date = rows2[l].date => q[k] < q[l]
  <2> SUFFICES ASSUME NEW k \in 1 .. n + 1, NEW l \in 1 .. n + 1, k < l, rows2[k].date = rows2[l].date
               PROVE  q[k] < q[l]
    OBVIOUS
  <2>1. k \in 1 .. n
    BY <1>0
  <2>2. CASE l = n + 1
    <3>1. listed[p[k]].date = row.date
      BY <1>0, <1>1, <2>1, <2>2, SMTT(20)
    <3>2. p[k] < place
      BY <1>0, <1>2, <2>1, <3>1
    <3>3. q[k] = p[k]
      BY <1>2, <1>3, <1>6, <2>1, <3>2
    <3> QED BY <1>3, <2>2, <3>2, <3>3
  <2>3. CASE l \in 1 .. n
    <3>1. p[k] < p[l]
      BY <1>0, <1>1, <2>1, <2>3
    <3> QED BY <1>2, <1>3, <1>4, <2>1, <2>3, <3>1
  <2> QED BY <1>2, <2>2, <2>3
<1>13. q \in [1 .. n + 1 -> 1 .. n + 1]
  BY <1>7, <1>8
<1>14. Lists(q, rows2, listed2)
  BY <1>0, <1>9, <1>10, <1>11, <1>12, <1>13 DEF Lists
<1> QED BY <1>14

LEMMA BookStep ==
    ASSUME StatementInv, NEW kind \in Kinds, NEW date \in 1 .. Dates, NEW place \in 1 .. Len(file) + 1,
           Book(kind, date, place)
    PROVE  StatementInv'
<1> DEFINE n == Len(account)
           row == [date |-> date, says |-> kind.says, debit |-> kind.debit, credit |-> kind.credit,
                   balance |-> Balance(account) + kind.credit - kind.debit]
<1>1. /\ RowsOK /\ DatesInOrder /\ BalancesAddUp
      /\ account' = Append(account, row) /\ file' = InsertAt(file, place, row)
      /\ n < MaxRows
      /\ \A i \in DOMAIN account : account[i].date <= date
      /\ \A i \in DOMAIN file : file[i].date = date => i < place
  BY DEF StatementInv, Book
<1>2. PICK p : IsListing(p)
  BY DEF StatementInv
<1>3. Balance(account) \in Int /\ Balance(account) = Opening + SumOver(Nets, 1 .. n) /\ SumOver(Nets, 1 .. n) \in Int
  BY <1>1, BalanceNow
<1>4. row \in Row /\ row.credit \in Int /\ row.debit \in Int
  <2>1. kind.says \in SUBSET {"salary", "emi", "bounce"} /\ kind.debit \in Nat /\ kind.credit \in Nat
    BY StatementAssumption
  <2>2. Balance(account) + kind.credit - kind.debit \in Int
    BY <1>3, <2>1
  <2> QED BY <2>1, <2>2 DEF Row
<1>5. row.date = date /\ row.balance = Balance(account) + row.credit - row.debit
  OBVIOUS
<1>6. /\ n \in Nat /\ DOMAIN account = 1 .. n /\ Len(file) = n /\ DOMAIN file = 1 .. n
      /\ \A k \in 1 .. n : account[k] \in Row /\ account[k].date \in Int /\ Nets[k] \in Int
  <2>1. n \in Nat /\ DOMAIN account = 1 .. n
        /\ \A k \in 1 .. n : account[k] \in Row /\ account[k].date \in Int /\ Nets[k] \in Int
    BY <1>1, RowsFacts
  <2>2. Len(file) = n /\ DOMAIN file = 1 .. n
    BY <1>1 DEF RowsOK
  <2> QED BY <2>1, <2>2
<1> HIDE DEF n, row
<1>7. /\ account' \in Seq(Row) /\ Len(account') = n + 1 /\ account'[n + 1] = row /\ DOMAIN account' = 1 .. n + 1
      /\ \A k \in 1 .. n : account'[k] = account[k]
  <2>1. account \in Seq(Row) /\ Len(account) = n
    BY <1>1 DEF RowsOK, n
  <2> QED BY <1>1, <1>4, <2>1
<1>8. /\ file' \in Seq(Row) /\ Len(file') = n + 1 /\ file'[place] = row
      /\ \A j \in 1 .. n : file'[IF j < place THEN j ELSE j + 1] = file[j]
  <2>1. file \in Seq(Row)
    BY <1>1 DEF RowsOK
  <2> DEFINE s == file
             u == InsertAt(s, place, row)
  <2>2. s \in Seq(Row) /\ place \in 1 .. Len(s) + 1 /\ u = file'
    BY <1>1, <2>1
  <2> HIDE DEF s
  <2>3. /\ u \in Seq(Row) /\ Len(u) = Len(s) + 1 /\ u[place] = row
        /\ \A j \in 1 .. Len(s) : u[IF j < place THEN j ELSE j + 1] = s[j]
    <3> HIDE DEF u
    <3> QED BY <1>4, <2>2, Inserts DEF u
  <2> HIDE DEF u
  <2> QED BY <1>6, <2>2, <2>3 DEF s
<1>9. RowsOK'
  BY <1>1, <1>6, <1>7, <1>8, StatementAssumption DEF RowsOK
<1>10. DatesInOrder'
  <2> SUFFICES ASSUME NEW k \in 1 .. n + 1, NEW l \in 1 .. n + 1, k < l
               PROVE  account'[k].date <= account'[l].date
    BY <1>7 DEF DatesInOrder
  <2>1. k \in 1 .. n
    BY <1>6
  <2>2. CASE l = n + 1
    BY <1>1, <1>5, <1>6, <1>7, <2>1, <2>2
  <2>3. CASE l # n + 1
    BY <1>1, <1>6, <1>7, <2>1, <2>3 DEF DatesInOrder, n
  <2> QED BY <2>2, <2>3
<1>11. BalancesAddUp'
  <2>1. \A k \in 1 .. n : Nets'[k] = Nets[k]
    BY <1>6, <1>7 DEF Nets
  <2>2. Nets'[n + 1] = row.credit - row.debit /\ Nets'[n + 1] \in Int
    <3>1. n + 1 \in 1 .. n + 1
      BY <1>6
    <3> QED BY <1>4, <1>7, <3>1 DEF Nets
  <2>3. ASSUME NEW k \in 0 .. n PROVE SumOver(Nets', 1 .. k) = SumOver(Nets, 1 .. k)
    <3>1. IsFiniteSet(1 .. k)
      BY <1>6, FS_Interval
    <3>2. \A i \in 1 .. k : Nets'[i] = Nets[i]
      BY <1>6, <2>1
    <3> QED BY <3>1, <3>2, SumSame
  <2>4. SumOver(Nets', 1 .. n + 1) = SumOver(Nets, 1 .. n) + (row.credit - row.debit)
    <3> DEFINE S == 1 .. n
               x == n + 1
               g == Nets'
    <3>1. IsFiniteSet(S)
      BY <1>6, FS_Interval
    <3>2. x \notin S /\ 1 .. n + 1 = S \cup {x}
      BY <1>6
    <3>3. \A y \in S \cup {x} : g[y] \in Int
      BY <1>6, <2>1, <2>2
    <3>4. SumOver(g, S) = SumOver(Nets, S)
      BY <1>6, <2>3
    <3>5. g[x] = row.credit - row.debit
      BY <2>2
    <3> HIDE DEF S, x, g
    <3>6. SumOver(g, S \cup {x}) = SumOver(g, S) + g[x]
      BY <3>1, <3>2, <3>3, SumAdds
    <3> QED BY <3>2, <3>4, <3>5, <3>6 DEF S, g
  <2>5. \A k \in 1 .. n + 1 : account'[k].balance = Opening + SumOver(Nets', 1 .. k)
    <3> TAKE k \in 1 .. n + 1
    <3>1. CASE k = n + 1
      <4>1. account'[k].balance = Opening + SumOver(Nets, 1 .. n) + row.credit - row.debit
        BY <1>3, <1>5, <1>7, <3>1 DEF n
      <4>2. SumOver(Nets, 1 .. n) \in Int
        BY <1>3 DEF n
      <4> QED BY <1>4, <2>4, <3>1, <4>1, <4>2, StatementAssumption
    <3>2. CASE k # n + 1
      <4>1. k \in 1 .. n /\ k \in 0 .. n
        BY <1>6, <3>2
      <4>2. account[k].balance = Opening + SumOver(Nets, 1 .. k)
        BY <1>1, <4>1 DEF BalancesAddUp, n
      <4> QED BY <1>7, <2>3, <4>1, <4>2
    <3> QED BY <3>1, <3>2
  <2> QED BY <1>7, <2>5 DEF BalancesAddUp
<1>12. (\E places : IsListing(places))'
  <2>1. \E q : Lists(q, account', file')
    <3> DEFINE rows == account
               listed == file
               rows2 == account'
               listed2 == file'
    <3>1. Grown(n, rows, listed, rows2, listed2, row, place)
      <4>1. \A i \in 1 .. n : listed[i].date = row.date => i < place
        BY <1>1, <1>5, <1>6
      <4>2. Len(rows) = n
        BY DEF n
      <4> QED BY <1>6, <1>7, <1>8, <4>1, <4>2 DEF Grown
    <3>2. Lists(p, rows, listed)
      BY <1>2 DEF IsListing
    <3> HIDE DEF rows, listed, rows2, listed2
    <3>4. \E q : Lists(q, rows2, listed2)
      BY <3>1, <3>2, ListedToo
    <3> QED BY <3>4 DEF rows2, listed2
  <2> QED BY <2>1 DEF IsListing
<1> QED BY <1>9, <1>10, <1>11, <1>12 DEF StatementInv

LEMMA StatementInvariance == StatementSpec => []StatementInv
<1>1. StatementInit => StatementInv
  <2> SUFFICES ASSUME StatementInit PROVE StatementInv
    OBVIOUS
  <2>1. account = <<>> /\ file = <<>> /\ Len(account) = 0 /\ Len(file) = 0 /\ 1 .. 0 = {}
    BY DEF StatementInit
  <2>2. RowsOK
    BY <2>1, StatementAssumption DEF RowsOK
  <2>3. IsListing([k \in {} |-> 0])
    BY <2>1 DEF IsListing, Lists
  <2> QED BY <2>1, <2>2, <2>3 DEF StatementInv, DatesInOrder, BalancesAddUp
<1>2. StatementInv /\ [StatementNext]_statementVars => StatementInv'
  <2>1. StatementInv /\ UNCHANGED statementVars => StatementInv'
    <3> SUFFICES ASSUME StatementInv, UNCHANGED statementVars PROVE StatementInv'
      OBVIOUS
    <3>1. account' = account /\ file' = file
      BY DEF statementVars
    <3>2. RowsOK' /\ DatesInOrder' /\ BalancesAddUp'
      BY <3>1 DEF StatementInv, RowsOK, DatesInOrder, BalancesAddUp, Nets
    <3>3. (\E places : IsListing(places))'
      BY <3>1 DEF StatementInv, IsListing
    <3> QED BY <3>2, <3>3 DEF StatementInv
  <2> QED BY <2>1, BookStep DEF StatementNext
<1> QED BY <1>1, <1>2, PTL DEF StatementSpec

-----------------------------------------------------------------------------
(* What the months close with.                                                *)

LEMMA MonthsInOrder ==
    ASSUME NEW row \in Row, NEW other \in Row
    PROVE  /\ Month(row) \in Int
           /\ row.date <= other.date => Month(row) <= Month(other)
<1> DEFINE a == row.date - 1
           b == other.date - 1
           D == DaysAMonth
           q == a \div D
           p == b \div D
<1>1. a \in Int /\ b \in Int /\ D \in Nat \ {0} /\ row.date \in Int /\ other.date \in Int
  BY RowFields, StatementAssumption
<1>2. q \in Int /\ D * q <= a /\ a < D * q + D
  <2> HIDE DEF a, b, D
  <2> QED BY <1>1
<1>3. p \in Int /\ D * p <= b /\ b < D * p + D
  <2> HIDE DEF a, b, D
  <2> QED BY <1>1
<1>4. row.date <= other.date => a <= b
  BY <1>1
<1>5. Month(row) = q /\ Month(other) = p
  BY DEF Month
<1> HIDE DEF a, b, D, p, q
<1>6. ASSUME a <= b, p < q PROVE FALSE
  <2>1. p + 1 <= q
    BY <1>2, <1>3, <1>6
  <2>2. D * (p + 1) <= D * q
    BY <1>1, <1>2, <1>3, <2>1
  <2>3. D * (p + 1) = D * p + D
    BY <1>1, <1>3
  <2>4. D * p \in Int /\ D * q \in Int
    BY <1>1, <1>2, <1>3
  <2> QED BY <1>1, <1>2, <1>3, <1>6, <2>2, <2>3, <2>4
<1> QED BY <1>2, <1>3, <1>4, <1>5, <1>6

UpToMonth(m) == {i \in 1 .. Len(account) : Month(account[i]) <= m}

\* The rows up to a month are those up to its last row.
LEMMA LastOfMonth ==
    ASSUME RowsOK, DatesInOrder, NEW m, Of(account, m) # {}
    PROVE  /\ Max(Of(account, m)) \in 1 .. Len(account)
           /\ UpToMonth(m) = 1 .. Max(Of(account, m))
<1> DEFINE n == Len(account)
           S == Of(account, m)
           T == {n - i : i \in S}
           x == Max(S)
<1>1. /\ n \in Nat /\ S = {i \in 1 .. n : Month(account[i]) = m}
      /\ \A k \in 1 .. n : account[k] \in Row
  BY RowsFacts DEF Of
<1>2. \E i \in S : \A j \in S : i >= j
  <2>1. \A t \in T : t \in Nat
    BY <1>1
  <2>2. T \in SUBSET Nat /\ T # {}
    BY <2>1
  <2> HIDE DEF T
  <2>3. PICK t \in T : \A u \in T : t <= u
    BY <2>2, LeastNumber
  <2>4. PICK i \in S : t = n - i
    BY DEF T
  <2>5. ASSUME NEW j \in S PROVE i >= j
    <3>1. n - j \in T
      BY DEF T
    <3> QED BY <1>1, <2>3, <2>4, <3>1
  <2> QED BY <2>5
<1> HIDE DEF S
<1>3. x \in S /\ \A j \in S : x >= j
  BY <1>2 DEF Max
<1> HIDE DEF x
<1>4. x \in 1 .. n /\ Month(account[x]) = m
  BY <1>1, <1>3
<1>5. ASSUME NEW i \in 1 .. n PROVE Month(account[i]) <= m <=> i <= x
  <2>1. \A k, l \in 1 .. n : k < l => account[k].date <= account[l].date
    BY DEF DatesInOrder
  <2>2. account[i] \in Row /\ account[x] \in Row
    BY <1>1, <1>4
  <2> DEFINE a == account[i]
             b == account[x]
  <2>3. /\ Month(a) \in Int /\ Month(b) \in Int
        /\ (a.date <= b.date => Month(a) <= Month(b)) /\ (b.date <= a.date => Month(b) <= Month(a))
    <3> HIDE DEF a, b
    <3> QED BY <2>2, MonthsInOrder DEF a, b
  <2>4. (i < x => a.date <= b.date) /\ (x < i => b.date <= a.date)
    BY <1>4, <2>1
  <2>5. i \in S <=> Month(a) = m
    BY <1>1
  <2> HIDE DEF a, b
  <2>6. Month(b) = m
    BY <1>4 DEF b
  <2>7. Month(a) <= m <=> i <= x
    <3>1. CASE i < x
      BY <1>4, <2>3, <2>4, <2>6, <3>1
    <3>2. CASE i = x
      BY <1>4, <2>6, <2>3, <3>2 DEF a, b
    <3>3. CASE x < i
      <4>1. i \notin S
        BY <1>1, <1>3, <1>4, <3>3
      <4> QED BY <1>4, <2>3, <2>4, <2>5, <2>6, <3>3, <4>1
    <3> QED BY <1>1, <1>4, <3>1, <3>2, <3>3
  <2> QED BY <2>7 DEF a
<1>6. UpToMonth(m) = 1 .. x
  BY <1>1, <1>4, <1>5 DEF UpToMonth
<1> QED BY <1>4, <1>6 DEF x, S

LEMMA MonthsNet ==
    ASSUME RowsOK, NEW m
    PROVE  /\ Of(account, m) \subseteq 1 .. Len(account)
           /\ Credits(account, Of(account, m)) - Debits(account, Of(account, m)) = SumOver(Nets, Of(account, m))
<1> DEFINE n == Len(account)
           S == Of(account, m)
           g == [i \in DOMAIN account |-> account[i].credit]
           h == [i \in DOMAIN account |-> account[i].debit]
           d == Nets
<1>1. n \in Nat /\ DOMAIN account = 1 .. n /\ S \subseteq 1 .. n
  BY RowsFacts DEF Of
<1>2. IsFiniteSet(S)
  <2>1. IsFiniteSet(1 .. n)
    BY <1>1, FS_Interval
  <2>2. S \subseteq 1 .. n
    BY <1>1
  <2> HIDE DEF S
  <2> QED BY <2>1, <2>2, FS_Subset
<1>3. ASSUME NEW i \in 1 .. n
      PROVE  g[i] \in Int /\ h[i] \in Int /\ d[i] = g[i] - h[i]
  <2> DEFINE row == account[i]
  <2>1. row \in Row
    BY RowsFacts
  <2>2. g[i] = row.credit /\ h[i] = row.debit /\ d[i] = row.credit - row.debit
    BY <1>1 DEF Nets
  <2> HIDE DEF row, g, h, d
  <2>3. row.credit \in Int /\ row.debit \in Int
    BY <2>1, RowFields
  <2> QED BY <2>2, <2>3
<1>4. Credits(account, S) = SumOver(g, S) /\ Debits(account, S) = SumOver(h, S)
  BY DEF Credits, Debits
<1> HIDE DEF S, g, h, d
<1>5. \A i \in S : g[i] \in Int /\ h[i] \in Int /\ d[i] = g[i] - h[i]
  BY <1>1, <1>3
<1>6. SumOver(d, S) = SumOver(g, S) - SumOver(h, S)
  BY <1>2, <1>5, SumDifference
<1> QED BY <1>1, <1>4, <1>6 DEF S, d

LEMMA ClosingAddsUp ==
    ASSUME RowsOK, DatesInOrder, BalancesAddUp, NEW m, Of(account, m) # {},
           NEW nets, \A k \in {Month(account[i]) : i \in DOMAIN account} :
                        nets[k] = Credits(account, Of(account, k)) - Debits(account, Of(account, k))
    PROVE  account[Max(Of(account, m))].balance =
              Opening + SumOver(nets, {k \in {Month(account[i]) : i \in DOMAIN account} : k <= m})
<1> DEFINE n == Len(account)
           Months == {Month(account[i]) : i \in DOMAIN account}
           K == {k \in Months : k <= m}
           S == 1 .. n
           part == [k \in K |-> Of(account, k)]
           x == Max(Of(account, m))
           g == Nets
<1>1. n \in Nat /\ DOMAIN account = S /\ x \in S /\ UpToMonth(m) = 1 .. x
  BY RowsFacts, LastOfMonth
<1>2. IsFiniteSet(S) /\ IsFiniteSet(K)
  <2>1. IsFiniteSet(S)
    BY <1>1, FS_Interval
  <2>2. IsFiniteSet(Months)
    <3> DEFINE f == [i \in S |-> Month(account[i])]
    <3>1. f \in [S -> Months] /\ \A k \in Months : \E i \in S : f[i] = k
      BY <1>1
    <3> HIDE DEF f, S, Months
    <3>2. f \in Surjection(S, Months)
      BY <3>1, Zenon DEF Surjection
    <3> QED BY <2>1, <3>2, FS_Surjection
  <2>3. K \subseteq Months
    OBVIOUS
  <2> HIDE DEF S, K, Months
  <2> QED BY <2>1, <2>2, <2>3, FS_Subset
<1>3. part \in [K -> SUBSET S]
  BY <1>1 DEF Of
<1>4. \A j, k \in K : j # k => part[j] \cap part[k] = {}
  BY DEF Of
<1>5. \A i \in S : g[i] \in Int
  BY RowsFacts
<1>6. \A k \in K : nets[k] = SumOver(g, part[k])
  <2> TAKE k \in K
  <2>1. nets[k] = Credits(account, Of(account, k)) - Debits(account, Of(account, k))
    OBVIOUS
  <2>2. part[k] = Of(account, k)
    OBVIOUS
  <2> HIDE DEF K, part
  <2> QED BY <2>1, <2>2, MonthsNet
<1>7. UNION {part[k] : k \in K} = UpToMonth(m)
  <2>1. ASSUME NEW i \in UpToMonth(m) PROVE \E k \in K : i \in part[k]
    <3>1. i \in DOMAIN account /\ Month(account[i]) <= m
      BY <1>1 DEF UpToMonth
    <3>2. Month(account[i]) \in K
      BY <3>1
    <3>3. i \in part[Month(account[i])]
      BY <3>1, <3>2 DEF Of
    <3> QED BY <3>2, <3>3
  <2>2. ASSUME NEW k \in K, NEW i \in part[k] PROVE i \in UpToMonth(m)
    BY <1>1 DEF Of, UpToMonth
  <2> HIDE DEF K, part
  <2> QED BY <2>1, <2>2
<1> HIDE DEF K, S, part, x, g
<1>8. SumOver(nets, K) = SumOver(g, UNION {part[k] : k \in K})
  BY <1>2, <1>3, <1>4, <1>5, <1>6, SumByParts
<1>9. account[x].balance = Opening + SumOver(Nets, 1 .. x)
  BY <1>1 DEF BalancesAddUp, S
<1>10. account[x].balance = Opening + SumOver(nets, K)
  BY <1>1, <1>7, <1>8, <1>9 DEF g
<1> QED BY <1>10 DEF x, K

-----------------------------------------------------------------------------
(* The theorems about statements.                                             *)

\* Accounts and files keep their type invariant: the file has the account's rows.
THEOREM StatementTypeCorrect == StatementSpec => []StatementTypeOK
<1>1. StatementInv => StatementTypeOK
  <2> SUFFICES ASSUME StatementInv PROVE StatementTypeOK
    OBVIOUS
  <2>1. RowsOK
    BY DEF StatementInv
  <2>2. PICK p : Lists(p, account, file)
    BY DEF StatementInv, IsListing
  <2>3. DOMAIN account = 1 .. Len(account) /\ DOMAIN file = 1 .. Len(file)
    BY <2>1 DEF RowsOK
  <2>4. \A i \in 1 .. Len(account) : p[i] \in 1 .. Len(file) /\ file[p[i]] = account[i]
    BY <2>2 DEF Lists
  <2>5. \A i \in DOMAIN account : \E j \in DOMAIN file : file[j] = account[i]
    BY <2>3, <2>4
  <2> QED BY <2>1, <2>5 DEF StatementTypeOK, RowsOK
<1> QED BY <1>1, StatementInvariance, PTL

\* parse_csv sorts the rows by date, whatever order the bank lists the dates in,
\* and what it returns is the account, row by row, as it was booked.
THEOREM SortRestoresTheAccount == StatementSpec => [](parse_csv(file) = account)
<1>1. StatementInv => parse_csv(file) = account
  <2> SUFFICES ASSUME StatementInv PROVE parse_csv(file) = account
    OBVIOUS
  <2>1. PICK p : IsListing(p)
    BY DEF StatementInv
  <2> QED BY <2>1, SortRestores DEF StatementInv
<1> QED BY <1>1, StatementInvariance, PTL

\* analyze's figures are those of the account in the order it was booked, and
\* each month closes with the opening balance and the nets of the months up to it.
THEOREM FiguresFollowTheAccount == StatementSpec => []FiguresAreTheAccounts
<1>1. StatementInv => FiguresAreTheAccounts
  <2> SUFFICES ASSUME StatementInv PROVE FiguresAreTheAccounts
    OBVIOUS
  <2>1. RowsOK /\ DatesInOrder /\ BalancesAddUp
    BY DEF StatementInv
  <2>2. parse_csv(file) = account
    <3>1. PICK p : IsListing(p)
      BY DEF StatementInv
    <3> QED BY <2>1, <3>1, SortRestores
  <2> DEFINE Months == {Month(account[i]) : i \in DOMAIN account}
             months == analyze(account).monthly
             nets == [k \in DOMAIN months |-> months[k].credits - months[k].debits]
  <2>3. /\ DOMAIN months = Months
        /\ \A k \in Months : /\ months[k].credits = Credits(account, Of(account, k))
                              /\ months[k].debits = Debits(account, Of(account, k))
                              /\ months[k].closing = account[Max(Of(account, k))].balance
    BY DEF analyze
  <2> HIDE DEF months
  <2>4. \A k \in Months : nets[k] = Credits(account, Of(account, k)) - Debits(account, Of(account, k))
    BY <2>3
  <2>5. ASSUME NEW m \in Months
        PROVE  months[m].closing = Opening + SumOver(nets, {k \in Months : k <= m})
    <3>1. Of(account, m) # {}
      BY DEF Of
    <3> HIDE DEF nets
    <3>2. account[Max(Of(account, m))].balance = Opening + SumOver(nets, {k \in Months : k <= m})
      BY <2>1, <2>4, <3>1, ClosingAddsUp
    <3> QED BY <2>3, <3>2
  <2>6. \A m \in DOMAIN months : months[m].closing =
           Opening + SumOver(nets, {k \in DOMAIN months : k <= m})
    BY <2>3, <2>5
  <2> QED BY <2>2, <2>6 DEF FiguresAreTheAccounts, months
<1> QED BY <1>1, StatementInvariance, PTL
=============================================================================
