----------------------------- MODULE CallersProofs -----------------------------
(* Theorems about the three parts that call others over HTTP: the dashboard's *)
(* store, for any number of clicks, the ledger's event webhooks, for any      *)
(* number of endpoints, events and attempts, and the triage job's calls of    *)
(* Gemini, for any batch, number of tries and of workers.                     *)
EXTENDS WebClient, WebhookDispatch, GeminiCalls, SumsProofs

-----------------------------------------------------------------------------
(* Lists.                                                                     *)

LEMMA ListAppend ==
    ASSUME NEW S, NEW l \in Seq(S), NEW e \in S, NEW longer, longer = Append(l, e)
    PROVE  /\ longer \in Seq(S) /\ Len(longer) = Len(l) + 1 /\ Len(l) \in Nat
           /\ DOMAIN longer = 1 .. Len(l) + 1 /\ DOMAIN l = 1 .. Len(l)
           /\ longer[Len(l) + 1] = e /\ \A i \in 1 .. Len(l) : longer[i] = l[i]
  OBVIOUS

LEMMA ListTail ==
    ASSUME NEW S, NEW l \in Seq(S), l # <<>>
    PROVE  /\ Tail(l) \in Seq(S) /\ Head(l) \in S /\ Len(l) \in Nat \ {0} /\ Len(Tail(l)) = Len(l) - 1
           /\ Head(l) = l[1] /\ 1 \in DOMAIN l
  OBVIOUS

LEMMA ListUpdate ==
    ASSUME NEW S, NEW l \in Seq(S), NEW e \in S, NEW i \in DOMAIN l, NEW new, new = [l EXCEPT ![i] = e]
    PROVE  /\ new \in Seq(S) /\ Len(new) = Len(l) /\ DOMAIN new = DOMAIN l
           /\ new[i] = e /\ \A j \in DOMAIN l \ {i} : new[j] = l[j]
  OBVIOUS

\* How often x is in a list.
Count(l, x) == Cardinality({i \in DOMAIN l : l[i] = x})

LEMMA CountAppend ==
    ASSUME NEW S, NEW l \in Seq(S), NEW e \in S, NEW x
    PROVE  /\ Count(l, x) \in Nat
           /\ Count(Append(l, e), x) = IF e = x THEN Count(l, x) + 1 ELSE Count(l, x)
<1> DEFINE longer == Append(l, e)
           at0 == {i \in DOMAIN l : l[i] = x}
           at1 == {i \in DOMAIN longer : longer[i] = x}
<1>1. /\ Len(l) \in Nat /\ DOMAIN longer = 1 .. Len(l) + 1 /\ DOMAIN l = 1 .. Len(l)
      /\ longer[Len(l) + 1] = e /\ \A i \in 1 .. Len(l) : longer[i] = l[i]
  BY ListAppend
<1>2. IsFiniteSet(1 .. Len(l)) /\ at0 \in SUBSET (1 .. Len(l))
  BY <1>1, FS_Interval
<1>3. IsFiniteSet(at0) /\ Cardinality(at0) \in Nat
  BY <1>2, FS_Subset, FS_CardinalityType
<1>4. CASE e = x
  <2>1. at1 = at0 \cup {Len(l) + 1} /\ Len(l) + 1 \notin at0
    BY <1>1, <1>4
  <2> HIDE DEF at0, at1
  <2>2. Cardinality(at0 \cup {Len(l) + 1}) = IF Len(l) + 1 \in at0 THEN Cardinality(at0) ELSE Cardinality(at0) + 1
    BY <1>3, FS_AddElement, Zenon
  <2>3. Cardinality(at1) = Cardinality(at0) + 1
    BY <2>1, <2>2
  <2> QED BY <1>3, <1>4, <2>3 DEF Count, at0, at1
<1>5. CASE e # x
  <2>1. at1 = at0
    BY <1>1, <1>5
  <2> QED BY <1>3, <1>5, <2>1 DEF Count
<1> QED BY <1>4, <1>5

-----------------------------------------------------------------------------
(* triage.py: a call fails only when trying again is hopeless.                *)

Hopeless == {"bad request", "refused", "garbled", "broken"}
Field == {"thinking", "bad request"}
Hears(l, replies) == \E i \in DOMAIN l : l[i] \in replies

\* Until it has a finding, a call has heard only busy replies, but for at most
\* one about the field, which a strict model gives; it goes on as long as it
\* has tries, and what made it fail is a hopeless reply or the last try.
BusyButOne(place, l, picky) ==
    /\ l # <<>> => place \notin {"off", "queued"}
    /\ place = "posting" => Len(l) < MaxTries /\ (Hears(l, Hopeless) => Hears(l, Field))
    /\ place \in {"posting", "failed"} /\ ~Hears(l, Hopeless) =>
         /\ ~Hears(l, Field) => Count(l, "busy") >= Len(l)
         /\ Hears(l, Field) => Count(l, "busy") + 1 >= Len(l) /\ picky
         /\ place = "failed" => Len(l) >= MaxTries

CallsInv == CallsTypeOK /\ \A d \in Batch : BusyButOne(at[d], heard[d], strict)

Places == {"off", "queued", "posting", "found", "failed", "saved", "error"}

\* The invariant, when one call changes.
LEMMA OneCallMoves ==
    ASSUME CallsInv, NEW d \in Batch, NEW place \in Places, NEW l \in Seq(Replies), Len(l) <= MaxTries,
           at' = [at EXCEPT ![d] = place], heard' = [heard EXCEPT ![d] = l], strict' = strict,
           BusyButOne(place, l, strict)
    PROVE  CallsInv'
<1>1. at \in [Batch -> Places] /\ heard \in [Batch -> Seq(Replies)] /\ strict \in BOOLEAN
  BY DEF CallsInv, CallsTypeOK, Places
<1>2. ASSUME NEW e \in Batch PROVE Len(heard'[e]) <= MaxTries /\ BusyButOne(at'[e], heard'[e], strict')
  <2>1. CASE e = d
    BY <1>1, <2>1 
  <2>2. CASE e # d
    <3>1. at'[e] = at[e] /\ heard'[e] = heard[e]
      BY <1>1, <2>2
    <3>2. BusyButOne(at[e], heard[e], strict) /\ Len(heard[e]) <= MaxTries
      BY DEF CallsInv, CallsTypeOK
    <3> QED BY <3>1, <3>2
  <2> QED BY <2>1, <2>2
<1>3. at' \in [Batch -> Places] /\ heard' \in [Batch -> Seq(Replies)]
  BY <1>1
<1> QED BY <1>1, <1>2, <1>3 DEF CallsInv, CallsTypeOK, Places

LEMMA NothingHeard == /\ <<>> \in Seq(Replies) /\ Len(<<>>) = 0 /\ Count(<<>>, "busy") = 0
                      /\ \A replies : ~Hears(<<>>, replies)
<1>1. DOMAIN <<>> = {}
  OBVIOUS
<1>2. Count(<<>>, "busy") = 0
  BY <1>1, FS_EmptySet DEF Count
<1> QED BY <1>1, <1>2 DEF Hears

LEMMA CallsStart == CallsInit => CallsInv
<1> SUFFICES ASSUME CallsInit PROVE CallsInv
  OBVIOUS
<1>1. CallsTypeOK
  BY CallsAssumption DEF CallsInit, CallsTypeOK
<1>2. \A d \in Batch : BusyButOne(at[d], heard[d], strict)
  BY NothingHeard DEF CallsInit, BusyButOne
<1> QED BY <1>1, <1>2 DEF CallsInv

\* A call that moves without hearing anything.
LEMMA CallMoves ==
    ASSUME CallsInv, NEW d \in Batch, NEW from, NEW to, CallGoes(d, from, to), UNCHANGED <<strict, heard>>,
           \/ from = "queued" /\ to = "posting"
           \/ to \in {"saved", "error"}
    PROVE  CallsInv'
<1>1. /\ heard \in [Batch -> Seq(Replies)] /\ heard[d] \in Seq(Replies) /\ Len(heard[d]) <= MaxTries
      /\ at[d] = from /\ at' = [at EXCEPT ![d] = to] /\ BusyButOne(at[d], heard[d], strict)
  BY DEF CallsInv, CallsTypeOK, CallGoes
<1>2. BusyButOne(to, heard[d], strict) /\ to \in Places
  <2>1. CASE to \in {"saved", "error"}
    BY <2>1 DEF BusyButOne, Places
  <2>2. CASE from = "queued" /\ to = "posting"
    <3>1. heard[d] = <<>>
      BY <1>1, <2>2 DEF BusyButOne
    <3> QED BY <2>2, <3>1, NothingHeard, CallsAssumption DEF BusyButOne, Places
  <2> QED BY <2>1, <2>2
<1>3. heard' = [heard EXCEPT ![d] = heard[d]] /\ strict' = strict
  BY <1>1
<1> QED BY <1>1, <1>2, <1>3, OneCallMoves

LEMMA PostKeeps ==
    ASSUME CallsInv, NEW d \in Batch, NEW reply \in Replies, PostCall(d, reply)
    PROVE  CallsInv'
<1> DEFINE l == heard[d]
           longer == Append(l, reply)
           to == IF reply = "finding" THEN "found" ELSE IF Retries(d, reply) THEN "posting" ELSE "failed"
<1>1. /\ at[d] = "posting" /\ at' = [at EXCEPT ![d] = to] /\ heard' = [heard EXCEPT ![d] = longer]
      /\ strict' = strict
  BY DEF PostCall, CallGoes
<1>2. /\ l \in Seq(Replies) /\ Len(l) \in Nat /\ Len(l) < MaxTries /\ BusyButOne("posting", l, strict)
      /\ Dropped(d) <=> Hears(l, Field)
  <2>1. l \in Seq(Replies) /\ BusyButOne("posting", l, strict)
    BY <1>1 DEF CallsInv, CallsTypeOK
  <2>2. Dropped(d) <=> Hears(l, Field)
    BY DEF Dropped, Hears, Field
  <2>3. Len(l) < MaxTries
    BY <2>1 DEF BusyButOne
  <2> QED BY <2>1, <2>2, <2>3
<1>3. /\ reply = "thinking" => strict /\ ~Hears(l, Field)
      /\ to = "posting" => Len(l) + 1 < MaxTries /\ (reply \in Hopeless => reply \in Field)
      /\ to = "failed" => reply \in Hopeless \/ Len(l) + 1 >= MaxTries
      /\ to \in {"found", "posting", "failed"} /\ (to = "found" <=> reply = "finding")
  <2>1. Len(l) + 1 < MaxTries \/ Len(l) + 1 >= MaxTries
    BY <1>2, CallsAssumption
  <2>2. reply = "thinking" => strict /\ ~Dropped(d)
    BY DEF PostCall
  <2> QED BY <1>2, <2>1, <2>2 DEF Retries, MoreTries, Hopeless, Field, Replies
<1> HIDE DEF to
<1>4. /\ longer \in Seq(Replies) /\ Len(longer) = Len(l) + 1
      /\ Count(l, "busy") \in Nat
      /\ Count(longer, "busy") = IF reply = "busy" THEN Count(l, "busy") + 1 ELSE Count(l, "busy")
  BY <1>2, ListAppend, CountAppend
<1>5. \A replies : Hears(longer, replies) <=> Hears(l, replies) \/ reply \in replies
  <2>1. /\ DOMAIN longer = 1 .. Len(l) + 1 /\ DOMAIN l = 1 .. Len(l)
        /\ longer[Len(l) + 1] = reply /\ \A i \in 1 .. Len(l) : longer[i] = l[i]
    BY <1>2, ListAppend
  <2> HIDE DEF longer, l
  <2> QED BY <1>2, <2>1 DEF Hears
<1> HIDE DEF longer, l
<1>6. BusyButOne(to, longer, strict)
  <2>1. CASE to = "found"
    BY <2>1 DEF BusyButOne
  <2>2. CASE to \in {"posting", "failed"} /\ Hears(longer, Hopeless)
    BY <1>2, <1>3, <1>4, <1>5, <2>2 DEF BusyButOne
  <2>3. CASE to \in {"posting", "failed"} /\ ~Hears(longer, Hopeless)
    <3>1. ~Hears(l, Hopeless) /\ reply \in {"busy", "thinking"}
      BY <1>3, <1>5, <2>3 DEF Hopeless, Replies
    <3>2. /\ ~Hears(l, Field) => Count(l, "busy") >= Len(l)
          /\ Hears(l, Field) => Count(l, "busy") + 1 >= Len(l) /\ strict
      BY <1>2, <3>1 DEF BusyButOne
    <3>5. /\ to = "posting" => Len(longer) < MaxTries
          /\ to = "failed" => Len(longer) >= MaxTries
      BY <1>3, <1>4, <3>1 DEF Hopeless
    <3>3. CASE reply = "busy"
      <4>1. Hears(longer, Field) <=> Hears(l, Field)
        BY <1>5, <3>3 DEF Field
      <4>2. /\ ~Hears(l, Field) => Count(longer, "busy") >= Len(longer)
            /\ Hears(l, Field) => Count(longer, "busy") + 1 >= Len(longer)
        BY <1>2, <1>4, <3>2, <3>3
      <4> QED BY <2>3, <3>2, <3>5, <4>1, <4>2 DEF BusyButOne
    <3>4. CASE reply = "thinking"
      <4>1. Hears(longer, Field) /\ ~Hears(l, Field) /\ strict
        BY <1>3, <1>5, <3>4 DEF Field
      <4>2. Count(longer, "busy") + 1 >= Len(longer)
        BY <1>2, <1>4, <3>2, <3>4, <4>1
      <4> QED BY <2>3, <3>5, <4>1, <4>2 DEF BusyButOne
    <3> QED BY <3>1, <3>3, <3>4
  <2> QED BY <1>3, <2>1, <2>2, <2>3
<1>7. to \in Places /\ Len(longer) <= MaxTries
  BY <1>2, <1>3, <1>4, CallsAssumption DEF Places
<1> QED BY <1>1, <1>4, <1>6, <1>7, OneCallMoves

LEMMA CallsStep ==
    ASSUME CallsInv, [CallsNext]_callVars
    PROVE  CallsInv'
<1>1. CASE UNCHANGED callVars
  BY <1>1 DEF callVars, CallsInv, CallsTypeOK, BusyButOne
<1>2. CASE SubmitAll
  <2>1. /\ \A d \in Batch : heard[d] = <<>> /\ at'[d] = "queued"
        /\ UNCHANGED <<strict, heard>> /\ at' \in [Batch -> Places]
    BY <1>2 DEF SubmitAll, CallsInv, BusyButOne, Places
  <2> QED BY <2>1 DEF CallsInv, CallsTypeOK, BusyButOne, Places
<1>3. ASSUME NEW d \in Batch, Work(d) PROVE CallsInv'
  BY <1>3, CallMoves DEF Work
<1>4. ASSUME NEW d \in Batch, Collect(d) PROVE CallsInv'
  <2>1. CASE CallGoes(d, "found", "saved")
    BY <1>4, <2>1, CallMoves DEF Collect
  <2>2. ASSUME NEW from, CallGoes(d, from, "error") PROVE CallsInv'
    BY <1>4, <2>2, CallMoves DEF Collect
  <2> QED BY <1>4, <2>1, <2>2 DEF Collect
<1>5. ASSUME NEW d \in Batch, Call(d) PROVE CallsInv'
  BY <1>5, PostKeeps DEF Call
<1> QED BY <1>1, <1>2, <1>3, <1>4, <1>5 DEF CallsNext

LEMMA CallsInvariance == CallsSpec => []CallsInv
<1>1. CallsInv /\ [CallsNext]_callVars => CallsInv'
  BY CallsStep
<1> QED BY CallsStart, <1>1, PTL DEF CallsSpec

\* No call of Gemini is posted more than MaxTries times.
THEOREM CallsTypeCorrect == CallsSpec => []CallsTypeOK
<1>1. CallsInv => CallsTypeOK
  BY DEF CallsInv
<1> QED BY CallsInvariance, <1>1, PTL

\* A call fails because of a reply that no retry changes or an error that no
\* handler expects, or after MaxTries busy replies, one fewer if the model rejects the field thinkingConfig.
THEOREM CallsFailOnlyIfHopeless == CallsSpec => []FailsOnlyIfHopeless
<1>1. CallsInv => FailsOnlyIfHopeless
  <2> SUFFICES ASSUME CallsInv, NEW d \in Batch, at[d] = "failed"
               PROVE  \/ \E reply \in Hopeless : Times(d, reply) > 0
                      \/ Times(d, "busy") >= MaxTries - (IF strict THEN 1 ELSE 0)
    BY DEF FailsOnlyIfHopeless, Hopeless
  <2>1. heard[d] \in Seq(Replies) /\ Len(heard[d]) \in Nat /\ DOMAIN heard[d] = 1 .. Len(heard[d])
    BY DEF CallsInv, CallsTypeOK
  <2>2. CASE Hears(heard[d], Hopeless)
    <3>1. PICK i \in DOMAIN heard[d] : heard[d][i] \in Hopeless
      BY <2>2 DEF Hears
    <3> DEFINE reply == heard[d][i]
               where == {j \in DOMAIN heard[d] : heard[d][j] = reply}
    <3>2. i \in where /\ where \in SUBSET (1 .. Len(heard[d])) /\ IsFiniteSet(1 .. Len(heard[d]))
      BY <2>1, FS_Interval
    <3> HIDE DEF where
    <3>3. IsFiniteSet(where) /\ Cardinality(where) \in Nat
      BY <3>2, FS_Subset, FS_CardinalityType
    <3>4. Cardinality(where) # 0
      BY <3>2, <3>3, FS_EmptySet
    <3>5. Times(d, reply) = Cardinality(where)
      BY DEF Times, where
    <3>6. Times(d, reply) > 0
      BY <3>3, <3>4, <3>5
    <3> QED BY <3>1, <3>6
  <2>3. CASE ~Hears(heard[d], Hopeless)
    <3>1. BusyButOne("failed", heard[d], strict)
      BY DEF CallsInv
    <3>2. /\ ~Hears(heard[d], Field) => Count(heard[d], "busy") >= Len(heard[d])
          /\ Hears(heard[d], Field) => Count(heard[d], "busy") + 1 >= Len(heard[d]) /\ strict
          /\ Len(heard[d]) >= MaxTries
      BY <2>3, <3>1 DEF BusyButOne
    <3>3. "busy" \in Replies /\ Count(heard[d], "busy") \in Nat
      BY <2>1, CountAppend, ZenonT(30) DEF Replies
    <3>4. Count(heard[d], "busy") >= MaxTries - (IF strict THEN 1 ELSE 0)
      BY <2>1, <3>2, <3>3, CallsAssumption
    <3> QED BY <3>4 DEF Times, Count
  <2> QED BY <2>2, <2>3
<1> QED BY CallsInvariance, <1>1, PTL

\* The steps a call has left, at most.
StepsLeft(place, l) ==
    CASE place = "off" -> MaxTries + 4
      [] place = "queued" -> MaxTries + 3
      [] place = "posting" -> MaxTries - Len(l) + 2
      [] place \in {"found", "failed"} -> 1
      [] place \in {"saved", "error"} -> 0

CallsLeft == SumOver([d \in Batch |-> StepsLeft(at[d], heard[d])], Batch)

LEMMA StepsLeftNat ==
    ASSUME NEW place \in Places, NEW l \in Seq(Replies), Len(l) <= MaxTries
    PROVE  StepsLeft(place, l) \in Nat
<1>1. Len(l) \in Nat /\ MaxTries \in Nat
  BY CallsAssumption
<1>2. CASE place = "posting"
  BY <1>1, <1>2 DEF StepsLeft
<1>3. CASE place \in {"off", "queued"}
  BY <1>1, <1>3 DEF StepsLeft
<1>4. CASE place \in {"found", "failed", "saved", "error"}
  BY <1>4 DEF StepsLeft
<1> QED BY <1>2, <1>3, <1>4 DEF Places

LEMMA CallsLeftNat ==
    /\ CallsInv => \A d \in Batch : StepsLeft(at[d], heard[d]) \in Nat
    /\ CallsInv' => \A d \in Batch : StepsLeft(at'[d], heard'[d]) \in Nat
  BY StepsLeftNat DEF CallsInv, CallsTypeOK, Places

\* A step takes one from what is left if it takes one from each of some calls.
LEMMA CallsLeftFall ==
    ASSUME CallsInv, CallsInv', IsFiniteSet(Batch), NEW d \in Batch,
           StepsLeft(at'[d], heard'[d]) < StepsLeft(at[d], heard[d]),
           \A e \in Batch \ {d} : StepsLeft(at'[e], heard'[e]) <= StepsLeft(at[e], heard[e])
    PROVE  CallsLeft' < CallsLeft
<1> DEFINE g == [e \in Batch |-> StepsLeft(at[e], heard[e])]
           h == [e \in Batch |-> StepsLeft(at'[e], heard'[e])]
<1>1. \A e \in Batch : StepsLeft(at[e], heard[e]) \in Nat /\ StepsLeft(at'[e], heard'[e]) \in Nat
  BY CallsLeftNat
<1>2. \A e \in Batch : g[e] \in Int /\ h[e] \in Int /\ h[e] <= g[e]
  <2> TAKE e \in Batch
  <2>1. StepsLeft(at'[e], heard'[e]) <= StepsLeft(at[e], heard[e])
    <3>1. StepsLeft(at[d], heard[d]) \in Nat /\ StepsLeft(at'[d], heard'[d]) \in Nat
      BY <1>1
    <3> QED BY <3>1
  <2> QED BY <1>1, <2>1
<1>3. h[d] < g[d]
  OBVIOUS
<1>4. CallsLeft = SumOver(g, Batch) /\ CallsLeft' = SumOver(h, Batch)
  BY DEF CallsLeft
<1> HIDE DEF g, h
<1>5. SumOver(h, Batch) < SumOver(g, Batch)
  BY <1>2, <1>3, SumFalls
<1> QED BY <1>4, <1>5

LEMMA OneCallFalls ==
    ASSUME CallsInv, CallsInv', IsFiniteSet(Batch), NEW d \in Batch, NEW place, NEW l,
           at' = [at EXCEPT ![d] = place], heard' = [heard EXCEPT ![d] = l],
           StepsLeft(place, l) < StepsLeft(at[d], heard[d])
    PROVE  CallsLeft' < CallsLeft
<1>1. at \in [Batch -> Places] /\ heard \in [Batch -> Seq(Replies)]
  BY DEF CallsInv, CallsTypeOK, Places
<1>2. at'[d] = place /\ heard'[d] = l
  BY <1>1
<1>3. \A e \in Batch \ {d} : at'[e] = at[e] /\ heard'[e] = heard[e]
  BY <1>1
<1>4. \A e \in Batch \ {d} : StepsLeft(at'[e], heard'[e]) <= StepsLeft(at[e], heard[e])
  <2> TAKE e \in Batch \ {d}
  <2>1. StepsLeft(at'[e], heard'[e]) = StepsLeft(at[e], heard[e])
    BY <1>3
  <2>2. StepsLeft(at[e], heard[e]) \in Nat
    BY CallsLeftNat
  <2> QED BY <2>1, <2>2
<1> QED BY <1>2, <1>4, CallsLeftFall

LEMMA CallMovesOn ==
    ASSUME CallsInv, CallsInv', IsFiniteSet(Batch), NEW d \in Batch, NEW from, NEW to,
           CallGoes(d, from, to), UNCHANGED heard,
           <<from, to>> \in {<<"queued", "posting">>, <<"found", "saved">>, <<"found", "error">>,
                             <<"failed", "error">>}
    PROVE  CallsLeft' < CallsLeft
<1>1. /\ heard \in [Batch -> Seq(Replies)] /\ heard[d] \in Seq(Replies) /\ Len(heard[d]) \in Nat
      /\ at[d] = from /\ at' = [at EXCEPT ![d] = to] /\ MaxTries \in Nat
  BY CallsAssumption DEF CallsInv, CallsTypeOK, CallGoes
<1>2. heard' = [heard EXCEPT ![d] = heard[d]]
  BY <1>1
<1>3. StepsLeft(to, heard[d]) < StepsLeft(from, heard[d])
  <2>1. CASE from = "queued" /\ to = "posting"
    BY <1>1, <2>1 DEF StepsLeft
  <2>2. CASE from \in {"found", "failed"} /\ to \in {"saved", "error"}
    BY <2>2 DEF StepsLeft
  <2> QED BY <2>1, <2>2
<1> QED BY <1>1, <1>2, <1>3, OneCallFalls

LEMMA PostMovesOn ==
    ASSUME CallsInv, CallsInv', IsFiniteSet(Batch), NEW d \in Batch, NEW reply \in Replies, PostCall(d, reply)
    PROVE  CallsLeft' < CallsLeft
<1> DEFINE to == IF reply = "finding" THEN "found" ELSE IF Retries(d, reply) THEN "posting" ELSE "failed"
           longer == Append(heard[d], reply)
<1>1. /\ at[d] = "posting" /\ at' = [at EXCEPT ![d] = to] /\ heard' = [heard EXCEPT ![d] = longer]
      /\ heard[d] \in Seq(Replies) /\ MaxTries \in Nat
  BY CallsAssumption DEF PostCall, CallGoes, CallsInv, CallsTypeOK
<1>2. Len(longer) = Len(heard[d]) + 1 /\ Len(heard[d]) \in Nat
  BY <1>1, ListAppend
<1>3. Len(heard[d]) < MaxTries
  BY <1>1 DEF CallsInv, BusyButOne
<1>4. to \in {"found", "posting", "failed"}
  OBVIOUS
<1> HIDE DEF to, longer
<1>5. StepsLeft(to, longer) < StepsLeft("posting", heard[d])
  <2>1. CASE to = "posting"
    BY <1>1, <1>2, <1>3, <2>1 DEF StepsLeft
  <2>2. CASE to \in {"found", "failed"}
    BY <1>1, <1>2, <1>3, <2>2 DEF StepsLeft
  <2> QED BY <1>4, <2>1, <2>2
<1> QED BY <1>1, <1>5, OneCallFalls

LEMMA CallsMoveOn ==
    ASSUME CallsInv, IsFiniteSet(Batch), [CallsNext]_callVars, callVars' # callVars
    PROVE  CallsLeft' < CallsLeft
<1>1. CallsInv' /\ CallsNext
  BY CallsStep
<1>2. CASE SubmitAll
  <2>1. /\ \A d \in Batch : at[d] = "off" /\ at'[d] = "queued"
        /\ UNCHANGED <<strict, heard>> /\ at' = [d \in Batch |-> "queued"]
    BY <1>2 DEF SubmitAll
  <2>2. Batch # {}
    <3>1. Batch = {} => at' = at
      BY <2>1 DEF CallsInv, CallsTypeOK
    <3> QED BY <2>1, <3>1 DEF callVars
  <2>3. \A d \in Batch : StepsLeft(at'[d], heard'[d]) < StepsLeft(at[d], heard[d])
    BY <2>1, CallsAssumption DEF StepsLeft
  <2>4. \A d \in Batch : StepsLeft(at'[d], heard'[d]) <= StepsLeft(at[d], heard[d])
    BY <2>1, CallsAssumption DEF StepsLeft
  <2>5. PICK d \in Batch : TRUE
    BY <2>2
  <2> QED BY <1>1, <2>3, <2>4, <2>5, CallsLeftFall
<1>3. ASSUME NEW d \in Batch, Work(d) PROVE CallsLeft' < CallsLeft
  BY <1>1, <1>3, CallMovesOn DEF Work
<1>4. ASSUME NEW d \in Batch, Collect(d) PROVE CallsLeft' < CallsLeft
  BY <1>1, <1>4, CallMovesOn DEF Collect
<1>5. ASSUME NEW d \in Batch, Call(d) PROVE CallsLeft' < CallsLeft
  BY <1>1, <1>5, PostMovesOn DEF Call
<1> QED BY <1>1, <1>2, <1>3, <1>4, <1>5 DEF CallsNext

\* A batch takes a bounded number of steps, however busy Gemini is: every step
\* takes from a number that starts at MaxTries + 4 for each discrepancy.
THEOREM BatchIsBounded ==
    ASSUME IsFiniteSet(Batch)
    PROVE  CallsSpec => [](CallsLeft \in Nat) /\ [][CallsLeft' < CallsLeft]_callVars
<1>1. CallsInv => CallsLeft \in Nat
  <2> SUFFICES ASSUME CallsInv PROVE CallsLeft \in Nat
    OBVIOUS
  <2> DEFINE g == [d \in Batch |-> StepsLeft(at[d], heard[d])]
  <2>1. \A d \in Batch : g[d] \in Nat
    BY CallsLeftNat
  <2> HIDE DEF g
  <2>2. SumOver(g, Batch) \in Nat
    BY <2>1, SumOfNats
  <2> QED BY <2>2 DEF CallsLeft, g
<1>2. CallsInv /\ [CallsNext]_callVars => [CallsLeft' < CallsLeft]_callVars
  BY CallsMoveOn
<1> QED BY CallsInvariance, <1>1, <1>2, PTL DEF CallsSpec

\* A call that waits for its note, and one that can go on: from the queue if a
\* worker is free, elsewhere by itself, by a reply or by the timeout of its post.
Waits(d) == at[d] \notin {"off", "saved", "error"}
GoesOn(d) ==
    \/ at[d] = "queued" /\ Cardinality({e \in Batch : Occupies(e)}) < MaxWorkers
    \/ at[d] \in {"posting", "found", "failed"}

\* Until the batch has ended there is a call that can go on: those that are
\* queued wait for workers, and whoever has a worker gives it back.
THEOREM BatchIsNeverStuck == CallsSpec => []((\E d \in Batch : Waits(d)) => \E d \in Batch : GoesOn(d))
<1>1. CallsInv => ((\E d \in Batch : Waits(d)) => \E d \in Batch : GoesOn(d))
  <2> SUFFICES ASSUME CallsInv, NEW d \in Batch, Waits(d), \A e \in Batch : at[e] # "posting"
               PROVE  GoesOn(d)
    BY DEF GoesOn
  <2>1. {e \in Batch : Occupies(e)} = {}
    BY DEF Occupies
  <2>2. Cardinality({e \in Batch : Occupies(e)}) < MaxWorkers
    BY <2>1, FS_EmptySet, CallsAssumption
  <2> QED BY <2>2 DEF GoesOn, Waits, CallsInv, CallsTypeOK
<1> QED BY CallsInvariance, <1>1, PTL

-----------------------------------------------------------------------------
(* payments-core/ledger/webhooks.go: deliveries end as they were answered.    *)

Goroutines == [pc : {"post", "note", "sleep", "done"}, ep : Endpoints, attempt : 1 .. MaxAttempts,
               status : Answers \cup {0}]
Deliveries == [endpoint : Endpoints, event : Events, attempts : 0 .. MaxAttempts, delivered : BOOLEAN,
               last_status : Answers \cup {0}]

\* A goroutine posts to the endpoint of its delivery, notes a good status only
\* of what that endpoint received and accepted, sleeps while it has attempts
\* left, and is done when the answer is final or the attempts are used up.
InStep(g, d, got) ==
    /\ g.ep = d.endpoint
    /\ g.pc = "note" /\ Ok(g.status) => InSeq(200, got[d.endpoint][d.event])
    /\ d.delivered => InSeq(200, got[d.endpoint][d.event])
    /\ g.pc = "sleep" => g.attempt < MaxAttempts
    /\ g.pc = "done" => d.delivered \/ d.last_status = 404 \/ d.attempts = MaxAttempts

DispatchInv == DispatchTypeOK /\ \A i \in DOMAIN go : InStep(go[i], deliveries[i], received)

LEMMA Pairs ==
    ASSUME DispatchInv
    PROVE  /\ go \in Seq(Goroutines) /\ deliveries \in Seq(Deliveries)
           /\ Len(go) = Len(deliveries) /\ Len(go) \in Nat
           /\ DOMAIN go = 1 .. Len(go) /\ DOMAIN deliveries = 1 .. Len(go)
           /\ \A i \in DOMAIN go : go[i] \in Goroutines /\ deliveries[i] \in Deliveries
                                  /\ InStep(go[i], deliveries[i], received)
<1>1. go \in Seq(Goroutines) /\ deliveries \in Seq(Deliveries) /\ Len(go) = Len(deliveries)
  BY DEF DispatchInv, DispatchTypeOK, Goroutines, Deliveries
<1>2. DOMAIN go = 1 .. Len(go) /\ DOMAIN deliveries = 1 .. Len(deliveries) /\ Len(go) \in Nat
  BY <1>1
<1>3. \A i \in DOMAIN go : go[i] \in Goroutines /\ deliveries[i] \in Deliveries
  BY <1>1, <1>2
<1> QED BY <1>1, <1>2, <1>3 DEF DispatchInv

LEMMA OkIs200 == \A status \in Answers \cup {0} : /\ Ok(status) <=> status = 200
                                                  /\ Final(status) <=> status \in {200, 404}
  BY DEF Ok, Final, Answers

LEMMA DispatchStart == DispatchInit => DispatchInv
<1> SUFFICES ASSUME DispatchInit PROVE DispatchInv
  OBVIOUS
<1>1. DispatchTypeOK
  BY DEF DispatchInit, DispatchTypeOK, None
<1>2. DOMAIN go = {}
  BY DEF DispatchInit
<1> QED BY <1>1, <1>2 DEF DispatchInv

\* Endpoints are registered, and copied for an event.
LEMMA RegisterKeeps ==
    ASSUME DispatchInv, (\E e \in Endpoints : Register(e)) \/ (\E ev \in Events : Dispatch(ev))
    PROVE  DispatchInv'
<1>1. /\ endpoints' \in Seq(Endpoints) /\ eps' \in [Events -> Seq(Endpoints)] /\ todo' \in [Events -> Seq(Endpoints)]
      /\ UNCHANGED <<deliveries, go, received>>
  <2>1. endpoints \in Seq(Endpoints) /\ eps \in [Events -> Seq(Endpoints)] /\ todo \in [Events -> Seq(Endpoints)]
    BY DEF DispatchInv, DispatchTypeOK
  <2>2. ASSUME NEW e \in Endpoints, Register(e) PROVE <1>1!:
    BY <2>1, <2>2 DEF Register
  <2>3. ASSUME NEW ev \in Events, Dispatch(ev) PROVE <1>1!:
    BY <2>1, <2>3 DEF Dispatch
  <2> QED BY <2>2, <2>3
<1> QED BY <1>1 DEF DispatchInv, DispatchTypeOK

\* The delivery and its goroutine are made for the same endpoint.
LEMMA LaunchKeeps ==
    ASSUME DispatchInv, NEW ev \in Events, Launch(ev)
    PROVE  DispatchInv'
<1> DEFINE e == Head(todo[ev])
           d == [endpoint |-> e, event |-> ev, attempts |-> 0, delivered |-> FALSE, last_status |-> 0]
           g == [pc |-> "post", ep |-> e, attempt |-> 1, status |-> 0]
<1>1. /\ todo[ev] \in Seq(Endpoints) /\ todo[ev] # <<>> /\ todo' = [todo EXCEPT ![ev] = Tail(todo[ev])]
      /\ deliveries' = Append(deliveries, d) /\ go' = Append(go, g) /\ UNCHANGED <<endpoints, eps, received>>
  BY DEF DispatchInv, DispatchTypeOK, Launch, Endpoint, None
<1>2. e \in Endpoints /\ Tail(todo[ev]) \in Seq(Endpoints)
  BY <1>1, ListTail
<1>3. d \in Deliveries /\ g \in Goroutines /\ InStep(g, d, received)
  BY <1>2, DispatchAssumption DEF Deliveries, Goroutines, InStep
<1> HIDE DEF d, g
<1>4. /\ deliveries' \in Seq(Deliveries) /\ Len(deliveries') = Len(go) + 1 /\ deliveries'[Len(go) + 1] = d
      /\ \A i \in 1 .. Len(go) : deliveries'[i] = deliveries[i]
  BY <1>1, <1>3, Pairs, ListAppend
<1>5. /\ go' \in Seq(Goroutines) /\ Len(go') = Len(go) + 1 /\ go'[Len(go) + 1] = g
      /\ DOMAIN go' = 1 .. Len(go) + 1 /\ \A i \in 1 .. Len(go) : go'[i] = go[i]
  BY <1>1, <1>3, Pairs, ListAppend
<1>6. \A i \in DOMAIN go' : InStep(go'[i], deliveries'[i], received')
  <2> TAKE i \in DOMAIN go'
  <2>1. CASE i = Len(go) + 1
    BY <1>1, <1>3, <1>4, <1>5, <2>1
  <2>2. CASE i \in 1 .. Len(go)
    BY <1>1, <1>4, <1>5, <2>2, Pairs
  <2> QED BY <1>5, <2>1, <2>2, Pairs
<1>7. todo' \in [Events -> Seq(Endpoints)]
  BY <1>1, <1>2 DEF DispatchInv, DispatchTypeOK
<1> QED BY <1>1, <1>4, <1>5, <1>6, <1>7 DEF DispatchInv, DispatchTypeOK, Goroutines, Deliveries

\* One goroutine moves, and its delivery and what was received may change with it.
LEMMA PairChanges ==
    ASSUME DispatchInv, NEW i \in DOMAIN go, NEW g \in Goroutines, NEW d \in Deliveries,
           go' = [go EXCEPT ![i] = g], deliveries' = [deliveries EXCEPT ![i] = d],
           received' \in [Endpoints -> [Events -> Seq(Answers)]],
           \A e \in Endpoints, ev \in Events : InSeq(200, received[e][ev]) => InSeq(200, received'[e][ev]),
           InStep(g, d, received'), UNCHANGED <<endpoints, eps, todo>>
    PROVE  DispatchInv'
<1>1. /\ go' \in Seq(Goroutines) /\ Len(go') = Len(go) /\ DOMAIN go' = DOMAIN go
      /\ go'[i] = g /\ \A j \in DOMAIN go \ {i} : go'[j] = go[j]
  BY Pairs, ListUpdate
<1>2. /\ deliveries' \in Seq(Deliveries) /\ Len(deliveries') = Len(go)
      /\ deliveries'[i] = d /\ \A j \in DOMAIN go \ {i} : deliveries'[j] = deliveries[j]
  BY Pairs, ListUpdate
<1>3. ASSUME NEW j \in DOMAIN go' PROVE InStep(go'[j], deliveries'[j], received')
  <2>1. CASE j = i
    BY <1>1, <1>2, <2>1
  <2>2. CASE j # i
    <3> DEFINE h == go[j]
               e == deliveries[j]
    <3>1. j \in DOMAIN go /\ go'[j] = h /\ deliveries'[j] = e
      BY <1>1, <1>2, <1>3, <2>2
    <3>2. InStep(h, e, received) /\ e.endpoint \in Endpoints /\ e.event \in Events
      BY <3>1, Pairs DEF Deliveries
    <3> HIDE DEF h, e
    <3>3. InStep(h, e, received')
      <4>1. InSeq(200, received[e.endpoint][e.event]) => InSeq(200, received'[e.endpoint][e.event])
        BY <3>2
      <4> QED BY <3>2, <4>1 DEF InStep
    <3> QED BY <3>1, <3>3
  <2> QED BY <2>1, <2>2
<1> QED BY <1>1, <1>2, <1>3 DEF DispatchInv, DispatchTypeOK, Goroutines, Deliveries

\* What an endpoint received it keeps, and it has the answer it gave last.
LEMMA ReceivesMore ==
    ASSUME DispatchInv, NEW i \in DOMAIN go, NEW answer \in Answers, Receives(i, answer)
    PROVE  /\ received' \in [Endpoints -> [Events -> Seq(Answers)]]
           /\ \A e \in Endpoints, ev \in Events : InSeq(200, received[e][ev]) => InSeq(200, received'[e][ev])
           /\ InSeq(answer, received'[deliveries[i].endpoint][deliveries[i].event])
<1> DEFINE e == deliveries[i].endpoint
           ev == deliveries[i].event
           l == received[e][ev]
           longer == Append(l, answer)
<1>1. /\ e \in Endpoints /\ ev \in Events /\ go[i].ep = e
      /\ received \in [Endpoints -> [Events -> Seq(Answers)]] /\ l \in Seq(Answers)
  BY Pairs DEF Deliveries, InStep, DispatchInv, DispatchTypeOK
<1>2. received' = [received EXCEPT ![e][ev] = longer]
  BY <1>1 DEF Receives
<1>3. /\ longer \in Seq(Answers) /\ Len(l) \in Nat /\ DOMAIN longer = 1 .. Len(l) + 1 /\ DOMAIN l = 1 .. Len(l)
      /\ longer[Len(l) + 1] = answer /\ \A j \in 1 .. Len(l) : longer[j] = l[j]
  BY <1>1, ListAppend
<1> HIDE DEF longer
<1>4. /\ received' \in [Endpoints -> [Events -> Seq(Answers)]] /\ received'[e][ev] = longer
      /\ \A x \in Endpoints, y \in Events : ~(x = e /\ y = ev) => received'[x][y] = received[x][y]
  BY <1>1, <1>2, <1>3
<1> HIDE DEF l
<1>5. InSeq(answer, longer) /\ (InSeq(200, l) => InSeq(200, longer))
  BY <1>3 DEF InSeq
<1>6. ASSUME NEW x \in Endpoints, NEW y \in Events, InSeq(200, received[x][y])
      PROVE  InSeq(200, received'[x][y])
  <2>1. CASE x = e /\ y = ev
    BY <1>4, <1>5, <1>6, <2>1 DEF l
  <2>2. CASE ~(x = e /\ y = ev)
    BY <1>4, <1>6, <2>2
  <2> QED BY <2>1, <2>2
<1> QED BY <1>4, <1>5, <1>6

LEMMA PostsKeep ==
    ASSUME DispatchInv, NEW i \in DOMAIN go, PostAnswered(i) \/ PostUnheard(i) \/ PostLost(i)
    PROVE  DispatchInv'
<1>1. PICK status \in Answers \cup {0} :
        /\ Post(i, status)
        /\ \/ \E answer \in Answers : Receives(i, answer) /\ status \in {answer, 0}
           \/ UNCHANGED received /\ status = 0
  BY DEF PostAnswered, PostUnheard, PostLost
<1> DEFINE g == [go[i] EXCEPT !.pc = "note", !.status = status]
<1>2. /\ go[i] \in Goroutines /\ deliveries[i] \in Deliveries /\ InStep(go[i], deliveries[i], received)
      /\ deliveries \in Seq(Deliveries) /\ i \in DOMAIN deliveries /\ go \in Seq(Goroutines)
      /\ received \in [Endpoints -> [Events -> Seq(Answers)]]
  BY Pairs DEF DispatchInv, DispatchTypeOK
<1>3. g \in Goroutines /\ g.pc = "note" /\ g.status = status /\ g.ep = go[i].ep
  BY <1>2 DEF Goroutines
<1>4. /\ go' = [go EXCEPT ![i] = g] /\ deliveries' = [deliveries EXCEPT ![i] = deliveries[i]]
      /\ UNCHANGED <<endpoints, eps, todo>>
  <2>1. [deliveries EXCEPT ![i] = deliveries[i]] = deliveries
    BY <1>2
  <2>2. go' = [go EXCEPT ![i] = g] /\ UNCHANGED <<endpoints, eps, todo, deliveries>>
    BY <1>1, <1>2 DEF Post
  <2> QED BY <2>1, <2>2
<1> HIDE DEF g
<1>5. /\ received' \in [Endpoints -> [Events -> Seq(Answers)]]
      /\ \A e \in Endpoints, ev \in Events : InSeq(200, received[e][ev]) => InSeq(200, received'[e][ev])
      /\ status = 200 => InSeq(200, received'[deliveries[i].endpoint][deliveries[i].event])
  <2>1. CASE UNCHANGED received /\ status = 0
    BY <1>2, <2>1
  <2>2. ASSUME NEW answer \in Answers, Receives(i, answer), status \in {answer, 0}
        PROVE  <1>5!:
    BY <2>2, ReceivesMore
  <2> QED BY <1>1, <2>1, <2>2
<1>6. InStep(g, deliveries[i], received')
  <2>1. deliveries[i].endpoint \in Endpoints /\ deliveries[i].event \in Events
    BY <1>2 DEF Deliveries
  <2> DEFINE e == deliveries[i]
  <2>2. InStep(go[i], e, received) /\ g.pc = "note" /\ g.status = status /\ g.ep = go[i].ep
    BY <1>2, <1>3
  <2>3. /\ e.endpoint \in Endpoints /\ e.event \in Events
        /\ InSeq(200, received[e.endpoint][e.event]) => InSeq(200, received'[e.endpoint][e.event])
        /\ status = 200 => InSeq(200, received'[e.endpoint][e.event])
    BY <1>5, <2>1
  <2>4. Ok(status) => status = 200
    BY OkIs200
  <2> HIDE DEF e
  <2>5. InStep(g, e, received')
    BY <2>2, <2>3, <2>4 DEF InStep
  <2> QED BY <2>5 DEF e
<1> QED BY <1>2, <1>3, <1>4, <1>5, <1>6, PairChanges

LEMMA NoteKeeps ==
    ASSUME DispatchInv, NEW i \in DOMAIN go, Note(i)
    PROVE  DispatchInv'
<1> DEFINE status == go[i].status
           to == IF ~Final(status) /\ AttemptsLeft(i) THEN "sleep" ELSE "done"
           g == [go[i] EXCEPT !.pc = to]
           d == [deliveries[i] EXCEPT !.attempts = go[i].attempt, !.last_status = status, !.delivered = Ok(status)]
<1>1. /\ go[i] \in Goroutines /\ deliveries[i] \in Deliveries /\ InStep(go[i], deliveries[i], received)
      /\ received \in [Endpoints -> [Events -> Seq(Answers)]]
  BY Pairs DEF DispatchInv, DispatchTypeOK
<1>2. /\ go[i].pc = "note" /\ go' = [go EXCEPT ![i] = g] /\ deliveries' = [deliveries EXCEPT ![i] = d]
      /\ UNCHANGED <<endpoints, eps, todo, received>>
  BY DEF Note, Goes
<1>3. /\ status \in Answers \cup {0} /\ go[i].attempt \in 1 .. MaxAttempts /\ MaxAttempts \in Nat \ {0}
      /\ Ok(status) \in BOOLEAN
  BY <1>1, DispatchAssumption DEF Goroutines, Ok
<1>4. g \in Goroutines /\ g.pc = to /\ g.ep = go[i].ep /\ g.attempt = go[i].attempt
  BY <1>1 DEF Goroutines
<1>5. /\ d \in Deliveries /\ d.endpoint = deliveries[i].endpoint /\ d.event = deliveries[i].event
      /\ d.attempts = go[i].attempt /\ d.last_status = status /\ d.delivered = Ok(status)
  <2>1. go[i].attempt \in 0 .. MaxAttempts
    BY <1>3
  <2>2. PICK ok \in BOOLEAN : ok = Ok(status)
    BY <1>3
  <2>3. d = [deliveries[i] EXCEPT !.attempts = go[i].attempt, !.last_status = status, !.delivered = ok]
    BY <2>2
  <2>4. status \in Answers \cup {0} /\ deliveries[i] \in Deliveries
    BY <1>1, <1>3
  <2> HIDE DEF d, status
  <2>5. /\ d \in Deliveries /\ d.endpoint = deliveries[i].endpoint /\ d.event = deliveries[i].event
        /\ d.attempts = go[i].attempt /\ d.last_status = status /\ d.delivered = ok
    BY <2>1, <2>3, <2>4 DEF Deliveries
  <2> QED BY <2>2, <2>5
<1>6. to = "sleep" \/ to = "done"
  OBVIOUS
<1>7. /\ to = "sleep" => go[i].attempt < MaxAttempts
      /\ to = "done" => Ok(status) \/ status = 404 \/ go[i].attempt = MaxAttempts
  BY <1>3, OkIs200 DEF AttemptsLeft
<1> HIDE DEF g, d, to
<1>8. InStep(g, d, received)
  BY <1>1, <1>2, <1>4, <1>5, <1>6, <1>7 DEF InStep
<1> QED BY <1>1, <1>2, <1>4, <1>5, <1>8, PairChanges

LEMMA WakeKeeps ==
    ASSUME DispatchInv, NEW i \in DOMAIN go, Wake(i)
    PROVE  DispatchInv'
<1> DEFINE g == [go[i] EXCEPT !.pc = "post", !.attempt = go[i].attempt + 1]
<1>1. /\ go[i] \in Goroutines /\ deliveries[i] \in Deliveries /\ InStep(go[i], deliveries[i], received)
      /\ received \in [Endpoints -> [Events -> Seq(Answers)]] /\ deliveries \in Seq(Deliveries)
  BY Pairs DEF DispatchInv, DispatchTypeOK
<1>2. /\ go[i].pc = "sleep" /\ go' = [go EXCEPT ![i] = g] /\ UNCHANGED <<endpoints, eps, todo, deliveries, received>>
  BY DEF Wake
<1>3. go[i].attempt + 1 \in 1 .. MaxAttempts
  BY <1>1, <1>2, DispatchAssumption DEF Goroutines, InStep
<1>4. g \in Goroutines /\ g.pc = "post" /\ g.ep = go[i].ep
  BY <1>1, <1>3 DEF Goroutines
<1>5. InStep(g, deliveries[i], received)
  BY <1>1, <1>4 DEF InStep
<1>6. deliveries' = [deliveries EXCEPT ![i] = deliveries[i]]
  BY <1>1, <1>2
<1> QED BY <1>1, <1>2, <1>4, <1>5, <1>6, PairChanges

LEMMA DispatchStep ==
    ASSUME DispatchInv, [DispatchNext]_dispatchVars
    PROVE  DispatchInv'
<1>1. CASE UNCHANGED dispatchVars
  BY <1>1 DEF dispatchVars, DispatchInv, DispatchTypeOK
<1>2. ASSUME NEW e \in Endpoints, Register(e) PROVE DispatchInv'
  BY <1>2, RegisterKeeps
<1>3. ASSUME NEW ev \in Events, Dispatch(ev) \/ Launch(ev) PROVE DispatchInv'
  BY <1>3, RegisterKeeps, LaunchKeeps
<1>4. ASSUME NEW i \in DOMAIN go, Deliver(i) PROVE DispatchInv'
  BY <1>4, PostsKeep, NoteKeeps, WakeKeeps DEF Deliver
<1> QED BY <1>1, <1>2, <1>3, <1>4 DEF DispatchNext

LEMMA DispatchInvariance == DispatchSpec => []DispatchInv
<1>1. DispatchInv /\ [DispatchNext]_dispatchVars => DispatchInv'
  BY DispatchStep
<1> QED BY DispatchStart, <1>1, PTL DEF DispatchSpec

\* Deliveries and goroutines come in pairs, and no delivery takes more than
\* MaxAttempts attempts.
THEOREM DispatchTypeCorrect == DispatchSpec => []DispatchTypeOK
<1>1. DispatchInv => DispatchTypeOK
  BY DEF DispatchInv
<1> QED BY DispatchInvariance, <1>1, PTL

\* What is listed as delivered was received and accepted, and what ended
\* undelivered was refused for good or had all its attempts.
THEOREM DeliveriesEndAsAnswered == DispatchSpec => []EndsAsAnswered
<1>1. DispatchInv => EndsAsAnswered
  BY Pairs DEF InStep, EndsAsAnswered
<1> QED BY DispatchInvariance, <1>1, PTL

\* An endpoint is registered once, and one that an event was dispatched to is
\* yet to come to, or has its delivery.
Told(e, ev) == \E i \in DOMAIN deliveries : deliveries[i].endpoint = e /\ deliveries[i].event = ev

RegisteredOnce == \A i, j \in DOMAIN endpoints : endpoints[i] = endpoints[j] => i = j
NobodyForgotten == \A e \in Endpoints, ev \in Events : InSeq(e, eps[ev]) => InSeq(e, todo[ev]) \/ Told(e, ev)

CopiedFirst == \A ev \in Events : todo[ev] # <<>> => eps[ev] # <<>>

EveryoneInv == DispatchInv /\ RegisteredOnce /\ CopiedFirst /\ NobodyForgotten

LEMMA EveryoneStart == DispatchInit => EveryoneInv
<1> SUFFICES ASSUME DispatchInit PROVE EveryoneInv
  OBVIOUS
<1>1. DOMAIN endpoints = {}
  BY DEF DispatchInit, None
<1>2. \A ev \in Events : eps[ev] = todo[ev]
  BY DEF DispatchInit
<1>3. \A ev \in Events : todo[ev] = <<>>
  BY DEF DispatchInit, None
<1> QED BY <1>1, <1>2, <1>3, DispatchStart DEF EveryoneInv, CopiedFirst, RegisteredOnce, NobodyForgotten

\* The deliveries keep their endpoints and events.
LEMMA DeliverKeepsTold ==
    ASSUME DispatchInv, NEW i \in DOMAIN go, Deliver(i)
    PROVE  /\ \A e \in Endpoints, ev \in Events : Told(e, ev) => Told(e, ev)'
           /\ UNCHANGED <<endpoints, eps, todo>>
<1>1. UNCHANGED <<endpoints, eps, todo>>
  BY DEF Deliver, PostAnswered, PostUnheard, PostLost, Post, Note, Wake
<1>2. CASE UNCHANGED deliveries
  BY <1>1, <1>2 DEF Told
<1>3. CASE Note(i)
  <2> DEFINE d == [deliveries[i] EXCEPT !.attempts = go[i].attempt, !.last_status = go[i].status,
                                        !.delivered = Ok(go[i].status)]
  <2>1. /\ deliveries' = [deliveries EXCEPT ![i] = d] /\ DOMAIN deliveries = DOMAIN go
        /\ deliveries[i] \in Deliveries /\ deliveries \in Seq(Deliveries)
    BY <1>3, Pairs DEF Note
  <2>2. d.endpoint = deliveries[i].endpoint /\ d.event = deliveries[i].event
    BY <2>1 DEF Deliveries
  <2> HIDE DEF d
  <2>3. DOMAIN deliveries' = DOMAIN deliveries
    BY <2>1
  <2>4. \A j \in DOMAIN deliveries : /\ deliveries'[j].endpoint = deliveries[j].endpoint
                                     /\ deliveries'[j].event = deliveries[j].event
    BY <2>1, <2>2
  <2> QED BY <1>1, <2>3, <2>4 DEF Told
<1> QED BY <1>2, <1>3 DEF Deliver, PostAnswered, PostUnheard, PostLost, Post, Wake

LEMMA EveryoneStep ==
    ASSUME EveryoneInv, [DispatchNext]_dispatchVars
    PROVE  EveryoneInv'
<1>1. DispatchInv'
  BY DispatchStep DEF EveryoneInv
<1>2. DispatchInv
  BY DEF EveryoneInv
<1>3. /\ endpoints \in Seq(Endpoints) /\ eps \in [Events -> Seq(Endpoints)]
      /\ todo \in [Events -> Seq(Endpoints)]
  BY <1>2 DEF DispatchInv, DispatchTypeOK
<1>4. CASE UNCHANGED dispatchVars
  BY <1>1, <1>4 DEF EveryoneInv, CopiedFirst, RegisteredOnce, NobodyForgotten, Told, dispatchVars
<1>5. ASSUME NEW e \in Endpoints, Register(e) PROVE EveryoneInv'
  <2>1. endpoints' = Append(endpoints, e) /\ ~InSeq(e, endpoints) /\ UNCHANGED <<eps, todo, deliveries>>
    BY <1>5 DEF Register
  <2>2. /\ DOMAIN endpoints' = 1 .. Len(endpoints) + 1 /\ DOMAIN endpoints = 1 .. Len(endpoints)
        /\ endpoints'[Len(endpoints) + 1] = e /\ \A i \in 1 .. Len(endpoints) : endpoints'[i] = endpoints[i]
        /\ Len(endpoints) \in Nat
    BY <1>3, <2>1, ListAppend
  <2>3. RegisteredOnce'
    BY <2>1, <2>2 DEF EveryoneInv, RegisteredOnce, InSeq
  <2> QED BY <1>1, <2>1, <2>3 DEF EveryoneInv, CopiedFirst, NobodyForgotten, Told
<1>6. ASSUME NEW ev \in Events, Dispatch(ev) PROVE EveryoneInv'
  <2>1. /\ eps' = [eps EXCEPT ![ev] = endpoints] /\ todo' = [todo EXCEPT ![ev] = endpoints]
        /\ UNCHANGED <<endpoints, deliveries>>
    BY <1>6 DEF Dispatch
  <2>2. /\ eps'[ev] = todo'[ev]
        /\ \A f \in Events : f # ev => eps'[f] = eps[f] /\ todo'[f] = todo[f]
    BY <1>3, <2>1
  <2> QED BY <1>1, <2>1, <2>2 DEF EveryoneInv, CopiedFirst, RegisteredOnce, NobodyForgotten, Told
<1>7. ASSUME NEW ev \in Events, Launch(ev) PROVE EveryoneInv'
  <2>2. PICK first \in Endpoints : first = Head(todo[ev])
    BY <1>3, <1>7, ListTail DEF Launch, None
  <2> DEFINE d == [endpoint |-> first, event |-> ev, attempts |-> 0, delivered |-> FALSE, last_status |-> 0]
  <2>1. /\ todo[ev] \in Seq(Endpoints) /\ todo[ev] # <<>> /\ todo' = [todo EXCEPT ![ev] = Tail(todo[ev])]
        /\ deliveries' = Append(deliveries, d) /\ UNCHANGED <<endpoints, eps>>
    BY <1>3, <1>7, <2>2 DEF Launch, None
  <2>3. d \in Deliveries /\ d.endpoint = first /\ d.event = ev
    BY <2>2, DispatchAssumption DEF Deliveries
  <2> HIDE DEF d
  <2>4. /\ DOMAIN deliveries = 1 .. Len(deliveries) /\ Len(deliveries) \in Nat
        /\ DOMAIN deliveries' = 1 .. Len(deliveries) + 1 /\ deliveries'[Len(deliveries) + 1] = d
        /\ \A i \in 1 .. Len(deliveries) : deliveries'[i] = deliveries[i]
    <3>1. deliveries \in Seq(Deliveries)
      BY <1>2, Pairs
    <3> QED BY <2>1, <2>3, <3>1, ListAppend
  <2>5. Told(first, ev)' /\ \A e \in Endpoints, f \in Events : Told(e, f) => Told(e, f)'
    <3>1. Len(deliveries) + 1 \in DOMAIN deliveries'
      BY <2>4
    <3>2. Told(first, ev)'
      BY <2>3, <2>4, <3>1 DEF Told
    <3>3. \A i \in DOMAIN deliveries : i \in DOMAIN deliveries' /\ deliveries'[i] = deliveries[i]
      BY <2>4
    <3> QED BY <3>2, <3>3 DEF Told
  <2>6. \A f \in Events : f # ev => todo'[f] = todo[f]
    BY <1>3, <2>1
  <2>7. \A e \in Endpoints : InSeq(e, todo[ev]) => e = first \/ InSeq(e, todo'[ev])
    <3> DEFINE l == todo[ev]
    <3>1. todo'[ev] = Tail(l) /\ l \in Seq(Endpoints) /\ l # <<>>
      BY <1>3, <2>1
    <3> HIDE DEF l
    <3>2. Len(l) \in Nat /\ DOMAIN l = 1 .. Len(l) /\ Head(l) = l[1]
      BY <3>1
    <3>3. DOMAIN Tail(l) = 1 .. Len(l) - 1 /\ \A i \in 1 .. Len(l) - 1 : Tail(l)[i] = l[i + 1]
      BY <3>1
    <3>4. ASSUME NEW i \in DOMAIN l, i # 1 PROVE i - 1 \in DOMAIN Tail(l) /\ Tail(l)[i - 1] = l[i]
      BY <3>2, <3>3, <3>4
    <3>5. \A e \in Endpoints : InSeq(e, l) => e = Head(l) \/ InSeq(e, Tail(l))
      BY <3>2, <3>4 DEF InSeq
    <3> QED BY <2>2, <3>1, <3>5 DEF l
  <2>8. NobodyForgotten'
    <3> SUFFICES ASSUME NEW e \in Endpoints, NEW f \in Events, InSeq(e, eps[f])
                 PROVE  InSeq(e, todo'[f]) \/ Told(e, f)'
      BY <2>1 DEF NobodyForgotten
    <3>1. InSeq(e, todo[f]) \/ Told(e, f)
      BY DEF EveryoneInv, NobodyForgotten
    <3>2. CASE Told(e, f)
      BY <2>5, <3>2
    <3>3. CASE f # ev /\ InSeq(e, todo[f])
      BY <2>6, <3>3
    <3>4. CASE f = ev /\ InSeq(e, todo[ev])
      <4>1. e = first \/ InSeq(e, todo'[ev])
        BY <2>7, <3>4
      <4> QED BY <2>5, <3>4, <4>1
    <3> QED BY <3>1, <3>2, <3>3, <3>4
  <2>9. CopiedFirst'
    BY <1>3, <2>1, <2>6 DEF EveryoneInv, CopiedFirst
  <2> QED BY <1>1, <2>1, <2>8, <2>9 DEF EveryoneInv, RegisteredOnce
<1>8. ASSUME NEW i \in DOMAIN go, Deliver(i) PROVE EveryoneInv'
  <2>1. /\ \A e \in Endpoints, ev \in Events : Told(e, ev) => Told(e, ev)'
        /\ UNCHANGED <<endpoints, eps, todo>>
    BY <1>2, <1>8, DeliverKeepsTold
  <2> QED BY <1>1, <2>1 DEF EveryoneInv, CopiedFirst, RegisteredOnce, NobodyForgotten
<1> QED BY <1>4, <1>5, <1>6, <1>7, <1>8 DEF DispatchNext

LEMMA EveryoneInvariance == DispatchSpec => []EveryoneInv
<1>1. EveryoneInv /\ [DispatchNext]_dispatchVars => EveryoneInv'
  BY EveryoneStep
<1> QED BY EveryoneStart, <1>1, PTL DEF DispatchSpec

\* No loop has an endpoint to come to, and every goroutine has ended.
AtRest == (\A ev \in Events : todo[ev] = None) /\ \A i \in DOMAIN go : go[i].pc = "done"

\* When nothing is left to do, every endpoint an event was dispatched to has a
\* delivery that was tried and ended: no registration and no failure of another
\* endpoint makes the loop miss one.
THEOREM AtRestEveryoneIsTried ==
    DispatchSpec => [](AtRest => \A e \in Endpoints, ev \in Events : InSeq(e, eps[ev]) => Listed(e, ev))
<1>1. EveryoneInv => (AtRest => \A e \in Endpoints, ev \in Events : InSeq(e, eps[ev]) => Listed(e, ev))
  <2> SUFFICES ASSUME EveryoneInv, AtRest, NEW e \in Endpoints, NEW ev \in Events, InSeq(e, eps[ev])
               PROVE  Listed(e, ev)
    OBVIOUS
  <2>1. todo[ev] = <<>> /\ DOMAIN <<>> = {}
    BY DEF AtRest, None
  <2>2. Told(e, ev)
    BY <2>1 DEF EveryoneInv, NobodyForgotten, InSeq
  <2>3. PICK i \in DOMAIN deliveries : deliveries[i].endpoint = e /\ deliveries[i].event = ev
    BY <2>2 DEF Told
  <2>4. i \in DOMAIN go /\ InStep(go[i], deliveries[i], received)
    BY <2>3, Pairs DEF EveryoneInv
  <2>5. go[i].ep = e /\ go[i].pc = "done"
    BY <2>3, <2>4 DEF InStep, AtRest
  <2> QED BY <2>3, <2>5 DEF Listed
<1> QED BY EveryoneInvariance, <1>1, PTL

\* The steps that are left, at most: of a goroutine; of an event, with those of
\* the goroutines it will have; and the endpoints yet to be registered.
Span == 3 * MaxAttempts
PostsOf(g) ==
    CASE g.pc = "post" -> 3 * (MaxAttempts - g.attempt) + 2
      [] g.pc = "note" -> 3 * (MaxAttempts - g.attempt) + 1
      [] g.pc = "sleep" -> 3 * (MaxAttempts - g.attempt)
      [] g.pc = "done" -> 0
LaunchesOf(copied, rest) ==
    IF copied = <<>> THEN Span * Cardinality(Endpoints) + 1 ELSE Span * Len(rest)

PostsLeft == SumOver([i \in DOMAIN go |-> PostsOf(go[i])], DOMAIN go)
LaunchesLeft == SumOver([ev \in Events |-> LaunchesOf(eps[ev], todo[ev])], Events)
DispatchLeft == Cardinality(Endpoints) - Len(endpoints) + LaunchesLeft + PostsLeft

LEMMA PostsOfNat == \A g \in Goroutines : PostsOf(g) \in Nat
<1> TAKE g \in Goroutines
<1>1. /\ g.attempt \in 1 .. MaxAttempts /\ MaxAttempts \in Nat
      /\ g.pc \in {"post", "note", "sleep", "done"}
  BY DispatchAssumption DEF Goroutines
<1>2. 3 * (MaxAttempts - g.attempt) \in Nat
  BY <1>1
<1>3. CASE g.pc = "done"
  BY <1>3 DEF PostsOf
<1>4. CASE g.pc \in {"post", "note", "sleep"}
  BY <1>2, <1>4 DEF PostsOf
<1> QED BY <1>1, <1>3, <1>4

LEMMA MoreLaunches ==
    ASSUME NEW m \in Nat, NEW n \in Nat
    PROVE  /\ Span \in Nat /\ Span >= 3 /\ Span * n \in Nat
           /\ Span * (n + 1) = Span * n + Span
           /\ m <= n => Span * m <= Span * n
<1>1. Span \in Nat /\ Span >= 3
  BY DispatchAssumption DEF Span
<1>2. \A s, x \in Nat : s * x \in Nat /\ s * (x + 1) = s * x + s
  OBVIOUS
<1>3. m <= n => Span * m <= Span * n
  <2> SUFFICES ASSUME m <= n PROVE Span * m <= Span * n
    OBVIOUS
  <2>1. PICK k \in Nat : n = m + k
    <3>1. n - m \in Nat /\ n = m + (n - m)
      OBVIOUS
    <3> QED BY <3>1
  <2>2. \A s, x, y \in Nat : s * (x + y) = s * x + s * y /\ s * x \in Nat /\ s * y \in Nat
    OBVIOUS
  <2>3. Span * n = Span * m + Span * k /\ Span * m \in Nat /\ Span * k \in Nat
    BY <1>1, <2>1, <2>2
  <2> QED BY <2>3
<1> QED BY <1>1, <1>2, <1>3

\* No more endpoints are registered than there are.
LEMMA RegisteredFit ==
    ASSUME EveryoneInv, IsFiniteSet(Endpoints)
    PROVE  /\ Len(endpoints) \in Nat /\ Cardinality(Endpoints) \in Nat
           /\ Len(endpoints) <= Cardinality(Endpoints)
<1>1. endpoints \in Seq(Endpoints)
  BY DEF EveryoneInv, DispatchInv, DispatchTypeOK
<1>2. Len(endpoints) \in Nat /\ DOMAIN endpoints = 1 .. Len(endpoints)
  BY <1>1
<1> DEFINE places == 1 .. Len(endpoints)
           listed == [i \in places |-> endpoints[i]]
<1>3. listed \in [places -> Endpoints] /\ \A i, j \in places : listed[i] = listed[j] => i = j
  BY <1>1, <1>2 DEF EveryoneInv, RegisteredOnce
<1>4. IsFiniteSet(places) /\ Cardinality(places) = Len(endpoints)
  <2>1. /\ IsFiniteSet(1 .. Len(endpoints))
        /\ Cardinality(1 .. Len(endpoints)) = IF 1 > Len(endpoints) THEN 0 ELSE Len(endpoints) - 1 + 1
    <3>1. 1 \in Int /\ Len(endpoints) \in Int
      BY <1>2
    <3> QED BY <3>1, FS_Interval, Zenon
  <2> QED BY <1>2, <2>1
<1>5. Cardinality(Endpoints) \in Nat
  BY FS_CardinalityType
<1> HIDE DEF places, listed
<1>6. ~(Cardinality(Endpoints) < Cardinality(places))
  BY <1>3, <1>4, FS_PigeonHole
<1> QED BY <1>2, <1>4, <1>5, <1>6

LEMMA LaunchesNat ==
    ASSUME NEW n \in Nat, NEW copied, NEW rest \in Seq(Endpoints), n = Cardinality(Endpoints)
    PROVE  LaunchesOf(copied, rest) \in Nat
<1>1. Len(rest) \in Nat
  OBVIOUS
<1>2. Span * n \in Nat /\ Span * Len(rest) \in Nat
  BY <1>1, MoreLaunches
<1> QED BY <1>2 DEF LaunchesOf

LEMMA DispatchSums ==
    ASSUME EveryoneInv, IsFiniteSet(Endpoints), IsFiniteSet(Events)
    PROVE  /\ Cardinality(Endpoints) - Len(endpoints) \in Nat
           /\ \A ev \in Events : LaunchesOf(eps[ev], todo[ev]) \in Nat
           /\ \A i \in DOMAIN go : PostsOf(go[i]) \in Nat
           /\ LaunchesLeft \in Nat /\ PostsLeft \in Nat
           /\ IsFiniteSet(DOMAIN go)
<1>1. Cardinality(Endpoints) - Len(endpoints) \in Nat
  BY RegisteredFit
<1>2. \A ev \in Events : LaunchesOf(eps[ev], todo[ev]) \in Nat
  <2>1. Cardinality(Endpoints) \in Nat
    BY RegisteredFit
  <2>2. \A ev \in Events : todo[ev] \in Seq(Endpoints)
    BY DEF EveryoneInv, DispatchInv, DispatchTypeOK
  <2> QED BY <2>1, <2>2, LaunchesNat
<1>3. \A i \in DOMAIN go : PostsOf(go[i]) \in Nat
  BY Pairs, PostsOfNat DEF EveryoneInv
<1>4. IsFiniteSet(DOMAIN go)
  <2>1. DOMAIN go = 1 .. Len(go) /\ Len(go) \in Nat
    BY Pairs DEF EveryoneInv
  <2> QED BY <2>1, FS_Interval
<1>5. LaunchesLeft \in Nat
  <2> DEFINE g == [ev \in Events |-> LaunchesOf(eps[ev], todo[ev])]
  <2>1. \A ev \in Events : g[ev] \in Nat
    BY <1>2
  <2> HIDE DEF g
  <2>2. SumOver(g, Events) \in Nat
    BY <2>1, SumOfNats
  <2> QED BY <2>2 DEF LaunchesLeft, g
<1>6. PostsLeft \in Nat
  <2> DEFINE g == [i \in DOMAIN go |-> PostsOf(go[i])]
  <2>1. \A i \in DOMAIN go : g[i] \in Nat
    BY <1>3
  <2> HIDE DEF g
  <2>2. SumOver(g, DOMAIN go) \in Nat
    BY <1>4, <2>1, SumOfNats
  <2> QED BY <2>2 DEF PostsLeft, g
<1> QED BY <1>1, <1>2, <1>3, <1>4, <1>5, <1>6

\* What one event, one goroutine, and a new goroutine do to the sums.
LEMMA OneEventChanges ==
    ASSUME EveryoneInv, IsFiniteSet(Endpoints), IsFiniteSet(Events), NEW ev \in Events,
           NEW copied, NEW rest \in Seq(Endpoints),
           copied = eps'[ev], rest = todo'[ev],
           \A f \in Events \ {ev} : eps'[f] = eps[f] /\ todo'[f] = todo[f]
    PROVE  LaunchesLeft' = LaunchesLeft - LaunchesOf(eps[ev], todo[ev]) + LaunchesOf(copied, rest)
<1> DEFINE g == [f \in Events |-> LaunchesOf(eps[f], todo[f])]
           h == [f \in Events |-> LaunchesOf(eps'[f], todo'[f])]
<1>1. h[ev] \in Int
  <2>1. Cardinality(Endpoints) \in Nat
    BY RegisteredFit
  <2> QED BY <2>1, LaunchesNat
<1>2. \A f \in Events : g[f] \in Int
  BY DispatchSums
<1>3. \A f \in Events \ {ev} : h[f] = g[f]
  OBVIOUS
<1>4. LaunchesLeft = SumOver(g, Events) /\ LaunchesLeft' = SumOver(h, Events)
  BY DEF LaunchesLeft
<1>5. g[ev] = LaunchesOf(eps[ev], todo[ev]) /\ h[ev] = LaunchesOf(copied, rest)
  OBVIOUS
<1> HIDE DEF g, h
<1>6. SumOver(h, Events) = SumOver(g, Events) - g[ev] + h[ev]
  BY <1>1, <1>2, <1>3, SumChanges
<1> QED BY <1>4, <1>5, <1>6

LEMMA OneGoroutineChanges ==
    ASSUME EveryoneInv, IsFiniteSet(Endpoints), IsFiniteSet(Events), NEW i \in DOMAIN go,
           NEW to \in Goroutines, go' = [go EXCEPT ![i] = to]
    PROVE  PostsLeft' = PostsLeft - PostsOf(go[i]) + PostsOf(to)
<1> DEFINE g == [j \in DOMAIN go |-> PostsOf(go[j])]
           h == [j \in DOMAIN go |-> PostsOf(go'[j])]
<1>1. /\ DOMAIN go' = DOMAIN go /\ go'[i] = to /\ \A j \in DOMAIN go \ {i} : go'[j] = go[j]
  BY Pairs DEF EveryoneInv
<1>2. h[i] = PostsOf(to) /\ h[i] \in Int /\ g[i] = PostsOf(go[i])
  BY <1>1, PostsOfNat
<1>3. \A j \in DOMAIN go : g[j] \in Int
  BY DispatchSums
<1>4. \A j \in DOMAIN go \ {i} : h[j] = g[j]
  BY <1>1
<1>5. PostsLeft = SumOver(g, DOMAIN go) /\ PostsLeft' = SumOver(h, DOMAIN go)
  BY <1>1 DEF PostsLeft
<1>6. IsFiniteSet(DOMAIN go)
  BY DispatchSums
<1> HIDE DEF g, h
<1>7. SumOver(h, DOMAIN go) = SumOver(g, DOMAIN go) - g[i] + h[i]
  BY <1>2, <1>3, <1>4, <1>6, SumChanges
<1> QED BY <1>2, <1>5, <1>7

LEMMA OneGoroutineMore ==
    ASSUME EveryoneInv, IsFiniteSet(Endpoints), IsFiniteSet(Events), NEW new \in Goroutines,
           go' = Append(go, new)
    PROVE  PostsLeft' = PostsLeft + PostsOf(new)
<1> DEFINE g == [j \in DOMAIN go |-> PostsOf(go[j])]
           h == [j \in DOMAIN go' |-> PostsOf(go'[j])]
           n == Len(go) + 1
<1>1. /\ DOMAIN go = 1 .. Len(go) /\ Len(go) \in Nat /\ DOMAIN go' = 1 .. n
      /\ go'[n] = new /\ \A j \in 1 .. Len(go) : go'[j] = go[j]
  <2>1. go \in Seq(Goroutines)
    BY Pairs DEF EveryoneInv
  <2> QED BY <2>1, ListAppend
<1>2. DOMAIN go' = DOMAIN go \cup {n} /\ n \notin DOMAIN go
  BY <1>1
<1>3. h[n] = PostsOf(new) /\ h[n] \in Int
  BY <1>1, <1>2, PostsOfNat
<1>4. \A j \in DOMAIN go : g[j] \in Int /\ g[j] = h[j]
  BY <1>1, <1>2, DispatchSums
<1>5. PostsLeft = SumOver(g, DOMAIN go) /\ PostsLeft' = SumOver(h, DOMAIN go')
  BY DEF PostsLeft
<1>6. IsFiniteSet(DOMAIN go)
  BY DispatchSums
<1> HIDE DEF g, h, n
<1>7. SumOver(h, DOMAIN go) = SumOver(g, DOMAIN go)
  BY <1>4, <1>6, SumSame
<1>8. \A y \in DOMAIN go \cup {n} : h[y] \in Int
  BY <1>3, <1>4
<1>9. SumOver(h, DOMAIN go \cup {n}) = SumOver(h, DOMAIN go) + h[n]
  BY <1>2, <1>6, <1>8, SumAdds
<1> QED BY <1>2, <1>3, <1>5, <1>7, <1>9

\* A goroutine's steps.
LEMMA DeliverMovesOn ==
    ASSUME EveryoneInv, IsFiniteSet(Endpoints), IsFiniteSet(Events), NEW i \in DOMAIN go, Deliver(i)
    PROVE  PostsLeft' \in Int /\ PostsLeft' < PostsLeft
<1>1. DispatchInv' /\ DispatchInv
  BY DispatchStep DEF EveryoneInv, DispatchNext
<1> DEFINE to == go'[i]
<1>2. /\ go[i] \in Goroutines /\ InStep(go[i], deliveries[i], received) /\ go \in Seq(Goroutines)
      /\ go[i].attempt \in 1 .. MaxAttempts /\ MaxAttempts \in Nat
  BY <1>1, Pairs, DispatchAssumption DEF Goroutines
<1>3. /\ go' = [go EXCEPT ![i] = to] /\ PostsOf(to) < PostsOf(go[i])
  <2>1. ASSUME NEW status, Post(i, status)
        PROVE  <1>3!:
    <3>1. to = [go[i] EXCEPT !.pc = "note", !.status = status] /\ go' = [go EXCEPT ![i] = to] /\ go[i].pc = "post"
      BY <1>2, <2>1 DEF Post
    <3>2. to.pc = "note" /\ to.attempt = go[i].attempt
      BY <1>2, <3>1 DEF Goroutines
    <3> HIDE DEF to
    <3> QED BY <1>2, <3>1, <3>2 DEF PostsOf
  <2>2. CASE Note(i)
    <3>1. /\ \E pc \in {"sleep", "done"} : to = [go[i] EXCEPT !.pc = pc] 
          /\ go' = [go EXCEPT ![i] = to] /\ go[i].pc = "note"
      BY <1>2, <2>2 DEF Note, Goes
    <3>2. to.pc \in {"sleep", "done"} /\ to.attempt = go[i].attempt
      BY <1>2, <3>1 DEF Goroutines
    <3> HIDE DEF to
    <3>3. CASE to.pc = "sleep"
      BY <1>2, <3>1, <3>2, <3>3 DEF PostsOf
    <3>4. CASE to.pc = "done"
      BY <1>2, <3>1, <3>2, <3>4 DEF PostsOf
    <3> QED BY <3>1, <3>2, <3>3, <3>4
  <2>3. CASE Wake(i)
    <3>1. /\ to = [go[i] EXCEPT !.pc = "post", !.attempt = go[i].attempt + 1]
          /\ go' = [go EXCEPT ![i] = to] /\ go[i].pc = "sleep"
      BY <1>2, <2>3 DEF Wake
    <3>2. to.pc = "post" /\ to.attempt = go[i].attempt + 1
      BY <1>2, <3>1 DEF Goroutines
    <3> HIDE DEF to
    <3> QED BY <1>2, <3>1, <3>2 DEF PostsOf
  <2> QED BY <2>1, <2>2, <2>3 DEF Deliver, PostAnswered, PostUnheard, PostLost
<1>4. to \in Goroutines
  <2>1. DOMAIN go' = DOMAIN go
    BY <1>2, <1>3
  <2>2. go' \in Seq(Goroutines)
    BY <1>1 DEF DispatchInv, DispatchTypeOK, Goroutines
  <2> QED BY <2>1, <2>2
<1> HIDE DEF to
<1>5. PostsLeft' = PostsLeft - PostsOf(go[i]) + PostsOf(to)
  BY <1>3, <1>4, OneGoroutineChanges
<1>6. PostsLeft \in Nat /\ PostsOf(go[i]) \in Nat /\ PostsOf(to) \in Nat
  BY <1>2, <1>4, DispatchSums, PostsOfNat
<1> QED BY <1>3, <1>5, <1>6

\* The loops' steps, and the registrations.
LEMMA RegisterMovesOn ==
    ASSUME EveryoneInv, IsFiniteSet(Endpoints), IsFiniteSet(Events), NEW e \in Endpoints, Register(e)
    PROVE  DispatchLeft' < DispatchLeft
<1>1. endpoints' = Append(endpoints, e) /\ endpoints \in Seq(Endpoints) /\ UNCHANGED <<eps, todo, go>>
  BY DEF Register, EveryoneInv, DispatchInv, DispatchTypeOK
<1>2. Len(endpoints') = Len(endpoints) + 1
  BY <1>1, ListAppend
<1>3. LaunchesLeft' = LaunchesLeft /\ PostsLeft' = PostsLeft
  BY <1>1 DEF LaunchesLeft, PostsLeft
<1>4. /\ LaunchesLeft \in Nat /\ PostsLeft \in Nat /\ Len(endpoints) \in Nat /\ Cardinality(Endpoints) \in Nat
  BY DispatchSums, RegisteredFit
<1> QED BY <1>2, <1>3, <1>4 DEF DispatchLeft

LEMMA DispatchMovesOn ==
    ASSUME EveryoneInv, IsFiniteSet(Endpoints), IsFiniteSet(Events), NEW ev \in Events, Dispatch(ev)
    PROVE  DispatchLeft' < DispatchLeft
<1> DEFINE all == Cardinality(Endpoints)
           n == Len(endpoints)
<1>1. /\ eps[ev] = <<>> /\ endpoints # <<>> /\ UNCHANGED <<endpoints, go>> /\ endpoints \in Seq(Endpoints)
      /\ eps'[ev] = endpoints /\ todo'[ev] = endpoints
      /\ \A f \in Events \ {ev} : eps'[f] = eps[f] /\ todo'[f] = todo[f]
  BY DEF Dispatch, None, EveryoneInv, DispatchInv, DispatchTypeOK
<1>2. n \in Nat /\ all \in Nat /\ n <= all
  BY RegisteredFit
<1>3. LaunchesLeft' = LaunchesLeft - LaunchesOf(eps[ev], todo[ev]) + LaunchesOf(endpoints, endpoints)
  <2>1. endpoints = eps'[ev] /\ endpoints = todo'[ev]
    BY <1>1
  <2> QED BY <1>1, <2>1, OneEventChanges
<1>4. LaunchesOf(eps[ev], todo[ev]) = Span * all + 1 /\ LaunchesOf(endpoints, endpoints) = Span * n
  BY <1>1 DEF LaunchesOf
<1>5. Span * n <= Span * all /\ Span * n \in Nat /\ Span * all \in Nat
  BY <1>2, MoreLaunches
<1>6. PostsLeft' = PostsLeft /\ Len(endpoints') = n
  BY <1>1 DEF PostsLeft
<1>7. LaunchesLeft \in Nat /\ PostsLeft \in Nat
  BY DispatchSums
<1> HIDE DEF all, n
<1>8. LaunchesLeft' < LaunchesLeft /\ LaunchesLeft' \in Int
  BY <1>3, <1>4, <1>5, <1>7
<1> QED BY <1>2, <1>6, <1>7, <1>8 DEF DispatchLeft, all, n

LEMMA LaunchMovesOn ==
    ASSUME EveryoneInv, IsFiniteSet(Endpoints), IsFiniteSet(Events), NEW ev \in Events, Launch(ev)
    PROVE  DispatchLeft' < DispatchLeft
<1> DEFINE rest == Tail(todo[ev])
           new == [pc |-> "post", ep |-> Endpoint(ev), attempt |-> 1, status |-> 0]
<1>1. /\ todo[ev] \in Seq(Endpoints) /\ todo[ev] # <<>> /\ UNCHANGED <<endpoints, eps>>
      /\ go' = Append(go, new) /\ todo'[ev] = rest
      /\ \A f \in Events \ {ev} : eps'[f] = eps[f] /\ todo'[f] = todo[f]
  BY DEF Launch, None, EveryoneInv, DispatchInv, DispatchTypeOK
<1>2. rest \in Seq(Endpoints) /\ Head(todo[ev]) \in Endpoints /\ Len(rest) \in Nat /\ Len(todo[ev]) = Len(rest) + 1
  BY <1>1, ListTail
<1>3. new \in Goroutines /\ PostsOf(new) = Span - 1
  <2>1. new \in Goroutines
    BY <1>2, DispatchAssumption DEF Goroutines, Endpoint
  <2>2. new.pc = "post" /\ new.attempt = 1
    OBVIOUS
  <2> HIDE DEF new
  <2>3. PostsOf(new) = 3 * (MaxAttempts - 1) + 2
    BY <2>2 DEF PostsOf
  <2> QED BY <2>1, <2>3, DispatchAssumption DEF Span
<1>4. LaunchesLeft' = LaunchesLeft - LaunchesOf(eps[ev], todo[ev]) + LaunchesOf(eps[ev], rest)
  <2>1. eps[ev] = eps'[ev] /\ rest = todo'[ev]
    BY <1>1
  <2> HIDE DEF rest
  <2> QED BY <1>1, <1>2, <2>1, OneEventChanges
<1>5. eps[ev] # <<>>
  BY <1>1 DEF EveryoneInv, CopiedFirst
<1>6. /\ LaunchesOf(eps[ev], todo[ev]) = Span * Len(rest) + Span /\ LaunchesOf(eps[ev], rest) = Span * Len(rest)
      /\ Span * Len(rest) \in Nat /\ Span \in Nat
  BY <1>2, <1>5, MoreLaunches DEF LaunchesOf
<1>7. PostsLeft' = PostsLeft + PostsOf(new)
  BY <1>1, <1>3, OneGoroutineMore
<1>8. LaunchesLeft \in Nat /\ PostsLeft \in Nat /\ Len(endpoints) \in Nat /\ Cardinality(Endpoints) \in Nat
  BY DispatchSums, RegisteredFit
<1> HIDE DEF rest, new
<1>9. LaunchesLeft' = LaunchesLeft - Span
  BY <1>4, <1>6, <1>8
<1>10. PostsLeft' = PostsLeft + Span - 1
  BY <1>3, <1>6, <1>7, <1>8
<1> QED BY <1>1, <1>6, <1>8, <1>9, <1>10 DEF DispatchLeft

LEMMA AllMovesOn ==
    ASSUME EveryoneInv, IsFiniteSet(Endpoints), IsFiniteSet(Events), [DispatchNext]_dispatchVars,
           dispatchVars' # dispatchVars
    PROVE  DispatchLeft' < DispatchLeft
<1>1. ASSUME NEW e \in Endpoints, Register(e) PROVE DispatchLeft' < DispatchLeft
  BY <1>1, RegisterMovesOn
<1>2. ASSUME NEW ev \in Events, Dispatch(ev) \/ Launch(ev) PROVE DispatchLeft' < DispatchLeft
  BY <1>2, DispatchMovesOn, LaunchMovesOn
<1>3. ASSUME NEW i \in DOMAIN go, Deliver(i) PROVE DispatchLeft' < DispatchLeft
  <2>1. UNCHANGED <<endpoints, eps, todo>>
    BY <1>3, DeliverKeepsTold DEF EveryoneInv
  <2>2. LaunchesLeft' = LaunchesLeft
    BY <2>1 DEF LaunchesLeft
  <2>3. PostsLeft' \in Int /\ PostsLeft' < PostsLeft
    BY <1>3, DeliverMovesOn
  <2>5. LaunchesLeft \in Nat /\ PostsLeft \in Nat /\ Len(endpoints) \in Nat /\ Cardinality(Endpoints) \in Nat
    BY DispatchSums, RegisteredFit
  <2> QED BY <2>1, <2>2, <2>3, <2>5 DEF DispatchLeft
<1> QED BY <1>1, <1>2, <1>3 DEF DispatchNext

\* Dispatching takes a bounded number of steps, whatever the endpoints answer:
\* every step takes from a number that starts at one for each endpoint and, for
\* each event, three for each attempt that all endpoints may take, and one.
THEOREM DispatchIsBounded ==
    ASSUME IsFiniteSet(Endpoints), IsFiniteSet(Events)
    PROVE  DispatchSpec => [](DispatchLeft \in Nat) /\ [][DispatchLeft' < DispatchLeft]_dispatchVars
<1>1. EveryoneInv => DispatchLeft \in Nat
  BY DispatchSums DEF DispatchLeft
<1>2. EveryoneInv /\ [DispatchNext]_dispatchVars => [DispatchLeft' < DispatchLeft]_dispatchVars
  BY AllMovesOn
<1> QED BY EveryoneInvariance, <1>1, <1>2, PTL DEF DispatchSpec

-----------------------------------------------------------------------------
(* web/src/app/state: the buttons and the row.                                *)

\* While the row is not in doubt, one call is under way at most, the row shows
\* what it asks for, and the server has what its stage says.
Alone ==
    /\ \E op \in Ops : edits[op] = <<>>
    /\ \A op \in Ops : Len(edits[op]) <= 1

\* e is a call of op that was clicked when the server had the other value
CallInStep(op, e, mine, theirs) ==
    /\ mine.resolved = Value(op)
    /\ e.stage = "answered" => theirs.resolved = Value(op) /\ e.row.resolved = Value(op)
    /\ e.stage # "answered" => theirs.resolved # Value(op) /\ e.previous.resolved # Value(op)

InStepUnlessInDoubt == ~doubt =>
    /\ Alone
    /\ \A op \in Ops : edits[op] # <<>> => CallInStep(op, Head(edits[op]), row, server)

\* A load that met no resolve or reopen has the row as the server has it.
LoadIsFresh == load # NoLoad /\ ~stale =>
    /\ ~Editing
    /\ load.stage = "answered" => load.row.resolved = server.resolved

ClientInv == TypeOK /\ BusyIsInFlight /\ InStepUnlessInDoubt /\ LoadIsFresh /\ RowIsTrue

RowInv == InStepUnlessInDoubt /\ LoadIsFresh /\ RowIsTrue

LEMMA OneOp == \A op \in Ops : /\ Value(op) \in BOOLEAN
                              /\ \A other \in Ops \ {op} : other # op /\ (\A any \in Ops : any = op \/ any = other)
  BY DEF Ops, Value

LEMMA EditFields ==
    ASSUME NEW e \in EditRecords
    PROVE  /\ e.stage \in {"sent", "answered", "failed"} /\ e.previous \in Row /\ e.previous.resolved \in BOOLEAN
           /\ e.row \in Row \cup {NoRow} /\ (e.stage = "answered" => e.row \in Row)
  BY DEF EditRecords, Row

LEMMA LoadFields ==
    /\ NoLoad \in LoadRecords /\ LoadSent \in LoadRecords
    /\ NoLoad.stage = "none" /\ LoadSent.stage = "sent" /\ NoLoad # LoadSent
    /\ \A l \in LoadRecords : /\ l.stage = "answered" => l # NoLoad /\ l.row \in Row
                             /\ l # NoLoad => l.stage # "none"
    /\ \A r \in Row : [stage |-> "answered", row |-> r] \in LoadRecords
    /\ \A r \in Row : r.resolved \in BOOLEAN /\ r.note \in BOOLEAN
  BY DEF LoadRecords, NoLoad, LoadSent, Row

\* The call that is under way becomes e, or leaves its queue, or one more enters.
LEMMA QueueChanges ==
    ASSUME edits \in [Ops -> Seq(EditRecords)], NEW op \in Ops
    PROVE  /\ \A e \in EditRecords : edits[op] # <<>> /\ edits' = [edits EXCEPT ![op][1] = e] =>
                /\ edits' \in [Ops -> Seq(EditRecords)] /\ edits'[op] # <<>> /\ Head(edits'[op]) = e
                /\ Len(edits'[op]) = Len(edits[op])
                /\ \A other \in Ops \ {op} : edits'[other] = edits[other]
           /\ edits[op] # <<>> /\ edits' = [edits EXCEPT ![op] = Tail(edits[op])] =>
                /\ edits' \in [Ops -> Seq(EditRecords)]
                /\ Len(edits[op]) <= 1 => edits'[op] = <<>>
                /\ \A other \in Ops \ {op} : edits'[other] = edits[other]
           /\ \A e \in EditRecords : edits' = [edits EXCEPT ![op] = Append(edits[op], e)] =>
                /\ edits' \in [Ops -> Seq(EditRecords)] /\ edits'[op] # <<>>
                /\ edits[op] = <<>> => Len(edits'[op]) = 1 /\ Head(edits'[op]) = e
                /\ \A other \in Ops \ {op} : edits'[other] = edits[other]
<1> DEFINE l == edits[op]
<1>1. l \in Seq(EditRecords)
  OBVIOUS
<1>2. ASSUME NEW e \in EditRecords, l # <<>>, edits' = [edits EXCEPT ![op][1] = e]
      PROVE  /\ edits' \in [Ops -> Seq(EditRecords)] /\ edits'[op] # <<>> /\ Head(edits'[op]) = e
             /\ Len(edits'[op]) = Len(l) /\ \A other \in Ops \ {op} : edits'[other] = edits[other]
  <2> DEFINE new == [l EXCEPT ![1] = e]
  <2>1. edits' = [edits EXCEPT ![op] = new]
    BY <1>2
  <2>2. new \in Seq(EditRecords) /\ Len(new) = Len(l) /\ new[1] = e /\ Len(l) \in Nat \ {0}
    BY <1>1, <1>2, ListTail
  <2> HIDE DEF new
  <2>3. new # <<>> /\ Head(new) = e
    BY <2>2
  <2> QED BY <2>1, <2>2, <2>3
<1>3. ASSUME l # <<>>, edits' = [edits EXCEPT ![op] = Tail(l)]
      PROVE  /\ edits' \in [Ops -> Seq(EditRecords)] /\ (Len(l) <= 1 => edits'[op] = <<>>)
             /\ \A other \in Ops \ {op} : edits'[other] = edits[other]
  <2>1. Tail(l) \in Seq(EditRecords) /\ Len(Tail(l)) = Len(l) - 1 /\ Len(l) \in Nat \ {0}
    BY <1>1, <1>3, ListTail
  <2>2. Len(l) <= 1 => Tail(l) = <<>>
    BY <2>1
  <2> QED BY <1>3, <2>1, <2>2
<1>4. ASSUME NEW e \in EditRecords, edits' = [edits EXCEPT ![op] = Append(l, e)]
      PROVE  /\ edits' \in [Ops -> Seq(EditRecords)] /\ edits'[op] # <<>>
             /\ l = <<>> => Len(edits'[op]) = 1 /\ Head(edits'[op]) = e
             /\ \A other \in Ops \ {op} : edits'[other] = edits[other]
  <2> DEFINE longer == Append(l, e)
  <2>1. longer \in Seq(EditRecords) /\ Len(longer) = Len(l) + 1 /\ Len(l) \in Nat /\ longer[Len(l) + 1] = e
    BY <1>1, ListAppend
  <2> HIDE DEF longer
  <2>2. longer # <<>> /\ (Len(l) = 0 => Head(longer) = e)
    BY <2>1
  <2>3. edits' = [edits EXCEPT ![op] = longer]
    BY <1>4 DEF longer
  <2>4. l = <<>> => Len(l) = 0
    OBVIOUS
  <2> HIDE DEF l
  <2> QED BY <2>1, <2>2, <2>3, <2>4
<1> QED BY <1>2, <1>3, <1>4

\* What Doubts says when no load arrives.
LEMMA DoubtStays ==
    ASSUME ClientInv, Doubts, ~doubt',
           ~(load.stage = "answered" /\ load' = NoLoad /\ row' = load.row)
    PROVE  /\ ~doubt /\ \E op \in Ops : edits'[op] = <<>>
           /\ server'.resolved # server.resolved => \A op \in Ops : ~InFlight(op, "failed")'
  BY DEF Doubts

\* Nothing of the row, of its value in the database, or of its calls changes.
LEMMA QuietStep ==
    ASSUME ClientInv, Doubts, server'.resolved = server.resolved, row' = row, edits' = edits,
           \/ load' \in {load, LoadSent, NoLoad}
           \/ load' = [stage |-> "answered", row |-> server]
    PROVE  RowInv'
<1>1. /\ Editing' <=> Editing
      /\ Alone' <=> Alone
      /\ \A op \in Ops : CallInStep(op, Head(edits'[op]), row', server') <=> CallInStep(op, Head(edits[op]), row, server)
  BY DEF Editing, Alone, CallInStep
<1>2. CASE load.stage = "answered" /\ load' = NoLoad /\ row' = load.row
  <2>1. doubt' = stale /\ load # NoLoad
    BY <1>2, LoadFields DEF Doubts, ClientInv, TypeOK
  <2>2. ~stale => ~Editing /\ row.resolved = server.resolved
    BY <1>2, <2>1 DEF ClientInv, LoadIsFresh
  <2>3. ~Editing => \A op \in Ops : edits'[op] = <<>>
    BY DEF Editing
  <2>4. ~Editing => Alone'
    BY <2>3 DEF Alone, Ops
  <2> QED BY <1>1, <1>2, <2>1, <2>2, <2>3, <2>4 DEF RowInv, InStepUnlessInDoubt, LoadIsFresh, RowIsTrue
<1>3. CASE ~(load.stage = "answered" /\ load' = NoLoad /\ row' = load.row)
  <2>1. ~doubt' => ~doubt
    BY <1>3, DoubtStays
  <2>2. InStepUnlessInDoubt' /\ RowIsTrue'
    BY <1>1, <2>1 DEF ClientInv, InStepUnlessInDoubt, RowIsTrue
  <2>3. LoadIsFresh'
    <3> SUFFICES ASSUME load' # NoLoad, ~stale'
                 PROVE  ~Editing' /\ (load'.stage = "answered" => load'.row.resolved = server'.resolved)
      BY DEF LoadIsFresh
    <3>1. ~stale /\ ~Editing
      BY <1>1 DEF Doubts
    <3>2. CASE load' = load
      BY <1>1, <3>1, <3>2 DEF ClientInv, LoadIsFresh
    <3>3. CASE load' = LoadSent
      BY <1>1, <3>1, <3>3, LoadFields
    <3>4. CASE load' = [stage |-> "answered", row |-> server]
      BY <1>1, <3>1, <3>4
    <3> QED BY <3>2, <3>3, <3>4
  <2> QED BY <2>2, <2>3 DEF RowInv
<1> QED BY <1>2, <1>3

LEMMA LoadSuccessStep ==
    ASSUME ClientInv, Doubts, LoadSuccess
    PROVE  RowInv'
<1>1. /\ load.stage = "answered" /\ load' = NoLoad /\ row' = load.row /\ load # NoLoad
      /\ UNCHANGED <<server, edits>> /\ doubt' = stale
  BY LoadFields DEF LoadSuccess, Doubts, ClientInv, TypeOK
<1>2. ~stale => ~Editing /\ row'.resolved = server'.resolved
  BY <1>1 DEF ClientInv, LoadIsFresh
<1>3. ~Editing => Alone' /\ \A op \in Ops : edits'[op] = <<>>
  BY <1>1 DEF Editing, Alone, Ops
<1> QED BY <1>1, <1>2, <1>3 DEF RowInv, InStepUnlessInDoubt, LoadIsFresh, RowIsTrue

\* While calls are under way, a load that goes on is stale, and nothing is
\* asked of the row.
LEMMA WhileEditing ==
    ASSUME Doubts, NEW op \in Ops, edits'[op] # <<>>
    PROVE  LoadIsFresh' /\ RowIsTrue'
<1>1. Editing'
  BY DEF Editing
<1> QED BY <1>1 DEF Doubts, LoadIsFresh, RowIsTrue

\* A click: unless in doubt, no call was under way, and the row was true.
LEMMA ClickEditStep ==
    ASSUME ClientInv, Doubts, NEW op \in Ops, ClickEdit(op)
    PROVE  RowInv' /\ edits' \in [Ops -> Seq(EditRecords)]
<1> DEFINE e == [previous |-> row, stage |-> "sent", row |-> NoRow]
<1>1. /\ row.resolved # Value(op) /\ row' = [row EXCEPT !.resolved = Value(op)]
      /\ edits' = [edits EXCEPT ![op] = Append(edits[op], e)] /\ UNCHANGED <<server, load>>
  BY DEF ClickEdit
<1>2. /\ row \in Row /\ server \in Row /\ edits \in [Ops -> Seq(EditRecords)] /\ load \in LoadRecords
      /\ e \in EditRecords /\ e.stage = "sent" /\ e.previous = row
  BY DEF ClientInv, TypeOK, EditRecords
<1> HIDE DEF e
<1>3. /\ edits' \in [Ops -> Seq(EditRecords)] /\ edits'[op] # <<>>
      /\ edits[op] = <<>> => Len(edits'[op]) = 1 /\ Head(edits'[op]) = e
      /\ \A other \in Ops \ {op} : edits'[other] = edits[other]
  BY <1>1, <1>2, QueueChanges
<1>4. row'.resolved = Value(op)
  BY <1>1, <1>2 DEF Row
<1>5. InStepUnlessInDoubt'
  <2> SUFFICES ASSUME ~doubt'
               PROVE  /\ Alone'
                      /\ \A any \in Ops : edits'[any] # <<>> => CallInStep(any, Head(edits'[any]), row', server')
    BY DEF InStepUnlessInDoubt
  <2>1. ~doubt /\ \E any \in Ops : edits'[any] = <<>>
    BY <1>1, <1>2, LoadFields, DoubtStays
  <2>2. edits[op] = <<>>
    BY <1>1, <2>1 DEF ClientInv, InStepUnlessInDoubt, CallInStep
  <2>3. \A other \in Ops \ {op} : edits'[other] = <<>> /\ edits[other] = <<>>
    BY <1>3, <2>1, OneOp
  <2>4. row.resolved = server.resolved
    BY <2>1, <2>2, <2>3 DEF ClientInv, RowIsTrue, Editing
  <2>5. CallInStep(op, Head(edits'[op]), row', server')
    BY <1>1, <1>2, <1>3, <1>4, <2>2, <2>4 DEF CallInStep
  <2>6. Alone'
    <3>1. Len(edits'[op]) <= 1
      <4>1. Len(edits'[op]) = 1
        BY <1>3, <2>2
      <4> QED BY <4>1
    <3>2. Len(<<>>) <= 1
      OBVIOUS
    <3>3. \A any \in Ops \ {op} : Len(edits'[any]) <= 1
      BY <2>3, <3>2
    <3> QED BY <2>1, <3>1, <3>3 DEF Alone
  <2> QED BY <2>3, <2>5, <2>6
<1> QED BY <1>3, <1>5, WhileEditing DEF RowInv

\* The call under way is handled or refused.
LEMMA HandleEditStep ==
    ASSUME ClientInv, Doubts, NEW op \in Ops,
           RefuseEdit(op) \/ \E stage \in Stages : HandleEdit(op, stage)
    PROVE  RowInv' /\ edits' \in [Ops -> Seq(EditRecords)] /\ server' \in Row
<1> DEFINE old == Head(edits[op])
<1>1. /\ server \in Row /\ edits \in [Ops -> Seq(EditRecords)] /\ edits[op] # <<>> /\ old.stage = "sent"
      /\ UNCHANGED <<row, load>> /\ load \in LoadRecords
  BY DEF ClientInv, TypeOK, RefuseEdit, HandleEdit, InFlight, view
<1>2. /\ old \in EditRecords /\ old.previous \in Row /\ old = edits[op][1]
  BY <1>1, ListTail, EditFields
<1>3. PICK stage \in {"answered", "failed"}, r \in Row \cup {NoRow} :
        /\ edits' = [edits EXCEPT ![op][1] = [old EXCEPT !.stage = stage, !.row = r]]
        /\ \/ stage = "failed" /\ server' = server
           \/ r = server' /\ server' = [server EXCEPT !.resolved = Value(op)]
        /\ server' \in Row
  <2>1. CASE RefuseEdit(op)
    BY <1>1, <1>2, <2>1 DEF RefuseEdit, Becomes
  <2>2. ASSUME NEW stage \in Stages, HandleEdit(op, stage)
        PROVE  /\ server' \in Row /\ server' = [server EXCEPT !.resolved = Value(op)]
               /\ edits' = [edits EXCEPT ![op][1] = [old EXCEPT !.stage = stage, !.row = server']]
    BY <1>1, <1>2, <2>2, OneOp DEF HandleEdit, Becomes, Row
  <2> QED BY <2>1, <2>2 DEF Stages
<1> DEFINE e == [old EXCEPT !.stage = stage, !.row = r]
<1>4. e \in EditRecords /\ e.stage = stage /\ e.row = r /\ e.previous = old.previous
  <2>1. stage = "answered" => r \in Row
    BY <1>3
  <2> QED BY <1>2, <2>1 DEF EditRecords
<1> HIDE DEF e, old
<1>5. /\ edits' \in [Ops -> Seq(EditRecords)] /\ edits'[op] # <<>> /\ Head(edits'[op]) = e
      /\ Len(edits'[op]) = Len(edits[op]) /\ \A other \in Ops \ {op} : edits'[other] = edits[other]
  <2>1. edits' = [edits EXCEPT ![op][1] = e]
    BY <1>3 DEF e
  <2> QED BY <1>1, <1>4, <2>1, QueueChanges
<1>6. InStepUnlessInDoubt'
  <2> SUFFICES ASSUME ~doubt'
               PROVE  /\ Alone'
                      /\ \A any \in Ops : edits'[any] # <<>> => CallInStep(any, Head(edits'[any]), row', server')
    BY DEF InStepUnlessInDoubt
  <2>1. /\ ~doubt /\ \E any \in Ops : edits'[any] = <<>>
        /\ server'.resolved # server.resolved => ~InFlight(op, "failed")'
    BY <1>1, LoadFields, DoubtStays
  <2>2. /\ row.resolved = Value(op) /\ server.resolved # Value(op) /\ old.previous.resolved # Value(op)
        /\ \A any \in Ops : Len(edits[any]) <= 1
    BY <1>1, <2>1 DEF ClientInv, InStepUnlessInDoubt, CallInStep, Alone, old
  <2>3. \A other \in Ops \ {op} : edits'[other] = <<>>
    BY <1>5, <2>1, OneOp
  <2>4. Alone'
    <3>1. \A any \in Ops : Len(edits'[any]) <= 1
      BY <1>5, <2>2
    <3> QED BY <2>1, <3>1 DEF Alone
  <2>5. CallInStep(op, e, row', server')
    <3>1. CASE stage = "failed" /\ server' = server
      BY <1>1, <1>4, <2>2, <3>1 DEF CallInStep
    <3>2. CASE r = server' /\ server' = [server EXCEPT !.resolved = Value(op)]
      <4>1. server'.resolved = Value(op)
        BY <1>1, <3>2 DEF Row
      <4>2. stage # "failed"
        BY <1>4, <1>5, <2>1, <2>2, <4>1 DEF InFlight
      <4> QED BY <1>1, <1>3, <1>4, <2>2, <3>2, <4>1, <4>2 DEF CallInStep
    <3> QED BY <1>3, <3>1, <3>2
  <2> QED BY <1>5, <2>3, <2>4, <2>5
<1> QED BY <1>3, <1>5, <1>6, WhileEditing DEF RowInv

\* The answer of the call under way arrives: unless in doubt, none is left.
LEMMA EditEndsStep ==
    ASSUME ClientInv, Doubts, NEW op \in Ops, EditSuccess(op) \/ EditFailure(op)
    PROVE  RowInv' /\ edits' \in [Ops -> Seq(EditRecords)] /\ row' \in Row
<1> DEFINE e == Head(edits[op])
<1>1. /\ server \in Row /\ edits \in [Ops -> Seq(EditRecords)] /\ edits[op] # <<>>
      /\ edits' = [edits EXCEPT ![op] = Tail(edits[op])] /\ UNCHANGED <<server, load>> /\ load \in LoadRecords
      /\ \/ e.stage = "answered" /\ row' = e.row
         \/ e.stage = "failed" /\ row' = e.previous
  BY DEF ClientInv, TypeOK, EditSuccess, EditFailure, InFlight, Restored
<1>2. e \in EditRecords /\ row' \in Row
  BY <1>1, ListTail, EditFields
<1>3. /\ edits' \in [Ops -> Seq(EditRecords)] /\ (Len(edits[op]) <= 1 => edits'[op] = <<>>)
      /\ \A other \in Ops \ {op} : edits'[other] = edits[other]
  BY <1>1, QueueChanges
<1>4. ~doubt' => ~Editing' /\ Alone' /\ row'.resolved = server'.resolved
  <2> SUFFICES ASSUME ~doubt' PROVE ~Editing' /\ Alone' /\ row'.resolved = server'.resolved
    OBVIOUS
  <2>1. ~doubt
    BY <1>1, LoadFields, DoubtStays
  <2>2. Alone /\ CallInStep(op, e, row, server)
    BY <1>1, <2>1 DEF ClientInv, InStepUnlessInDoubt
  <2>3. \A any \in Ops : edits'[any] = <<>>
    <3>1. \A other \in Ops \ {op} : edits[other] = <<>>
      BY <1>1, <2>2, OneOp DEF Alone
    <3> QED BY <1>3, <2>2, <3>1 DEF Alone
  <2>4. ~Editing' /\ Alone'
    <3>1. Len(<<>>) <= 1
      OBVIOUS
    <3> QED BY <2>3, <3>1 DEF Editing, Alone, Ops
  <2>5. row'.resolved = server'.resolved
    <3>1. server.resolved \in BOOLEAN /\ e.previous.resolved \in BOOLEAN /\ Value(op) \in BOOLEAN
      BY <1>1, <1>2, EditFields, OneOp DEF Row
    <3> QED BY <1>1, <2>2, <3>1 DEF CallInStep
  <2> QED BY <2>4, <2>5
<1>5. LoadIsFresh'
  <2>1. Editing
    BY <1>1 DEF Editing
  <2> QED BY <1>1, <2>1 DEF ClientInv, LoadIsFresh, Doubts
<1> QED BY <1>2, <1>3, <1>4, <1>5 DEF RowInv, InStepUnlessInDoubt, RowIsTrue, Editing

-----------------------------------------------------------------------------
(* The steps that touch no row.                                               *)

Acts == [kind : {"none", "reconcile", "triage"}, stage : {"none", "sent", "answered", "failed"},
         started : BOOLEAN]

QuietActions ==
    \/ \E kind \in {"reconcile", "triage"} : ClickAct(kind)
    \/ \E stage \in Stages : HandleAct(stage)
    \/ RefuseAct \/ ActSuccess \/ ActFailure
    \/ JobRuns \/ JobEnds
    \/ HandleLoad \/ LoadFailure
    \/ HandlePoll \/ PollHears \/ PollFails \/ PollTick

\* The button is disabled when a request is sent, and enabled when it ended.
LEMMA ActStep ==
    ASSUME ClientInv, QuietActions
    PROVE  /\ act' \in Acts /\ busy' \in BOOLEAN /\ BusyIsInFlight'
           /\ clicks' \in 0 .. MaxClicks /\ UNCHANGED <<wanted, failed, row, edits>>
<1>1. act \in Acts /\ busy \in BOOLEAN /\ (busy <=> act # NoAct) /\ clicks \in 0 .. MaxClicks
      /\ MaxClicks \in Nat /\ server.note \in BOOLEAN
  BY ClientAssumption DEF ClientInv, TypeOK, BusyIsInFlight, Acts, Row
<1>2. ASSUME NEW kind \in {"reconcile", "triage"}, ClickAct(kind)
      PROVE  /\ act' \in Acts /\ act' # NoAct /\ busy' = TRUE /\ clicks' \in 0 .. MaxClicks
             /\ UNCHANGED <<wanted, failed, row, edits>>
  BY <1>1, <1>2 DEF ClickAct, Click, Acts, NoAct
<1>3. ASSUME NEW stage \in Stages, HandleAct(stage)
      PROVE  /\ act' \in Acts /\ act' # NoAct /\ act # NoAct /\ busy' = busy
             /\ UNCHANGED <<clicks, wanted, failed, row, edits>>
  <2>1. PICK starts \in BOOLEAN : act' = [act EXCEPT !.stage = stage, !.started = starts]
    BY <1>1, <1>3 DEF HandleAct
  <2>2. act.stage = "sent" /\ UNCHANGED <<view, edits, history>>
    BY <1>3 DEF HandleAct
  <2>3. act # NoAct
    BY <2>2 DEF NoAct
  <2>4. act' \in Acts /\ act'.stage = stage
    BY <1>1, <2>1 DEF Acts, Stages
  <2> QED BY <2>2, <2>3, <2>4 DEF Stages, NoAct, view, history
<1>4. CASE RefuseAct
  <2>1. act.stage = "sent" /\ act' = [act EXCEPT !.stage = "failed"] /\ UNCHANGED <<view, edits, history>>
    BY <1>4 DEF RefuseAct
  <2>2. act' \in Acts /\ act'.stage = "failed"
    BY <1>1, <2>1 DEF Acts
  <2>3. act # NoAct /\ act' # NoAct
    BY <2>1, <2>2 DEF NoAct
  <2> QED BY <1>1, <2>1, <2>2, <2>3 DEF BusyIsInFlight, view, history
<1>5. CASE ActSuccess \/ ActFailure
  <2>1. act' = NoAct /\ busy' = FALSE /\ UNCHANGED <<row, edits, history>>
    BY <1>5 DEF ActSuccess, ActFailure, BusyAfterFailure
  <2>2. NoAct \in Acts
    BY DEF NoAct, Acts
  <2> QED BY <1>1, <2>1, <2>2 DEF BusyIsInFlight, history
<1>6. CASE JobRuns \/ JobEnds \/ HandleLoad \/ LoadFailure \/ HandlePoll \/ PollHears \/ PollFails \/ PollTick
  <2>1. UNCHANGED <<act, busy, row, edits, history>>
    BY <1>6 DEF JobRuns, JobEnds, HandleLoad, LoadFailure, HandlePoll, PollHears, PollFails, PollTick, view
  <2> QED BY <1>1, <2>1 DEF BusyIsInFlight, history
<1>7. ASSUME NEW kind \in {"reconcile", "triage"}, ClickAct(kind) PROVE BusyIsInFlight'
  BY <1>2, <1>7 DEF BusyIsInFlight
<1>8. ASSUME NEW stage \in Stages, HandleAct(stage) PROVE BusyIsInFlight'
  BY <1>1, <1>3, <1>8 DEF BusyIsInFlight
<1> QED BY <1>1, <1>2, <1>3, <1>4, <1>5, <1>6, <1>7, <1>8 DEF QuietActions

LEMMA QuietTypes ==
    ASSUME ClientInv, QuietActions
    PROVE  /\ server' \in Row /\ server'.resolved = server.resolved
           /\ job' \in {"none", "started", "running"} /\ poll' \in {"off", "wait", "ask", "running", "stopped"}
           /\ \/ load' \in {load, LoadSent, NoLoad}
              \/ load' = [stage |-> "answered", row |-> server]
<1>1. /\ server \in Row /\ job \in {"none", "started", "running"} /\ poll \in {"off", "wait", "ask", "running", "stopped"}
  BY DEF ClientInv, TypeOK
<1>2. CASE JobEnds
  <2>1. PICK note \in BOOLEAN : server' = [server EXCEPT !.note = note]
    BY <1>1, <1>2 DEF JobEnds, Row
  <2>2. server' \in Row /\ server'.resolved = server.resolved
    BY <1>1, <2>1 DEF Row
  <2> QED BY <1>1, <1>2, <2>2 DEF JobEnds
<1>3. ASSUME NEW stage \in Stages, HandleAct(stage)
      PROVE  UNCHANGED <<server, poll, load>> /\ job' \in {"none", "started", "running"}
  BY <1>1, <1>3 DEF HandleAct
<1>4. ASSUME NEW kind, ClickAct(kind) PROVE UNCHANGED <<server, job, poll, load>>
  BY <1>4 DEF ClickAct
<1>5. CASE RefuseAct \/ ActSuccess \/ ActFailure \/ JobRuns
  BY <1>1, <1>5 DEF RefuseAct, ActSuccess, ActFailure, JobRuns
<1>6. CASE HandleLoad \/ LoadFailure
  BY <1>1, <1>6 DEF HandleLoad, LoadFailure
<1>7. CASE HandlePoll \/ PollHears \/ PollFails \/ PollTick
  BY <1>1, <1>7 DEF HandlePoll, PollHears, PollAfterStop, PollFails, PollTick
<1> QED BY <1>1, <1>2, <1>3, <1>4, <1>5, <1>6, <1>7 DEF QuietActions

\* What a click, an answer or a refusal of resolve$ and reopen$ leaves alone.
LEMMA EditTypes ==
    ASSUME ClientInv, NEW op \in Ops,
           \/ ClickEdit(op) \/ RefuseEdit(op) \/ EditSuccess(op) \/ EditFailure(op)
           \/ \E stage \in Stages : HandleEdit(op, stage)
    PROVE  /\ UNCHANGED <<job, busy, act, load, poll>>
           /\ wanted' \in BOOLEAN /\ failed' \in BOOLEAN /\ clicks' \in 0 .. MaxClicks
<1>1. wanted \in BOOLEAN /\ failed \in BOOLEAN /\ clicks \in 0 .. MaxClicks /\ MaxClicks \in Nat
  BY ClientAssumption DEF ClientInv, TypeOK
<1>2. CASE ClickEdit(op)
  BY <1>1, <1>2, OneOp DEF ClickEdit, Click
<1>3. CASE RefuseEdit(op) \/ EditSuccess(op)
  BY <1>1, <1>3 DEF RefuseEdit, EditSuccess, view, history
<1>4. CASE EditFailure(op)
  BY <1>1, <1>4 DEF EditFailure
<1>5. ASSUME NEW stage \in Stages, HandleEdit(op, stage)
      PROVE  UNCHANGED <<job, busy, act, load, poll, clicks, wanted, failed>>
  BY <1>5 DEF HandleEdit, view, history
<1> QED BY <1>1, <1>2, <1>3, <1>4, <1>5

\* And what the row and the database become.
LEMMA EditRows ==
    ASSUME ClientInv, Doubts, NEW op \in Ops,
           \/ ClickEdit(op) \/ RefuseEdit(op) \/ EditSuccess(op) \/ EditFailure(op)
           \/ \E stage \in Stages : HandleEdit(op, stage)
    PROVE  RowInv' /\ edits' \in [Ops -> Seq(EditRecords)] /\ server' \in Row /\ row' \in Row
<1>1. server \in Row /\ row \in Row /\ Value(op) \in BOOLEAN
  BY OneOp DEF ClientInv, TypeOK
<1>2. CASE ClickEdit(op)
  <2>1. server' = server /\ row' \in Row
    BY <1>1, <1>2 DEF ClickEdit, Row
  <2> QED BY <1>1, <1>2, <2>1, ClickEditStep
<1>3. CASE RefuseEdit(op) \/ \E stage \in Stages : HandleEdit(op, stage)
  <2>1. row' = row
    BY <1>3 DEF RefuseEdit, HandleEdit, view
  <2> QED BY <1>1, <1>3, <2>1, HandleEditStep
<1>4. CASE EditSuccess(op) \/ EditFailure(op)
  <2>1. server' = server
    BY <1>4 DEF EditSuccess, EditFailure
  <2> QED BY <1>1, <1>4, <2>1, EditEndsStep
<1> QED BY <1>2, <1>3, <1>4

LEMMA DoubtTypes ==
    ASSUME ClientInv, Doubts
    PROVE  stale' \in BOOLEAN /\ doubt' \in BOOLEAN
<1>1. stale \in BOOLEAN /\ doubt \in BOOLEAN
  BY DEF ClientInv, TypeOK
<1>2. CASE load.stage = "answered" /\ load' = NoLoad /\ row' = load.row
  BY <1>1, <1>2 DEF Doubts
<1>3. CASE ~(load.stage = "answered" /\ load' = NoLoad /\ row' = load.row)
  BY <1>1, <1>3 DEF Doubts
<1> QED BY <1>2, <1>3

LEMMA ClientStart == Init => ClientInv
<1> SUFFICES ASSUME Init PROVE ClientInv
  OBVIOUS
<1>1. TypeOK
  <2>1. server \in Row /\ row \in Row /\ act \in Acts
    BY DEF Init, Row, Acts, NoAct
  <2>2. edits \in [Ops -> Seq(EditRecords)]
    BY DEF Init
  <2>3. load \in LoadRecords /\ 0 \in 0 .. MaxClicks
    BY LoadFields, ClientAssumption DEF Init
  <2> QED BY <2>1, <2>2, <2>3 DEF Init, TypeOK, Acts
<1>2. \A op \in Ops : edits[op] = <<>> /\ Len(edits[op]) <= 1
  BY DEF Init
<1>3. InStepUnlessInDoubt /\ LoadIsFresh
  BY <1>2 DEF Init, InStepUnlessInDoubt, Alone, LoadIsFresh, Ops
<1> QED BY <1>1, <1>3 DEF Init, ClientInv, BusyIsInFlight, RowIsTrue

LEMMA ClientKeeps ==
    ASSUME ClientInv, Next
    PROVE  ClientInv'
<1>1. Doubts /\ stale' \in BOOLEAN /\ doubt' \in BOOLEAN
  BY DoubtTypes DEF Next
<1>2. /\ row \in Row /\ server \in Row /\ load \in LoadRecords /\ edits \in [Ops -> Seq(EditRecords)]
      /\ wanted \in BOOLEAN /\ failed \in BOOLEAN
  BY DEF ClientInv, TypeOK
<1>3. CASE QuietActions
  <2>1. load' \in LoadRecords
    BY <1>2, <1>3, QuietTypes, LoadFields
  <2>2. RowInv'
    BY <1>1, <1>3, QuietTypes, ActStep, QuietStep
  <2>3. TypeOK'
    <3>1. /\ act' \in Acts /\ busy' \in BOOLEAN /\ clicks' \in 0 .. MaxClicks
          /\ UNCHANGED <<wanted, failed, row, edits>>
      BY <1>3, ActStep
    <3>2. /\ server' \in Row /\ job' \in {"none", "started", "running"}
          /\ poll' \in {"off", "wait", "ask", "running", "stopped"}
      BY <1>3, QuietTypes
    <3> QED BY <1>1, <1>2, <2>1, <3>1, <3>2 DEF TypeOK, Acts
  <2>4. BusyIsInFlight'
    BY <1>3, ActStep
  <2> QED BY <2>2, <2>3, <2>4 DEF ClientInv, RowInv
<1>4. CASE LoadSuccess
  <2>1. row' \in Row /\ load' \in LoadRecords /\ UNCHANGED <<server, job, busy, act, poll, edits, history>>
    <3>1. load.stage = "answered" /\ row' = load.row /\ load' = NoLoad
          /\ UNCHANGED <<server, job, busy, act, poll, edits, history>>
      BY <1>4 DEF LoadSuccess
    <3>2. load.row \in Row
      BY <1>2, <3>1 DEF LoadRecords
    <3> QED BY <3>1, <3>2, LoadFields
  <2>2. TypeOK'
    BY <1>1, <2>1 DEF ClientInv, TypeOK, history
  <2>3. BusyIsInFlight'
    BY <2>1 DEF ClientInv, BusyIsInFlight
  <2> QED BY <1>1, <1>4, <2>2, <2>3, LoadSuccessStep DEF ClientInv, RowInv
<1>5. ASSUME NEW op \in Ops,
             \/ ClickEdit(op) \/ RefuseEdit(op) \/ EditSuccess(op) \/ EditFailure(op)
             \/ \E stage \in Stages : HandleEdit(op, stage)
      PROVE  ClientInv'
  <2>1. /\ UNCHANGED <<job, busy, act, load, poll>>
        /\ wanted' \in BOOLEAN /\ failed' \in BOOLEAN /\ clicks' \in 0 .. MaxClicks
    BY <1>5, EditTypes
  <2>2. RowInv' /\ edits' \in [Ops -> Seq(EditRecords)] /\ server' \in Row /\ row' \in Row
    BY <1>1, <1>5, EditRows
  <2>3. TypeOK'
    BY <1>1, <2>1, <2>2 DEF ClientInv, TypeOK
  <2>4. BusyIsInFlight'
    BY <2>1 DEF ClientInv, BusyIsInFlight
  <2> QED BY <2>2, <2>3, <2>4 DEF ClientInv, RowInv
<1>6. QuietActions \/ LoadSuccess
      \/ \E op \in Ops : \/ ClickEdit(op) \/ RefuseEdit(op) \/ EditSuccess(op) \/ EditFailure(op)
                         \/ \E stage \in Stages : HandleEdit(op, stage)
  BY DEF Next, Step, QuietActions
<1> QED BY <1>3, <1>4, <1>5, <1>6

LEMMA ClientInvariance == Spec => []ClientInv
<1>1. ClientInv /\ [Next]_<<vars, doubts>> => ClientInv'
  <2>1. ASSUME ClientInv, UNCHANGED <<vars, doubts>> PROVE ClientInv'
    <3>1. UNCHANGED <<server, job, row, busy, act, load, poll, edits, clicks, wanted, failed, stale, doubt>>
      BY <2>1 DEF vars, doubts
    <3>2. TypeOK' /\ BusyIsInFlight'
      BY <2>1, <3>1 DEF ClientInv, TypeOK, BusyIsInFlight
    <3>3. InStepUnlessInDoubt' /\ LoadIsFresh' /\ RowIsTrue'
      BY <2>1, <3>1 DEF ClientInv, InStepUnlessInDoubt, Alone, CallInStep, LoadIsFresh, RowIsTrue, Editing
    <3> QED BY <3>2, <3>3 DEF ClientInv
  <2> QED BY <2>1, ClientKeeps
<1> QED BY ClientStart, <1>1, PTL DEF Spec

\* The store, the requests and the server stay within their types: what is
\* answered has a row, and clicks are bounded.
THEOREM ClientTypeCorrect == Spec => []TypeOK
<1>1. ClientInv => TypeOK
  BY DEF ClientInv
<1> QED BY ClientInvariance, <1>1, PTL

\* The buttons are disabled exactly while a request of theirs is under way,
\* whether it is answered, refused or lost.
THEOREM ButtonsTellRequests == Spec => []BusyIsInFlight
<1>1. ClientInv => BusyIsInFlight
  BY DEF ClientInv
<1> QED BY ClientInvariance, <1>1, PTL

\* With no call under way the row shown is as the server has it, unless its
\* calls crossed or an answer was lost since a load last met none of them.
THEOREM RowsAreTrue == Spec => []RowIsTrue
<1>1. ClientInv => RowIsTrue
  BY DEF ClientInv
<1> QED BY ClientInvariance, <1>1, PTL

=============================================================================
