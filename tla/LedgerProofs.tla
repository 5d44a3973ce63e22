----------------------------- MODULE LedgerProofs -----------------------------
(* Theorems about the ledger, the file its events leave it in, their          *)
(* settlement and its server, for every set of charges, calls, keys and days, *)
(* every number of retries, every width of the integers and every currency.   *)
EXTENDS LedgerService, Settlement, EventsCsv, SumsProofs

-----------------------------------------------------------------------------
(* The ledger.                                                                *)

\* Remainders of numbers below the modulus.
LEMMA SmallMod ==
    ASSUME NEW x \in Nat, NEW y \in Nat, x < y
    PROVE  x % y = x
  OBVIOUS

\* A sum that fits does not wrap, and every sum wraps to an int64.
LEMMA WrapFits ==
    ASSUME NEW n \in Int64
    PROVE  Wrap(n) = n
<1>1. n + Half \in Nat /\ 2 * Half \in Nat /\ n + Half < 2 * Half
  BY LedgerAssumption DEF Int64
<1>2. (n + Half) % (2 * Half) = n + Half
  BY <1>1, SmallMod
<1> QED BY <1>2, LedgerAssumption DEF Wrap, Int64

LEMMA WrapType ==
    ASSUME NEW n \in Int
    PROVE  Wrap(n) \in Int64
<1>1. (n + Half) % (2 * Half) \in 0 .. 2 * Half - 1
  BY LedgerAssumption
<1> QED BY <1>1, LedgerAssumption DEF Wrap, Int64

LEMMA ChargeFields ==
    ASSUME LedgerTypeOK, NEW c \in ChargeIds
    PROVE  /\ charges[c] \in ChargeRecords
           /\ charges[c].merchant \in Merchants \cup {NoMerchant}
           /\ charges[c].amount \in 0 .. ChargeCap /\ charges[c].amount \in Int
           /\ charges[c].refunded \in Int64 /\ charges[c].refunded \in Int
<1>1. charges[c] \in ChargeRecords
  BY DEF LedgerTypeOK
<1> QED BY <1>1, LedgerAssumption DEF ChargeRecords, Int64

LEMMA EventFields ==
    ASSUME LedgerTypeOK, NEW n \in 1 .. Latest
    PROVE  events[n].charge \in ChargeIds
<1>1. events[n] \in EventRecords
  BY DEF LedgerTypeOK, Latest
<1> QED BY <1>1 DEF EventRecords

LEMMA PostType ==
    ASSUME journal \in Seq(Legs), events \in Seq(EventRecords), NEW a \in Accounts, NEW b \in Accounts,
           NEW amount \in Int, Post(a, b, amount)
    PROVE  journal' \in Seq(Legs)
<1>1. Latest + 1 \in Nat
  BY DEF Latest
<1>2. Leg(a, amount) \in Legs /\ Leg(b, -amount) \in Legs
  BY <1>1 DEF Leg, Legs
<1> HIDE DEF Legs
<1>3. <<Leg(a, amount), Leg(b, -amount)>> \in Seq(Legs)
  BY <1>2
<1> QED BY <1>3 DEF Post

LEMMA ChargeStep ==
    ASSUME LedgerTypeOK, NEW c \in ChargeIds, NEW m \in Merchants \cup {NoMerchant},
           NEW amount \in Amounts, CreateCharge(c, m, amount)
    PROVE  /\ LedgerTypeOK'
           /\ m \in Merchants /\ amount \in 1 .. ChargeCap
           /\ ~Exists(c)
           /\ charges'[c] = [merchant |-> m, amount |-> amount, refunded |-> 0]
           /\ \A d \in ChargeIds \ {c} : charges'[d] = charges[d]
           /\ events' = Append(events, [type |-> "charge.succeeded", charge |-> c,
                                        merchant |-> m, amount |-> amount])
<1> DEFINE new == [merchant |-> m, amount |-> amount, refunded |-> 0]
           e == [type |-> "charge.succeeded", charge |-> c, merchant |-> m, amount |-> amount]
<1>1. m \in Merchants /\ amount \in 1 .. ChargeCap /\ ~Exists(c)
  BY LedgerAssumption DEF CreateCharge, ChargeInvalid
<1>2. new \in ChargeRecords /\ e \in EventRecords
  BY <1>1, LedgerAssumption DEF ChargeRecords, EventRecords, EventTypes, Int64
<1>3. charges' = [charges EXCEPT ![c] = new] /\ events' = Append(events, e)
  BY DEF CreateCharge, Record
<1>4. journal' \in Seq(Legs)
  BY <1>1, PostType, LedgerAssumption DEF CreateCharge, LedgerTypeOK, Accounts
<1> HIDE DEF new, e
<1>5. charges \in [ChargeIds -> ChargeRecords] /\ events \in Seq(EventRecords)
  BY DEF LedgerTypeOK
<1>6. charges' \in [ChargeIds -> ChargeRecords] /\ events' \in Seq(EventRecords)
  BY <1>2, <1>3, <1>5
<1>7. charges'[c] = new /\ \A d \in ChargeIds \ {c} : charges'[d] = charges[d]
  BY <1>3, <1>5
<1> QED BY <1>1, <1>3, <1>4, <1>6, <1>7 DEF LedgerTypeOK, new, e

LEMMA RefundStep ==
    ASSUME LedgerTypeOK, NEW c \in ChargeIds, NEW amount \in Amounts, Refund(c, amount)
    PROVE  /\ LedgerTypeOK'
           /\ amount \in Nat \ {0} /\ Exists(c)
           /\ Wrap(charges[c].refunded + amount) <= charges[c].amount
           /\ charges'[c] = [merchant |-> charges[c].merchant, amount |-> charges[c].amount,
                             refunded |-> Wrap(charges[c].refunded + amount)]
           /\ \A d \in ChargeIds \ {c} : charges'[d] = charges[d]
           /\ events' = Append(events, [type |-> "charge.refunded", charge |-> c,
                                        merchant |-> charges[c].merchant, amount |-> amount])
<1> DEFINE m == charges[c].merchant
           new == [merchant |-> m, amount |-> charges[c].amount,
                   refunded |-> Wrap(charges[c].refunded + amount)]
           e == [type |-> "charge.refunded", charge |-> c, merchant |-> m, amount |-> amount]
<1>1. amount \in Nat \ {0} /\ amount \in Int /\ Exists(c)
  BY LedgerAssumption DEF Refund, RefundInvalid
<1>2. m \in Merchants
  BY <1>1, ChargeFields DEF Exists
<1>3. Wrap(charges[c].refunded + amount) \in Int64
  BY <1>1, WrapType, ChargeFields
<1>4. Wrap(charges[c].refunded + amount) <= charges[c].amount
  BY <1>3, ChargeFields, LedgerAssumption DEF Refund, RefundTooLarge, Int64
<1>5. new \in ChargeRecords /\ e \in EventRecords
  BY <1>2, <1>3, ChargeFields DEF ChargeRecords, EventRecords, EventTypes
<1>6. charges' = [charges EXCEPT ![c] = new] /\ events' = Append(events, e)
  BY DEF Refund, Record
<1>7. journal' \in Seq(Legs)
  BY <1>1, <1>2, PostType DEF Refund, LedgerTypeOK, Accounts
<1> HIDE DEF new, e
<1>8. charges \in [ChargeIds -> ChargeRecords] /\ events \in Seq(EventRecords)
  BY DEF LedgerTypeOK
<1>9. charges' \in [ChargeIds -> ChargeRecords] /\ events' \in Seq(EventRecords)
  BY <1>5, <1>6, <1>8
<1>10. charges'[c] = new /\ \A d \in ChargeIds \ {c} : charges'[d] = charges[d]
  BY <1>6, <1>8
<1> QED BY <1>1, <1>4, <1>6, <1>7, <1>9, <1>10 DEF LedgerTypeOK, new, e

\* The charges, the journal and the history hold values of their types.
THEOREM LedgerTypeCorrect == LedgerSpec => []LedgerTypeOK
<1>1. LedgerInit => LedgerTypeOK
  <2>1. NoCharge \in ChargeRecords
    BY LedgerAssumption DEF NoCharge, ChargeRecords, Int64
  <2> QED BY <2>1 DEF LedgerInit, LedgerTypeOK
<1>2. LedgerTypeOK /\ [LedgerNext]_ledger => LedgerTypeOK'
  <2>1. LedgerTypeOK /\ UNCHANGED ledger => LedgerTypeOK'
    BY DEF LedgerTypeOK, ledger
  <2> QED BY <2>1, ChargeStep, RefundStep DEF LedgerNext
<1> QED BY <1>1, <1>2, PTL DEF LedgerSpec

\* Every request asks for so little that no sum leaves the integers.
SumsFit == \A amount \in Amounts : amount + ChargeCap < Half

\* As long as no sum overflows, what is refunded of a charge is never negative
\* and never exceeds it.
THEOREM RefundsStayInRange ==
    ASSUME SumsFit
    PROVE  LedgerSpec => []RefundedInRange
<1>1. LedgerInit => RefundedInRange
  BY DEF LedgerInit, RefundedInRange, NoCharge
<1>2. LedgerTypeOK /\ RefundedInRange /\ [LedgerNext]_ledger => RefundedInRange'
  <2> SUFFICES ASSUME LedgerTypeOK, RefundedInRange, [LedgerNext]_ledger
               PROVE  RefundedInRange'
    OBVIOUS
  <2>1. ASSUME NEW c \in ChargeIds, NEW amount \in Amounts, NEW m \in Merchants \cup {NoMerchant},
               CreateCharge(c, m, amount)
        PROVE  RefundedInRange'
    <3>1. /\ charges'[c].refunded = 0 /\ charges'[c].amount = amount /\ amount \in 1 .. ChargeCap
          /\ \A d \in ChargeIds \ {c} : charges'[d] = charges[d]
      <4>1. /\ charges'[c] = [merchant |-> m, amount |-> amount, refunded |-> 0]
            /\ amount \in 1 .. ChargeCap
            /\ \A d \in ChargeIds \ {c} : charges'[d] = charges[d]
        BY <2>1, ChargeStep
      <4> QED BY <4>1
    <3> QED BY <3>1, LedgerAssumption DEF RefundedInRange
  <2>2. ASSUME NEW c \in ChargeIds, NEW amount \in Amounts, Refund(c, amount)
        PROVE  RefundedInRange'
    <3>1. /\ amount \in Nat
          /\ charges[c].refunded \in Int /\ charges[c].amount \in 0 .. ChargeCap
          /\ 0 <= charges[c].refunded /\ charges[c].refunded <= charges[c].amount
      BY <2>2, RefundStep, ChargeFields DEF RefundedInRange
    <3>2. charges[c].refunded + amount \in Int64
      BY <3>1, LedgerAssumption DEF SumsFit, Int64
    <3>3. Wrap(charges[c].refunded + amount) = charges[c].refunded + amount
      BY <3>2, WrapFits
    <3>4. /\ charges'[c].refunded = charges[c].refunded + amount
          /\ charges'[c].amount = charges[c].amount
          /\ charges[c].refunded + amount <= charges[c].amount
          /\ \A d \in ChargeIds \ {c} : charges'[d] = charges[d]
      <4>1. /\ charges'[c] = [merchant |-> charges[c].merchant, amount |-> charges[c].amount,
                              refunded |-> Wrap(charges[c].refunded + amount)]
            /\ Wrap(charges[c].refunded + amount) <= charges[c].amount
            /\ \A d \in ChargeIds \ {c} : charges'[d] = charges[d]
        BY <2>2, RefundStep
      <4> QED BY <3>3, <4>1
    <3> QED BY <3>1, <3>4 DEF RefundedInRange
  <2>3. CASE UNCHANGED ledger
    BY <2>3 DEF ledger, RefundedInRange
  <2> QED BY <2>1, <2>2, <2>3 DEF LedgerNext
<1> QED BY <1>1, <1>2, LedgerTypeCorrect, PTL DEF LedgerSpec

\* Every charge has its event.
ChargesAreRecorded ==
    \A c \in ChargeIds : Exists(c) =>
        \E k \in DOMAIN events : events[k].type = "charge.succeeded" /\ events[k].charge = c

\* The audit record names charges that exist, and no refund comes before its
\* charge.
THEOREM HistoryIsSound == LedgerSpec => []EventsAreOfCharges
<1> DEFINE IInv == EventsAreOfCharges /\ ChargesAreRecorded
<1>1. LedgerInit => IInv
  BY DEF LedgerInit, EventsAreOfCharges, ChargesAreRecorded, Exists, NoCharge
<1>2. LedgerTypeOK /\ IInv /\ [LedgerNext]_ledger => IInv'
  <2> SUFFICES ASSUME LedgerTypeOK, IInv, [LedgerNext]_ledger
               PROVE  IInv'
    OBVIOUS
  <2> DEFINE Kept(e) == /\ Len(events') = Latest + 1
                        /\ events'[Latest + 1] = e
                        /\ \A n \in 1 .. Latest : events'[n] = events[n]
                        /\ DOMAIN events = 1 .. Latest /\ DOMAIN events' = 1 .. Latest + 1
                        /\ Latest \in Nat
  <2>1. ASSUME NEW e \in EventRecords, events' = Append(events, e) PROVE Kept(e)
    BY <2>1 DEF LedgerTypeOK, Latest
  <2>2. ASSUME NEW c \in ChargeIds, NEW amount \in Amounts, NEW m \in Merchants \cup {NoMerchant},
               CreateCharge(c, m, amount)
        PROVE  IInv'
    <3> DEFINE e == [type |-> "charge.succeeded", charge |-> c, merchant |-> m, amount |-> amount]
    <3>1. /\ m \in Merchants /\ ~Exists(c)
          /\ charges'[c].merchant = m
          /\ \A d \in ChargeIds \ {c} : charges'[d] = charges[d]
          /\ events' = Append(events, e)
      <4>1. /\ m \in Merchants /\ ~Exists(c)
            /\ charges'[c] = [merchant |-> m, amount |-> amount, refunded |-> 0]
            /\ \A d \in ChargeIds \ {c} : charges'[d] = charges[d]
            /\ events' = Append(events, e)
        BY <2>2, ChargeStep
      <4> QED BY <4>1
    <3>2. e \in EventRecords /\ e.type = "charge.succeeded" /\ e.charge = c /\ e.merchant = m
      BY <3>1 DEF EventRecords, EventTypes
    <3>3. Kept(e)
      BY <2>1, <3>1, <3>2
    <3> HIDE DEF e
    <3>4. \A d \in ChargeIds : Exists(d)' <=> Exists(d) \/ d = c
      BY <3>1, LedgerAssumption DEF Exists
    <3>5. \A n \in 1 .. Latest : events[n].charge \in ChargeIds \ {c}
      BY <3>1, <3>3, EventFields DEF EventsAreOfCharges
    <3>6. EventsAreOfCharges'
      BY <3>1, <3>2, <3>3, <3>4, <3>5 DEF EventsAreOfCharges
    <3>7. ChargesAreRecorded'
      BY <3>2, <3>3, <3>4 DEF ChargesAreRecorded
    <3> QED BY <3>6, <3>7
  <2>3. ASSUME NEW c \in ChargeIds, NEW amount \in Amounts, Refund(c, amount)
        PROVE  IInv'
    <3> DEFINE m == charges[c].merchant
               e == [type |-> "charge.refunded", charge |-> c, merchant |-> m, amount |-> amount]
    <3>1. /\ Exists(c)
          /\ charges'[c].merchant = m
          /\ \A d \in ChargeIds \ {c} : charges'[d] = charges[d]
          /\ events' = Append(events, e)
      <4>1. /\ Exists(c)
            /\ charges'[c] = [merchant |-> charges[c].merchant, amount |-> charges[c].amount,
                              refunded |-> Wrap(charges[c].refunded + amount)]
            /\ \A d \in ChargeIds \ {c} : charges'[d] = charges[d]
            /\ events' = Append(events, e)
        BY <2>3, RefundStep
      <4> QED BY <4>1
    <3>2. e \in EventRecords /\ e.type = "charge.refunded" /\ e.charge = c /\ e.merchant = m
      <4>1. m \in Merchants
        BY <3>1, ChargeFields DEF Exists
      <4> QED BY <4>1 DEF EventRecords, EventTypes
    <3>3. Kept(e)
      BY <2>1, <3>1, <3>2
    <3> HIDE DEF e
    <3>4. \A d \in ChargeIds : charges'[d].merchant = charges[d].merchant
      BY <3>1
    <3>5. \A n \in 1 .. Latest : events[n].charge \in ChargeIds
      BY EventFields
    <3>6. PICK k \in 1 .. Latest : events[k].type = "charge.succeeded" /\ events[k].charge = c
      BY <3>1, <3>3 DEF ChargesAreRecorded
    <3>7. ChargesAreRecorded'
      BY <3>2, <3>3, <3>4 DEF ChargesAreRecorded, Exists
    <3> HIDE DEF m
    <3> DEFINE Sound(n) == /\ charges'[events'[n].charge].merchant # NoMerchant
                           /\ charges'[events'[n].charge].merchant = events'[n].merchant
                           /\ events'[n].type = "charge.refunded" =>
                                \E j \in 1 .. n - 1 : /\ events'[j].type = "charge.succeeded"
                                                      /\ events'[j].charge = events'[n].charge
    <3>8. Sound(Latest + 1)
      <4>1. charges'[c].merchant # NoMerchant
        BY <3>1, <3>4 DEF Exists
      <4>2. k \in 1 .. (Latest + 1) - 1 /\ events'[k] = events[k]
        BY <3>3, <3>6
      <4> QED BY <3>1, <3>2, <3>3, <3>6, <4>1, <4>2
    <3>9. ASSUME NEW n \in 1 .. Latest PROVE Sound(n)
      <4>1. \A j \in 1 .. n : events'[j] = events[j]
        BY <3>3
      <4>2. charges'[events[n].charge].merchant = charges[events[n].charge].merchant
        BY <3>4, <3>5
      <4>3. /\ charges[events[n].charge].merchant # NoMerchant
            /\ charges[events[n].charge].merchant = events[n].merchant
            /\ events[n].type = "charge.refunded" =>
                 \E j \in 1 .. n - 1 : /\ events[j].type = "charge.succeeded"
                                       /\ events[j].charge = events[n].charge
        BY <3>3 DEF EventsAreOfCharges, Exists
      <4> QED BY <3>3, <4>1, <4>2, <4>3
    <3>10. \A n \in DOMAIN events' : Sound(n)
      <4> HIDE DEF Sound
      <4>1. DOMAIN events' = (1 .. Latest) \cup {Latest + 1}
        BY <3>3
      <4> QED BY <4>1, <3>8, <3>9
    <3> QED BY <3>7, <3>10 DEF EventsAreOfCharges, Exists
  <2>4. CASE UNCHANGED ledger
    BY <2>4 DEF ledger, EventsAreOfCharges, ChargesAreRecorded, Exists
  <2> QED BY <2>2, <2>3, <2>4 DEF LedgerNext
<1> QED BY <1>1, <1>2, LedgerTypeCorrect, PTL DEF LedgerSpec

-----------------------------------------------------------------------------
(* Money that wraps around.                                                   *)

\* Two numbers an int64 cannot tell apart.
Congruent(x, y) == \E k \in Int : x = y + k * (2 * Half)

\* Euclid's division, and that its remainder is the only one.
LEMMA Division ==
  ASSUME NEW a \in Int, NEW m \in Nat \ {0}
  PROVE  /\ a \div m \in Int /\ a % m \in 0 .. m - 1
         /\ a = m * (a \div m) + (a % m)
OBVIOUS

LEMMA OneRemainder ==
  ASSUME NEW m \in Nat \ {0}, NEW p \in Int, NEW q \in Int, NEW r \in 0 .. m - 1, NEW s \in 0 .. m - 1,
         m * p + r = m * q + s
  PROVE r = s
<1>1. m * (p - q) = s - r
  OBVIOUS
<1> DEFINE d == p - q
<1>2. d \in Int OBVIOUS
<1>3. CASE d >= 1
  <2>1. m * d >= m
    BY <1>2, <1>3
  <2> QED BY <1>1, <2>1
<1>4. CASE d <= -1
  <2>1. m * d <= -m
    BY <1>2, <1>4
  <2> QED BY <1>1, <2>1
<1>5. CASE d = 0
  BY <1>1, <1>5
<1> QED BY <1>2, <1>3, <1>4, <1>5

LEMMA SameRemainder ==
  ASSUME NEW a \in Int, NEW k \in Int, NEW m \in Nat \ {0}
  PROVE (a + k * m) % m = a % m
<1> DEFINE b == a + k * m
           q == a \div m
           p == b \div m
<1>1. b \in Int
  OBVIOUS
<1>2. q \in Int /\ a % m \in 0 .. m - 1 /\ a = m * q + (a % m)
  BY Division
<1>3. p \in Int /\ b % m \in 0 .. m - 1 /\ b = m * p + (b % m)
  BY <1>1, Division
<1> DEFINE r == a % m
           s == b % m
<1> HIDE DEF q, p, r, s
<1>4. m * p + s = m * (q + k) + r
  <2>1. b = m * q + r + k * m
   BY <1>2 DEF r
  <2>2. m * (q + k) = m * q + k * m
    BY <1>2
  <2> QED BY <1>2, <1>3, <2>1, <2>2 DEF r, s
<1>5. r \in 0 .. m - 1 /\ s \in 0 .. m - 1 /\ p \in Int /\ q + k \in Int
  BY <1>2, <1>3 DEF r, s
<1>6. s = r
  BY <1>4, <1>5, OneRemainder
<1> QED BY <1>6 DEF r, s

LEMMA CongruentWraps ==
  ASSUME NEW x \in Int, NEW y \in Int, Congruent(x, y)
  PROVE Wrap(x) = Wrap(y)
<1>1. PICK k \in Int : x = y + k * (2 * Half)
  BY DEF Congruent
<1> DEFINE m == 2 * Half
<1>2. m \in Nat \ {0}
  BY LedgerAssumption
<1> HIDE DEF m
<1>3. x + Half = (y + Half) + k * m
  BY <1>1, LedgerAssumption DEF m
<1>4. y + Half \in Int
  BY LedgerAssumption
<1>5. (x + Half) % m = (y + Half) % m
  BY <1>2, <1>3, <1>4, SameRemainder
<1> QED BY <1>5 DEF Wrap, m

LEMMA WrapCongruent ==
  ASSUME NEW n \in Int
  PROVE Congruent(n, Wrap(n)) /\ Wrap(n) \in Int
<1> DEFINE m == 2 * Half
<1>1. m \in Nat \ {0} /\ n + Half \in Int
  BY LedgerAssumption
<1> DEFINE q == (n + Half) \div m
           r == (n + Half) % m
<1>2. q \in Int /\ r \in 0 .. m - 1 /\ n + Half = m * q + r
  BY <1>1, Division
<1>3. Wrap(n) = r - Half
  BY DEF Wrap
<1> HIDE DEF m, q, r
<1>4. n = Wrap(n) + q * m
  BY <1>1, <1>2, <1>3, LedgerAssumption
<1>5. Wrap(n) \in Int
  BY <1>1, <1>2, <1>3, LedgerAssumption
<1> QED BY <1>2, <1>4, <1>5 DEF Congruent, m

LEMMA CongruentAdds ==
  ASSUME NEW x \in Int, NEW y \in Int, NEW u \in Int, NEW v \in Int, Congruent(x, y), Congruent(u, v)
  PROVE Congruent(x + u, y + v)
<1>1. PICK k \in Int : x = y + k * (2 * Half)
  BY DEF Congruent
<1>2. PICK j \in Int : u = v + j * (2 * Half)
  BY DEF Congruent
<1> DEFINE m == 2 * Half
<1>3. m \in Int
  BY LedgerAssumption
<1> HIDE DEF m
<1>4. (k + j) * m = k * m + j * m
  BY <1>3
<1>5. x + u = (y + v) + (k + j) * m
  BY <1>1, <1>2, <1>3, <1>4 DEF m
<1> QED BY <1>5 DEF Congruent, m

LEMMA CongruentMoves ==
    ASSUME NEW x \in Int, NEW y \in Int, NEW z \in Int, Congruent(x + y, z)
    PROVE  Congruent(-y, x - z)
<1>1. PICK k \in Int : x + y = z + k * (2 * Half)
  BY DEF Congruent
<1> DEFINE m == 2 * Half
<1>2. m \in Int
  BY LedgerAssumption
<1> HIDE DEF m
<1>3. (-k) * m = -(k * m) /\ k * m \in Int
  BY <1>2
<1> DEFINE t == k * m
<1>4. x + y = z + t /\ t \in Int /\ (-k) * m = -t
  BY <1>1, <1>3 DEF m
<1> HIDE DEF t
<1>5. -y = (x - z) + (-t)
  BY <1>4
<1>6. -k \in Int
  OBVIOUS
<1>7. -y = (x - z) + (-k) * m
  BY <1>4, <1>5
<1> QED BY <1>6, <1>7 DEF Congruent, m

\* So it is with a number and itself, and with two that a third cannot be told from.
LEMMA CongruentSelf ==
    ASSUME NEW x \in Int
    PROVE  Congruent(x, x)
<1>1. x = x + 0 * (2 * Half)
  BY LedgerAssumption
<1> QED BY <1>1 DEF Congruent

LEMMA CongruentJoins ==
    ASSUME NEW x \in Int, NEW y \in Int, NEW z \in Int, Congruent(x, y), Congruent(x, z)
    PROVE  Congruent(y, z)
<1>1. PICK k \in Int : x = y + k * (2 * Half)
  BY DEF Congruent
<1>2. PICK j \in Int : x = z + j * (2 * Half)
  BY DEF Congruent
<1> DEFINE m == 2 * Half
<1>3. m \in Int
  BY LedgerAssumption
<1> HIDE DEF m
<1>4. k * m \in Int /\ j * m \in Int /\ (j - k) * m = j * m - k * m
  BY <1>3
<1> DEFINE u == k * m
           v == j * m
<1>5. u \in Int /\ v \in Int /\ (j - k) * m = v - u /\ x = y + u /\ x = z + v
  BY <1>1, <1>2, <1>4 DEF m
<1> HIDE DEF u, v
<1>6. y = z + (j - k) * m
  BY <1>5
<1> QED BY <1>6 DEF Congruent, m

\* Sums of numbers that cannot be told apart cannot be told apart.
LEMMA SumsCongruent ==
    ASSUME NEW S, IsFiniteSet(S), NEW g, NEW h,
           \A x \in S : g[x] \in Int /\ h[x] \in Int /\ Congruent(g[x], h[x])
    PROVE  Congruent(SumOver(g, S), SumOver(h, S))
<1> DEFINE T == {A \in SUBSET S : ~ Congruent(SumOver(g, A), SumOver(h, A))}
<1>1. T = {} => Congruent(SumOver(g, S), SumOver(h, S))
  OBVIOUS
<1> SUFFICES ASSUME T # {} PROVE FALSE
  BY <1>1
<1>2. PICK A \in T : \A B \in T : B \subseteq A => B = A
  <2>1. T \in SUBSET (SUBSET S)
    OBVIOUS
  <2> HIDE DEF T
  <2> QED BY <2>1, SmallestSubset
<1>3. A \in SUBSET S /\ ~ Congruent(SumOver(g, A), SumOver(h, A))
  OBVIOUS
<1>4. A # {}
  BY <1>3, SumEmpty, CongruentSelf
<1> DEFINE x == First(A)
           B == A \ {x}
<1>5. x \in S /\ B \in SUBSET S /\ B \subseteq A /\ B # A
  BY <1>3, <1>4, FirstIsMember
<1>6. Congruent(SumOver(g, B), SumOver(h, B))
  BY <1>2, <1>5
<1>7. SumOver(g, A) = g[x] + SumOver(g, B) /\ SumOver(h, A) = h[x] + SumOver(h, B)
  BY <1>3, <1>4, SumOfSubsets
<1> HIDE DEF x, B, T
<1>8. SumOver(g, B) \in Int /\ SumOver(h, B) \in Int
  BY <1>5, SumType
<1>9. Congruent(g[x] + SumOver(g, B), h[x] + SumOver(h, B))
  BY <1>5, <1>6, <1>8, CongruentAdds
<1> QED BY <1>3, <1>7, <1>9

-----------------------------------------------------------------------------
(* What the journal, the charges and the audit record add up to.              *)

LegAmounts == [n \in DOMAIN journal |-> journal[n].amount]
LegsOf(m) == {n \in DOMAIN journal : journal[n].account = m}
LegsIn(tx) == {n \in DOMAIN journal : journal[n].tx = tx}
Nets == [c \in ChargeIds |-> charges[c].amount - charges[c].refunded]
ChargesOf(m) == {c \in ChargeIds : charges[c].merchant = m}
ExistingCharges == {c \in ChargeIds : Exists(c)}

\* Whatever was posted belongs to an event, and finitely many charges exist.
LegsInStep == \A n \in DOMAIN journal : journal[n].tx \in 1 .. Latest
ChargesFinite == IsFiniteSet(ExistingCharges)

\* The books agree up to what the integers of the charges cannot hold.
BooksCongruent ==
    \A m \in Merchants : Congruent(-AmountOf(LegsOf(m)), SumOver(Nets, ChargesOf(m)))

LedgerBooks == LedgerTypeOK /\ LegsInStep /\ ChargesFinite /\ Verify /\ BooksCongruent

\* Two legs more, and what they add to the sums over the legs before.
LEMMA JournalStep ==
    ASSUME LedgerTypeOK, NEW a \in Accounts, NEW b \in Accounts, NEW amount \in Int, Post(a, b, amount)
    PROVE  /\ Len(journal) \in Nat
           /\ DOMAIN journal = 1 .. Len(journal) /\ DOMAIN journal' = 1 .. Len(journal) + 2
           /\ \A n \in 1 .. Len(journal) : journal'[n] = journal[n] /\ journal[n] \in Legs
           /\ journal'[Len(journal) + 1] = Leg(a, amount)
           /\ journal'[Len(journal) + 2] = Leg(b, -amount)
<1> DEFINE x == Leg(a, amount)
           y == Leg(b, -amount)
<1>1. journal \in Seq(Legs) /\ journal' = journal \o <<x, y>>
  BY DEF Post, LedgerTypeOK
<1> HIDE DEF x, y, Legs
<1>2. Len(<<x, y>>) = 2 /\ <<x, y>>[1] = x /\ <<x, y>>[2] = y
  OBVIOUS
<1>3. Len(journal) \in Nat /\ DOMAIN journal = 1 .. Len(journal)
      /\ \A n \in 1 .. Len(journal) : journal[n] \in Legs
  BY <1>1
<1>4. <<x, y>> \in Seq({x, y}) /\ journal \in Seq(Legs \cup {x, y}) /\ <<x, y>> \in Seq(Legs \cup {x, y})
  BY <1>1
<1>5. /\ DOMAIN journal' = 1 .. Len(journal) + 2
      /\ \A n \in 1 .. Len(journal) : journal'[n] = journal[n]
      /\ journal'[Len(journal) + 1] = x /\ journal'[Len(journal) + 2] = y
  BY <1>1, <1>2, <1>3, <1>4
<1> QED BY <1>3, <1>5 DEF x, y

LEMMA PostSums ==
    ASSUME LedgerTypeOK, NEW a \in Accounts, NEW b \in Accounts, NEW amount \in Int, Post(a, b, amount),
           NEW S \in SUBSET (1 .. Len(journal))
    PROVE  LET N == Len(journal)
           IN /\ SumOver(LegAmounts, S) \in Int
              /\ SumOver(LegAmounts', S) = SumOver(LegAmounts, S)
              /\ SumOver(LegAmounts', S \cup {N + 1}) = SumOver(LegAmounts, S) + amount
              /\ SumOver(LegAmounts', S \cup {N + 2}) = SumOver(LegAmounts, S) - amount
              /\ SumOver(LegAmounts', S \cup {N + 1, N + 2}) = SumOver(LegAmounts, S)
<1> DEFINE N == Len(journal)
           g == LegAmounts
           h == LegAmounts'
<1>1. /\ N \in Nat /\ DOMAIN journal = 1 .. N /\ DOMAIN journal' = 1 .. N + 2
      /\ \A n \in 1 .. N : journal'[n] = journal[n] /\ journal[n] \in Legs
      /\ journal'[N + 1] = Leg(a, amount) /\ journal'[N + 2] = Leg(b, -amount)
  BY JournalStep
<1>2. /\ \A n \in 1 .. N : g[n] \in Int /\ h[n] = g[n]
      /\ h[N + 1] = amount /\ h[N + 2] = -amount
  BY <1>1 DEF LegAmounts, Leg, Legs
<1>3. IsFiniteSet(S)
  <2>1. 1 \in Int /\ N \in Int /\ S \subseteq 1 .. N
    BY <1>1
  <2> HIDE DEF N
  <2>2. IsFiniteSet(1 .. N)
    BY <2>1, FS_Interval
  <2> QED BY <2>1, <2>2, FS_Subset
<1> HIDE DEF N, g, h
<1>4. \A y \in S : g[y] \in Int /\ h[y] = g[y] /\ y # N + 1 /\ y # N + 2
  BY <1>1, <1>2 DEF N
<1>5. N + 1 \notin S /\ N + 2 \notin S /\ N + 1 # N + 2 /\ h[N + 1] \in Int /\ h[N + 2] \in Int
  BY <1>1, <1>2, <1>4
<1>6. /\ SumOver(g, S) \in Int
      /\ SumOver(h, S) = SumOver(g, S)
      /\ SumOver(h, S \cup {N + 1}) = SumOver(g, S) + h[N + 1]
      /\ SumOver(h, S \cup {N + 2}) = SumOver(g, S) + h[N + 2]
      /\ SumOver(h, S \cup {N + 1, N + 2}) = SumOver(g, S) + h[N + 1] + h[N + 2]
  <2> DEFINE x == N + 1
             y == N + 2
  <2>1. TwoMore(S, g, h, x, y)
    BY <1>3, <1>4, <1>5 DEF TwoMore
  <2> HIDE DEF x, y
  <2>2. SumOver(g, S) \in Int
    BY <2>1, SumAddsTwo
  <2>3. SumOver(h, S) = SumOver(g, S)
    BY <2>1, SumAddsTwo
  <2>4. SumOver(h, With(S, x)) = SumOver(g, S) + h[x]
    BY <2>1, SumAddsTwo
  <2>5. SumOver(h, With(S, y)) = SumOver(g, S) + h[y]
    BY <2>1, SumAddsTwo
  <2>6. SumOver(h, With(With(S, x), y)) = SumOver(g, S) + h[x] + h[y]
    BY <2>1, SumAddsTwo
  <2>8. With(S, x) = S \cup {N + 1} /\ With(S, y) = S \cup {N + 2} /\ With(With(S, x), y) = S \cup {N + 1, N + 2}
    BY DEF x, y, With
  <2> QED BY <2>2, <2>3, <2>4, <2>5, <2>6, <2>8 DEF x, y
<1>7. /\ SumOver(g, S) + h[N + 1] = SumOver(g, S) + amount
      /\ SumOver(g, S) + h[N + 2] = SumOver(g, S) - amount
      /\ SumOver(g, S) + h[N + 1] + h[N + 2] = SumOver(g, S)
  BY <1>2, <1>6
<1> QED BY <1>6, <1>7 DEF N, g, h

\* A balanced transaction keeps the journal balanced.
LEMMA VerifyStep ==
    ASSUME LedgerTypeOK, LegsInStep, Verify, NEW a \in Accounts, NEW b \in Accounts, NEW amount \in Int,
           Post(a, b, amount), Latest \in Nat, Latest' = Latest + 1
    PROVE  Verify' /\ LegsInStep'
<1> DEFINE N == Len(journal)
<1>1. /\ N \in Nat /\ DOMAIN journal = 1 .. N /\ DOMAIN journal' = 1 .. N + 2
      /\ \A n \in 1 .. N : journal'[n] = journal[n]
      /\ journal'[N + 1].tx = Latest + 1 /\ journal'[N + 2].tx = Latest + 1
  <2>1. /\ N \in Nat /\ DOMAIN journal = 1 .. N /\ DOMAIN journal' = 1 .. N + 2
        /\ \A n \in 1 .. N : journal'[n] = journal[n]
        /\ journal'[N + 1] = Leg(a, amount) /\ journal'[N + 2] = Leg(b, -amount)
    BY JournalStep
  <2> QED BY <2>1 DEF Leg
<1>2. \A n \in 1 .. N : journal[n].tx \in 1 .. Latest
  BY <1>1 DEF LegsInStep
<1>3. LegsInStep'
  BY <1>1, <1>2 DEF LegsInStep
<1>4. SumOver(LegAmounts, 1 .. N) = 0 /\ \A tx \in 1 .. Latest : SumOver(LegAmounts, LegsIn(tx)) = 0
  BY <1>1 DEF Verify, AmountOf, LegAmounts, LegsIn
<1>5. SumOver(LegAmounts', DOMAIN journal') = 0
  <2>1. DOMAIN journal' = (1 .. N) \cup {N + 1, N + 2}
    BY <1>1
  <2>2. SumOver(LegAmounts', (1 .. N) \cup {N + 1, N + 2}) = SumOver(LegAmounts, 1 .. N)
    BY PostSums
  <2> QED BY <1>4, <2>1, <2>2
<1>6. \A tx \in 1 .. Latest + 1 : SumOver(LegAmounts', LegsIn(tx)') = 0
  <2> TAKE tx \in 1 .. Latest + 1
  <2>1. CASE tx = Latest + 1
    <3>1. LegsIn(tx)' = {} \cup {N + 1, N + 2}
      BY <1>1, <1>2, <2>1 DEF LegsIn
    <3>2. {} \in SUBSET (1 .. Len(journal))
      OBVIOUS
    <3>3. SumOver(LegAmounts', {} \cup {N + 1, N + 2}) = SumOver(LegAmounts, {})
      BY <3>2, PostSums
    <3> QED BY <3>1, <3>3, SumEmpty
  <2>2. CASE tx # Latest + 1
    <3>1. LegsIn(tx)' = LegsIn(tx) /\ tx \in 1 .. Latest /\ LegsIn(tx) \in SUBSET (1 .. Len(journal))
      BY <1>1, <2>2 DEF LegsIn
    <3>2. SumOver(LegAmounts', LegsIn(tx)) = SumOver(LegAmounts, LegsIn(tx))
      BY <3>1, PostSums
    <3> QED BY <1>4, <3>1, <3>2
  <2> QED BY <2>1, <2>2
<1>7. Verify'
  BY <1>5, <1>6 DEF Verify, AmountOf, LegAmounts, LegsIn
<1> QED BY <1>3, <1>7


\* What a merchant is owed, by the journal and by the charges.
Booked(m) == SumOver(LegAmounts, LegsOf(m))
Owed(m) == SumOver(Nets, ChargesOf(m))

LEMMA LatestStep ==
    ASSUME LedgerTypeOK, NEW type, NEW c, NEW m, NEW amount, Record(type, c, m, amount)
    PROVE  Latest \in Nat /\ Latest' = Latest + 1
<1> DEFINE e == [type |-> type, charge |-> c, merchant |-> m, amount |-> amount]
<1> HIDE DEF e
<1>1. events \in Seq(EventRecords) /\ events' = Append(events, e)
  BY DEF LedgerTypeOK, Record, e
<1>2. events \in Seq(EventRecords \cup {e})
  BY <1>1
<1> QED BY <1>1, <1>2 DEF Latest

LEMMA BookedStep ==
    ASSUME LedgerTypeOK, NEW a \in Accounts, NEW b \in Accounts, a # b, NEW amount \in Int,
           Post(a, b, amount), NEW m \in Merchants
    PROVE  /\ Booked(m) \in Int
           /\ Booked(m)' = IF m = a THEN Booked(m) + amount
                           ELSE IF m = b THEN Booked(m) - amount ELSE Booked(m)
<1> DEFINE N == Len(journal)
<1>1. /\ N \in Nat /\ DOMAIN journal = 1 .. N /\ DOMAIN journal' = 1 .. N + 2
      /\ \A n \in 1 .. N : journal'[n] = journal[n]
      /\ journal'[N + 1].account = a /\ journal'[N + 2].account = b
  <2>1. /\ N \in Nat /\ DOMAIN journal = 1 .. N /\ DOMAIN journal' = 1 .. N + 2
        /\ \A n \in 1 .. N : journal'[n] = journal[n]
        /\ journal'[N + 1] = Leg(a, amount) /\ journal'[N + 2] = Leg(b, -amount)
    BY JournalStep
  <2> QED BY <2>1 DEF Leg
<1>2. LegsOf(m) \in SUBSET (1 .. Len(journal))
  BY <1>1 DEF LegsOf
<1>3. /\ Booked(m) \in Int
      /\ SumOver(LegAmounts', LegsOf(m)) = Booked(m)
      /\ SumOver(LegAmounts', LegsOf(m) \cup {N + 1}) = Booked(m) + amount
      /\ SumOver(LegAmounts', LegsOf(m) \cup {N + 2}) = Booked(m) - amount
  BY <1>2, PostSums DEF Booked
<1>4. CASE m = a
  <2>1. LegsOf(m)' = LegsOf(m) \cup {N + 1}
    BY <1>1, <1>4 DEF LegsOf
  <2> QED BY <1>3, <1>4, <2>1 DEF Booked
<1>5. CASE m = b
  <2>1. LegsOf(m)' = LegsOf(m) \cup {N + 2}
    BY <1>1, <1>5 DEF LegsOf
  <2> QED BY <1>3, <1>5, <2>1 DEF Booked
<1>6. CASE m # a /\ m # b
  <2>1. LegsOf(m)' = LegsOf(m)
    BY <1>1, <1>6 DEF LegsOf
  <2> QED BY <1>3, <1>6, <2>1 DEF Booked
<1> QED BY <1>4, <1>5, <1>6

LEMMA BookedType ==
    ASSUME LedgerTypeOK, NEW m \in Merchants
    PROVE  Booked(m) \in Int
<1>1. Len(journal) \in Nat /\ DOMAIN journal = 1 .. Len(journal) /\ \A n \in DOMAIN journal : journal[n] \in Legs
  BY DEF LedgerTypeOK
<1>2. 1 \in Int /\ Len(journal) \in Int
  BY <1>1
<1>3. IsFiniteSet(DOMAIN journal)
  BY <1>1, <1>2, FS_Interval
<1>4. \A n \in DOMAIN journal : LegAmounts[n] \in Int
  BY <1>1 DEF LegAmounts, Legs
<1>5. LegsOf(m) \in SUBSET (DOMAIN journal)
  BY DEF LegsOf
<1> QED BY <1>3, <1>4, <1>5, SumType DEF Booked

LEMMA NetsOfMerchant ==
    ASSUME LedgerTypeOK, ChargesFinite, NEW m \in Merchants
    PROVE  /\ IsFiniteSet(ChargesOf(m)) /\ ChargesOf(m) \subseteq ChargeIds
           /\ \A d \in ChargeIds : Nets[d] = charges[d].amount - charges[d].refunded /\ Nets[d] \in Int
<1>1. ChargesOf(m) \subseteq ExistingCharges
  BY LedgerAssumption DEF ChargesOf, ExistingCharges, Exists
<1>2. IsFiniteSet(ChargesOf(m))
  BY <1>1, FS_Subset DEF ChargesFinite
<1>3. \A d \in ChargeIds : charges[d].amount \in Int /\ charges[d].refunded \in Int
  BY ChargeFields
<1> QED BY <1>2, <1>3 DEF Nets, ChargesOf

LEMMA OwedCharge ==
    ASSUME LedgerTypeOK, ChargesFinite, NEW c \in ChargeIds, NEW m \in Merchants \cup {NoMerchant},
           NEW amount \in Amounts, CreateCharge(c, m, amount)
    PROVE  /\ ChargesFinite'
           /\ \A j \in Merchants : /\ Owed(j) \in Int
                                   /\ Owed(j)' = IF j = m THEN Owed(j) + amount ELSE Owed(j)
<1>1. /\ LedgerTypeOK' /\ m \in Merchants /\ amount \in Int /\ ~Exists(c)
      /\ charges'[c] = [merchant |-> m, amount |-> amount, refunded |-> 0]
      /\ \A d \in ChargeIds \ {c} : charges'[d] = charges[d]
  <2>1. amount \in 1 .. ChargeCap
    BY ChargeStep
  <2>2. amount \in Int
    BY <2>1, LedgerAssumption
  <2> QED BY <2>2, ChargeStep
<1>2. /\ charges'[c].merchant = m /\ charges'[c].amount = amount /\ charges'[c].refunded = 0
      /\ charges[c].merchant = NoMerchant
  BY <1>1 DEF Exists
<1>3. ExistingCharges' = ExistingCharges \cup {c}
  BY <1>1, <1>2, LedgerAssumption DEF ExistingCharges, Exists
<1>4. ChargesFinite'
  BY <1>3, FS_AddElement DEF ChargesFinite
<1>5. Nets'[c] = amount /\ \A d \in ChargeIds \ {c} : Nets'[d] = Nets[d]
  BY <1>1, <1>2 DEF Nets
<1>6. ASSUME NEW j \in Merchants
      PROVE  Owed(j) \in Int /\ Owed(j)' = IF j = m THEN Owed(j) + amount ELSE Owed(j)
  <2>1. c \notin ChargesOf(j)
    BY <1>2, LedgerAssumption DEF ChargesOf
  <2>2. OneMore(ChargesOf(j), Nets, Nets', c)
    BY <1>1, <1>5, <2>1, NetsOfMerchant DEF OneMore
  <2>3. Owed(j) \in Int
    BY <2>2, SumAddsOne DEF Owed
  <2>4. SumOver(Nets', ChargesOf(j)) = Owed(j)
    BY <2>2, SumAddsOne DEF Owed
  <2>5. SumOver(Nets', With(ChargesOf(j), c)) = Owed(j) + Nets'[c]
    BY <2>2, SumAddsOne DEF Owed
  <2>6. CASE j = m
    <3>1. ChargesOf(j)' = With(ChargesOf(j), c)
      BY <1>1, <1>2, <2>6 DEF ChargesOf, With
    <3>2. Owed(j)' = SumOver(Nets', With(ChargesOf(j), c))
      BY <3>1 DEF Owed
    <3>3. Owed(j)' = Owed(j) + amount
      BY <1>5, <2>5, <3>2
    <3> QED BY <2>3, <2>6, <3>3
  <2>7. CASE j # m
    <3>1. ChargesOf(j)' = ChargesOf(j)
      BY <1>1, <1>2, <2>1, <2>7 DEF ChargesOf
    <3> QED BY <2>3, <2>4, <2>7, <3>1 DEF Owed
  <2> QED BY <2>6, <2>7
<1> QED BY <1>4, <1>6

LEMMA OwedRefund ==
    ASSUME LedgerTypeOK, ChargesFinite, NEW c \in ChargeIds, NEW amount \in Amounts, Refund(c, amount)
    PROVE  /\ ChargesFinite'
           /\ \A j \in Merchants :
                /\ Owed(j) \in Int
                /\ Owed(j)' = IF j = charges[c].merchant
                                THEN Owed(j) + (charges[c].refunded - Wrap(charges[c].refunded + amount))
                                ELSE Owed(j)
<1> DEFINE m == charges[c].merchant
           less == Wrap(charges[c].refunded + amount)
<1>1. /\ LedgerTypeOK'
      /\ charges'[c] = [merchant |-> m, amount |-> charges[c].amount, refunded |-> less]
      /\ \A d \in ChargeIds \ {c} : charges'[d] = charges[d]
  BY RefundStep
<1>2. charges'[c].merchant = m /\ charges'[c].amount = charges[c].amount /\ charges'[c].refunded = less
  BY <1>1
<1>3. charges[c].refunded \in Int /\ charges[c].amount \in Int /\ less \in Int
  <2>1. amount \in Int
    BY LedgerAssumption
  <2>2. charges[c].refunded \in Int /\ charges[c].amount \in Int
    BY ChargeFields
  <2> QED BY <2>1, <2>2, WrapCongruent
<1> HIDE DEF less
<1>4. \A d \in ChargeIds : charges'[d].merchant = charges[d].merchant
  BY <1>1, <1>2
<1>5. ChargesFinite'
  BY <1>4 DEF ChargesFinite, ExistingCharges, Exists
<1>6. /\ Nets'[c] = charges[c].amount - less /\ Nets[c] = charges[c].amount - charges[c].refunded
      /\ \A d \in ChargeIds \ {c} : Nets'[d] = Nets[d]
  BY <1>1, <1>2 DEF Nets
<1>7. ASSUME NEW j \in Merchants
      PROVE  Owed(j) \in Int /\ Owed(j)' = IF j = m THEN Owed(j) + (charges[c].refunded - less) ELSE Owed(j)
  <2>1. ChargesOf(j)' = ChargesOf(j)
    BY <1>4 DEF ChargesOf
  <2>2. Owed(j)' = SumOver(Nets', ChargesOf(j))
    BY <2>1 DEF Owed
  <2>3. CASE j = m
    <3>1. OneChanged(ChargesOf(j), Nets, Nets', c)
      <4>1. c \in ChargesOf(j) /\ Nets'[c] \in Int
        BY <1>3, <1>6, <2>3 DEF ChargesOf
      <4> QED BY <1>6, <4>1, NetsOfMerchant DEF OneChanged
    <3>2. Owed(j) \in Int
      BY <3>1, SumOneChanged DEF Owed
    <3>3. SumOver(Nets', ChargesOf(j)) = SumOver(Nets, ChargesOf(j)) - Nets[c] + Nets'[c]
      BY <3>1, SumOneChanged
    <3>4. Owed(j)' = Owed(j) - Nets[c] + Nets'[c]
      BY <2>2, <3>3 DEF Owed
    <3>5. Owed(j)' = Owed(j) + (charges[c].refunded - less)
      BY <1>3, <1>6, <3>2, <3>4
    <3> QED BY <2>3, <3>2, <3>5
  <2>4. CASE j # m
    <3>1. IsFiniteSet(ChargesOf(j)) /\ \A d \in ChargesOf(j) : Nets[d] \in Int /\ Nets[d] = Nets'[d]
      BY <1>6, <2>4, NetsOfMerchant DEF ChargesOf
    <3>2. Owed(j) \in Int
      BY <3>1, SumType DEF Owed
    <3>3. Owed(j) = SumOver(Nets', ChargesOf(j))
      BY <3>1, SumSame DEF Owed
    <3> QED BY <2>2, <2>4, <3>2, <3>3
  <2> QED BY <2>3, <2>4
<1> QED BY <1>5, <1>7 DEF less

LEMMA LedgerBooksStep == LedgerBooks /\ [LedgerNext]_ledger => LedgerBooks'
<1> SUFFICES ASSUME LedgerBooks, [LedgerNext]_ledger PROVE LedgerBooks'
  OBVIOUS
<1> USE DEF LedgerBooks
<1>1. \A m \in Merchants : Congruent(-Booked(m), Owed(m))
  BY DEF BooksCongruent, AmountOf, LegAmounts, Booked, Owed
<1>2. (\A m \in Merchants : Congruent(-Booked(m), Owed(m)))' => BooksCongruent'
  BY DEF BooksCongruent, AmountOf, LegAmounts, Booked, Owed, Congruent
<1>3. ASSUME NEW c \in ChargeIds, NEW amount \in Amounts, NEW m \in Merchants \cup {NoMerchant},
             CreateCharge(c, m, amount)
      PROVE  LedgerBooks'
  <2>1. /\ LedgerTypeOK' /\ m \in Merchants /\ amount \in Int
        /\ Post(CustomerFunds, m, amount)
        /\ CustomerFunds \in Accounts /\ m \in Accounts /\ CustomerFunds # m
    <3>1. LedgerTypeOK' /\ m \in Merchants /\ amount \in 1 .. ChargeCap
      BY <1>3, ChargeStep
    <3>2. Post(CustomerFunds, m, amount)
      BY <1>3 DEF CreateCharge
    <3> QED BY <3>1, <3>2, LedgerAssumption DEF Accounts
  <2>2. Latest \in Nat /\ Latest' = Latest + 1
    <3>1. Record("charge.succeeded", c, m, amount)
      BY <1>3 DEF CreateCharge
    <3> QED BY <3>1, LatestStep
  <2>3. Verify' /\ LegsInStep'
    BY <2>1, <2>2, VerifyStep
  <2>4. ChargesFinite'
    BY <1>3, OwedCharge
  <2>5. \A j \in Merchants : Congruent((-Booked(j))', Owed(j)')
    <3> TAKE j \in Merchants
    <3>1. Owed(j) \in Int /\ Owed(j)' = IF j = m THEN Owed(j) + amount ELSE Owed(j)
      BY <1>3, OwedCharge
    <3>2. Booked(j) \in Int /\ Booked(j)' = IF j = m THEN Booked(j) - amount ELSE Booked(j)
      BY <2>1, BookedStep, LedgerAssumption
    <3>3. Congruent(-Booked(j), Owed(j))
      BY <1>1
    <3>4. CASE j = m
      <4>1. amount = amount + 0 * (2 * Half)
        BY <2>1, LedgerAssumption
      <4>2. Congruent(amount, amount)
        BY <4>1 DEF Congruent
      <4>3. Congruent((-Booked(j)) + amount, Owed(j) + amount)
        BY <2>1, <3>1, <3>2, <3>3, <4>2, CongruentAdds
      <4>4. -(Booked(j)') = (-Booked(j)) + amount /\ Owed(j)' = Owed(j) + amount
        BY <2>1, <3>1, <3>2, <3>4
      <4> QED BY <4>3, <4>4
    <3>5. CASE j # m
      BY <3>1, <3>2, <3>3, <3>5
    <3> QED BY <3>4, <3>5
  <2> QED BY <1>2, <2>1, <2>3, <2>4, <2>5 DEF Congruent
<1>4. ASSUME NEW c \in ChargeIds, NEW amount \in Amounts, Refund(c, amount)
      PROVE  LedgerBooks'
  <2> DEFINE m == charges[c].merchant
             was == charges[c].refunded
             is == Wrap(charges[c].refunded + amount)
  <2>1. /\ LedgerTypeOK' /\ m \in Merchants /\ amount \in Int
        /\ Post(m, CustomerFunds, amount)
        /\ CustomerFunds \in Accounts /\ m \in Accounts /\ CustomerFunds # m
    <3>1. LedgerTypeOK' /\ amount \in Int /\ Exists(c)
      <4>1. LedgerTypeOK' /\ amount \in Nat \ {0} /\ Exists(c)
        BY <1>4, RefundStep
      <4> QED BY <4>1
    <3>2. Post(m, CustomerFunds, amount)
      BY <1>4 DEF Refund
    <3>3. m \in Merchants
      BY <3>1, ChargeFields DEF Exists
    <3> QED BY <3>1, <3>2, <3>3, LedgerAssumption DEF Accounts
  <2>2. Latest \in Nat /\ Latest' = Latest + 1
    <3>1. Record("charge.refunded", c, m, amount)
      BY <1>4 DEF Refund
    <3> QED BY <3>1, LatestStep
  <2>3. Verify' /\ LegsInStep'
    BY <2>1, <2>2, VerifyStep
  <2>4. ChargesFinite'
    BY <1>4, OwedRefund
  <2>5. was \in Int /\ is \in Int /\ Congruent(was + amount, is)
    BY <2>1, ChargeFields, WrapCongruent
  <2>6. \A j \in Merchants :
           Owed(j) \in Int /\ Owed(j)' = IF j = m THEN Owed(j) + (was - is) ELSE Owed(j)
    BY <1>4, OwedRefund
  <2> HIDE DEF m, was, is
  <2>7. Congruent(-amount, was - is)
    BY <2>1, <2>5, CongruentMoves
  <2>8. \A j \in Merchants : Congruent((-Booked(j))', Owed(j)')
    <3> TAKE j \in Merchants
    <3>1. Owed(j) \in Int /\ Owed(j)' = IF j = m THEN Owed(j) + (was - is) ELSE Owed(j)
      BY <2>6
    <3>2. Booked(j) \in Int /\ Booked(j)' = IF j = m THEN Booked(j) + amount ELSE Booked(j)
      BY <2>1, BookedStep, LedgerAssumption
    <3>3. Congruent(-Booked(j), Owed(j))
      BY <1>1
    <3>4. CASE j = m
      <4>1. -Booked(j) \in Int /\ -amount \in Int /\ was - is \in Int
        BY <2>1, <2>5, <3>2
      <4>2. Congruent((-Booked(j)) + (-amount), Owed(j) + (was - is))
        BY <2>7, <3>1, <3>3, <4>1, CongruentAdds
      <4>3. -(Booked(j)') = (-Booked(j)) + (-amount) /\ Owed(j)' = Owed(j) + (was - is)
        BY <2>1, <3>1, <3>2, <3>4
      <4> QED BY <4>2, <4>3
    <3>5. CASE j # m
      BY <3>1, <3>2, <3>3, <3>5
    <3> QED BY <3>4, <3>5
  <2> QED BY <1>2, <2>1, <2>3, <2>4, <2>8 DEF Congruent
<1>5. CASE UNCHANGED ledger
  BY <1>5 DEF ledger, LedgerTypeOK, LegsInStep, Latest, ChargesFinite, ExistingCharges, Exists, Verify,
              AmountOf, BooksCongruent, LegsOf, Nets, ChargesOf, Congruent
<1> QED BY <1>3, <1>4, <1>5 DEF LedgerNext

LEMMA LedgerBooksStart == LedgerInit => LedgerBooks
<1> SUFFICES ASSUME LedgerInit PROVE LedgerBooks
  OBVIOUS
<1>1. LedgerTypeOK
  BY LedgerAssumption DEF LedgerInit, LedgerTypeOK, NoCharge, ChargeRecords, Int64
<1>2. DOMAIN journal = {} /\ 1 .. Latest = {}
  BY DEF LedgerInit, Latest
<1>3. ExistingCharges = {} /\ \A m \in Merchants : ChargesOf(m) = {} /\ LegsOf(m) = {}
  BY <1>2, LedgerAssumption DEF LedgerInit, ExistingCharges, Exists, ChargesOf, LegsOf, NoCharge
<1>4. ChargesFinite
  BY <1>3, FS_EmptySet DEF ChargesFinite
<1>5. Verify
  BY <1>2, SumEmpty DEF Verify, AmountOf
<1>6. -0 = 0 + 0 * (2 * Half)
  BY LedgerAssumption
<1>7. BooksCongruent
  BY <1>3, <1>6, SumEmpty DEF BooksCongruent, AmountOf, Congruent
<1> QED BY <1>1, <1>2, <1>4, <1>5, <1>7 DEF LedgerBooks, LegsInStep

\* The journal balances in total and in each transaction, and for every merchant
\* it and the charges hold the same money, as int64 sums do, even where they
\* overflow.
THEOREM BooksAlwaysAgree == LedgerSpec => []BooksAgree
<1>1. LedgerBooks => BooksAgree
  <2> SUFFICES ASSUME LedgerBooks, NEW m \in Merchants
               PROVE  Wrap(-Booked(m)) = Wrap(Owed(m))
    <3>1. LedgerBooks => Verify
      BY DEF LedgerBooks
    <3>2. \A m \in Merchants : /\ Balance(m) = Wrap(-Booked(m))
                               /\ Owed(m) = SumOver([c \in ChargeIds |-> charges[c].amount - charges[c].refunded],
                                                    {c \in ChargeIds : charges[c].merchant = m})
      BY DEF Balance, AmountOf, LegAmounts, LegsOf, Booked, Owed, Nets, ChargesOf
    <3> QED BY <3>1, <3>2 DEF BooksAgree
  <2>1. Congruent(-Booked(m), Owed(m))
    BY DEF LedgerBooks, BooksCongruent, AmountOf, LegAmounts, Booked, Owed
  <2>2. Owed(m) \in Int
    BY NetsOfMerchant, SumType DEF LedgerBooks, Owed
  <2>3. Booked(m) \in Int
    BY BookedType DEF LedgerBooks
  <2> QED BY <2>1, <2>2, <2>3, CongruentWraps DEF LedgerBooks
<1> QED BY <1>1, LedgerBooksStart, LedgerBooksStep, PTL DEF LedgerSpec


-----------------------------------------------------------------------------
(* What was refunded, by the charge and by the audit record.                  *)

AmountsOfEvents == [n \in DOMAIN events |-> events[n].amount]
RefundsRecorded ==
    \A c \in ChargeIds : charges[c].refunded = SumOver(AmountsOfEvents, RefundsOf(c))

LEMMA HistoryStep ==
    ASSUME LedgerTypeOK, NEW e \in EventRecords, events' = Append(events, e), NEW c \in ChargeIds
    PROVE  /\ RefundsOf(c)' = IF e.type = "charge.refunded" /\ e.charge = c
                                THEN With(RefundsOf(c), Latest + 1) ELSE RefundsOf(c)
           /\ OneMore(RefundsOf(c), AmountsOfEvents, AmountsOfEvents', Latest + 1)
           /\ AmountsOfEvents'[Latest + 1] = e.amount
<1> HIDE DEF EventRecords
<1>1. /\ Latest \in Nat /\ DOMAIN events = 1 .. Latest /\ DOMAIN events' = 1 .. Latest + 1
      /\ \A n \in 1 .. Latest : events'[n] = events[n] /\ events[n] \in EventRecords
      /\ events'[Latest + 1] = e
  BY DEF LedgerTypeOK, Latest
<1>2. \A x \in EventRecords : x.amount \in Int
  <2>1. \A n \in Amounts : n \in Int
    BY LedgerAssumption
  <2>2. \A x \in EventRecords : x.amount \in Amounts
    BY DEF EventRecords
  <2> QED BY <2>1, <2>2
<1>3. /\ \A n \in 1 .. Latest : AmountsOfEvents[n] \in Int /\ AmountsOfEvents'[n] = AmountsOfEvents[n]
      /\ AmountsOfEvents'[Latest + 1] = e.amount /\ e.amount \in Int
  <2>1. \A n \in 1 .. Latest : AmountsOfEvents[n] = events[n].amount /\ AmountsOfEvents[n] \in Int
    BY <1>1, <1>2 DEF AmountsOfEvents
  <2>2. \A n \in 1 .. Latest + 1 : AmountsOfEvents'[n] = events'[n].amount
    BY <1>1 DEF AmountsOfEvents
  <2>3. Latest + 1 \in 1 .. Latest + 1 /\ \A n \in 1 .. Latest : n \in 1 .. Latest + 1
    BY <1>1
  <2>4. AmountsOfEvents'[Latest + 1] = e.amount /\ e.amount \in Int
    BY <1>1, <1>2, <2>2, <2>3
  <2>5. \A n \in 1 .. Latest : AmountsOfEvents'[n] = AmountsOfEvents[n]
    BY <1>1, <2>1, <2>2, <2>3
  <2> QED BY <2>1, <2>4, <2>5
<1>4. RefundsOf(c) \subseteq 1 .. Latest
  BY <1>1 DEF RefundsOf
<1>5. IsFiniteSet(RefundsOf(c))
  <2>1. 1 \in Int /\ Latest \in Int
    BY <1>1
  <2>2. IsFiniteSet(1 .. Latest)
    BY <2>1, FS_Interval
  <2> QED BY <1>4, <2>2, FS_Subset
<1>6. Latest + 1 \notin RefundsOf(c)
  BY <1>1, <1>4
<1>7. OneMore(RefundsOf(c), AmountsOfEvents, AmountsOfEvents', Latest + 1)
  BY <1>3, <1>4, <1>5, <1>6 DEF OneMore
<1>8. RefundsOf(c)' = IF e.type = "charge.refunded" /\ e.charge = c
                        THEN With(RefundsOf(c), Latest + 1) ELSE RefundsOf(c)
  <2>1. DOMAIN events' = (1 .. Latest) \cup {Latest + 1}
    BY <1>1
  <2>2. CASE e.type = "charge.refunded" /\ e.charge = c
    BY <1>1, <2>1, <2>2 DEF RefundsOf, With
  <2>3. CASE ~(e.type = "charge.refunded" /\ e.charge = c)
    BY <1>1, <2>1, <2>3 DEF RefundsOf
  <2> QED BY <2>2, <2>3
<1> QED BY <1>3, <1>7, <1>8

\* As long as no sum overflows, the refunds the audit record shows of a charge
\* are what the charge says was refunded, and never exceed it, whatever refunds
\* raced for what was left.
THEOREM RefundsNeverExceed ==
    ASSUME SumsFit
    PROVE  LedgerSpec => []RefundsBounded
<1>1. LedgerInit => RefundsRecorded
  <2> SUFFICES ASSUME LedgerInit, NEW c \in ChargeIds
               PROVE  charges[c].refunded = SumOver(AmountsOfEvents, RefundsOf(c))
    BY DEF RefundsRecorded
  <2>1. charges[c].refunded = 0 /\ RefundsOf(c) = {}
    BY DEF LedgerInit, NoCharge, RefundsOf
  <2> QED BY <2>1, SumEmpty
<1>2. LedgerTypeOK /\ RefundedInRange /\ EventsAreOfCharges /\ RefundsRecorded /\ [LedgerNext]_ledger
        => RefundsRecorded'
  <2> SUFFICES ASSUME LedgerTypeOK, RefundedInRange, EventsAreOfCharges, RefundsRecorded, [LedgerNext]_ledger
               PROVE  RefundsRecorded'
    OBVIOUS
  <2>1. ASSUME NEW c \in ChargeIds, NEW amount \in Amounts, NEW m \in Merchants \cup {NoMerchant},
               CreateCharge(c, m, amount)
        PROVE  RefundsRecorded'
    <3> DEFINE e == [type |-> "charge.succeeded", charge |-> c, merchant |-> m, amount |-> amount]
    <3>1. /\ m \in Merchants /\ ~Exists(c) /\ events' = Append(events, e)
          /\ charges'[c] = [merchant |-> m, amount |-> amount, refunded |-> 0]
          /\ \A d \in ChargeIds \ {c} : charges'[d] = charges[d]
      BY <2>1, ChargeStep
    <3>2. e \in EventRecords /\ e.type = "charge.succeeded"
      BY <3>1 DEF EventRecords, EventTypes
    <3>3. charges'[c].refunded = 0 /\ RefundsOf(c) = {}
      BY <3>1 DEF RefundsOf, EventsAreOfCharges
    <3> HIDE DEF e
    <3>4. ASSUME NEW d \in ChargeIds
          PROVE  charges'[d].refunded = SumOver(AmountsOfEvents', RefundsOf(d)')
      <4>1. OneMore(RefundsOf(d), AmountsOfEvents, AmountsOfEvents', Latest + 1)
        BY <3>1, <3>2, HistoryStep
      <4>2. RefundsOf(d)' = RefundsOf(d)
        BY <3>1, <3>2, HistoryStep
      <4>3. SumOver(AmountsOfEvents', RefundsOf(d)) = SumOver(AmountsOfEvents, RefundsOf(d))
        BY <4>1, SumAddsOne
      <4>4. CASE d = c
        BY <3>3, <4>2, <4>4, SumEmpty
      <4>5. CASE d # c
        BY <3>1, <4>2, <4>3, <4>5 DEF RefundsRecorded
      <4> QED BY <4>4, <4>5
    <3> QED BY <3>4 DEF RefundsRecorded
  <2>2. ASSUME NEW c \in ChargeIds, NEW amount \in Amounts, Refund(c, amount)
        PROVE  RefundsRecorded'
    <3> DEFINE e == [type |-> "charge.refunded", charge |-> c,
                     merchant |-> charges[c].merchant, amount |-> amount]
    <3>1. /\ amount \in Nat \ {0} /\ Exists(c) /\ events' = Append(events, e)
          /\ charges'[c] = [merchant |-> charges[c].merchant, amount |-> charges[c].amount,
                            refunded |-> Wrap(charges[c].refunded + amount)]
          /\ \A d \in ChargeIds \ {c} : charges'[d] = charges[d]
      BY <2>2, RefundStep
    <3>2. e \in EventRecords /\ e.type = "charge.refunded" /\ e.charge = c /\ e.amount = amount
      <4>1. charges[c].merchant \in Merchants
        BY <3>1, ChargeFields DEF Exists
      <4> QED BY <4>1 DEF EventRecords, EventTypes
    <3>3. charges'[c].refunded = charges[c].refunded + amount
      <4>1. /\ charges[c].refunded \in Int /\ charges[c].amount \in 0 .. ChargeCap
            /\ 0 <= charges[c].refunded /\ charges[c].refunded <= charges[c].amount
        BY ChargeFields DEF RefundedInRange
      <4>2. charges[c].refunded + amount \in Int64
        BY <3>1, <4>1, LedgerAssumption DEF SumsFit, Int64
      <4>3. Wrap(charges[c].refunded + amount) = charges[c].refunded + amount
        BY <4>2, WrapFits
      <4> QED BY <3>1, <4>3
    <3> HIDE DEF e
    <3>4. ASSUME NEW d \in ChargeIds
          PROVE  charges'[d].refunded = SumOver(AmountsOfEvents', RefundsOf(d)')
      <4>1. OneMore(RefundsOf(d), AmountsOfEvents, AmountsOfEvents', Latest + 1)
        BY <3>1, <3>2, HistoryStep
      <4>2. AmountsOfEvents'[Latest + 1] = amount
        BY <3>1, <3>2, HistoryStep
      <4>3. CASE d = c
        <5>1. RefundsOf(d)' = With(RefundsOf(d), Latest + 1)
          BY <3>1, <3>2, <4>3, HistoryStep
        <5>2. SumOver(AmountsOfEvents', With(RefundsOf(d), Latest + 1))
                = SumOver(AmountsOfEvents, RefundsOf(d)) + AmountsOfEvents'[Latest + 1]
          BY <4>1, SumAddsOne
        <5>3. charges[c].refunded = SumOver(AmountsOfEvents, RefundsOf(d))
          BY <4>3 DEF RefundsRecorded
        <5> QED BY <3>3, <4>2, <4>3, <5>1, <5>2, <5>3
      <4>4. CASE d # c
        <5>1. RefundsOf(d)' = RefundsOf(d)
          BY <3>1, <3>2, <4>4, HistoryStep
        <5>2. SumOver(AmountsOfEvents', RefundsOf(d)) = SumOver(AmountsOfEvents, RefundsOf(d))
          BY <4>1, SumAddsOne
        <5> QED BY <3>1, <4>4, <5>1, <5>2 DEF RefundsRecorded
      <4> QED BY <4>3, <4>4
    <3> QED BY <3>4 DEF RefundsRecorded
  <2>3. CASE UNCHANGED ledger
    BY <2>3 DEF ledger, RefundsRecorded, AmountsOfEvents, RefundsOf
  <2> QED BY <2>1, <2>2, <2>3 DEF LedgerNext
<1>3. RefundedInRange /\ RefundsRecorded => RefundsBounded
  <2>1. \A c \in ChargeIds : EventAmounts(RefundsOf(c)) = SumOver(AmountsOfEvents, RefundsOf(c))
    BY DEF EventAmounts, AmountsOfEvents
  <2> QED BY <2>1 DEF RefundedInRange, RefundsRecorded, RefundsBounded
<1> QED BY <1>1, <1>2, <1>3, LedgerTypeCorrect, RefundsStayInRange, HistoryIsSound, PTL DEF LedgerSpec
-----------------------------------------------------------------------------
(* The settlement: the fold of the exported rows.                             *)

\* lines[i] is what the first i of n rows settle
Blank == [key \in Merchants \X Days |-> NoLine]
FoldedTo(lines, rows, n) ==
    lines = [i \in 0 .. n |-> IF i = 0 THEN Blank
                              ELSE [lines[i - 1] EXCEPT ![rows[i].key] = Settled(@, rows[i])]]

LEMMA SettleIsFold ==
    \A rows : settle(rows) = (CHOOSE lines : FoldedTo(lines, rows, Len(rows)))[Len(rows)]
  BY DEF settle, FoldedTo, Blank

\* Folds of rows that begin alike begin alike: otherwise take the first number
\* at which two differ.
LEMMA FoldsAgree ==
    ASSUME NEW n \in Nat, NEW k \in 0 .. n, NEW rows, NEW others, NEW f, NEW g,
           FoldedTo(f, rows, n), FoldedTo(g, others, k), \A i \in 1 .. k : rows[i] = others[i]
    PROVE  \A i \in 0 .. k : f[i] = g[i]
<1> DEFINE T == {i \in 0 .. k : f[i] # g[i]}
<1> SUFFICES ASSUME T # {} PROVE FALSE
  OBVIOUS
<1>1. PICK i \in T : \A j \in T : i <= j
  <2>1. T \in SUBSET Nat
    OBVIOUS
  <2> HIDE DEF T
  <2> QED BY <2>1, LeastNumber
<1>2. i \in 0 .. k /\ i \in 0 .. n /\ f[i] # g[i]
  OBVIOUS
<1>3. f[i] = IF i = 0 THEN Blank ELSE [f[i - 1] EXCEPT ![rows[i].key] = Settled(@, rows[i])]
  BY <1>2 DEF FoldedTo
<1>4. g[i] = IF i = 0 THEN Blank ELSE [g[i - 1] EXCEPT ![others[i].key] = Settled(@, others[i])]
  BY <1>2 DEF FoldedTo
<1>5. i # 0
  BY <1>2, <1>3, <1>4
<1>6. i \in 1 .. k /\ i - 1 \in 0 .. k /\ i - 1 < i
  BY <1>2, <1>5
<1>7. f[i - 1] = g[i - 1]
  BY <1>1, <1>6
<1> QED BY <1>2, <1>3, <1>4, <1>5, <1>6, <1>7

LEMMA FoldsExist ==
    ASSUME NEW rows
    PROVE  \A n \in Nat : \E lines : FoldedTo(lines, rows, n)
<1> DEFINE Folds(i) == \E lines : FoldedTo(lines, rows, i)
           T == {i \in Nat : ~ Folds(i)}
<1> SUFFICES ASSUME T # {} PROVE FALSE
  OBVIOUS
<1>1. PICK i \in T : \A j \in T : i <= j
  <2>1. T \in SUBSET Nat
    OBVIOUS
  <2> HIDE DEF T
  <2> QED BY <2>1, LeastNumber
<1> HIDE DEF Folds
<1>2. i \in Nat /\ ~ Folds(i)
  OBVIOUS
<1>3. i # 0
  <2> DEFINE new == [j \in 0 .. 0 |-> Blank]
  <2>1. new = [j \in 0 .. 0 |-> IF j = 0 THEN Blank
                                 ELSE [new[j - 1] EXCEPT ![rows[j].key] = Settled(@, rows[j])]]
    <3>1. \A j \in 0 .. 0 : j = 0
      OBVIOUS
    <3> QED BY <3>1, Zenon
  <2> HIDE DEF new
  <2>2. FoldedTo(new, rows, 0)
    BY <2>1 DEF FoldedTo
  <2> QED BY <1>2, <2>2 DEF Folds
<1>4. i - 1 \in Nat /\ i - 1 < i
  BY <1>2, <1>3
<1>5. Folds(i - 1)
  BY <1>1, <1>4
<1>6. PICK f : FoldedTo(f, rows, i - 1)
  BY <1>5 DEF Folds
<1> DEFINE last == [f[i - 1] EXCEPT ![rows[i].key] = Settled(@, rows[i])]
           new == [j \in 0 .. i |-> IF j = i THEN last ELSE f[j]]
<1> HIDE DEF last
<1>7. \A j \in 0 .. i : new[j] = IF j = i THEN last ELSE f[j]
  BY Zenon
<1>8. new = [j \in 0 .. i |-> new[j]]
  BY Zenon
<1> HIDE DEF new, T
<1>9. ASSUME NEW j \in 0 .. i
      PROVE  new[j] = IF j = 0 THEN Blank ELSE [new[j - 1] EXCEPT ![rows[j].key] = Settled(@, rows[j])]
  <2>1. j # 0 => j - 1 \in 0 .. i /\ new[j - 1] = f[j - 1]
    BY <1>2, <1>7
  <2>2. CASE j = i
    <3>1. new[j] = last /\ j # 0
      BY <1>3, <1>7, <2>2
    <3> QED BY <2>1, <2>2, <3>1 DEF last
  <2>3. CASE j # i
    <3>1. j \in 0 .. (i - 1) /\ new[j] = f[j]
      BY <1>2, <1>7, <2>3
    <3>2. f[j] = IF j = 0 THEN Blank ELSE [f[j - 1] EXCEPT ![rows[j].key] = Settled(@, rows[j])]
      BY <1>6, <3>1 DEF FoldedTo
    <3> QED BY <2>1, <3>1, <3>2
  <2> QED BY <2>2, <2>3
<1>10. new = [j \in 0 .. i |-> IF j = 0 THEN Blank
                               ELSE [new[j - 1] EXCEPT ![rows[j].key] = Settled(@, rows[j])]]
  BY <1>8, <1>9, Zenon
<1>11. FoldedTo(new, rows, i)
  BY <1>10 DEF FoldedTo
<1> QED BY <1>2, <1>11 DEF Folds

\* A row more settles as it would on its own, on top of the rows before it.
LEMMA SettleNothing == settle(<<>>) = Blank
<1>1. \E lines : FoldedTo(lines, <<>>, 0)
  BY FoldsExist
<1>2. FoldedTo(CHOOSE lines : FoldedTo(lines, <<>>, 0), <<>>, 0)
  BY <1>1
<1>3. Len(<<>>) = 0 /\ 0 \in 0 .. 0
  OBVIOUS
<1> QED BY <1>2, <1>3, SettleIsFold DEF FoldedTo

LEMMA SettleAppends ==
    ASSUME NEW Rows, NEW rows \in Seq(Rows), NEW e \in Rows
    PROVE  settle(Append(rows, e)) = [settle(rows) EXCEPT ![e.key] = Settled(@, e)]
<1> DEFINE more == Append(rows, e)
           n == Len(rows)
           f == CHOOSE lines : FoldedTo(lines, more, n + 1)
           g == CHOOSE lines : FoldedTo(lines, rows, n)
<1>1. n \in Nat /\ Len(more) = n + 1 /\ more[n + 1] = e /\ \A i \in 1 .. n : more[i] = rows[i]
  OBVIOUS
<1>2. \E lines : FoldedTo(lines, more, n + 1)
  <2>1. n + 1 \in Nat
    BY <1>1
  <2> QED BY <2>1, FoldsExist
<1>3. FoldedTo(f, more, n + 1)
  BY <1>2
<1>4. FoldedTo(g, rows, n)
  BY <1>1, FoldsExist
<1>5. settle(more) = f[n + 1] /\ settle(rows) = g[n]
  BY <1>1, SettleIsFold
<1> HIDE DEF f, g, more, n
<1>6. f[n] = g[n]
  <2>1. n + 1 \in Nat /\ n \in 0 .. n + 1 /\ n \in 0 .. n
    BY <1>1
  <2> QED BY <1>1, <1>3, <1>4, <2>1, FoldsAgree
<1>7. f[n + 1] = [f[n] EXCEPT ![e.key] = Settled(@, e)]
  <2>1. n + 1 \in 0 .. n + 1 /\ n + 1 # 0 /\ (n + 1) - 1 = n
    BY <1>1
  <2>2. f[n + 1] = IF n + 1 = 0 THEN Blank
                   ELSE [f[(n + 1) - 1] EXCEPT ![more[n + 1].key] = Settled(@, more[n + 1])]
    BY <1>3, <2>1 DEF FoldedTo
  <2> QED BY <1>1, <2>1, <2>2
<1> QED BY <1>5, <1>6, <1>7 DEF more

-----------------------------------------------------------------------------
(* What is settled of a merchant, up to what the integers of a line cannot     *)
(* hold, is what the journal books for the merchant.                          *)

LineRecords == [charges : Nat, gross : Int64, refunds : Int64, fees : Int64]
ExportRows == [type : EventTypes, amount : Int, key : Merchants \X Days]
DayNets(lines, m) == [day \in Days |-> lines[<<m, day>>].gross - lines[<<m, day>>].refunds]

LEMMA LineFields ==
    ASSUME NEW line \in LineRecords
    PROVE  /\ line.charges \in Nat /\ line.gross \in Int /\ line.refunds \in Int /\ line.fees \in Int
           /\ line.gross \in Int64 /\ line.refunds \in Int64 /\ line.fees \in Int64
  BY LedgerAssumption DEF LineRecords, Int64

LEMMA BpsType ==
    ASSUME NEW x \in Int, NEW bps \in Int
    PROVE  Bps(x, bps) \in Int
<1>1. x * bps + Unit \div 2 \in Int
  <2>1. x * bps \in Int
    OBVIOUS
  <2>2. Unit \div 2 \in Int
    BY PolicyAssumption
  <2> HIDE DEF Bps
  <2> QED BY <2>1, <2>2
<1> DEFINE w == Wrap(x * bps + Unit \div 2)
<1>2. w \in Int
  BY <1>1, WrapCongruent
<1> HIDE DEF w
<1>3. w \div Unit \in Int
  <2>1. Unit \in Nat \ {0}
    BY PolicyAssumption
  <2> QED BY <1>2, <2>1, Division
<1> QED BY <1>3 DEF Bps, w

\* An exported row adds a charge, or subtracts a refund.
Added(e) == IF e.type = "charge.succeeded" THEN e.amount ELSE -e.amount

LEMMA SettledLine ==
    ASSUME NEW line \in LineRecords, NEW e, e.amount \in Int
    PROVE  /\ Settled(line, e) \in LineRecords
           /\ Congruent(line.gross - line.refunds + Added(e),
                        Settled(line, e).gross - Settled(line, e).refunds)
<1>1. /\ line.charges \in Nat /\ line.gross \in Int /\ line.refunds \in Int /\ line.fees \in Int
      /\ line.gross \in Int64 /\ line.refunds \in Int64 /\ line.fees \in Int64
  BY LineFields
<1>2. Fee(e.amount) \in Int
  <2>1. PercentBps \in Int /\ Fixed \in Int
    BY PolicyAssumption
  <2>2. Bps(e.amount, PercentBps) \in Int
    BY <2>1, BpsType
  <2> QED BY <2>1, <2>2 DEF Fee
<1> DEFINE gross == Wrap(line.gross + e.amount)
           fees == Wrap(line.fees + Fee(e.amount))
           refunds == Wrap(line.refunds + e.amount)
<1>3. gross \in Int64 /\ fees \in Int64 /\ refunds \in Int64 /\ gross \in Int /\ refunds \in Int
  <2>1. line.gross + e.amount \in Int /\ line.fees + Fee(e.amount) \in Int /\ line.refunds + e.amount \in Int
    BY <1>1, <1>2
  <2> QED BY <2>1, WrapType, WrapCongruent
<1>4. Congruent(line.gross + e.amount, gross) /\ Congruent(line.refunds + e.amount, refunds)
  <2>1. line.gross + e.amount \in Int /\ line.refunds + e.amount \in Int
    BY <1>1
  <2> QED BY <2>1, WrapCongruent
<1> HIDE DEF gross, fees, refunds
<1>5. CASE e.type = "charge.succeeded"
  <2>1. Settled(line, e) = [charges |-> line.charges + 1, gross |-> gross, refunds |-> line.refunds, fees |-> fees]
    BY <1>5 DEF Settled, LineRecords, gross, fees
  <2>2. Settled(line, e) \in LineRecords
    BY <1>1, <1>3, <2>1 DEF LineRecords
  <2>3. -line.refunds \in Int /\ Congruent(-line.refunds, -line.refunds)
    <3>1. -line.refunds \in Int
      BY <1>1
    <3> QED BY <3>1, CongruentSelf
  <2>4. Congruent((line.gross + e.amount) + (-line.refunds), gross + (-line.refunds))
    <3> DEFINE sum == line.gross + e.amount
               back == -line.refunds
    <3>1. sum \in Int /\ back \in Int /\ Congruent(sum, gross) /\ Congruent(back, back)
      BY <1>1, <1>4, <2>3
    <3> HIDE DEF sum, back
    <3>2. Congruent(sum + back, gross + back)
      BY <1>3, <3>1, CongruentAdds
    <3> QED BY <3>2 DEF sum, back
  <2>5. /\ (line.gross + e.amount) + (-line.refunds) = line.gross - line.refunds + Added(e)
        /\ gross + (-line.refunds) = Settled(line, e).gross - Settled(line, e).refunds
    BY <1>1, <1>3, <1>5, <2>1 DEF Added
  <2> QED BY <2>2, <2>4, <2>5
<1>6. CASE e.type # "charge.succeeded"
  <2>1. Settled(line, e) = [charges |-> line.charges, gross |-> line.gross, refunds |-> refunds, fees |-> line.fees]
    BY <1>6 DEF Settled, LineRecords, refunds
  <2>2. Settled(line, e) \in LineRecords
    BY <1>1, <1>3, <2>1 DEF LineRecords
  <2>3. Congruent(-e.amount, line.refunds - refunds)
    BY <1>1, <1>3, <1>4, CongruentMoves
  <2>4. Congruent(line.gross - line.refunds, line.gross - line.refunds)
    <3>1. line.gross - line.refunds \in Int
      BY <1>1
    <3> QED BY <3>1, CongruentSelf
  <2>5. Congruent((line.gross - line.refunds) + (-e.amount), (line.gross - line.refunds) + (line.refunds - refunds))
    BY <1>1, <1>3, <2>3, <2>4, CongruentAdds
  <2>6. /\ (line.gross - line.refunds) + (-e.amount) = line.gross - line.refunds + Added(e)
        /\ (line.gross - line.refunds) + (line.refunds - refunds) = Settled(line, e).gross - Settled(line, e).refunds
    BY <1>1, <1>3, <1>6, <2>1 DEF Added
  <2> QED BY <2>2, <2>5, <2>6
<1> QED BY <1>5, <1>6

SettledNet(lines, m) == SumOver(DayNets(lines, m), Days)

\* A row more moves the net of its merchant by its amount, and no other.
LEMMA SettledNetStep ==
    ASSUME NEW lines \in Lines, NEW e \in ExportRows, NEW j \in Merchants,
           NEW m \in Merchants, NEW day \in Days, e.key = <<m, day>>
    PROVE  LET more == [lines EXCEPT ![e.key] = Settled(@, e)]
           IN /\ more \in Lines
              /\ SettledNet(lines, j) \in Int /\ SettledNet(more, j) \in Int
              /\ Congruent(SettledNet(lines, j) + (IF j = m THEN Added(e) ELSE 0), SettledNet(more, j))
<1> DEFINE more == [lines EXCEPT ![e.key] = Settled(@, e)]
           line == lines[<<m, day>>]
           new == Settled(line, e)
<1>1. lines \in [Merchants \X Days -> LineRecords] /\ Lines = [Merchants \X Days -> LineRecords]
  BY DEF Lines, LineRecords
<1>2. e.amount \in Int /\ line \in LineRecords
  BY <1>1 DEF ExportRows
<1>3. new \in LineRecords /\ Congruent(line.gross - line.refunds + Added(e), new.gross - new.refunds)
  BY <1>2, SettledLine
<1>4. more = [lines EXCEPT ![<<m, day>>] = new]
  OBVIOUS
<1> HIDE DEF more, new, line
<1>5. more \in Lines
  BY <1>1, <1>3, <1>4
<1>6. /\ \A d \in Days : DayNets(lines, j)[d] = lines[<<j, d>>].gross - lines[<<j, d>>].refunds
      /\ \A d \in Days : DayNets(more, j)[d] = more[<<j, d>>].gross - more[<<j, d>>].refunds
  BY DEF DayNets
<1>7. \A d \in Days : DayNets(lines, j)[d] \in Int /\ DayNets(more, j)[d] \in Int
  <2> TAKE d \in Days
  <2>1. lines[<<j, d>>] \in LineRecords /\ more[<<j, d>>] \in LineRecords
    BY <1>1, <1>5
  <2> DEFINE x == lines[<<j, d>>]
             y == more[<<j, d>>]
  <2> HIDE DEF x, y
  <2>2. x.gross - x.refunds \in Int /\ y.gross - y.refunds \in Int
    BY <2>1, LineFields DEF x, y
  <2> QED BY <1>6, <2>2 DEF x, y
<1>8. SettledNet(lines, j) \in Int /\ SettledNet(more, j) \in Int
  <2>1. Days \in SUBSET Days
    OBVIOUS
  <2> QED BY <1>7, <2>1, SumType, PolicyAssumption DEF SettledNet
<1>9. CASE j = m
  <2> DEFINE old == line.gross - line.refunds
             now == new.gross - new.refunds
  <2>1. DayNets(lines, j)[day] = old /\ DayNets(more, j)[day] = now
    <3>1. more[<<m, day>>] = new
      BY <1>1, <1>4
    <3> QED BY <1>6, <1>9, <3>1 DEF line
  <2>2. \A d \in Days \ {day} : DayNets(more, j)[d] = DayNets(lines, j)[d]
    <3> TAKE d \in Days \ {day}
    <3>1. more[<<j, d>>] = lines[<<j, d>>]
      BY <1>1, <1>4
    <3> QED BY <1>6, <3>1
  <2>3. OneChanged(Days, DayNets(lines, j), DayNets(more, j), day)
    BY <1>7, <2>2, PolicyAssumption DEF OneChanged
  <2> HIDE DEF old, now
  <2>4. SettledNet(more, j) = SettledNet(lines, j) - old + now
    BY <2>1, <2>3, SumOneChanged DEF SettledNet
  <2>5. old \in Int /\ now \in Int /\ Added(e) \in Int
    BY <1>2, <1>7, <2>1 DEF Added
  <2>6. Congruent(old + Added(e), now)
    BY <1>3 DEF old, now
  <2> DEFINE rest == SettledNet(lines, j) - old
  <2>7. rest \in Int
    BY <1>8, <2>5
  <2>9. Congruent(rest, rest)
    BY <2>7, CongruentSelf
  <2>10. Congruent(rest + (old + Added(e)), rest + now)
    BY <2>5, <2>6, <2>7, <2>9, CongruentAdds
  <2>11. rest + (old + Added(e)) = SettledNet(lines, j) + Added(e) /\ rest + now = SettledNet(more, j)
    BY <1>8, <2>4, <2>5
  <2> QED BY <1>5, <1>8, <1>9, <2>10, <2>11 DEF more
<1>10. CASE j # m
  <2>1. \A d \in Days : DayNets(lines, j)[d] = DayNets(more, j)[d]
    <3> TAKE d \in Days
    <3>1. more[<<j, d>>] = lines[<<j, d>>]
      BY <1>1, <1>4, <1>10
    <3> QED BY <1>6, <3>1
  <2>2. SettledNet(lines, j) = SettledNet(more, j)
    BY <2>1, SumSame, PolicyAssumption DEF SettledNet
  <2>3. SettledNet(lines, j) + 0 = SettledNet(more, j)
    BY <1>8, <2>2
  <2>4. Congruent(SettledNet(lines, j) + 0, SettledNet(more, j))
    BY <1>8, <2>3, CongruentSelf
  <2> QED BY <1>5, <1>8, <1>10, <2>4 DEF more
<1> QED BY <1>9, <1>10

LEMMA EventTyped ==
    ASSUME NEW e \in EventRecords
    PROVE  e.type \in EventTypes /\ e.amount \in Int /\ e.merchant \in Merchants
<1>1. \A amount \in Amounts : amount \in Int
  BY LedgerAssumption
<1> QED BY <1>1 DEF EventRecords

\* An operation exports one row more.
LEMMA ExportStep ==
    ASSUME events \in Seq(EventRecords), days \in Seq(Days), Len(days) = Len(events),
           NEW e \in EventRecords, NEW day \in Days,
           events' = Append(events, e), days' = Append(days, day)
    PROVE  LET row == [type |-> e.type, amount |-> e.amount, key |-> <<e.merchant, day>>]
           IN /\ Export \in Seq(ExportRows) /\ row \in ExportRows
              /\ Export' = Append(Export, row)
              /\ days' \in Seq(Days) /\ Len(days') = Len(events')
<1> DEFINE row == [type |-> e.type, amount |-> e.amount, key |-> <<e.merchant, day>>]
           n == Len(events)
           RowAt(i) == [type |-> events[i].type, amount |-> events[i].amount, key |-> <<events[i].merchant, days[i]>>]
<1>1. ASSUME NEW x \in EventRecords
      PROVE  x.type \in EventTypes /\ x.amount \in Int /\ x.merchant \in Merchants
  BY EventTyped
<1>2. n \in Nat /\ DOMAIN events = 1 .. n /\ \A i \in 1 .. n : events[i] \in EventRecords /\ days[i] \in Days
  OBVIOUS
<1>3. row \in ExportRows /\ \A i \in 1 .. n : RowAt(i) \in ExportRows
  BY <1>1, <1>2 DEF ExportRows
<1>4. Export = [i \in 1 .. n |-> RowAt(i)]
  BY <1>2 DEF Export
<1> HIDE DEF row, n
<1>5. Export \in Seq(ExportRows) /\ Len(Export) = n
  BY <1>2, <1>3, <1>4
<1>6. /\ DOMAIN events' = 1 .. n + 1 /\ events'[n + 1] = e /\ days'[n + 1] = day
      /\ \A i \in 1 .. n : events'[i] = events[i] /\ days'[i] = days[i]
      /\ days' \in Seq(Days) /\ Len(days') = Len(events')
  <2>1. Len(events) = n /\ Len(days) = n
    BY DEF n
  <2> HIDE DEF RowAt
  <2> QED BY <1>2, <2>1
<1>7. Export' = [i \in 1 .. n + 1 |-> IF i = n + 1 THEN row ELSE RowAt(i)]
  <2>1. \A i \in 1 .. n + 1 : i # n + 1 => i \in 1 .. n
    BY <1>2
  <2>2. Export' = [i \in 1 .. n + 1 |-> RowAt(i)']
    BY <1>6 DEF Export
  <2>3. \A i \in 1 .. n + 1 : RowAt(i)' = IF i = n + 1 THEN row ELSE RowAt(i)
    BY <1>6, <2>1 DEF row
  <2> HIDE DEF RowAt
  <2> QED BY <2>2, <2>3
<1>8. Append(Export, row) = [i \in 1 .. n + 1 |-> IF i = n + 1 THEN row ELSE RowAt(i)]
  <2>1. Append(Export, row) = [i \in 1 .. n + 1 |-> IF i = n + 1 THEN row ELSE Export[i]]
    <3> DEFINE rows == Export
    <3>1. rows \in Seq(ExportRows) /\ Len(rows) = n
      BY <1>5
    <3> HIDE DEF rows
    <3>2. Append(rows, row) = [i \in 1 .. n + 1 |-> IF i = n + 1 THEN row ELSE rows[i]]
      <4> DEFINE more == Append(rows, row)
      <4>1. more \in Seq(ExportRows) /\ Len(more) = n + 1
        BY <1>3, <3>1
      <4>2. \A i \in 1 .. n + 1 : more[i] = IF i = n + 1 THEN row ELSE rows[i]
        BY <1>3, <3>1
      <4> HIDE DEF more, row
      <4>3. more = [i \in 1 .. n + 1 |-> more[i]]
        BY <4>1
      <4>4. more = [i \in 1 .. n + 1 |-> IF i = n + 1 THEN row ELSE rows[i]]
        BY <4>2, <4>3
      <4> QED BY <4>4 DEF more
    <3> QED BY <3>2 DEF rows
  <2>2. \A i \in 1 .. n + 1 : i # n + 1 => Export[i] = RowAt(i)
    BY <1>2, <1>4
  <2> HIDE DEF RowAt
  <2> QED BY <2>1, <2>2
<1> QED BY <1>3, <1>5, <1>6, <1>7, <1>8 DEF row

-----------------------------------------------------------------------------
(* What goes out for a line: the payout, the reserve and the fees.            *)

Goes(line) == payout(line) + reserve(line) + line.fees

LEMMA GoesWhole ==
    ASSUME NEW line \in LineRecords
    PROVE  /\ Goes(line) \in Int /\ line.gross - line.refunds \in Int
           /\ Congruent(Goes(line), line.gross - line.refunds)
<1> DEFINE M == 2 * Half
           due == line.gross - line.refunds
           fees == line.fees
           left == net(line)
           held == reserve(line)
           paid == payout(line)
<1>1. due \in Int /\ fees \in Int /\ M \in Int
  BY LineFields, LedgerAssumption
<1>2. left \in Int /\ Congruent(due - fees, left)
  <2>1. due - fees \in Int
    BY <1>1
  <2>2. left = Wrap(due - fees)
    BY DEF net
  <2> HIDE DEF due, fees, left
  <2> QED BY <2>1, <2>2, WrapCongruent
<1>3. held \in Int
  <2>1. ReserveBps \in Int
    BY PolicyAssumption
  <2>2. Bps(net(line), ReserveBps) \in Int
    BY <1>2, <2>1, BpsType
  <2> QED BY <2>2 DEF reserve
<1>4. paid \in Int /\ Congruent(left - held, paid)
  <2>1. left - held \in Int
    BY <1>2, <1>3
  <2>2. paid = Wrap(left - held)
    BY DEF payout
  <2> HIDE DEF left, held, paid
  <2> QED BY <2>1, <2>2, WrapCongruent
<1>5. Goes(line) = paid + held + fees
  BY DEF Goes
<1> HIDE DEF due, fees, left, held, paid
<1>6. PICK k \in Int : due - fees = left + k * (2 * Half)
  BY <1>2 DEF Congruent
<1>7. PICK j \in Int : left - held = paid + j * (2 * Half)
  BY <1>4 DEF Congruent
<1> HIDE DEF M
<1>8. k * M \in Int /\ j * M \in Int /\ (-(k + j)) * M = -(k * M) - j * M
  BY <1>1
<1> DEFINE x == k * M
           y == j * M
<1>9. x \in Int /\ y \in Int /\ (-(k + j)) * M = -x - y /\ due - fees = left + x /\ left - held = paid + y
  BY <1>6, <1>7, <1>8 DEF M
<1> HIDE DEF x, y
<1>10. paid + held + fees = due + (-x - y)
  BY <1>1, <1>2, <1>3, <1>4, <1>9
<1>11. -(k + j) \in Int
  OBVIOUS
<1>12. Congruent(paid + held + fees, due)
  BY <1>9, <1>10, <1>11 DEF Congruent, M
<1> QED BY <1>1, <1>3, <1>4, <1>5, <1>12 DEF due

-----------------------------------------------------------------------------
(* The theorems.                                                              *)

SettledAsBooked == \A m \in Merchants : Congruent(SettledNet(settle(Export), m), -Booked(m))
SettlementBooks == LedgerTypeOK /\ SettlementTypeOK /\ SettledAsBooked

\* A step in which a row e of merchant m is exported, and the journal books
\* what the row adds.
LEMMA SettlementStep ==
    ASSUME SettlementBooks, NEW e \in EventRecords, NEW day \in Days, LedgerTypeOK',
           events' = Append(events, e), days' = Append(days, day),
           \A j \in Merchants : Booked(j) \in Int
             /\ Booked(j)' = IF j = e.merchant THEN Booked(j) - Added(e) ELSE Booked(j)
    PROVE  SettlementBooks'
<1> DEFINE row == [type |-> e.type, amount |-> e.amount, key |-> <<e.merchant, day>>]
           lines == settle(Export)
           m == e.merchant
<1>1. /\ Export \in Seq(ExportRows) /\ row \in ExportRows
      /\ Export' = Append(Export, row)
      /\ days' \in Seq(Days) /\ Len(days') = Len(events')
  BY ExportStep DEF SettlementBooks, LedgerTypeOK, SettlementTypeOK
<1>2. settle(Export') = [lines EXCEPT ![row.key] = Settled(@, row)]
  <2> DEFINE rows == Export
  <2>1. rows \in Seq(ExportRows) /\ row \in ExportRows
    BY <1>1
  <2> HIDE DEF rows, row
  <2>2. settle(Append(rows, row)) = [settle(rows) EXCEPT ![row.key] = Settled(@, row)]
    BY <2>1, SettleAppends
  <2> QED BY <1>1, <2>2 DEF rows
<1>3. lines \in Lines /\ m \in Merchants /\ row.key = <<m, day>> /\ Added(row) = Added(e) /\ Added(e) \in Int
  <2>1. m \in Merchants /\ e.amount \in Int
    BY EventTyped
  <2> QED BY <2>1 DEF SettlementBooks, SettlementTypeOK, Added
<1> HIDE DEF row, lines, m
<1>4. settle(Export') \in Lines
  <2> DEFINE more == [lines EXCEPT ![row.key] = Settled(@, row)]
  <2>1. more \in Lines
    BY <1>1, <1>3, SettledNetStep
  <2> QED BY <1>2, <2>1
<1>5. \A j \in Merchants : Congruent(SettledNet(settle(Export'), j), -(Booked(j)'))
  <2> TAKE j \in Merchants
  <2> DEFINE more == settle(Export')
             was == SettledNet(lines, j)
             is == SettledNet(more, j)
             plus == IF j = m THEN Added(e) ELSE 0
  <2>1. was \in Int /\ is \in Int /\ Congruent(was + plus, is)
    BY <1>1, <1>2, <1>3, SettledNetStep
  <2>2. Congruent(was, -Booked(j))
    BY DEF SettlementBooks, SettledAsBooked, lines
  <2>3. plus \in Int /\ Booked(j) \in Int /\ -(Booked(j)') = -Booked(j) + plus
    BY <1>3 DEF m
  <2> HIDE DEF more, was, is, plus
  <2>4. Congruent(was + plus, -Booked(j) + plus)
    <3>1. -Booked(j) \in Int /\ Congruent(plus, plus)
      BY <2>3, CongruentSelf
    <3> QED BY <2>1, <2>2, <2>3, <3>1, CongruentAdds
  <2>5. Congruent(is, -Booked(j) + plus)
    <3>1. was + plus \in Int /\ -Booked(j) + plus \in Int
      BY <2>1, <2>3
    <3> DEFINE x == was + plus
               y == -Booked(j) + plus
    <3> HIDE DEF x, y
    <3>2. Congruent(x, is) /\ Congruent(x, y) /\ x \in Int /\ y \in Int
      BY <2>1, <2>4, <3>1 DEF x, y
    <3>3. Congruent(is, y)
      BY <2>1, <3>2, CongruentJoins
    <3> QED BY <3>3 DEF y
  <2> QED BY <2>3, <2>5 DEF is, more
<1> QED BY <1>1, <1>4, <1>5 DEF SettlementBooks, SettlementTypeOK, SettledAsBooked, Congruent

LEMMA SettlementBooksHold == SettlementSpec => []SettlementBooks
<1>1. SettlementInit => SettlementBooks
  <2> SUFFICES ASSUME SettlementInit PROVE SettlementBooks
    OBVIOUS
  <2>1. LedgerBooks /\ LedgerTypeOK
    BY LedgerBooksStart DEF SettlementInit, LedgerBooks
  <2>2. events = <<>> /\ days = <<>> /\ journal = <<>>
    BY DEF SettlementInit, LedgerInit
  <2>3. Export = <<>>
    BY <2>2 DEF Export
  <2>4. settle(Export) = Blank
    BY <2>3, SettleNothing
  <2>5. Blank \in Lines
    <3>1. 0 \in Int64
      BY LedgerAssumption DEF Int64
    <3> QED BY <3>1 DEF Blank, Lines, NoLine
  <2>6. \A m \in Merchants : SettledNet(Blank, m) = 0 /\ Booked(m) = 0
    <3> TAKE m \in Merchants
    <3>1. LegsOf(m) = {}
      BY <2>2 DEF LegsOf
    <3>2. \A day \in Days : DayNets(Blank, m)[day] = 0
      BY DEF DayNets, Blank, NoLine
    <3>3. SettledNet(Blank, m) = 0
      BY <3>2, SumOfZeros, PolicyAssumption DEF SettledNet
    <3> QED BY <3>1, <3>3, SumEmpty DEF Booked
  <2>7. \A m \in Merchants : Congruent(SettledNet(Blank, m), -Booked(m))
    <3>1. Congruent(0, -0)
      BY CongruentSelf
    <3> QED BY <2>6, <3>1
  <2> QED BY <2>1, <2>2, <2>4, <2>5, <2>7 DEF SettlementBooks, SettlementTypeOK, SettledAsBooked
<1>2. SettlementBooks /\ [Operate]_settlementVars => SettlementBooks'
  <2> SUFFICES ASSUME SettlementBooks, [Operate]_settlementVars PROVE SettlementBooks'
    OBVIOUS
  <2>1. LedgerTypeOK
    BY DEF SettlementBooks
  <2>2. ASSUME NEW c \in ChargeIds, NEW amount \in Amounts, NEW m \in Merchants \cup {NoMerchant},
               CreateCharge(c, m, amount), NEW day \in Days, days' = Append(days, day)
        PROVE  SettlementBooks'
    <3> DEFINE e == [type |-> "charge.succeeded", charge |-> c, merchant |-> m, amount |-> amount]
    <3>1. LedgerTypeOK' /\ m \in Merchants /\ amount \in Int /\ events' = Append(events, e)
      <4>1. LedgerTypeOK' /\ m \in Merchants /\ amount \in 1 .. ChargeCap /\ events' = Append(events, e)
        BY <2>1, <2>2, ChargeStep
      <4> QED BY <4>1
    <3>2. Post(CustomerFunds, m, amount) /\ CustomerFunds \in Accounts /\ m \in Accounts /\ CustomerFunds # m
      BY <2>2, <3>1, LedgerAssumption DEF CreateCharge, Accounts
    <3>3. e \in EventRecords /\ e.merchant = m /\ Added(e) = amount
      BY <3>1 DEF EventRecords, EventTypes, Added
    <3>4. \A j \in Merchants : Booked(j) \in Int
             /\ Booked(j)' = IF j = m THEN Booked(j) - amount ELSE Booked(j)
      BY <2>1, <3>1, <3>2, BookedStep, LedgerAssumption
    <3> HIDE DEF e
    <3> QED BY <2>2, <3>1, <3>3, <3>4, SettlementStep
  <2>3. ASSUME NEW c \in ChargeIds, NEW amount \in Amounts, Refund(c, amount),
               NEW day \in Days, days' = Append(days, day)
        PROVE  SettlementBooks'
    <3> DEFINE m == charges[c].merchant
               e == [type |-> "charge.refunded", charge |-> c, merchant |-> m, amount |-> amount]
    <3>1. LedgerTypeOK' /\ m \in Merchants /\ amount \in Int /\ events' = Append(events, e)
      <4>1. LedgerTypeOK' /\ amount \in Nat \ {0} /\ Exists(c) /\ events' = Append(events, e)
        BY <2>1, <2>3, RefundStep
      <4>2. m \in Merchants
        BY <2>1, <4>1, ChargeFields DEF Exists
      <4> QED BY <4>1, <4>2
    <3>2. Post(m, CustomerFunds, amount) /\ CustomerFunds \in Accounts /\ m \in Accounts /\ CustomerFunds # m
      BY <2>3, <3>1, LedgerAssumption DEF Refund, Accounts
    <3>3. e \in EventRecords /\ e.merchant = m /\ Added(e) = -amount
      BY <3>1 DEF EventRecords, EventTypes, Added
    <3> HIDE DEF m, e
    <3>4. \A j \in Merchants : Booked(j) \in Int
             /\ Booked(j)' = IF j = m THEN Booked(j) + amount ELSE Booked(j)
      BY <2>1, <3>1, <3>2, BookedStep, LedgerAssumption
    <3>5. \A j \in Merchants : Booked(j) - (-amount) = Booked(j) + amount
      BY <3>1, <3>4
    <3> QED BY <2>3, <3>1, <3>3, <3>4, <3>5, SettlementStep
  <2>4. CASE UNCHANGED settlementVars
    BY <2>4 DEF settlementVars, ledger, SettlementBooks, LedgerTypeOK, SettlementTypeOK, SettledAsBooked,
                Export, Booked, LegAmounts, LegsOf, Congruent
  <2> QED BY <2>2, <2>3, <2>4 DEF Operate, LedgerNext
<1> QED BY <1>1, <1>2, PTL DEF SettlementSpec

\* What is settled of the exported history has lines of the right types, and
\* each event its day.
THEOREM SettlementTypeCorrect == SettlementSpec => []SettlementTypeOK
<1>1. SettlementBooks => SettlementTypeOK
  BY DEF SettlementBooks
<1> QED BY <1>1, SettlementBooksHold, PTL

\* What is settled of a merchant over all days is what the ledger owes the
\* merchant, and is paid out, held in reserve or charged, whatever days the
\* events fall on and wherever int64 sums wrap.
THEOREM SettlementMatchesLedger == SettlementSpec => []TotalsAreBalances
<1>1. SettlementBooks => TotalsAreBalances
  <2> SUFFICES ASSUME SettlementBooks, NEW m \in Merchants
               PROVE  /\ merchantNet(settle(Export), m) = Balance(m)
                      /\ Wrap(SumOver([day \in Days |-> Goes(settle(Export)[<<m, day>>])], Days)) = Balance(m)
    BY DEF TotalsAreBalances, Goes
  <2> DEFINE lines == settle(Export)
             out == [day \in Days |-> Goes(lines[<<m, day>>])]
  <2>1. Balance(m) = Wrap(-Booked(m)) /\ merchantNet(lines, m) = Wrap(SettledNet(lines, m))
    BY DEF Balance, AmountOf, LegAmounts, LegsOf, Booked, merchantNet, SettledNet, DayNets
  <2>2. Congruent(SettledNet(lines, m), -Booked(m))
    BY DEF SettlementBooks, SettledAsBooked
  <2>3. lines \in [Merchants \X Days -> LineRecords]
    BY DEF SettlementBooks, SettlementTypeOK, Lines, LineRecords
  <2>4. Booked(m) \in Int
    BY BookedType DEF SettlementBooks
  <2> HIDE DEF lines
  <2>5. \A day \in Days : /\ out[day] \in Int /\ DayNets(lines, m)[day] \in Int
                          /\ Congruent(out[day], DayNets(lines, m)[day])
    <3> TAKE day \in Days
    <3> DEFINE line == lines[<<m, day>>]
    <3>1. line \in LineRecords
      BY <2>3
    <3>2. out[day] = Goes(line) /\ DayNets(lines, m)[day] = line.gross - line.refunds
      BY DEF DayNets
    <3> HIDE DEF line, out
    <3> QED BY <3>1, <3>2, GoesWhole
  <2> HIDE DEF out
  <2>6. IsFiniteSet(Days) /\ Days \in SUBSET Days
    BY PolicyAssumption
  <2>7. SumOver(out, Days) \in Int /\ SettledNet(lines, m) \in Int
    BY <2>5, <2>6, SumType DEF SettledNet
  <2>8. Congruent(SumOver(out, Days), SettledNet(lines, m))
    BY <2>5, <2>6, SumsCongruent DEF SettledNet
  <2>9. Wrap(SettledNet(lines, m)) = Wrap(-Booked(m)) /\ Wrap(SumOver(out, Days)) = Wrap(SettledNet(lines, m))
    <3>1. -Booked(m) \in Int
      BY <2>4
    <3> QED BY <2>2, <2>7, <2>8, <3>1, CongruentWraps
  <2> QED BY <2>1, <2>9 DEF lines, out
<1> QED BY <1>1, SettlementBooksHold, PTL

-----------------------------------------------------------------------------
(* The file of the events: texts put together, and where each stands in them. *)

\* Induction up to a number, over the set of those that are as claimed.
LEMMA UpTo ==
    ASSUME NEW n \in Nat, NEW T, 0 \in T, \A i \in 0 .. n - 1 : i \in T => i + 1 \in T
    PROVE  \A i \in 0 .. n : i \in T
<1> DEFINE R == {i \in 0 .. n : i \notin T}
<1> SUFFICES ASSUME R # {} PROVE FALSE
  OBVIOUS
<1>1. PICK i \in R : \A j \in R : i <= j
  <2>1. R \in SUBSET Nat
    OBVIOUS
  <2> HIDE DEF R
  <2> QED BY <2>1, LeastNumber
<1>2. i # 0 /\ i - 1 \in 0 .. n - 1 /\ i - 1 \notin R
  BY <1>1
<1> QED BY <1>1, <1>2

Joined(s, t) == s \o t

Longer(s, t, st) == /\ Len(st) = Len(s) + Len(t)
                    /\ \A j \in 1 .. Len(s) : st[j] = s[j]
                    /\ \A j \in 1 .. Len(t) : st[Len(s) + j] = t[j]

LEMMA JoinedIs ==
    ASSUME NEW V, NEW s \in Seq(V), NEW t \in Seq(V)
    PROVE  Joined(s, t) \in Seq(V) /\ Longer(s, t, Joined(s, t))
  BY DEF Joined, Longer

\* Where the texts of a list begin in the text they make up.
Places(seqs, text, pos) ==
    /\ pos[0] = 0 /\ pos[Len(seqs)] = Len(text)
    /\ \A i \in 1 .. Len(seqs) :
         /\ pos[i] = pos[i - 1] + Len(seqs[i]) /\ pos[i] <= Len(text)
         /\ \A j \in 1 .. Len(seqs[i]) : text[pos[i - 1] + j] = seqs[i][j]

Flattens(seqs, n, flat) ==
    flat = [i \in 1 .. n |-> IF i = 1 THEN seqs[i] ELSE flat[i - 1] \o seqs[i]]

LEMMA FlatExists ==
    ASSUME NEW seqs, NEW n \in Nat
    PROVE  \E flat : Flattens(seqs, n, flat)
<1> DEFINE T == {k \in 0 .. n : \E flat : Flattens(seqs, k, flat)}
<1>1. 0 \in T
  <2> DEFINE none == [i \in 1 .. 0 |-> {}]
  <2>1. none = [i \in 1 .. 0 |-> none[i]] /\ 0 \in 0 .. n
    OBVIOUS
  <2>2. \A i \in 1 .. 0 : none[i] = IF i = 1 THEN seqs[i] ELSE none[i - 1] \o seqs[i]
    OBVIOUS
  <2> HIDE DEF none
  <2>3. Flattens(seqs, 0, none)
    BY <2>1, <2>2 DEF Flattens
  <2> QED BY <2>1, <2>3
<1>2. ASSUME NEW k \in 0 .. n - 1, k \in T
      PROVE  k + 1 \in T
  <2>1. PICK less : Flattens(seqs, k, less)
    BY <1>2
  <2> DEFINE m == k + 1
             more == [i \in 1 .. m |-> IF i = m THEN IF m = 1 THEN seqs[1] ELSE less[k] \o seqs[m]
                                       ELSE less[i]]
  <2>2. ASSUME NEW i \in 1 .. m
        PROVE  more[i] = IF i = 1 THEN seqs[i] ELSE more[i - 1] \o seqs[i]
    <3>1. i # m => i \in 1 .. k
      OBVIOUS
    <3>2. i # 1 => i - 1 \in 1 .. k /\ i - 1 # m /\ i - 1 \in 1 .. m
      OBVIOUS
    <3>3. i # 1 => more[i - 1] = less[i - 1]
      BY <3>2
    <3>4. i # m => less[i] = IF i = 1 THEN seqs[i] ELSE less[i - 1] \o seqs[i]
      BY <2>1, <3>1, Zenon DEF Flattens
    <3>5. CASE i = m
      <4>1. more[i] = IF m = 1 THEN seqs[1] ELSE less[k] \o seqs[m]
        BY <3>5
      <4>2. k = i - 1
        BY <3>5
      <4> HIDE DEF more
      <4> QED BY <3>3, <3>5, <4>1, <4>2
    <3>6. CASE i # m
      <4>1. more[i] = less[i]
        BY <3>6
      <4> QED BY <3>3, <3>4, <3>6, <4>1, Zenon
    <3> QED BY <3>5, <3>6
  <2>3. more = [i \in 1 .. m |-> more[i]]
    OBVIOUS
  <2> HIDE DEF more
  <2>4. Flattens(seqs, m, more)
    BY <2>2, <2>3 DEF Flattens
  <2>5. m \in 0 .. n
    OBVIOUS
  <2> QED BY <2>4, <2>5
<1> HIDE DEF T
<1>3. \A k \in 0 .. n : k \in T
  BY <1>1, <1>2, UpTo
<1>4. n \in T
  BY <1>3
<1> QED BY <1>4 DEF T

PutAfter(seqs, flat, len, end, i) ==
    /\ end[i] = end[i - 1] + len[i]
    /\ \A j \in 1 .. len[i] : flat[i][end[i - 1] + j] = seqs[i][j]
    /\ i # 1 => \A j \in 1 .. end[i - 1] : flat[i][j] = flat[i - 1][j]

Stay(seqs, flat, len, end, n) ==
    \A i \in 1 .. n : /\ end[i] <= end[n]
                      /\ \A j \in 1 .. len[i] : flat[n][end[i - 1] + j] = seqs[i][j]

\* What each text adds to those before it stays where it was put.
LEMMA PlacesGrow ==
    ASSUME NEW n \in Nat, NEW seqs, NEW flat, NEW len \in [1 .. n -> Nat], NEW end \in [0 .. n -> Nat],
           \A i \in 1 .. n : PutAfter(seqs, flat, len, end, i)
    PROVE  Stay(seqs, flat, len, end, n)
<1> DEFINE Holds(m, i) == /\ end[i] <= end[m]
                          /\ \A j \in 1 .. len[i] : flat[m][end[i - 1] + j] = seqs[i][j]
           T == {m \in 0 .. n : \A i \in 1 .. m : Holds(m, i)}
<1>1. 0 \in T
  OBVIOUS
<1> HIDE DEF Holds
<1>2. ASSUME NEW m \in 0 .. n - 1, m \in T
      PROVE  m + 1 \in T
  <2>1. m + 1 \in 1 .. n /\ m + 1 \in 0 .. n /\ (m + 1) - 1 = m
    OBVIOUS
  <2>2. /\ end[m + 1] = end[m] + len[m + 1]
        /\ m # 0 => \A j \in 1 .. end[m] : flat[m + 1][j] = flat[m][j]
    BY <2>1 DEF PutAfter
  <2>3. ASSUME NEW i \in 1 .. m
        PROVE  Holds(m + 1, i)
    <3>1. i \in 1 .. n /\ m # 0
      OBVIOUS
    <3>0. /\ end[i] <= end[m]
          /\ \A j \in 1 .. len[i] : flat[m][end[i - 1] + j] = seqs[i][j]
      BY <1>2 DEF Holds
    <3>2. end[i - 1] \in Nat /\ len[i] \in Nat /\ end[i] = end[i - 1] + len[i] /\ end[m] \in Nat
          /\ len[m + 1] \in Nat /\ end[m + 1] \in Nat /\ end[i] \in Nat
      BY <2>1, <3>1 DEF PutAfter
    <3>3. \A j \in 1 .. len[i] : end[i - 1] + j \in 1 .. end[m]
      <4>1. \A a, b, c, d \in Nat : c = a + b /\ c <= d => \A j \in 1 .. b : a + j \in 1 .. d
        OBVIOUS
      <4> QED BY <3>0, <3>2, <4>1, Zenon
    <3>4. end[i] <= end[m + 1]
      <4>1. \A a, b, c, d \in Nat : a <= b /\ c = b + d => a <= c
        OBVIOUS
      <4> QED BY <2>2, <3>0, <3>2, <4>1, Zenon
    <3>5. ASSUME NEW j \in 1 .. len[i] PROVE flat[m + 1][end[i - 1] + j] = seqs[i][j]
      <4>1. flat[m + 1][end[i - 1] + j] = flat[m][end[i - 1] + j]
        BY <2>2, <3>1, <3>3
      <4> QED BY <3>0, <4>1
    <3> QED BY <3>4, <3>5 DEF Holds
  <2>4. Holds(m + 1, m + 1)
    BY <2>1 DEF Holds, PutAfter
  <2>5. \A i \in 1 .. m + 1 : i = m + 1 \/ i \in 1 .. m
    OBVIOUS
  <2>6. \A i \in 1 .. m + 1 : Holds(m + 1, i)
    BY <2>3, <2>4, <2>5
  <2> QED BY <2>1, <2>6
<1> HIDE DEF T
<1>3. \A m \in 0 .. n : m \in T
  BY <1>1, <1>2, UpTo
<1>4. n \in T
  BY <1>3
<1> QED BY <1>4 DEF T, Holds, Stay

\* A list of texts, one after the other: each stands in the whole where those
\* before it end.
LEMMA FlatPlaces ==
    ASSUME NEW V, NEW seqs \in Seq(Seq(V))
    PROVE  /\ FlattenSeq(seqs) \in Seq(V)
           /\ \E pos \in [0 .. Len(seqs) -> Nat] : Places(seqs, FlattenSeq(seqs), pos)
<1> DEFINE n == Len(seqs)
<1>0. n \in Nat /\ \A i \in 1 .. n : seqs[i] \in Seq(V)
  OBVIOUS
<1>1. CASE n = 0
  <2>1. FlattenSeq(seqs) = seqs /\ seqs = <<>>
    BY <1>1 DEF FlattenSeq
  <2>2. [i \in 0 .. n |-> 0] \in [0 .. n -> Nat] /\ 1 .. n = {}
    BY <1>1
  <2>3. Places(seqs, seqs, [i \in 0 .. n |-> 0])
    BY <1>1, <2>1, <2>2 DEF Places
  <2>4. seqs \in Seq(V)
    BY <2>1
  <2> QED BY <2>1, <2>2, <2>3, <2>4
<1>2. CASE n # 0
  <2> DEFINE flat == CHOOSE f : Flattens(seqs, n, f)
  <2>1. FlattenSeq(seqs) = flat[n]
    BY <1>2 DEF FlattenSeq, Flattens
  <2>2. Flattens(seqs, n, flat)
    BY <1>0, FlatExists
  <2> HIDE DEF flat
  <2>3. \A i \in 1 .. n : flat[i] = IF i = 1 THEN seqs[i] ELSE flat[i - 1] \o seqs[i]
    BY <2>2, Zenon DEF Flattens
  <2>4. \A i \in 1 .. n : flat[i] \in Seq(V)
    <3> DEFINE T == {m \in 0 .. n : m = 0 \/ flat[m] \in Seq(V)}
    <3>1. ASSUME NEW m \in 0 .. n - 1, m \in T
          PROVE  m + 1 \in T
      <4>1. m + 1 \in 1 .. n /\ m + 1 \in 0 .. n /\ (m + 1) - 1 = m
        BY <1>0
      <4>2. seqs[m + 1] \in Seq(V)
        BY <1>0, <4>1
      <4>3. flat[m + 1] = IF m + 1 = 1 THEN seqs[m + 1] ELSE flat[m] \o seqs[m + 1]
        BY <2>3, <4>1
      <4>4. m # 0 => flat[m] \o seqs[m + 1] \in Seq(V)
        BY <3>1, <4>2
      <4>5. flat[m + 1] \in Seq(V)
        BY <4>2, <4>3, <4>4
      <4> QED BY <4>1, <4>5
    <3>2. 0 \in T
      BY <1>0
    <3> HIDE DEF T
    <3>3. \A m \in 0 .. n : m \in T
      BY <1>0, <3>1, <3>2, UpTo
    <3>4. \A i \in 1 .. n : i \in T /\ i # 0
      BY <1>0, <3>3
    <3> QED BY <3>4 DEF T
  <2> DEFINE len == [i \in 1 .. n |-> Len(seqs[i])]
             end == [i \in 0 .. n |-> IF i = 0 THEN 0 ELSE Len(flat[i])]
  <2>5. len \in [1 .. n -> Nat] /\ \A i \in 1 .. n : len[i] = Len(seqs[i])
    BY <1>0
  <2>6. /\ end \in [0 .. n -> Nat] /\ end[0] = 0 /\ end[n] = Len(flat[n])
        /\ \A i \in 1 .. n : end[i] = Len(flat[i])
    BY <1>0, <1>2, <2>4
  <2> HIDE DEF len, end
  <2>7. ASSUME NEW i \in 1 .. n
        PROVE  PutAfter(seqs, flat, len, end, i)
    <3>1. flat[i] = IF i = 1 THEN seqs[i] ELSE flat[i - 1] \o seqs[i]
      BY <2>3
    <3>2. CASE i = 1
      <4>1. flat[1] = seqs[1] /\ end[1 - 1] = 0 /\ end[1] = len[1] /\ len[1] \in Nat
        BY <2>5, <2>6, <3>1, <3>2
      <4> QED BY <3>2, <4>1 DEF PutAfter
    <3>3. CASE i # 1
      <4>1. i - 1 \in 1 .. n
        BY <3>3
      <4>2. flat[i - 1] \in Seq(V) /\ seqs[i] \in Seq(V)
        BY <1>0, <2>4, <4>1
      <4>5. end[i - 1] = Len(flat[i - 1]) /\ len[i] = Len(seqs[i]) /\ end[i] = Len(flat[i])
        BY <2>5, <2>6, <4>1
      <4>3. flat[i] = Joined(flat[i - 1], seqs[i])
        BY <3>1, <3>3 DEF Joined
      <4>4. Longer(flat[i - 1], seqs[i], Joined(flat[i - 1], seqs[i]))
        BY <4>2, JoinedIs, Zenon
      <4>6. Longer(flat[i - 1], seqs[i], flat[i])
        BY <4>3, <4>4, Zenon
      <4> QED BY <4>5, <4>6, Zenon DEF PutAfter, Longer
    <3> QED BY <3>2, <3>3
  <2>8. Stay(seqs, flat, len, end, n)
    <3> HIDE DEF n
    <3>1. n \in Nat /\ len \in [1 .. n -> Nat] /\ end \in [0 .. n -> Nat]
      BY <1>0, <2>5, <2>6
    <3>2. \A i \in 1 .. n : PutAfter(seqs, flat, len, end, i)
      BY <2>7
    <3> QED BY <3>1, <3>2, PlacesGrow
  <2>9. Places(seqs, flat[n], end)
    <3>1. end[0] = 0 /\ end[n] = Len(flat[n])
      BY <2>6
    <3>2. ASSUME NEW i \in 1 .. n
          PROVE  /\ end[i] = end[i - 1] + Len(seqs[i]) /\ end[i] <= Len(flat[n])
                 /\ \A j \in 1 .. Len(seqs[i]) : flat[n][end[i - 1] + j] = seqs[i][j]
      <4>1. len[i] = Len(seqs[i])
        BY <2>5
      <4>2. end[i] = end[i - 1] + len[i]
        BY <2>7, Zenon DEF PutAfter
      <4>3. end[i] <= end[n] /\ \A j \in 1 .. len[i] : flat[n][end[i - 1] + j] = seqs[i][j]
        BY <2>8, Zenon DEF Stay
      <4> QED BY <3>1, <4>1, <4>2, <4>3, Zenon
    <3> QED BY <3>1, <3>2, Zenon DEF Places
  <2>10. flat[n] \in Seq(V)
    BY <1>0, <1>2, <2>4
  <2> QED BY <2>1, <2>6, <2>9, <2>10
<1> QED BY <1>0, <1>1, <1>2

-----------------------------------------------------------------------------
(* Reading                                                                    *)

At(o, c, q) == [out |-> o, cur |-> c, quoted |-> q, skip |-> FALSE]
Fresh(o) == At(o, <<>>, FALSE)
Turns(line, i, s, t) == Read(line, s, i) = t

Readings(line, n, read) ==
    read = [i \in 0 .. n |->
               IF i = 0 THEN [out |-> <<>>, cur |-> <<>>, quoted |-> FALSE, skip |-> FALSE]
               ELSE Read(line, read[i - 1], i)]

\* There is a reader of every line.
LEMMA ReadingsExist ==
    ASSUME NEW line, NEW n \in Nat
    PROVE  \E read : Readings(line, n, read)
<1> DEFINE T == {k \in 0 .. n : \E read : Readings(line, k, read)}
           start == [out |-> <<>>, cur |-> <<>>, quoted |-> FALSE, skip |-> FALSE]
<1>1. 0 \in T
  <2> HIDE DEF start
  <2> DEFINE one == [i \in 0 .. 0 |-> start]
  <2>1. one = [i \in 0 .. 0 |-> one[i]] /\ 0 \in 0 .. n
    OBVIOUS
  <2>2. \A i \in 0 .. 0 : one[i] = IF i = 0 THEN start ELSE Read(line, one[i - 1], i)
    OBVIOUS
  <2> HIDE DEF one
  <2>3. one = [i \in 0 .. 0 |-> IF i = 0 THEN start ELSE Read(line, one[i - 1], i)]
    BY <2>1, <2>2
  <2>4. Readings(line, 0, one)
    BY <2>3 DEF Readings, start
  <2> QED BY <2>1, <2>4
<1>2. ASSUME NEW k \in 0 .. n - 1, k \in T
      PROVE  k + 1 \in T
  <2>1. PICK less : Readings(line, k, less)
    BY <1>2
  <2> DEFINE m == k + 1
             more == [i \in 0 .. m |-> IF i = m THEN Read(line, less[k], m) ELSE less[i]]
  <2> HIDE DEF start
  <2>2. ASSUME NEW i \in 0 .. m
        PROVE  more[i] = IF i = 0 THEN start ELSE Read(line, more[i - 1], i)
    <3>1. i # m => i \in 0 .. k
      OBVIOUS
    <3>2. i # 0 => i - 1 \in 0 .. k /\ i - 1 # m /\ i - 1 \in 0 .. m
      OBVIOUS
    <3>3. i # 0 => more[i - 1] = less[i - 1]
      BY <3>2
    <3>4. i # m => less[i] = IF i = 0 THEN start ELSE Read(line, less[i - 1], i)
      BY <2>1, <3>1, Zenon DEF Readings, start
    <3>5. CASE i = m
      <4>1. more[i] = Read(line, less[k], m)
        BY <3>5
      <4>2. k = i - 1 /\ i # 0
        BY <3>5
      <4> HIDE DEF more
      <4> QED BY <3>3, <3>5, <4>1, <4>2
    <3>6. CASE i # m
      <4>1. more[i] = less[i]
        BY <3>6
      <4> QED BY <3>3, <3>4, <3>6, <4>1, Zenon
    <3> QED BY <3>5, <3>6
  <2>3. more = [i \in 0 .. m |-> more[i]]
    OBVIOUS
  <2> HIDE DEF more
  <2>4. more = [i \in 0 .. m |-> IF i = 0 THEN start ELSE Read(line, more[i - 1], i)]
    BY <2>2, <2>3
  <2>5. Readings(line, m, more)
    BY <2>4, Zenon DEF Readings, start
  <2>6. m \in 0 .. n
    OBVIOUS
  <2> QED BY <2>5, <2>6
<1> HIDE DEF T
<1>3. \A k \in 0 .. n : k \in T
  BY <1>1, <1>2, UpTo
<1>4. n \in T
  BY <1>3
<1> QED BY <1>4 DEF T

\* What one sign does to the reader.
LEMMA PlainSign ==
    ASSUME NEW line, NEW i, NEW o, NEW c, line[i] # Quote, line[i] # Comma
    PROVE  Read(line, At(o, c, FALSE), i) = At(o, Append(c, line[i]), FALSE)
  BY DEF Read, At, Quote, Comma

LEMMA CommaSign ==
    ASSUME NEW line, NEW i, NEW o, NEW c, line[i] = Comma
    PROVE  Turns(line, i, At(o, c, FALSE), Fresh(Append(o, c)))
  BY DEF Read, At, Fresh, Turns, Quote, Comma

LEMMA OpeningQuote ==
    ASSUME NEW line, NEW i, NEW o, NEW c, line[i] = Quote
    PROVE  Read(line, At(o, c, FALSE), i) = At(o, c, TRUE)
  BY DEF Read, At, Quote

LEMMA QuotedSign ==
    ASSUME NEW line, NEW i, NEW o, NEW c, line[i] # Quote
    PROVE  Read(line, At(o, c, TRUE), i) = At(o, Append(c, line[i]), TRUE)
  BY DEF Read, At, Quote

LEMMA ClosingQuote ==
    ASSUME NEW line, NEW i, NEW o, NEW c, line[i] = Quote, ~Skips(line, i)
    PROVE  Turns(line, i, At(o, c, TRUE), At(o, c, FALSE))
  BY DEF Read, At, Turns, Quote

LEMMA TwoQuotes ==
    ASSUME NEW line, NEW i, NEW j, NEW o, NEW c, line[i] = Quote, Skips(line, i)
    PROVE  Turns(line, j, Read(line, At(o, c, TRUE), i), At(o, Append(c, Quote), TRUE))
<1>1. Read(line, At(o, c, TRUE), i) = [out |-> o, cur |-> Append(c, Quote), quoted |-> TRUE, skip |-> TRUE]
  BY DEF Read, At
<1>2. Read(line, [out |-> o, cur |-> Append(c, Quote), quoted |-> TRUE, skip |-> TRUE], j)
        = At(o, Append(c, Quote), TRUE)
  BY DEF Read, At
<1> QED BY <1>1, <1>2, Zenon DEF Turns

Reads(line, n, read) ==
    /\ read[0] = At(<<>>, <<>>, FALSE)
    /\ \A i \in 1 .. n : read[i] = Read(line, read[i - 1], i)

LEMMA ReadsSteps ==
    ASSUME NEW line, NEW n \in Nat, NEW read, Readings(line, n, read)
    PROVE  Reads(line, n, read)
<1>1. \A i \in 0 .. n : read[i] = IF i = 0 THEN At(<<>>, <<>>, FALSE) ELSE Read(line, read[i - 1], i)
  BY Zenon DEF Readings, At
<1>2. read[0] = At(<<>>, <<>>, FALSE)
  <2>1. 0 \in 0 .. n
    OBVIOUS
  <2> QED BY <1>1, <2>1, Zenon
<1>3. ASSUME NEW i \in 1 .. n PROVE read[i] = Read(line, read[i - 1], i)
  <2>1. i \in 0 .. n /\ i # 0
    OBVIOUS
  <2> QED BY <1>1, <2>1
<1> QED BY <1>2, <1>3 DEF Reads

\* A text stands in a line from a place on.
Stands(line, p, s) == \A j \in 1 .. Len(s) : line[p + j] = s[j]

End(p, s) == p + Len(s)

\* Nothing more of a quoted part may follow a field.
Ends(line, p) == p = Len(line) \/ line[p + 1] # Quote

\* The reader is where a field begins.
Before(line, read, p, s, o) ==
    /\ Reads(line, Len(line), read) /\ read[p] = Fresh(o)
    /\ End(p, s) <= Len(line) /\ Stands(line, p, s) /\ Ends(line, End(p, s))

LEMMA PrefixGrows ==
    ASSUME NEW V, NEW f \in Seq(V), NEW k \in 0 .. Len(f) - 1
    PROVE  Append(SubSeq(f, 1, k), f[k + 1]) = SubSeq(f, 1, k + 1)
  OBVIOUS

LEMMA Whole ==
    ASSUME NEW V, NEW f \in Seq(V)
    PROVE  SubSeq(f, 1, 0) = <<>> /\ SubSeq(f, 1, Len(f)) = f
  OBVIOUS

Bare(f) == \A k \in 1 .. Len(f) : f[k] # Quote /\ f[k] # Comma

\* A field with none of the signs that mean something is read sign by sign.
LEMMA PlainRead ==
    ASSUME NEW V, NEW f \in Seq(V), Bare(f),
           NEW line, Len(line) \in Nat, NEW read, NEW p \in Nat, NEW o, Before(line, read, p, f, o)
    PROVE  read[End(p, f)] = At(o, f, FALSE)
<1> USE DEF Before, End, Fresh
<1> DEFINE n == Len(line)
           L == Len(f)
           T == {k \in 0 .. L : read[p + k] = At(o, SubSeq(f, 1, k), FALSE)}
<1>0. L \in Nat
  OBVIOUS
<1>1. 0 \in T
  <2>1. p + 0 = p /\ 0 \in 0 .. L
    BY <1>0
  <2>2. SubSeq(f, 1, 0) = <<>>
    BY Whole
  <2> QED BY <2>1, <2>2, Zenon
<1>2. ASSUME NEW k \in 0 .. L - 1, k \in T
      PROVE  k + 1 \in T
  <2>1. k + 1 \in 1 .. L /\ k + 1 \in 0 .. L /\ p + (k + 1) \in 1 .. n /\ p + (k + 1) - 1 = p + k
    BY <1>0
  <2>2. line[p + (k + 1)] = f[k + 1] /\ f[k + 1] # Quote /\ f[k + 1] # Comma
    BY <2>1 DEF Stands, Bare
  <2>3. read[p + (k + 1)] = Read(line, read[p + k], p + (k + 1))
    BY <2>1 DEF Reads
  <2>4. read[p + k] = At(o, SubSeq(f, 1, k), FALSE)
    BY <1>2
  <2>5. Read(line, At(o, SubSeq(f, 1, k), FALSE), p + (k + 1))
          = At(o, Append(SubSeq(f, 1, k), f[k + 1]), FALSE)
    <3>1. line[p + (k + 1)] # Quote /\ line[p + (k + 1)] # Comma
      BY <2>2
    <3>2. Read(line, At(o, SubSeq(f, 1, k), FALSE), p + (k + 1))
            = At(o, Append(SubSeq(f, 1, k), line[p + (k + 1)]), FALSE)
      BY <3>1, PlainSign, Zenon
    <3> QED BY <2>2, <3>2, Zenon
  <2>6. Append(SubSeq(f, 1, k), f[k + 1]) = SubSeq(f, 1, k + 1)
    BY PrefixGrows
  <2>7. read[p + (k + 1)] = At(o, SubSeq(f, 1, k + 1), FALSE)
    BY <2>3, <2>4, <2>5, <2>6, Zenon
  <2> QED BY <2>1, <2>7
<1> HIDE DEF T
<1>3. \A k \in 0 .. L : k \in T
  BY <1>0, <1>1, <1>2, UpTo
<1>4. L \in T
  BY <1>0, <1>3
<1>5. read[p + L] = At(o, SubSeq(f, 1, L), FALSE)
  BY <1>4 DEF T
<1>6. SubSeq(f, 1, L) = f
  BY Whole
<1> QED BY <1>5, <1>6, Zenon

Doubled(f) == [i \in DOMAIN f |-> IF f[i] = Quote THEN <<Quote, Quote>> ELSE <<f[i]>>]

\* Where the signs of a field stand between its quotes.
QuotedAs(f, q, at) ==
    /\ at[0] = 0 /\ Len(q) = at[Len(f)] + 2 /\ q[1] = Quote /\ q[at[Len(f)] + 2] = Quote
    /\ \A i \in 1 .. Len(f) :
         /\ at[i] <= at[Len(f)] /\ q[at[i - 1] + 2] = f[i]
         /\ f[i] # Quote => at[i] = at[i - 1] + 1
         /\ f[i] = Quote => at[i] = at[i - 1] + 2 /\ q[at[i - 1] + 3] = Quote

IsQuoted(f, q) == \E at \in [0 .. Len(f) -> Nat] : QuotedAs(f, q, at)

LEMMA OneOrTwo ==
    ASSUME NEW s, NEW x
    PROVE  /\ s = <<x, x>> => Len(s) = 2 /\ s[1] = x /\ s[2] = x
           /\ s = <<x>> => Len(s) = 1 /\ s[1] = x
<1>1. Len(<<x, x>>) = 2 /\ <<x, x>>[1] = x /\ <<x, x>>[2] = x /\ Len(<<x>>) = 1 /\ <<x>>[1] = x
  OBVIOUS
<1> QED BY <1>1, Zenon

LEMMA QuotedPlaces ==
    ASSUME NEW V, Quote \in V, NEW f \in Seq(V)
    PROVE  Quoted(f) \in Seq(V) /\ IsQuoted(f, Quoted(f))
<1> DEFINE d == Doubled(f)
           t == FlattenSeq(d)
           a == <<Quote>>
           b == Joined(a, t)
           q == Joined(b, a)
<1>1. d \in Seq(Seq(V)) /\ Len(d) = Len(f)
  <2>1. d = [i \in 1 .. Len(f) |-> d[i]]
    BY DEF Doubled
  <2>2. ASSUME NEW i \in 1 .. Len(f) PROVE d[i] \in Seq(V)
    <3>1. f[i] \in V /\ <<Quote, Quote>> \in Seq(V) /\ <<f[i]>> \in Seq(V)
      OBVIOUS
    <3>2. d[i] = IF f[i] = Quote THEN <<Quote, Quote>> ELSE <<f[i]>>
      BY DEF Doubled
    <3> QED BY <3>1, <3>2, Zenon
  <2>3. Len(f) \in Nat
    OBVIOUS
  <2> HIDE DEF d
  <2>4. d \in [1 .. Len(f) -> Seq(V)]
    BY <2>1, <2>2
  <2> QED BY <2>3, <2>4
<1>2. \A i \in 1 .. Len(f) : d[i] = IF f[i] = Quote THEN <<Quote, Quote>> ELSE <<f[i]>>
  BY DEF Doubled
<1>3. t \in Seq(V) /\ \E at \in [0 .. Len(d) -> Nat] : Places(d, t, at)
  <2> HIDE DEF d
  <2> QED BY <1>1, FlatPlaces, Zenon
<1>4. PICK at \in [0 .. Len(f) -> Nat] : Places(d, t, at)
  BY <1>1, <1>3
<1>5. Quoted(f) = q
  BY DEF Quoted, Doubled, Joined
<1> HIDE DEF d, t
<1>6. a \in Seq(V) /\ Len(a) = 1 /\ a[1] = Quote
  OBVIOUS
<1> HIDE DEF a
<1>7. b \in Seq(V) /\ Longer(a, t, b)
  BY <1>3, <1>6, JoinedIs, Zenon
<1> HIDE DEF b
<1>8. q \in Seq(V) /\ Longer(b, a, q)
  BY <1>6, <1>7, JoinedIs, Zenon
<1> HIDE DEF q
<1> DEFINE L == Len(f)
<1>9. L \in Nat /\ Len(t) \in Nat /\ at[0] = 0 /\ at[L] = Len(t)
  <2>1. L \in Nat /\ Len(t) \in Nat
    BY <1>3
  <2> QED BY <1>1, <1>4, <2>1, Zenon DEF Places
<1>10. Len(b) = at[L] + 1 /\ Len(q) = at[L] + 2
  BY <1>6, <1>7, <1>8, <1>9 DEF Longer
<1>11. \A j \in 1 .. at[L] : q[j + 1] = t[j]
  BY <1>6, <1>7, <1>8, <1>9, <1>10 DEF Longer
<1>12. q[1] = Quote /\ q[at[L] + 2] = Quote
  BY <1>6, <1>7, <1>8, <1>9, <1>10 DEF Longer
<1>13. ASSUME NEW i \in 1 .. L
       PROVE  /\ at[i] <= at[L] /\ q[at[i - 1] + 2] = f[i]
              /\ f[i] # Quote => at[i] = at[i - 1] + 1
              /\ f[i] = Quote => at[i] = at[i - 1] + 2 /\ q[at[i - 1] + 3] = Quote
  <2>1. /\ at[i] = at[i - 1] + Len(d[i]) /\ at[i] <= at[L]
        /\ \A j \in 1 .. Len(d[i]) : t[at[i - 1] + j] = d[i][j]
    BY <1>1, <1>4, <1>9 DEF Places
  <2>2. at[i - 1] \in Nat /\ at[i] \in Nat /\ at[L] \in Nat
    BY <1>9
  <2>3. CASE f[i] = Quote
    <3>1. Len(d[i]) = 2 /\ d[i][1] = Quote /\ d[i][2] = Quote
      BY <1>2, <2>3, OneOrTwo, Zenon
    <3>2. t[at[i - 1] + 1] = Quote /\ t[at[i - 1] + 2] = Quote /\ at[i] = at[i - 1] + 2
      BY <2>1, <3>1
    <3>3. at[i - 1] + 1 \in 1 .. at[L] /\ at[i - 1] + 2 \in 1 .. at[L]
      BY <2>1, <2>2, <3>2
    <3>4. q[(at[i - 1] + 1) + 1] = Quote /\ q[(at[i - 1] + 2) + 1] = Quote
      BY <1>11, <3>2, <3>3
    <3>5. (at[i - 1] + 1) + 1 = at[i - 1] + 2 /\ (at[i - 1] + 2) + 1 = at[i - 1] + 3
      BY <2>2
    <3> QED BY <2>1, <2>3, <3>2, <3>4, <3>5, Zenon
  <2>4. CASE f[i] # Quote
    <3>1. Len(d[i]) = 1 /\ d[i][1] = f[i]
      BY <1>2, <2>4, OneOrTwo, Zenon
    <3>2. t[at[i - 1] + 1] = f[i] /\ at[i] = at[i - 1] + 1
      BY <2>1, <3>1
    <3>3. at[i - 1] + 1 \in 1 .. at[L]
      BY <2>1, <2>2, <3>2
    <3> QED BY <1>11, <2>1, <2>2, <2>4, <3>2, <3>3
  <2> QED BY <2>3, <2>4
<1>14. QuotedAs(f, q, at)
  BY <1>9, <1>10, <1>12, <1>13, Zenon DEF QuotedAs
<1> QED BY <1>5, <1>8, <1>14 DEF IsQuoted

\* A quoted field is read up to its closing quote, its doubled quotes as one.
LEMMA QuotedRead ==
    ASSUME NEW V, Quote \in V, NEW f \in Seq(V),
           NEW line, Len(line) \in Nat, NEW read, NEW p \in Nat, NEW o,
           Before(line, read, p, Quoted(f), o)
    PROVE  read[End(p, Quoted(f))] = At(o, f, FALSE)
<1> USE DEF Before, End, Fresh
<1> DEFINE q == Quoted(f)
<1> HIDE DEF q
<1> PICK at \in [0 .. Len(f) -> Nat] : QuotedAs(f, q, at)
  BY QuotedPlaces DEF IsQuoted, q
<1> SUFFICES ASSUME Reads(line, Len(line), read), read[p] = At(o, <<>>, FALSE), p + Len(q) <= Len(line),
                    Stands(line, p, q), Ends(line, p + Len(q))
             PROVE  read[p + Len(q)] = At(o, f, FALSE)
  BY DEF q
<1> DEFINE L == Len(f)
           N == Len(line)
           T == {k \in 0 .. L : read[p + (at[k] + 1)] = At(o, SubSeq(f, 1, k), TRUE)}
<1>0. L \in Nat /\ N \in Nat /\ at[0] = 0 /\ at[L] \in Nat /\ Len(q) = at[L] + 2
  <2>1. L \in Nat /\ at[L] \in Nat
    OBVIOUS
  <2> QED BY <2>1, Zenon DEF QuotedAs
<1>a. \A j \in 1 .. at[L] + 2 : p + j \in 1 .. N /\ (p + j) - 1 = p + (j - 1) /\ line[p + j] = q[j]
                               /\ read[p + j] = Read(line, read[p + (j - 1)], p + j)
  <2>1. \A j \in 1 .. at[L] + 2 : p + j \in 1 .. N /\ (p + j) - 1 = p + (j - 1) /\ j \in 1 .. Len(q)
    BY <1>0
  <2> QED BY <2>1 DEF Stands, Reads
<1>1. 0 \in T
  <2>1. 1 \in 1 .. at[L] + 2 /\ 1 - 1 = 0 /\ p + 0 = p /\ at[0] + 1 = 1 /\ 0 \in 0 .. L
    BY <1>0
  <2>2. line[p + 1] = Quote
    <3>1. q[1] = Quote
      BY DEF QuotedAs
    <3> QED BY <1>a, <2>1, <3>1
  <2>3. read[p + 1] = Read(line, At(o, <<>>, FALSE), p + 1)
    <3>1. read[p + 1] = Read(line, read[p + (1 - 1)], p + 1)
      BY <1>a, <2>1, Zenon
    <3> QED BY <2>1, <3>1, Zenon
  <2>4. Read(line, At(o, <<>>, FALSE), p + 1) = At(o, <<>>, TRUE)
    BY <2>2, OpeningQuote
  <2>5. SubSeq(f, 1, 0) = <<>>
    BY Whole
  <2> QED BY <2>1, <2>3, <2>4, <2>5, Zenon
<1>2. ASSUME NEW k \in 0 .. L - 1, k \in T
      PROVE  k + 1 \in T
  <2> DEFINE a == at[k]
             m == k + 1
             c == SubSeq(f, 1, k)
  <2>0. m \in 1 .. L /\ m \in 0 .. L /\ m - 1 = k /\ a \in Nat /\ at[m] \in Nat /\ k \in 0 .. L
    <3>1. m \in 1 .. L /\ m \in 0 .. L /\ m - 1 = k /\ k \in 0 .. L
      BY <1>0
    <3> QED BY <3>1
  <2>1. /\ at[m] <= at[L] /\ q[a + 2] = f[m]
        /\ f[m] # Quote => at[m] = a + 1
        /\ f[m] = Quote => at[m] = a + 2 /\ q[a + 3] = Quote
    BY <2>0, Zenon DEF QuotedAs
  <2>2. read[p + (a + 1)] = At(o, c, TRUE)
    BY <1>2
  <2>3. Append(c, f[m]) = SubSeq(f, 1, m)
    BY PrefixGrows
  <2> HIDE DEF c
  <2>4. a + 2 \in 1 .. at[L] + 2 /\ (a + 2) - 1 = a + 1
    <3>1. \A x, y, z \in Nat : y <= z /\ (y = x + 1 \/ y = x + 2) =>
            x + 2 \in 1 .. z + 2 /\ (x + 2) - 1 = x + 1
      OBVIOUS
    <3>2. at[m] <= at[L] /\ (at[m] = a + 1 \/ at[m] = a + 2)
      BY <2>1
    <3> QED BY <1>0, <2>0, <3>1, <3>2, Zenon
  <2>5. line[p + (a + 2)] = f[m] /\ read[p + (a + 2)] = Read(line, At(o, c, TRUE), p + (a + 2))
    <3>1. line[p + (a + 2)] = q[a + 2] /\ read[p + (a + 2)] = Read(line, read[p + ((a + 2) - 1)], p + (a + 2))
      BY <1>a, <2>4
    <3> QED BY <2>1, <2>2, <2>4, <3>1
  <2>6. CASE f[m] # Quote
    <3>1. at[m] + 1 = a + 2
      BY <2>0, <2>1, <2>6
    <3>2. Read(line, At(o, c, TRUE), p + (a + 2)) = At(o, Append(c, line[p + (a + 2)]), TRUE)
      BY <2>5, <2>6, QuotedSign
    <3>3. read[p + (at[m] + 1)] = At(o, SubSeq(f, 1, m), TRUE)
      BY <2>3, <2>5, <3>1, <3>2
    <3> QED BY <2>0, <3>3
  <2>7. CASE f[m] = Quote
    <3>1. /\ at[m] + 1 = a + 3 /\ a + 3 \in 1 .. at[L] + 2 /\ (a + 3) - 1 = a + 2
          /\ (p + (a + 2)) + 1 = p + (a + 3)
      <4>1. at[m] = a + 2 /\ at[m] <= at[L]
        BY <2>1, <2>7
      <4>2. \A x, y, z \in Nat : x = y + 2 /\ x <= z =>
              /\ x + 1 = y + 3 /\ y + 3 \in 1 .. z + 2 /\ (y + 3) - 1 = y + 2
              /\ (p + (y + 2)) + 1 = p + (y + 3)
        OBVIOUS
      <4> QED BY <1>0, <2>0, <4>1, <4>2, Zenon
    <3>2. line[p + (a + 2)] = Quote /\ line[p + (a + 3)] = Quote
      BY <1>a, <2>1, <2>5, <2>7, <3>1
    <3>3. Skips(line, p + (a + 2))
      <4>1. p + (a + 2) < Len(line)
        <5>1. p + (a + 3) <= N
          BY <1>a, <3>1
        <5>2. \A x, z \in Nat : p + (x + 3) <= z => p + (x + 2) < z
          OBVIOUS
        <5> QED BY <1>0, <2>0, <5>1, <5>2, Zenon
      <4> QED BY <3>1, <3>2, <4>1 DEF Skips
    <3>4. read[p + (a + 3)] = Read(line, Read(line, At(o, c, TRUE), p + (a + 2)), p + (a + 3))
      <4>1. read[p + (a + 3)] = Read(line, read[p + ((a + 3) - 1)], p + (a + 3))
        BY <1>a, <3>1
      <4> QED BY <2>5, <3>1, <4>1, Zenon
    <3>5. Read(line, Read(line, At(o, c, TRUE), p + (a + 2)), p + (a + 3)) = At(o, Append(c, Quote), TRUE)
      <4> DEFINE x == p + (a + 2)
                 y == p + (a + 3)
      <4>1. line[x] = Quote /\ Skips(line, x)
        BY <3>2, <3>3
      <4> HIDE DEF x, y
      <4>2. Turns(line, y, Read(line, At(o, c, TRUE), x), At(o, Append(c, Quote), TRUE))
        BY <4>1, TwoQuotes, Zenon
      <4> QED BY <4>2 DEF x, y, Turns
    <3>6. read[p + (at[m] + 1)] = At(o, SubSeq(f, 1, m), TRUE)
      BY <2>3, <2>7, <3>1, <3>4, <3>5, Zenon
    <3> QED BY <2>0, <3>6
  <2> QED BY <2>6, <2>7
<1> HIDE DEF T
<1>3. \A k \in 0 .. L : k \in T
  BY <1>0, <1>1, <1>2, UpTo
<1>4. L \in T
  BY <1>0, <1>3
<1>5. read[p + (at[L] + 1)] = At(o, f, TRUE)
  <2>1. SubSeq(f, 1, L) = f
    BY Whole
  <2>2. read[p + (at[L] + 1)] = At(o, SubSeq(f, 1, L), TRUE)
    BY <1>4 DEF T
  <2> QED BY <2>1, <2>2
<1>6. at[L] + 2 \in 1 .. at[L] + 2 /\ (at[L] + 2) - 1 = at[L] + 1
  BY <1>0
<1>7. line[p + (at[L] + 2)] = Quote
  <2>1. q[at[L] + 2] = Quote
    BY DEF QuotedAs
  <2> QED BY <1>a, <1>6, <2>1
<1>8. ~Skips(line, p + (at[L] + 2))
  BY <1>0 DEF Ends, Skips
<1>9. read[p + (at[L] + 2)] = Read(line, At(o, f, TRUE), p + (at[L] + 2))
  BY <1>a, <1>5, <1>6
<1>10. Read(line, At(o, f, TRUE), p + (at[L] + 2)) = At(o, f, FALSE)
  <2>1. Turns(line, p + (at[L] + 2), At(o, f, TRUE), At(o, f, FALSE))
    BY <1>7, <1>8, ClosingQuote, Zenon
  <2> QED BY <2>1, Zenon DEF Turns
<1> QED BY <1>0, <1>9, <1>10

\* A field is read to its end, and to nothing else than what was written.
LEMMA FieldRead ==
    ASSUME NEW V, Quote \in V, NEW f \in Seq(V),
           NEW line, Len(line) \in Nat, NEW read, NEW p \in Nat, NEW o,
           Before(line, read, p, Field(f), o)
    PROVE  read[End(p, Field(f))] = At(o, f, FALSE)
<1>1. CASE \E sign \in {Comma, Quote, NewLine} : Has(f, sign)
  <2>1. Field(f) = Quoted(f)
    BY <1>1, Zenon DEF Field
  <2>3. Before(line, read, p, Quoted(f), o)
    BY <2>1, Zenon
  <2>4. read[End(p, Quoted(f))] = At(o, f, FALSE)
    BY <2>3, QuotedRead, Zenon
  <2> QED BY <2>1, <2>4, Zenon
<1>2. CASE ~ \E sign \in {Comma, Quote, NewLine} : Has(f, sign)
  <2>1. Field(f) = f
    BY <1>2, Zenon DEF Field
  <2>2. Bare(f)
    BY <1>2 DEF Has, Bare
  <2>3. Before(line, read, p, f, o)
    BY <2>1, Zenon
  <2>4. read[End(p, f)] = At(o, f, FALSE)
    BY <2>2, <2>3, PlainRead, Zenon
  <2> QED BY <2>1, <2>4, Zenon
<1> QED BY <1>1, <1>2

LEMMA IsSequence ==
    ASSUME NEW S, NEW n \in Nat, NEW f \in [1 .. n -> S]
    PROVE  f \in Seq(S) /\ Len(f) = n
  OBVIOUS

Parts(fields) == [i \in DOMAIN fields |-> (IF i = 1 THEN <<>> ELSE <<Comma>>) \o Field(fields[i])]
Text(fields) == FlattenSeq(Parts(fields))

LEMMA FieldType ==
    ASSUME NEW V, Quote \in V, NEW f \in Seq(V)
    PROVE  Field(f) \in Seq(V)
  BY QuotedPlaces DEF Field

LEMMA PartsAre ==
    ASSUME NEW V, Quote \in V, Comma \in V, NEW fields \in Seq(Seq(V))
    PROVE  /\ Parts(fields) \in Seq(Seq(V)) /\ Len(Parts(fields)) = Len(fields)
           /\ \A i \in 1 .. Len(fields) :
                /\ i = 1 => Parts(fields)[i] = Field(fields[i])
                /\ i # 1 => Longer(<<Comma>>, Field(fields[i]), Parts(fields)[i])
<1> DEFINE parts == Parts(fields)
<1>1. parts = [i \in 1 .. Len(fields) |-> parts[i]] /\ Len(fields) \in Nat
  BY DEF Parts
<1>2. ASSUME NEW i \in 1 .. Len(fields)
      PROVE  /\ parts[i] \in Seq(V)
             /\ i = 1 => parts[i] = Field(fields[i])
             /\ i # 1 => Longer(<<Comma>>, Field(fields[i]), parts[i])
  <2>1. Field(fields[i]) \in Seq(V)
    BY FieldType
  <2>2. parts[i] = (IF i = 1 THEN <<>> ELSE <<Comma>>) \o Field(fields[i])
    BY DEF Parts
  <2>3. CASE i = 1
    <3>1. <<>> \o Field(fields[i]) = Field(fields[i])
      BY <2>1
    <3> QED BY <2>1, <2>2, <2>3, <3>1, Zenon
  <2>4. CASE i # 1
    <3>1. parts[i] = Joined(<<Comma>>, Field(fields[i]))
      BY <2>2, <2>4, Zenon DEF Joined
    <3>2. <<Comma>> \in Seq(V)
      OBVIOUS
    <3> HIDE DEF parts
    <3>3. Joined(<<Comma>>, Field(fields[i])) \in Seq(V)
            /\ Longer(<<Comma>>, Field(fields[i]), Joined(<<Comma>>, Field(fields[i])))
      BY <2>1, <3>2, JoinedIs, Zenon
    <3> QED BY <2>4, <3>1, <3>3, Zenon
  <2> QED BY <2>3, <2>4
<1> HIDE DEF parts
<1>3. parts \in [1 .. Len(fields) -> Seq(V)]
  BY <1>1, <1>2
<1>4. parts \in Seq(Seq(V)) /\ Len(parts) = Len(fields)
  BY <1>1, <1>3, IsSequence, Zenon
<1> QED BY <1>2, <1>4 DEF parts

\* Reading a record gives the fields it was written from.
LEMMA SplitUndoesJoin ==
    ASSUME NEW V, Quote \in V, Comma \in V, NEW fields \in Seq(Seq(V)), Len(fields) # 0
    PROVE  Text(fields) \in Seq(V) /\ splitLine(Text(fields)) = fields
<1> DEFINE n == Len(fields)
           parts == Parts(fields)
           text == Text(fields)
           N == Len(text)
           read == CHOOSE r : Readings(text, N, r)
<1>1. /\ parts \in Seq(Seq(V)) /\ Len(parts) = n /\ n \in Nat \ {0}
      /\ \A i \in 1 .. n :
           /\ i = 1 => parts[i] = Field(fields[i])
           /\ i # 1 => Longer(<<Comma>>, Field(fields[i]), parts[i])
  <2>1. n \in Nat \ {0}
    OBVIOUS
  <2> QED BY <2>1, PartsAre, Zenon
<1>2. text \in Seq(V) /\ \E pos \in [0 .. Len(parts) -> Nat] : Places(parts, text, pos)
  <2> HIDE DEF parts
  <2> QED BY <1>1, FlatPlaces, Zenon DEF Text, parts
<1>3. splitLine(text) = Append(read[N].out, read[N].cur)
  BY Zenon DEF splitLine, Readings
<1> HIDE DEF parts, text
<1>4. PICK pos \in [0 .. n -> Nat] : Places(parts, text, pos)
  BY <1>1, <1>2
<1>5. N \in Nat
  BY <1>2
<1>6. Readings(text, N, read)
  BY <1>5, ReadingsExist
<1> HIDE DEF read
<1>7. Reads(text, N, read)
  BY <1>5, <1>6, ReadsSteps
<1>8. pos[0] = 0 /\ pos[n] = N
  BY <1>1, <1>4, Zenon DEF Places
<1>9. ASSUME NEW i \in 1 .. n
      PROVE  /\ pos[i] = pos[i - 1] + Len(parts[i]) /\ pos[i] <= N
             /\ \A j \in 1 .. Len(parts[i]) : text[pos[i - 1] + j] = parts[i][j]
  BY <1>1, <1>4, Zenon DEF Places
<1>10. ASSUME NEW i \in 1 .. n
       PROVE  Field(fields[i]) \in Seq(V) /\ Len(Field(fields[i])) \in Nat
  <2>1. Field(fields[i]) \in Seq(V)
    BY FieldType
  <2> QED BY <2>1
\* before each field but the first there is a comma
<1>11. ASSUME NEW i \in 1 .. n, i # 1
       PROVE  /\ Len(parts[i]) = Len(Field(fields[i])) + 1 /\ text[pos[i - 1] + 1] = Comma
              /\ \A j \in 1 .. Len(Field(fields[i])) : text[(pos[i - 1] + 1) + j] = Field(fields[i])[j]
              /\ pos[i - 1] + 1 <= pos[i]
  <2> DEFINE f == Field(fields[i])
             q == pos[i - 1]
             part == parts[i]
  <2>1. Longer(<<Comma>>, f, part)
    BY <1>1, <1>11
  <2>2. Len(f) \in Nat /\ q \in Nat
    <3>1. i - 1 \in 0 .. n
      BY <1>1
    <3>2. q \in Nat
      BY <3>1
    <3> QED BY <1>10, <3>2
  <2>0. pos[i] = q + Len(part) /\ \A j \in 1 .. Len(part) : text[q + j] = part[j]
    BY <1>9
  <2> HIDE DEF f, q, part
  <2>3. Len(part) = 1 + Len(f) /\ part[1] = Comma /\ \A j \in 1 .. Len(f) : part[1 + j] = f[j]
    BY <2>1 DEF Longer
  <2>4. text[q + 1] = Comma /\ q + 1 <= pos[i] /\ Len(part) = Len(f) + 1
    BY <2>0, <2>2, <2>3
  <2>5. ASSUME NEW j \in 1 .. Len(f) PROVE text[(q + 1) + j] = f[j]
    <3>1. 1 + j \in 1 .. Len(part) /\ (q + 1) + j = q + (1 + j)
      BY <2>2, <2>3
    <3> QED BY <2>0, <2>3, <3>1
  <2> QED BY <2>4, <2>5 DEF f, q, part
<1>12. ASSUME NEW i \in 1 .. n
       PROVE  Ends(text, pos[i])
  <2>1. CASE i = n
    BY <1>8, <2>1 DEF Ends
  <2>2. CASE i # n
    <3>1. i + 1 \in 1 .. n /\ i + 1 # 1 /\ (i + 1) - 1 = i
      BY <2>2
    <3>2. text[pos[i] + 1] = Comma
      BY <1>11, <3>1
    <3> QED BY <3>2 DEF Ends, Comma, Quote
  <2> QED BY <2>1, <2>2
<1> DEFINE T == {i \in 0 .. n : i = 0 \/ read[pos[i]] = At(SubSeq(fields, 1, i - 1), fields[i], FALSE)}
<1>13. 0 \in T
  BY <1>1
<1>14. ASSUME NEW i \in 0 .. n - 1, i \in T
       PROVE  i + 1 \in T
  <2> DEFINE m == i + 1
             o == SubSeq(fields, 1, i)
             p == IF i = 0 THEN 0 ELSE pos[i] + 1
             f == fields[m]
  <2>1. m \in 1 .. n /\ m \in 0 .. n /\ m - 1 = i /\ pos[i] \in Nat /\ f \in Seq(V) /\ p \in Nat
    <3>1. m \in 1 .. n /\ m \in 0 .. n /\ m - 1 = i /\ i \in 0 .. n
      BY <1>1
    <3>2. pos[i] \in Nat
      BY <3>1
    <3>3. p \in Nat
      BY <3>2
    <3>4. f \in Seq(V)
      BY <3>1
    <3> QED BY <3>1, <3>2, <3>3, <3>4
  <2>2. read[p] = Fresh(o)
    <3>1. CASE i = 0
      <4>1. o = <<>>
        BY <3>1, Whole
      <4>2. p = 0
        BY <3>1
      <4> HIDE DEF o, p
      <4> QED BY <1>7, <4>1, <4>2, Zenon DEF Reads, Fresh
    <3>2. CASE i # 0
      <4>1. i \in 1 .. n /\ i - 1 \in 0 .. n - 1 /\ (i - 1) + 1 = i /\ m # 1
        BY <3>2
      <4>2. text[pos[i] + 1] = Comma /\ pos[i] + 1 <= pos[m] /\ pos[m] <= N /\ pos[m] \in Nat
        BY <1>9, <1>11, <2>1, <4>1
      <4>3. pos[i] + 1 \in 1 .. N /\ (pos[i] + 1) - 1 = pos[i]
        <5>1. \A a, b, c \in Nat : a + 1 <= b /\ b <= c => a + 1 \in 1 .. c /\ (a + 1) - 1 = a
          OBVIOUS
        <5> QED BY <1>5, <2>1, <4>2, <5>1, Zenon
      <4>4. read[pos[i] + 1] = Read(text, read[pos[i]], pos[i] + 1)
        BY <1>7, <4>3 DEF Reads
      <4>5. read[pos[i]] = At(SubSeq(fields, 1, i - 1), fields[i], FALSE)
        BY <1>14, <3>2
      <4>6. Read(text, At(SubSeq(fields, 1, i - 1), fields[i], FALSE), pos[i] + 1)
              = Fresh(Append(SubSeq(fields, 1, i - 1), fields[i]))
        <5> DEFINE x == pos[i] + 1
                   c == SubSeq(fields, 1, i - 1)
                   d == fields[i]
        <5>1. text[x] = Comma
          BY <4>2
        <5> HIDE DEF x, c, d
        <5>2. Turns(text, x, At(c, d, FALSE), Fresh(Append(c, d)))
          BY <5>1, CommaSign, Zenon
        <5> QED BY <5>2 DEF x, c, d, Turns
      <4>7. Append(SubSeq(fields, 1, i - 1), fields[i]) = o
        <5>1. Append(SubSeq(fields, 1, i - 1), fields[(i - 1) + 1]) = SubSeq(fields, 1, (i - 1) + 1)
          BY <4>1, PrefixGrows, Zenon
        <5> QED BY <4>1, <5>1
      <4>8. p = pos[i] + 1
        BY <3>2
      <4> HIDE DEF o, p
      <4> QED BY <4>4, <4>5, <4>6, <4>7, <4>8, Zenon
    <3> QED BY <3>1, <3>2
  <2>3. End(p, Field(f)) = pos[m] /\ Stands(text, p, Field(f))
    <3>1. CASE i = 0
      <4>0. m = 1 /\ p = 0
        BY <3>1
      <4>1. m = 1 /\ p = 0 /\ parts[m] = Field(f)
        <5>1. m \in 1 .. n => (m = 1 => parts[m] = Field(fields[m]))
          BY <1>1, Zenon
        <5> QED BY <2>1, <4>0, <5>1, Zenon
      <4>2. pos[m] = 0 + Len(Field(f)) /\ \A j \in 1 .. Len(Field(f)) : text[0 + j] = Field(f)[j]
        BY <1>8, <1>9, <2>1, <3>1, <4>1
      <4> HIDE DEF p
      <4> QED BY <4>1, <4>2, Zenon DEF End, Stands
    <3>2. CASE i # 0
      <4>1. m # 1 /\ p = pos[i] + 1 /\ Len(Field(f)) \in Nat
        BY <1>10, <2>1, <3>2
      <4>2. pos[m] = pos[i] + Len(parts[m]) /\ Len(parts[m]) = Len(Field(f)) + 1
        BY <1>9, <1>11, <2>1, <4>1
      <4>3. \A j \in 1 .. Len(Field(f)) : text[(pos[i] + 1) + j] = Field(f)[j]
        BY <1>11, <2>1, <4>1
      <4> HIDE DEF p, f, m
      <4>4. p + Len(Field(f)) = pos[m]
        <5> DEFINE x == pos[i]
                   y == Len(Field(f))
        <5>1. x \in Nat /\ y \in Nat /\ p = x + 1
          BY <2>1, <4>1
        <5>2. pos[m] = x + (y + 1)
          BY <4>2
        <5> HIDE DEF x, y
        <5>3. p + y = pos[m]
          BY <5>1, <5>2
        <5> QED BY <5>3 DEF y
      <4> QED BY <4>1, <4>3, <4>4, Zenon DEF End, Stands
    <3> QED BY <3>1, <3>2
  <2>4. Before(text, read, p, Field(f), o)
    BY <1>7, <1>9, <1>12, <2>1, <2>2, <2>3 DEF Before
  <2>5. read[End(p, Field(f))] = At(o, f, FALSE)
    <3> HIDE DEF p, o, f, m
    <3> QED BY <1>5, <2>1, <2>4, FieldRead, Zenon
  <2>6. read[pos[m]] = At(SubSeq(fields, 1, m - 1), fields[m], FALSE)
    BY <2>1, <2>3, <2>5
  <2> QED BY <2>1, <2>6
<1> HIDE DEF T
<1>15. \A i \in 0 .. n : i \in T
  BY <1>1, <1>13, <1>14, UpTo
<1>16. n \in T /\ n # 0
  BY <1>1, <1>15
<1>17. read[N] = At(SubSeq(fields, 1, n - 1), fields[n], FALSE)
  BY <1>8, <1>16 DEF T
<1>18. read[N].out = SubSeq(fields, 1, n - 1) /\ read[N].cur = fields[n]
  BY <1>17 DEF At
<1>19. Append(SubSeq(fields, 1, n - 1), fields[n]) = fields
  <2>1. n - 1 \in 0 .. n - 1 /\ (n - 1) + 1 = n
    BY <1>1
  <2>2. Append(SubSeq(fields, 1, n - 1), fields[(n - 1) + 1]) = SubSeq(fields, 1, (n - 1) + 1)
    BY <2>1, PrefixGrows, Zenon
  <2> QED BY <2>1, <2>2, Whole
<1> QED BY <1>2, <1>3, <1>18, <1>19, Zenon DEF text

\* Whatever a record's fields are made of, the reader gives back what the writer
\* was given: commas and quotes in a field end no field and are not lost.
THEOREM FieldsReadBack ==
    ASSUME NEW V, NEW fields \in Seq(Seq(V)), Len(fields) # 0
    PROVE  splitLine(Text(fields)) = fields
<1> DEFINE W == V \cup {Quote, Comma}
<1>1. Quote \in W /\ Comma \in W
  OBVIOUS
<1>2. fields \in Seq(Seq(W))
  <2>1. \A i \in 1 .. Len(fields) : fields[i] \in Seq(W)
    <3> TAKE i \in 1 .. Len(fields)
    <3>1. fields[i] \in Seq(V)
      OBVIOUS
    <3> QED BY <3>1
  <2>2. fields = [i \in 1 .. Len(fields) |-> fields[i]] /\ Len(fields) \in Nat
    OBVIOUS
  <2> DEFINE S == Seq(W)
  <2> HIDE DEF S, W
  <2>3. fields \in [1 .. Len(fields) -> S]
    BY <2>1, <2>2 DEF S
  <2> QED BY <2>2, <2>3, IsSequence, Zenon DEF S
<1> HIDE DEF W
<1> QED BY <1>1, <1>2, SplitUndoesJoin, Zenon

-----------------------------------------------------------------------------
(* The lines of a record                                                      *)

Sign(text, out, i) ==
    IF text[i] = NewLine THEN Append(out, <<>>)
    ELSE [out EXCEPT ![Len(out)] = Append(@, text[i])]

Endings(text, n, end) ==
    end = [i \in 0 .. n |-> IF i = 0 THEN <<<<>>>> ELSE Sign(text, end[i - 1], i)]

LEMMA EndingsExist ==
    ASSUME NEW text, NEW n \in Nat
    PROVE  \E end : Endings(text, n, end)
<1> DEFINE T == {k \in 0 .. n : \E end : Endings(text, k, end)}
           start == <<<<>>>>
<1>1. 0 \in T
  <2> HIDE DEF start
  <2> DEFINE one == [i \in 0 .. 0 |-> start]
  <2>1. one = [i \in 0 .. 0 |-> one[i]] /\ 0 \in 0 .. n
    OBVIOUS
  <2>2. \A i \in 0 .. 0 : one[i] = IF i = 0 THEN start ELSE Sign(text, one[i - 1], i)
    OBVIOUS
  <2> HIDE DEF one
  <2>3. one = [i \in 0 .. 0 |-> IF i = 0 THEN start ELSE Sign(text, one[i - 1], i)]
    BY <2>1, <2>2
  <2>4. Endings(text, 0, one)
    BY <2>3 DEF Endings, start
  <2> QED BY <2>1, <2>4
<1>2. ASSUME NEW k \in 0 .. n - 1, k \in T
      PROVE  k + 1 \in T
  <2>1. PICK less : Endings(text, k, less)
    BY <1>2
  <2> DEFINE m == k + 1
             more == [i \in 0 .. m |-> IF i = m THEN Sign(text, less[k], m) ELSE less[i]]
  <2> HIDE DEF start
  <2>2. ASSUME NEW i \in 0 .. m
        PROVE  more[i] = IF i = 0 THEN start ELSE Sign(text, more[i - 1], i)
    <3>1. i # m => i \in 0 .. k
      OBVIOUS
    <3>2. i # 0 => i - 1 \in 0 .. k /\ i - 1 # m /\ i - 1 \in 0 .. m
      OBVIOUS
    <3>3. i # 0 => more[i - 1] = less[i - 1]
      BY <3>2
    <3>4. i # m => less[i] = IF i = 0 THEN start ELSE Sign(text, less[i - 1], i)
      BY <2>1, <3>1, Zenon DEF Endings, start
    <3>5. CASE i = m
      <4>1. more[i] = Sign(text, less[k], m)
        BY <3>5
      <4>2. k = i - 1 /\ i # 0
        BY <3>5
      <4> HIDE DEF more
      <4> QED BY <3>3, <3>5, <4>1, <4>2
    <3>6. CASE i # m
      <4>1. more[i] = less[i]
        BY <3>6
      <4> QED BY <3>3, <3>4, <3>6, <4>1, Zenon
    <3> QED BY <3>5, <3>6
  <2>3. more = [i \in 0 .. m |-> more[i]]
    OBVIOUS
  <2> HIDE DEF more
  <2>4. more = [i \in 0 .. m |-> IF i = 0 THEN start ELSE Sign(text, more[i - 1], i)]
    BY <2>2, <2>3
  <2>5. Endings(text, m, more)
    BY <2>4, Zenon DEF Endings, start
  <2>6. m \in 0 .. n
    OBVIOUS
  <2> QED BY <2>5, <2>6
<1> HIDE DEF T
<1>3. \A k \in 0 .. n : k \in T
  BY <1>1, <1>2, UpTo
<1>4. n \in T
  BY <1>3
<1> QED BY <1>4 DEF T


LEMMA LinesAre ==
    ASSUME NEW V, NEW fields, Text(fields) \in Seq(V)
    PROVE  LET text == Text(fields)
               end == CHOOSE e : Endings(text, Len(text), e)
           IN  /\ RecordLines(fields) = end[Len(text)] /\ end[0] = <<<<>>>>
               /\ \A i \in 1 .. Len(text) : end[i] = Sign(text, end[i - 1], i)
<1> DEFINE text == Text(fields)
           n == Len(text)
           end == CHOOSE e : Endings(text, n, e)
<1>1. RecordLines(fields) = end[n]
  BY Zenon DEF RecordLines, Text, Parts, Endings, Sign
<1> HIDE DEF text
<1>2. n \in Nat
  BY DEF text
<1>3. Endings(text, n, end)
  BY <1>2, EndingsExist
<1> HIDE DEF end
<1>4. \A i \in 0 .. n : end[i] = IF i = 0 THEN <<<<>>>> ELSE Sign(text, end[i - 1], i)
  BY <1>3, Zenon DEF Endings
<1>5. end[0] = <<<<>>>>
  <2>1. 0 \in 0 .. n
    BY <1>2
  <2> QED BY <1>4, <2>1, Zenon
<1>6. ASSUME NEW i \in 1 .. n PROVE end[i] = Sign(text, end[i - 1], i)
  <2>1. i \in 0 .. n /\ i # 0
    BY <1>2
  <2> QED BY <1>4, <2>1, Zenon
<1> QED BY <1>1, <1>5, <1>6 DEF end, text

\* A record with no end of line in it is one line.
LEMMA OneLine ==
    ASSUME NEW V, NewLine \notin V, NEW fields, Text(fields) \in Seq(V)
    PROVE  RecordLines(fields) = <<Text(fields)>>
<1> DEFINE text == Text(fields)
           n == Len(text)
           end == CHOOSE e : Endings(text, n, e)
<1>1. /\ RecordLines(fields) = end[n] /\ end[0] = <<<<>>>>
      /\ \A i \in 1 .. n : end[i] = Sign(text, end[i - 1], i)
  BY LinesAre
<1>2. text \in Seq(V) /\ n \in Nat
  OBVIOUS
<1> HIDE DEF text, end
<1> DEFINE T == {i \in 0 .. n : end[i] = <<SubSeq(text, 1, i)>>}
<1>3. 0 \in T
  <2>1. SubSeq(text, 1, 0) = <<>> /\ 0 \in 0 .. n
    BY <1>2, Whole
  <2> QED BY <1>1, <2>1, Zenon
<1>4. ASSUME NEW i \in 0 .. n - 1, i \in T
      PROVE  i + 1 \in T
  <2>1. i + 1 \in 1 .. n /\ i + 1 \in 0 .. n /\ (i + 1) - 1 = i
    BY <1>2
  <2>2. text[i + 1] # NewLine
    BY <1>2, <2>1
  <2>3. end[i + 1] = Sign(text, <<SubSeq(text, 1, i)>>, i + 1)
    BY <1>1, <1>4, <2>1
  <2>4. \A s, x : [<<s>> EXCEPT ![Len(<<s>>)] = Append(@, x)] = <<Append(s, x)>>
    OBVIOUS
  <2>5. Sign(text, <<SubSeq(text, 1, i)>>, i + 1) = <<Append(SubSeq(text, 1, i), text[i + 1])>>
    BY <2>2, <2>4, Zenon DEF Sign
  <2>6. Append(SubSeq(text, 1, i), text[i + 1]) = SubSeq(text, 1, i + 1)
    BY <1>2, PrefixGrows, Zenon
  <2>7. end[i + 1] = <<SubSeq(text, 1, i + 1)>>
    BY <2>3, <2>5, <2>6, Zenon
  <2> QED BY <2>1, <2>7
<1> HIDE DEF T
<1>5. \A i \in 0 .. n : i \in T
  BY <1>2, <1>3, <1>4, UpTo
<1>6. n \in T
  BY <1>2, <1>5
<1>7. end[n] = <<SubSeq(text, 1, n)>>
  BY <1>6 DEF T
<1>8. SubSeq(text, 1, n) = text
  BY <1>2, Whole
<1> QED BY <1>1, <1>7, <1>8, Zenon DEF text

\* A record is at least one line, whatever is in it.
LEMMA SomeLines ==
    ASSUME NEW V, NEW fields, Text(fields) \in Seq(V)
    PROVE  RecordLines(fields) \in Seq(Seq(V)) /\ Len(RecordLines(fields)) > 0
<1> DEFINE text == Text(fields)
           n == Len(text)
           end == CHOOSE e : Endings(text, n, e)
           Some == {out \in Seq(Seq(V)) : Len(out) > 0}
<1>1. /\ RecordLines(fields) = end[n] /\ end[0] = <<<<>>>>
      /\ \A i \in 1 .. n : end[i] = Sign(text, end[i - 1], i)
  BY LinesAre
<1>2. text \in Seq(V) /\ n \in Nat
  OBVIOUS
<1> HIDE DEF text, end
<1> DEFINE T == {i \in 0 .. n : end[i] \in Some}
<1>3. 0 \in T
  <2>1. <<<<>>>> \in Some /\ 0 \in 0 .. n
    BY <1>2
  <2> QED BY <1>1, <2>1, Zenon
<1>4. ASSUME NEW i \in 0 .. n - 1, i \in T
      PROVE  i + 1 \in T
  <2>1. i + 1 \in 1 .. n /\ i + 1 \in 0 .. n /\ (i + 1) - 1 = i
    BY <1>2
  <2>2. text[i + 1] \in V
    BY <1>2, <2>1
  <2>3. end[i + 1] = Sign(text, end[i], i + 1)
    BY <1>1, <2>1
  <2>4. ASSUME NEW out \in Some, NEW x \in V
        PROVE  Append(out, <<>>) \in Some /\ [out EXCEPT ![Len(out)] = Append(@, x)] \in Some
    <3>1. <<>> \in Seq(V) /\ Len(out) \in DOMAIN out
      OBVIOUS
    <3>2. Append(out[Len(out)], x) \in Seq(V)
      BY <3>1
    <3> QED BY <3>1, <3>2
  <2>5. Sign(text, end[i], i + 1) \in Some
    BY <1>4, <2>2, <2>4, Zenon DEF Sign
  <2> QED BY <2>1, <2>3, <2>5
<1> HIDE DEF T
<1>5. \A i \in 0 .. n : i \in T
  BY <1>2, <1>3, <1>4, UpTo
<1>6. n \in T
  BY <1>2, <1>5
<1> QED BY <1>1, <1>6 DEF T

\* A record of several fields is not an empty line.
LEMMA NotBlank ==
    ASSUME NEW V, Quote \in V, Comma \in V, NEW fields \in Seq(Seq(V)), Len(fields) > 1
    PROVE  Text(fields) # <<>>
<1> DEFINE parts == Parts(fields)
<1>1. parts \in Seq(Seq(V)) /\ Len(parts) = Len(fields) /\ Longer(<<Comma>>, Field(fields[2]), parts[2])
  <2>1. 2 \in 1 .. Len(fields) /\ 2 # 1
    OBVIOUS
  <2> QED BY <2>1, PartsAre, Zenon
<1>2. Field(fields[2]) \in Seq(V)
  BY FieldType
<1> HIDE DEF parts
<1>3. Text(fields) \in Seq(V) /\ \E pos \in [0 .. Len(parts) -> Nat] : Places(parts, Text(fields), pos)
  BY <1>1, FlatPlaces, Zenon DEF Text, parts
<1>4. PICK pos \in [0 .. Len(parts) -> Nat] : Places(parts, Text(fields), pos)
  BY <1>3
<1>5. pos[2] = pos[2 - 1] + Len(parts[2]) /\ pos[2] <= Len(Text(fields))
  <2>1. 2 \in 1 .. Len(parts)
    BY <1>1
  <2> QED BY <1>4, <2>1, Zenon DEF Places
<1>6. Len(parts[2]) = 1 + Len(Field(fields[2]))
  <2>1. Len(<<Comma>>) = 1
    OBVIOUS
  <2> QED BY <1>1, <2>1, Zenon DEF Longer
<1>7. pos[1] \in Nat /\ Len(Field(fields[2])) \in Nat /\ 2 - 1 = 1
  <2>1. 1 \in 0 .. Len(parts)
    BY <1>1
  <2>2. pos[1] \in Nat
    BY <2>1
  <2>3. Len(Field(fields[2])) \in Nat
    BY <1>2
  <2> QED BY <2>2, <2>3
<1>8. Len(Text(fields)) # 0
  <2>1. \A a, b \in Nat : \A c : c = a + (1 + b) /\ c <= Len(Text(fields)) => Len(Text(fields)) # 0
    OBVIOUS
  <2> QED BY <1>5, <1>6, <1>7, <2>1, Zenon
<1> QED BY <1>8

-----------------------------------------------------------------------------
(* What the ledger writes                                                     *)

Marks == Signs \cup {Comma, Quote, "event_id", "type", "charge_id", "merchant_id", "amount", "currency",
                    "created_at", "evt", "ch", "m", "at", "-", "0", "1", "1.50", "INR",
                    "charge.succeeded", "charge.refunded", "charge.disputed"}

Events == {Fields(type, "1", currency, "at") : type \in RowTypes, currency \in Currencies}

LEMMA CurrencyType ==
    ASSUME NEW currency \in Currencies
    PROVE  currency \in Seq(Signs)
<1>1. PICK m \in 0 .. MaxSigns : currency \in [1 .. m -> Signs]
  BY DEF Currencies, SeqOf
<1> QED BY <1>1

LEMMA SevenAre ==
    ASSUME NEW S, NEW a \in S, NEW b \in S, NEW c \in S, NEW d \in S, NEW e \in S, NEW f \in S, NEW g \in S
    PROVE  <<a, b, c, d, e, f, g>> \in Seq(S) /\ Len(<<a, b, c, d, e, f, g>>) = 7
  OBVIOUS

LEMMA SevenFields ==
    ASSUME NEW V, NEW type \in V, NEW amount \in V, NEW currency \in Seq(V), NEW at \in V,
           "evt" \in V, "ch" \in V, "m" \in V
    PROVE  Fields(type, amount, currency, at) \in Seq(Seq(V)) /\ Len(Fields(type, amount, currency, at)) = 7
<1> DEFINE S == Seq(V)
<1>1. /\ <<"evt">> \in S /\ <<type>> \in S /\ <<"ch">> \in S /\ <<"m">> \in S /\ <<amount>> \in S
      /\ currency \in S /\ <<at>> \in S
  OBVIOUS
<1> HIDE DEF S
<1>2. Fields(type, amount, currency, at) \in Seq(S) /\ Len(Fields(type, amount, currency, at)) = 7
  BY <1>1, SevenAre, Zenon DEF Fields
<1> QED BY <1>2 DEF S

LEMMA HeaderType == Header \in Seq(Seq(Marks)) /\ Len(Header) = 7
<1>1. ASSUME NEW i \in 1 .. 7 PROVE Header[i] \in Seq(Marks)
  <2> DEFINE names == <<"event_id", "type", "charge_id", "merchant_id", "amount", "currency", "created_at">>
  <2>1. names[i] \in Marks
    <3>1. i = 1 \/ i = 2 \/ i = 3 \/ i = 4 \/ i = 5 \/ i = 6 \/ i = 7
      OBVIOUS
    <3> QED BY <3>1 DEF Marks
  <2>2. Header[i] = <<names[i]>>
    BY DEF Header
  <2> HIDE DEF names
  <2> QED BY <2>1, <2>2
<1>2. Header = [i \in 1 .. 7 |-> Header[i]]
  BY DEF Header
<1>3. Header \in [1 .. 7 -> Seq(Marks)]
  BY <1>1, <1>2
<1> DEFINE S == Seq(Marks)
<1>4. Header \in [1 .. 7 -> S]
  BY <1>3
<1> HIDE DEF S
<1>5. \A n \in Nat : \A s \in [1 .. n -> S] : s \in Seq(S) /\ Len(s) = n
  BY IsSequence, Zenon
<1>6. 7 \in Nat
  OBVIOUS
<1> QED BY <1>4, <1>5, <1>6, Zenon DEF S

LEMMA SpoiltType ==
    ASSUME NEW fields \in Spoilt
    PROVE  fields \in Seq(Seq(Marks)) /\ Len(fields) > 1
<1>1. CASE fields = Tail(Header)
  <2> DEFINE S == Seq(Marks)
  <2>1. Header \in Seq(S) /\ Len(Header) = 7
    BY HeaderType
  <2> HIDE DEF S
  <2>2. Tail(Header) \in Seq(S) /\ Len(Tail(Header)) = 6
    <3>1. \A s \in Seq(S) : Len(s) = 7 => Tail(s) \in Seq(S) /\ Len(Tail(s)) = 6
      OBVIOUS
    <3> QED BY <2>1, <3>1, Zenon
  <2>3. fields \in Seq(S) /\ Len(fields) = 6
    BY <1>1, <2>2, Zenon
  <2>4. 6 > 1
    OBVIOUS
  <2> QED BY <2>3, <2>4, Zenon DEF S
<1>2. CASE fields # Tail(Header)
  <2>1. PICK type \in Marks, amount \in Marks, at \in Marks : fields = Fields(type, amount, <<"INR">>, at)
    BY <1>2, Zenon DEF Spoilt, Marks
  <2>2. <<"INR">> \in Seq(Marks) /\ "evt" \in Marks /\ "ch" \in Marks /\ "m" \in Marks
    BY DEF Marks
  <2>3. fields \in Seq(Seq(Marks)) /\ Len(fields) = 7
    <3>1. /\ Fields(type, amount, <<"INR">>, at) \in Seq(Seq(Marks))
          /\ Len(Fields(type, amount, <<"INR">>, at)) = 7
      BY <2>2, SevenFields, Zenon
    <3> QED BY <2>1, <3>1, Zenon
  <2> QED BY <2>3
<1> QED BY <1>1, <1>2

LEMMA EventType ==
    ASSUME NEW fields \in Events
    PROVE  fields \in Seq(Seq(Marks)) /\ Len(fields) = 7
<1>1. PICK type \in RowTypes, currency \in Currencies : fields = Fields(type, "1", currency, "at")
  BY DEF Events
<1>2. currency \in Seq(Marks)
  <2>1. currency \in Seq(Signs)
    BY CurrencyType
  <2> QED BY <2>1 DEF Marks
<1>3. type \in Marks /\ "1" \in Marks /\ "at" \in Marks /\ "evt" \in Marks /\ "ch" \in Marks /\ "m" \in Marks
  BY DEF Marks, RowTypes
<1>4. /\ Fields(type, "1", currency, "at") \in Seq(Seq(Marks))
      /\ Len(Fields(type, "1", currency, "at")) = 7
  BY <1>2, <1>3, SevenFields, Zenon
<1> QED BY <1>1, <1>4, Zenon

IsRecord(fields) == fields \in Seq(Seq(Marks)) /\ Len(fields) > 1

LEMMA Records == \A fields \in {Header} \cup Spoilt \cup Events : IsRecord(fields)
<1>1. \A fields : fields \in Seq(Seq(Marks)) /\ Len(fields) = 7 => IsRecord(fields)
  BY DEF IsRecord
<1>2. IsRecord(Header)
  BY <1>1, HeaderType, Zenon
<1>3. \A fields \in Events : IsRecord(fields)
  BY <1>1, EventType, Zenon
<1>4. \A fields \in Spoilt : IsRecord(fields)
  BY SpoiltType, Zenon DEF IsRecord
<1> QED BY <1>2, <1>3, <1>4

LEMMA RecordText ==
    ASSUME NEW fields, IsRecord(fields)
    PROVE  /\ Text(fields) \in Seq(Marks) /\ splitLine(Text(fields)) = fields /\ Text(fields) # <<>>
           /\ RecordLines(fields) \in Seq(Seq(Marks)) /\ Len(RecordLines(fields)) > 0
<1>1. Quote \in Marks /\ Comma \in Marks
  BY DEF Marks
<1>2. fields \in Seq(Seq(Marks)) /\ Len(fields) # 0 /\ Len(fields) > 1
  BY DEF IsRecord
<1>3. Text(fields) \in Seq(Marks) /\ splitLine(Text(fields)) = fields
  BY <1>1, <1>2, SplitUndoesJoin, Zenon
<1>4. Text(fields) # <<>>
  BY <1>1, <1>2, NotBlank, Zenon
<1>5. RecordLines(fields) \in Seq(Seq(Marks)) /\ Len(RecordLines(fields)) > 0
  BY <1>3, SomeLines, Zenon
<1> QED BY <1>3, <1>4, <1>5

Rows == [type : RowTypes \cup {"spoilt", "blank"}, currency : Currencies \cup {<<>>}]

FileShape == FileTypeOK /\ file \in Seq(Seq(Marks))

LEMMA ShapeGrows ==
    ASSUME FileShape, Len(written) < MaxLines, NEW row \in Rows, NEW lines \in Seq(Seq(Marks)),
           Len(lines) > 0, Write(row, lines)
    PROVE  FileShape'
<1>1. written \in Seq(Rows) /\ Len(written) < Len(file) /\ file \in Seq(Seq(Marks))
  BY DEF FileShape, FileTypeOK, Rows
<1>2. written' = Append(written, row) /\ file' = file \o lines
  BY DEF Write
<1>3. written' \in Seq(Rows) /\ Len(written') = Len(written) + 1
  BY <1>1, <1>2
<1>4. file' \in Seq(Seq(Marks)) /\ Len(file') = Len(file) + Len(lines)
  <2> DEFINE S == Seq(Marks)
  <2>1. file \in Seq(S) /\ lines \in Seq(S)
    BY <1>1
  <2> HIDE DEF S
  <2>2. file \o lines \in Seq(S) /\ Len(file \o lines) = Len(file) + Len(lines)
    BY <2>1
  <2> QED BY <1>2, <2>2 DEF S
<1>5. Len(written) \in Nat /\ Len(file) \in Nat /\ Len(lines) \in Nat
  BY <1>1
<1>6. Len(written') < Len(file') /\ Len(written') <= MaxLines
  <2>1. MaxLines \in Nat
    BY FileAssumption
  <2>2. \A a, b, c, m \in Nat : a < b /\ a < m /\ c > 0 => a + 1 < b + c /\ a + 1 <= m
    OBVIOUS
  <2> QED BY <1>1, <1>3, <1>4, <1>5, <2>1, <2>2, Zenon
<1> QED BY <1>3, <1>4, <1>6 DEF FileShape, FileTypeOK, Rows

LEMMA FileSteps ==
    ASSUME FileNext
    PROVE  /\ Len(written) < MaxLines
           /\ \/ \E type \in RowTypes, currency \in Currencies :
                   Write(Row(type, currency), RecordLines(Fields(type, "1", currency, "at")))
              \/ \E fields \in Spoilt : Write(Row("spoilt", <<>>), RecordLines(fields))
              \/ Write(Row("blank", <<>>), <<<<>>>>)
  BY DEF FileNext

LEMMA ShapeKept ==
    ASSUME FileShape, [FileNext]_csvVars
    PROVE  FileShape'
<1>1. CASE FileNext
  <2>0. Len(written) < MaxLines
    BY <1>1, FileSteps
  <2>1. ASSUME NEW type \in RowTypes, NEW currency \in Currencies,
               Write(Row(type, currency), RecordLines(Fields(type, "1", currency, "at")))
        PROVE  FileShape'
    <3>1. Row(type, currency) \in Rows
      BY DEF Row, Rows
    <3>2. IsRecord(Fields(type, "1", currency, "at"))
      BY Records DEF Events
    <3>3. /\ RecordLines(Fields(type, "1", currency, "at")) \in Seq(Seq(Marks))
          /\ Len(RecordLines(Fields(type, "1", currency, "at"))) > 0
      BY <3>2, RecordText, Zenon
    <3> QED BY <2>0, <2>1, <3>1, <3>3, ShapeGrows
  <2>2. ASSUME NEW fields \in Spoilt, Write(Row("spoilt", <<>>), RecordLines(fields))
        PROVE  FileShape'
    <3>1. Row("spoilt", <<>>) \in Rows
      BY DEF Row, Rows
    <3>2. RecordLines(fields) \in Seq(Seq(Marks)) /\ Len(RecordLines(fields)) > 0
      BY Records, RecordText
    <3> QED BY <2>0, <2>2, <3>1, <3>2, ShapeGrows
  <2>3. ASSUME Write(Row("blank", <<>>), <<<<>>>>)
        PROVE  FileShape'
    <3>1. Row("blank", <<>>) \in Rows
      BY DEF Row, Rows
    <3>2. <<<<>>>> \in Seq(Seq(Marks)) /\ Len(<<<<>>>>) > 0
      OBVIOUS
    <3> QED BY <2>0, <2>3, <3>1, <3>2, ShapeGrows
  <2> QED BY <1>1, <2>1, <2>2, <2>3, FileSteps
<1>2. CASE UNCHANGED csvVars
  BY <1>2 DEF csvVars, FileShape, FileTypeOK
<1> QED BY <1>1, <1>2

LEMMA ShapeFirst == FileInit => FileShape
<1> SUFFICES ASSUME FileInit PROVE FileShape
  OBVIOUS
<1>1. written = <<>> /\ file = RecordLines(Header)
  BY DEF FileInit
<1>2. file \in Seq(Seq(Marks)) /\ Len(file) > 0
  BY <1>1, Records, RecordText
<1>3. written \in Seq(Rows) /\ Len(written) = 0
  BY <1>1
<1> QED BY <1>2, <1>3, FileAssumption DEF FileShape, FileTypeOK, Rows

\* The file has the types its reader relies on, whatever currencies are made of.
THEOREM FileTypeCorrect == FileSpec => []FileTypeOK
<1>1. FileShape => FileTypeOK
  BY DEF FileShape
<1> QED BY <1>1, ShapeFirst, ShapeKept, PTL DEF FileSpec

-----------------------------------------------------------------------------
(* What the engine reads of it                                                *)

\* A line says what a row is.
Says(row, line) ==
    \/ /\ row.type \in RowTypes /\ line # <<>>
       /\ splitLine(line) = Fields(row.type, "1", row.currency, "at")
    \/ row.type = "spoilt" /\ line # <<>> /\ splitLine(line) \in Spoilt
    \/ row.type = "blank" /\ line = <<>>

LineForRow == /\ Len(file) = Len(written) + 1 /\ file[1] # <<>> /\ splitLine(file[1]) = Header
              /\ \A k \in 1 .. Len(written) : Says(written[k], file[k + 1])

FileInv == FileShape /\ LineForRow

\* a record is a line that gives back its fields
LEMMA RecordIsLine ==
    ASSUME NewLine \notin Signs, NEW fields, IsRecord(fields)
    PROVE  \E line : RecordLines(fields) = <<line>> /\ line # <<>> /\ splitLine(line) = fields
<1>1. /\ Text(fields) \in Seq(Marks) /\ splitLine(Text(fields)) = fields /\ Text(fields) # <<>>
  BY RecordText
<1>2. NewLine \notin Marks
  BY DEF Marks, NewLine, Comma, Quote
<1>3. RecordLines(fields) = <<Text(fields)>>
  BY <1>1, <1>2, OneLine, Zenon
<1> QED BY <1>1, <1>3

LEMMA LineAdded ==
    ASSUME FileInv, NEW row, NEW line, Says(row, line), Write(row, <<line>>)
    PROVE  LineForRow'
<1>1. written \in Seq(Rows) /\ file \in Seq(Seq(Marks)) /\ Len(file) = Len(written) + 1
  BY DEF FileInv, FileShape, FileTypeOK, LineForRow, Rows
<1> DEFINE n == Len(written)
           w == Append(written, row)
           l == file \o <<line>>
<1>2. written' = w /\ file' = l
  BY DEF Write
<1>3. n \in Nat /\ Len(w) = n + 1 /\ w[n + 1] = row /\ \A k \in 1 .. n : w[k] = written[k]
  BY <1>1
<1>4. Len(l) = (n + 1) + 1 /\ l[(n + 1) + 1] = line /\ \A k \in 1 .. n + 1 : l[k] = file[k]
  <2> DEFINE S == Seq(Marks)
  <2>1. file \in Seq(S)
    BY <1>1
  <2> HIDE DEF S
  <2>2. \A s \in Seq(S) : /\ Len(s \o <<line>>) = Len(s) + 1 /\ (s \o <<line>>)[Len(s) + 1] = line
                         /\ \A k \in 1 .. Len(s) : (s \o <<line>>)[k] = s[k]
    OBVIOUS
  <2>3. /\ Len(l) = Len(file) + 1 /\ l[Len(file) + 1] = line
        /\ \A k \in 1 .. Len(file) : l[k] = file[k]
    BY <2>1, <2>2, Zenon
  <2> QED BY <1>1, <2>3, Zenon
<1> HIDE DEF w, l
<1>5. file[1] # <<>> /\ splitLine(file[1]) = Header /\ \A k \in 1 .. n : Says(written[k], file[k + 1])
  BY DEF FileInv, LineForRow
<1>6. l[1] = file[1]
  BY <1>3, <1>4
<1>7. ASSUME NEW k \in 1 .. n + 1 PROVE Says(w[k], l[k + 1])
  <2>1. CASE k = n + 1
    BY <1>3, <1>4, <2>1
  <2>2. CASE k # n + 1
    <3>1. k \in 1 .. n /\ k + 1 \in 1 .. n + 1
      BY <1>3, <2>2
    <3>2. w[k] = written[k] /\ l[k + 1] = file[k + 1]
      BY <1>3, <1>4, <3>1
    <3> QED BY <1>5, <3>1, <3>2
  <2> QED BY <2>1, <2>2
<1>8. Len(l) = Len(w) + 1 /\ l[1] # <<>> /\ splitLine(l[1]) = Header
      /\ \A k \in 1 .. Len(w) : Says(w[k], l[k + 1])
  BY <1>3, <1>4, <1>5, <1>6, <1>7, Zenon
<1> QED BY <1>2, <1>8, Zenon DEF LineForRow, Says

LEMMA FileKept ==
    ASSUME NewLine \notin Signs, FileInv, [FileNext]_csvVars
    PROVE  FileInv'
<1>0. FileShape'
  BY ShapeKept DEF FileInv
<1>1. CASE FileNext
  <2>1. ASSUME NEW type \in RowTypes, NEW currency \in Currencies,
               Write(Row(type, currency), RecordLines(Fields(type, "1", currency, "at")))
        PROVE  LineForRow'
    <3> DEFINE fields == Fields(type, "1", currency, "at")
               row == Row(type, currency)
    <3>1. IsRecord(fields)
      BY Records DEF Events
    <3>2. fields = Fields(row.type, "1", row.currency, "at") /\ row.type \in RowTypes
      BY DEF Row
    <3> HIDE DEF fields, row
    <3>3. PICK line : RecordLines(fields) = <<line>> /\ line # <<>> /\ splitLine(line) = fields
      BY <3>1, RecordIsLine
    <3>4. Says(row, line)
      BY <3>2, <3>3, Zenon DEF Says
    <3>5. Write(row, <<line>>)
      BY <2>1, <3>3, Zenon DEF fields, row
    <3> QED BY <3>4, <3>5, LineAdded
  <2>2. ASSUME NEW fields \in Spoilt, Write(Row("spoilt", <<>>), RecordLines(fields))
        PROVE  LineForRow'
    <3>1. IsRecord(fields)
      BY Records
    <3>3. PICK line : RecordLines(fields) = <<line>> /\ line # <<>> /\ splitLine(line) = fields
      BY <3>1, RecordIsLine
    <3>4. Says(Row("spoilt", <<>>), line)
      BY <3>3 DEF Says, Row
    <3>5. Write(Row("spoilt", <<>>), <<line>>)
      BY <2>2, <3>3, Zenon
    <3> QED BY <3>4, <3>5, LineAdded
  <2>3. ASSUME Write(Row("blank", <<>>), <<<<>>>>)
        PROVE  LineForRow'
    <3>1. Says(Row("blank", <<>>), <<>>)
      BY DEF Says, Row
    <3> QED BY <2>3, <3>1, LineAdded
  <2> QED BY <1>0, <1>1, <2>1, <2>2, <2>3, FileSteps DEF FileInv
<1>2. CASE UNCHANGED csvVars
  <2>1. written' = written /\ file' = file
    BY <1>2 DEF csvVars
  <2> QED BY <1>0, <2>1, Zenon DEF FileInv, LineForRow, Says
<1> QED BY <1>1, <1>2

LEMMA FileFirst ==
    ASSUME NewLine \notin Signs, FileInit
    PROVE  FileInv
<1>1. written = <<>> /\ file = RecordLines(Header)
  BY DEF FileInit
<1>2. PICK line : RecordLines(Header) = <<line>> /\ line # <<>> /\ splitLine(line) = Header
  <2>1. IsRecord(Header)
    BY Records
  <2> QED BY <2>1, RecordIsLine
<1>3. file = <<line>>
  BY <1>1, <1>2, Zenon
<1>4. Len(file) = 1 /\ file[1] = line
  BY <1>3
<1>5. Len(written) = 0
  BY <1>1
<1>6. LineForRow
  BY <1>2, <1>4, <1>5 DEF LineForRow
<1> QED BY <1>6, ShapeFirst DEF FileInv

LEMMA EventParsed ==
    ASSUME NEW type \in RowTypes, NEW currency
    PROVE  /\ parseRow(Fields(type, "1", currency, "at")) = Row(type, currency)
           /\ Row(type, currency) # Rejected
<1>1. \A a, b, c, d, e, f, g : /\ Len(<<a, b, c, d, e, f, g>>) = 7 /\ <<a, b, c, d, e, f, g>>[2] = b
                              /\ <<a, b, c, d, e, f, g>>[5] = e /\ <<a, b, c, d, e, f, g>>[6] = f
                              /\ <<a, b, c, d, e, f, g>>[7] = g
  OBVIOUS
<1> DEFINE s == Fields(type, "1", currency, "at")
<1>2. Len(s) = 7 /\ s[2] = <<type>> /\ s[5] = <<"1">> /\ s[6] = currency /\ s[7] = <<"at">>
  BY <1>1, Zenon DEF Fields
<1> HIDE DEF s
<1>3. <<type>> \in {<<"charge.succeeded">>, <<"charge.refunded">>} /\ <<type>>[1] = type
  BY DEF RowTypes
<1>4. parseRow(s) = Row(s[2][1], s[6])
  BY <1>2, <1>3, Zenon DEF parseRow
<1>5. Row(type, currency) # Rejected
  BY DEF Row, Rejected, RowTypes
<1> QED BY <1>2, <1>3, <1>4, <1>5, Zenon DEF s

LEMMA SpoiltRejected ==
    ASSUME NEW fields \in Spoilt
    PROVE  parseRow(fields) = Rejected
<1>1. CASE fields = Tail(Header)
  <2> DEFINE S == Seq(Marks)
  <2>1. Len(Header) = 7 /\ Header \in Seq(S)
    BY HeaderType
  <2> HIDE DEF S
  <2>2. \A s \in Seq(S) : Len(s) = 7 => Tail(s) \in Seq(S) /\ Len(Tail(s)) = 6
    OBVIOUS
  <2>4. 6 # 7
    OBVIOUS
  <2>3. Len(Tail(Header)) # 7
    BY <2>1, <2>2, <2>4, Zenon
  <2> QED BY <1>1, <2>3, Zenon DEF parseRow
<1>2. CASE fields # Tail(Header)
  <2>1. \A a, b, c, d, e, f, g : /\ <<a, b, c, d, e, f, g>>[2] = b /\ <<a, b, c, d, e, f, g>>[5] = e
                                /\ <<a, b, c, d, e, f, g>>[7] = g
    OBVIOUS
  <2>2. \/ fields[2] = <<"charge.disputed">> \/ fields[5] = <<"0">> \/ fields[5] = <<"1.50">> \/ fields[7] = <<"-">>
    <3>1. \A type, amount, currency, at :
            /\ Fields(type, amount, currency, at)[2] = <<type>>
            /\ Fields(type, amount, currency, at)[5] = <<amount>>
            /\ Fields(type, amount, currency, at)[7] = <<at>>
      BY <2>1, Zenon DEF Fields
    <3>2. \/ fields = Fields("charge.disputed", "1", <<"INR">>, "at")
          \/ fields = Fields("charge.refunded", "0", <<"INR">>, "at")
          \/ fields = Fields("charge.refunded", "1.50", <<"INR">>, "at")
          \/ fields = Fields("charge.refunded", "1", <<"INR">>, "-")
      BY <1>2, Zenon DEF Spoilt
    <3>3. CASE fields = Fields("charge.disputed", "1", <<"INR">>, "at")
      <4>1. fields[2] = <<"charge.disputed">>
        BY <3>1, <3>3, Zenon
      <4> QED BY <4>1
    <3>4. CASE fields = Fields("charge.refunded", "0", <<"INR">>, "at")
      <4>1. fields[5] = <<"0">>
        BY <3>1, <3>4, Zenon
      <4> QED BY <4>1
    <3>5. CASE fields = Fields("charge.refunded", "1.50", <<"INR">>, "at")
      <4>1. fields[5] = <<"1.50">>
        BY <3>1, <3>5, Zenon
      <4> QED BY <4>1
    <3>6. CASE fields = Fields("charge.refunded", "1", <<"INR">>, "-")
      <4>1. fields[7] = <<"-">>
        BY <3>1, <3>6, Zenon
      <4> QED BY <4>1
    <3> QED BY <3>2, <3>3, <3>4, <3>5, <3>6, Zenon
  <2>3. /\ <<"charge.disputed">> \notin {<<"charge.succeeded">>, <<"charge.refunded">>}
        /\ <<"0">> # <<"1">> /\ <<"1.50">> # <<"1">> /\ <<"-">> # <<"at">>
    OBVIOUS
  <2> QED BY <2>2, <2>3, Zenon DEF parseRow
<1> QED BY <1>1, <1>2

\* Each row is read as it was written, or named as bad, or not a line at all.
LEMMA SaidIsRead ==
    ASSUME NEW row \in Rows, NEW line, Says(row, line)
    PROVE  /\ row.type \in RowTypes => line # <<>> /\ parseRow(splitLine(line)) = row /\ row # Rejected
           /\ row.type = "spoilt" => line # <<>> /\ parseRow(splitLine(line)) = Rejected
           /\ row.type = "blank" => line = <<>>
           /\ row.type \in RowTypes \/ row.type = "spoilt" \/ row.type = "blank"
<1>1. "spoilt" \notin RowTypes /\ "blank" \notin RowTypes /\ "spoilt" # "blank"
  BY DEF RowTypes
<1>2. row = Row(row.type, row.currency)
  BY DEF Rows, Row
<1>3. CASE row.type \in RowTypes
  <2>1. line # <<>> /\ splitLine(line) = Fields(row.type, "1", row.currency, "at")
    BY <1>1, <1>3 DEF Says
  <2>2. /\ parseRow(Fields(row.type, "1", row.currency, "at")) = Row(row.type, row.currency)
        /\ Row(row.type, row.currency) # Rejected
    BY <1>3, EventParsed
  <2>3. parseRow(splitLine(line)) = row /\ row # Rejected
    BY <1>2, <2>1, <2>2, Zenon
  <2> QED BY <1>1, <1>3, <2>1, <2>3
<1>4. CASE row.type = "spoilt"
  <2>1. line # <<>> /\ splitLine(line) \in Spoilt
    BY <1>1, <1>4 DEF Says
  <2> QED BY <1>1, <1>4, <2>1, SpoiltRejected
<1>5. CASE row.type = "blank"
  BY <1>1, <1>5 DEF Says
<1> QED BY <1>3, <1>4, <1>5 DEF Rows

\* While the lines stand for the rows, the file is read as it was written.
LEMMA LinesRead ==
    ASSUME FileInv
    PROVE  ReadAsWritten
<1> DEFINE n == Len(written)
           kept == {k \in DOMAIN file : file[k] # <<>>}
           tail == kept \ {Min(kept)}
           bad == {k \in tail : parseRow(splitLine(file[k])) = Rejected}
<1>1. /\ written \in Seq(Rows) /\ Len(file) = n + 1 /\ file \in Seq(Seq(Marks)) /\ n \in Nat
      /\ file[1] # <<>> /\ splitLine(file[1]) = Header
  BY DEF FileInv, FileShape, FileTypeOK, LineForRow, Rows
<1>2. DOMAIN file = 1 .. n + 1 /\ DOMAIN written = 1 .. n
  BY <1>1
<1>3. Min(kept) = 1
  <2>1. 1 \in kept /\ \A k \in kept : k \in Nat /\ 1 <= k
    BY <1>1, <1>2
  <2> HIDE DEF kept
  <2>2. \E x \in kept : \A y \in kept : x =< y
    BY <2>1
  <2>3. Min(kept) \in kept /\ \A y \in kept : Min(kept) =< y
    BY <2>2 DEF Min
  <2> QED BY <2>1, <2>3
<1>4. tail = {k \in 2 .. n + 1 : file[k] # <<>>}
  <2>1. kept = {k \in 1 .. n + 1 : file[k] # <<>>}
    BY <1>2, Zenon
  <2>2. tail = {k \in 1 .. n + 1 : file[k] # <<>>} \ {1}
    BY <1>3, <2>1, Zenon
  <2>3. \A k : k \in 2 .. n + 1 <=> k \in 1 .. n + 1 /\ k # 1
    BY <1>1
  <2> HIDE DEF tail
  <2> QED BY <2>2, <2>3
<1>5. ASSUME NEW k \in 2 .. n + 1
      PROVE  LET row == written[k - 1] IN
             /\ k - 1 \in 1 .. n
             /\ row.type \in RowTypes => file[k] # <<>> /\ parseRow(splitLine(file[k])) = row /\ row # Rejected
             /\ row.type = "spoilt" => file[k] # <<>> /\ parseRow(splitLine(file[k])) = Rejected
             /\ row.type = "blank" => file[k] = <<>>
             /\ row.type \in RowTypes \/ row.type = "spoilt" \/ row.type = "blank"
  <2>1. k - 1 \in 1 .. n /\ (k - 1) + 1 = k
    BY <1>1
  <2>2. Says(written[k - 1], file[k])
    BY <2>1 DEF FileInv, LineForRow
  <2>3. written[k - 1] \in Rows
    BY <1>1, <2>1
  <2> QED BY <2>1, <2>2, <2>3, SaidIsRead, Zenon
<1>6. "spoilt" \notin RowTypes /\ "blank" \notin RowTypes /\ "spoilt" # "blank"
  BY DEF RowTypes
<1>7. \A types : LinesOf(types) = {k \in 2 .. n + 1 : written[k - 1].type \in types}
  <2> TAKE types
  <2>1. LinesOf(types) = {i + 1 : i \in {k \in 1 .. n : written[k].type \in types}}
    BY <1>2, Zenon DEF LinesOf
  <2>2. \A i \in 1 .. n : i + 1 \in 2 .. n + 1 /\ (i + 1) - 1 = i
    BY <1>1
  <2>3. \A k \in 2 .. n + 1 : k - 1 \in 1 .. n /\ (k - 1) + 1 = k
    BY <1>1
  <2> QED BY <2>1, <2>2, <2>3
<1> HIDE DEF kept, tail
<1>8. bad = LinesOf({"spoilt"})
  BY <1>4, <1>5, <1>6, <1>7
<1>9. tail \ bad = LinesOf(RowTypes)
  BY <1>4, <1>5, <1>6, <1>7
<1>10. \A k \in tail \ bad : parseRow(splitLine(file[k])) = written[k - 1]
  BY <1>4, <1>5, <1>6, <1>7, <1>9
<1> HIDE DEF bad
<1>11. kept # {} /\ splitLine(file[Min(kept)]) = Header
  BY <1>1, <1>2, <1>3 DEF kept
<1>12. parseEvents(file) = [events |-> [k \in tail \ bad |-> parseRow(splitLine(file[k]))], bad |-> bad]
  BY <1>11, Zenon DEF parseEvents, kept, tail, bad
<1>13. [k \in tail \ bad |-> parseRow(splitLine(file[k]))] = [k \in LinesOf(RowTypes) |-> written[k - 1]]
  BY <1>9, <1>10
<1> QED BY <1>8, <1>12, <1>13 DEF ReadAsWritten

\* What the ledger writes the engine reads: whatever commas and quotes are in a
\* currency, as long as it has no end of line.
THEOREM WrittenIsRead ==
    ASSUME NewLine \notin Signs
    PROVE  FileSpec => []ReadAsWritten
<1>1. FileInit => FileInv
  BY FileFirst
<1>2. FileInv /\ [FileNext]_csvVars => FileInv'
  BY FileKept
<1>3. FileInv => ReadAsWritten
  BY LinesRead
<1> QED BY <1>1, <1>2, <1>3, PTL DEF FileSpec
=============================================================================
