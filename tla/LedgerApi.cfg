SPECIFICATION Spec
CONSTANTS
  c1 = c1
  c2 = c2
  m1 = m1
  a = a
  b = b
  k1 = k1
  k2 = k2
  ChargeIds = {c1, c2}
  Merchants = {m1}
  NoMerchant = NoMerchant
  CustomerFunds = CustomerFunds
  Half = 8
  ChargeCap = 3
  Amounts = {0, 1, 2, 3}
  MaxEvents = 3
  Calls = {a, b}
  Keys = {k1, k2}
  Requests <- Mixed
  NoRequest = NoRequest
  MaxRetries = 1
INVARIANTS
  ToldTheTruth
  WaitersHaveRunner
PROPERTIES
  ImplementsIdempotentCalls
SYMMETRY Symmetry
CHECK_DEADLOCK FALSE
