SPECIFICATION LedgerSpec
CONSTANTS
  c1 = c1
  c2 = c2
  m1 = m1
  m2 = m2
  ChargeIds = {c1, c2}
  Merchants = {m1, m2}
  NoMerchant = NoMerchant
  CustomerFunds = CustomerFunds
  Half = 8
  ChargeCap = 3
  Amounts <- WideAmounts
  MaxEvents = 4
INVARIANTS
  RefundsBounded
SYMMETRY Symmetry
CHECK_DEADLOCK FALSE
