SPECIFICATION PaymentsSpec
CONSTANTS
  c1 = c1
  c2 = c2
  c3 = c3
  m1 = m1
  m2 = m2
  d1 = d1
  d2 = d2
  ChargeIds = {c1, c2, c3}
  Merchants = {m1, m2}
  NoMerchant = NoMerchant
  CustomerFunds = CustomerFunds
  Half = 16
  ChargeCap = 6
  Amounts = {1, 6}
  MaxEvents = 5
  Days = {d1, d2}
  Unit = 4
  PercentBps = 1
  Fixed = 1
  ReserveBps = 2
  Signs = {"INR", ",", "quote"}
  MaxSigns = 3
  MaxLines = 2
INVARIANTS
  RefundedInRange
  BooksAgree
  TotalsAreBalances
  ReadAsWritten
SYMMETRY Symmetry
CHECK_DEADLOCK FALSE
