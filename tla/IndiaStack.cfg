SPECIFICATION StackSpec
CONSTANTS
  w1 = w1
  w2 = w2
  c1 = c1
  c2 = c2
  k1 = k1
  s1 = s1
  s2 = s2
  m1 = m1
  r1 = r1
  r2 = r2
  NoKey = NoKey
  NoService = NoService
  NoCollect = NoCollect
  NoMandate = NoMandate
  Threads = {w1, w2}
  MaxTime = 2
  Collects = {c1, c2}
  Keys = {k1}
  Services = {s1, s2}
  Warm = FALSE
  TTL = 1
  Mandates = {m1}
  Refs = {r1, r2}
  Amounts = {1, 2}
  Notice = 1
  Valid = 1
  Digits = 12
  _D <- TableD
  _P <- TableP
  _INV <- TableINV
  Opening = 1
  Dates = 6
  DaysAMonth = 2
  Kinds <- KindsOfRow
  MaxRows = 3
INVARIANTS
  CheckDigitsWork
  FiguresAreTheAccounts
  OneCollectPerKeyAndService
  RefsOnce
PROPERTIES
  EndedStays
  LateApprovalsFail
  ClosedStaysUndebited
SYMMETRY Symmetry
