SPECIFICATION Spec
CONSTANTS
  w1 = w1
  w2 = w2
  p1 = p1
  auth = auth
  void = void
  capt = capt
  part = part
  full = full
  garbled = garbled
  ping = ping
  NoWorker = NoWorker
  NoEventId = NoEventId
  Workers = {w1, w2}
  PaymentIds = {p1}
  EventIds = {auth, capt, part, full, garbled, ping}
  Body <- World
  MaxFaults = 2
  AttemptCap = 1
INVARIANTS
  RefundsAccounted
  StatusIsJoin
  AckedIsDurable
PROPERTIES
  FinalIsFinal
  ImplementsRefundBook
SYMMETRY Symmetry
