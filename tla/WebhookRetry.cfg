SPECIFICATION FairSpec
CONSTANTS
  w1 = w1
  w2 = w2
  p1 = p1
  auth = auth
  void = void
  capt = capt
  part = part
  full = full
  garbled = garbled
  ping = ping
  NoWorker = NoWorker
  NoEventId = NoEventId
  Workers = {w1, w2}
  PaymentIds = {p1}
  EventIds = {void, capt, part, full}
  Body <- World
  MaxFaults = 1
  AttemptCap = 1
PROPERTIES
  EventuallyProcessed
