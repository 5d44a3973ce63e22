SPECIFICATION CallersSpec
CONSTANTS
  e1 = e1
  e2 = e2
  ev1 = ev1
  d1 = d1
  d2 = d2
  NoRow = NoRow
  MaxClicks = 3
  Endpoints = {e1, e2}
  Events = {ev1}
  MaxAttempts = 2
  Batch = {d1, d2}
  MaxTries = 4
  MaxWorkers = 1
INVARIANTS
  BusyIsInFlight
  RowIsTrue
  EndsAsAnswered
  FailsOnlyIfHopeless
PROPERTIES
  PollStops
  EveryoneIsTried
  BatchEnds
CHECK_DEADLOCK FALSE
