SPECIFICATION ScreeningSpec
CONSTANTS
  k1 = k1
  s1 = s1
  s2 = s2
  s3 = s3
  w1 = w1
  w2 = w2
  v2 = v2
  EmptyKey = EmptyKey
  NoKey = NoKey
  Keys = {k1}
  Subjects = {s1}
  Threads = {w1, w2}
  MaxCases = 2
  MaxEvents = 2
  Screens = {s1, s2, s3}
  Vendors = {v2}
  Healthy = {}
  Workers = 2
  MaxAttempts = 2
  Threshold = 2
  Letters = {2, 16}
  MaxLetters = 4
INVARIANTS
  OneCasePerKey
  AuditIsPath
  OpenMeansFailing
  TryIsUnderWay
  OnlySameNamesAreCertain
  WordsMatchBothWays
PROPERTIES
  ScreensEnd
