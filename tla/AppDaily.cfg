SPECIFICATION FairSpec
CONSTANTS
  a = a
  b = b
  v1 = v1
  v2 = v2
  r1 = r1
  r2 = r2
  j1 = j1
  j2 = j2
  NoVersion = NoVersion
  NoNote = NoNote
  EmptyNote = EmptyNote
  NoId = NoId
  NoReport = NoReport
  NoExisting = NoExisting
  Ids = {a, b}
  Versions = {v1}
  Worlds <- OneVersion
  Reconcilers = {r1}
  Triagers = {r1}
  Jobs = {j1, j2}
  Resolvable = {}
  EmptyReplies = TRUE
  MaxCrashes = 0
  MaxFailures = 1
PROPERTIES
  FlaggedGetsTriaged
