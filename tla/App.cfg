SPECIFICATION Spec
CONSTANTS
  a = a
  b = b
  v1 = v1
  v2 = v2
  r1 = r1
  r2 = r2
  j1 = j1
  j2 = j2
  NoVersion = NoVersion
  NoNote = NoNote
  EmptyNote = EmptyNote
  NoId = NoId
  NoReport = NoReport
  NoExisting = NoExisting
  Ids = {a, b}
  Versions = {v1, v2}
  Worlds <- SomeWorlds
  Reconcilers = {r1, r2}
  Triagers = {r1, r2}
  Jobs = {j1, j2}
  Resolvable = {a}
  EmptyReplies = FALSE
  MaxCrashes = 1
  MaxFailures = 1
INVARIANTS
  RunningHasJob
PROPERTIES
  SyncSettles
  NothingClobbered
CONSTRAINT ThreeAtWork
SYMMETRY Symmetry
