SPECIFICATION FilesSpec
CONSTANTS
  t1 = t1
  t2 = t2
  Txns = {t1, t2}
  Amounts = {1, 2, 4}
  Hours = {0, 1, 2}
  tol = 1
  late_h = 1
  MaxRows = 2
INVARIANTS
  ReportedUnlessInOrder
  DeltasExplainTheGap
SYMMETRY Symmetry
CHECK_DEADLOCK FALSE
