CONSTANTS
  Tabs = {t1, t2, t3}
  Requests = {r1, r2}
  NoTab = NoTab
  MaxLoads = 4
  MaxErrors = 1
  MaxOverlaps = 1
  MaxQueue = 1
SPECIFICATION Spec
INVARIANTS
  TypeOK
  SentOnce
  PagesAgree
  CutOffPagesDoNotWait
CHECK_DEADLOCK FALSE
SYMMETRY MCSymmetry
