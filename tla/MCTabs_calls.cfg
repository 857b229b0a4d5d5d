CONSTANTS
  Tabs = {t1, t2}
  Requests = {r1, r2, r3}
  NoTab = NoTab
  MaxLoads = 3
  MaxErrors = 1
  MaxOverlaps = 1
  MaxQueue = 1
SPECIFICATION Spec
INVARIANTS
  TypeOK
  SentOnce
  PagesAgree
  CutOffPagesDoNotWait
CHECK_DEADLOCK FALSE
SYMMETRY MCSymmetry
