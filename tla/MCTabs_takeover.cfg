CONSTANTS
  Tabs = {t1, t2, t3}
  Requests = {r1, r2, r3}
  NoTab = NoTab
  MaxLoads = 3
  MaxErrors = 0
  MaxOverlaps = 1
  MaxQueue = 1
SPECIFICATION Spec
INVARIANTS
  SentByOnePage
CHECK_DEADLOCK FALSE
SYMMETRY MCSymmetry
