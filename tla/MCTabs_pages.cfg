CONSTANTS
  Tabs = {t1, t2}
  Requests = {r1, r2}
  NoTab = NoTab
  MaxLoads = 3
  MaxErrors = 1
  MaxOverlaps = 1
  MaxQueue = 1
SPECIFICATION FairSpec
INVARIANTS
  SentOnce
  PagesAgree
  CutOffPagesDoNotWait
PROPERTIES
  HeardRequestsSettle
CHECK_DEADLOCK FALSE
