CONSTANTS
  a1 = a1
  a2 = a2
  w1 = w1
  w2 = w2
  None = None
  Tabs = {1, 2}
  UserTabs = {1}
  Accounts = {a1, a2}
  Peers = {w1, w2}
  PeerOf <- PeerOfTwo
  MaxCalls = 3
SPECIFICATION Spec
INVARIANTS
  TypeOK
  QuietStateAgrees
  TransportIsSelected
  AwaitedTransportComes
CHECK_DEADLOCK FALSE
