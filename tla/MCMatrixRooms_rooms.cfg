CONSTANTS
  d = d
  w = w
  s1 = s1
  s2 = s2
  m1 = m1
  m2 = m2
  DApp = d
  Wallet = w
  Servers = {s1, s2}
  Texts = {m1, m2}
  Speaker <- FromBoth
  FirstHome <- TwoHomes
  Undefined = Undefined
  Open = Open
  MaxRooms = 4
  MaxScans = 2
  MaxRejoins = 1
  MaxLoads = 1
SPECIFICATION FairRoomsSpec
INVARIANT
  RecordedRoomsAreShared
PROPERTIES
  PairingCompletes
  MessagesArrive
CHECK_DEADLOCK FALSE
