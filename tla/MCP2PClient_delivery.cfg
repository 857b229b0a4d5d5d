CONSTANTS
  p = p
  q = q
  m1 = m1
  m2 = m2
  m3 = m3
  None = None
  Messages = {m1, m2, m3}
  Peers = {p, q}
  From <- FromTwo
  Known = {p}
  MaxResets = 2
SPECIFICATION FairSpec
INVARIANTS
  TypeOK
  HandledOncePerReset
  ServerIsStored
PROPERTY SubscribedMessagesAreHandled
CHECK_DEADLOCK FALSE
