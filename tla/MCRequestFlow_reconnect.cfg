CONSTANTS
  d1 = d1
  d2 = d2
  r1 = r1
  r2 = r2
  DApps = {d1, d2}
  Requests = {r1, r2}
  Sender <- SenderTwo
  Kind <- KindTwo
  Version <- VersionTwo
  AppAnswers = {"approve"}
  Duplicates = FALSE
  Removable = {d1}
  Restarts = FALSE
SPECIFICATION Spec
INVARIANT ConnectedWalletHearsPeers
CHECK_DEADLOCK FALSE
