CONSTANTS
  d1 = d1
  d2 = d2
  r1 = r1
  r2 = r2
  DApps = {d1}
  Requests = {r1, r2}
  Sender <- SenderOne
  Kind <- KindOne
  Version <- VersionMixed
  AppAnswers = {"approve"}
  Duplicates = TRUE
  Removable = {}
  Restarts = FALSE
SPECIFICATION FairSpec
INVARIANT TypeOK
PROPERTIES
  ImplementsRequestResponse
  EveryRequestSettles
CHECK_DEADLOCK FALSE
