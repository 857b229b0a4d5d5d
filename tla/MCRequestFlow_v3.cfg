CONSTANTS
  d1 = d1
  d2 = d2
  r1 = r1
  r2 = r2
  DApps = {d1}
  Requests = {r1, r2}
  Sender <- SenderOne
  Kind <- KindOne
  Version <- VersionThree
  AppAnswers = {"approve", "abort"}
  Duplicates = FALSE
  Removable = {}
  Restarts = FALSE
SPECIFICATION Spec
INVARIANT OpenRequestsAwaitResponse
CHECK_DEADLOCK FALSE
