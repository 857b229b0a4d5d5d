CONSTANTS
  d1 = d1
  d2 = d2
  r1 = r1
  r2 = r2
  DApps = {d1}
  Requests = {r1, r2}
  Sender <- SenderOne
  Kind <- KindOne
  Version <- VersionTwo
  AppAnswers = {"approve", "abort", "invalid"}
  Duplicates = FALSE
  Removable = {d1}
  Restarts = TRUE
SPECIFICATION Spec
INVARIANTS
  PendingReachesApp
  WaitingRequestsAreOpen
  OpenRequestsAwaitResponse
  AccountNeedsApproval
  OneAnswer
CHECK_DEADLOCK FALSE
