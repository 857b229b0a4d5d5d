CONSTANTS
  None = None
  alice = alice
  NCalls = 2
  Programs <- MCPrograms
  Accounts = {alice}
  ScopesOf <- MCScopesOf
  Abstracted = {alice}
  Roles = {"self", "follower"}
  Phones = {TRUE, FALSE}
  RateLimit = 1
  Window = 2
  MaxTime = 2
  MaxOthers = 1
SPECIFICATION Spec
INVARIANT TypeOK RateLimitHolds QuietToastAwaitsNothing LeftToastTimesOut

CHECK_DEADLOCK FALSE
