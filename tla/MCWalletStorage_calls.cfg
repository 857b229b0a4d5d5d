SPECIFICATION Spec
CONSTANTS
  d1 = d1
  d2 = d2
  a1 = a1
  a2 = a2
  c1 = c1
  c2 = c2
  c3 = c3
  DApps <- MCDApps
  Accounts <- MCAccounts
  Calls <- MCCalls
  Earlier <- MCEarlier
  Restarts = TRUE
  MaxRunning = 2
SYMMETRY MCSymmetry
CHECK_DEADLOCK FALSE
INVARIANT PermissionsWereGranted
INVARIANT OneTokenPerAccount
PROPERTY UndisturbedCallsAreAtomic
