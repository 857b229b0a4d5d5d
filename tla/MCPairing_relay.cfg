CONSTANTS
  None = None
  NAttempts = 2
  NGenerations = 3
  NCalls = 2
  Eager = TRUE
  MaxTaken = 1
  Fails = {"p2p", "wc"}
SPECIFICATION Spec
INVARIANT RelayCodesAreHeard
CHECK_DEADLOCK FALSE
