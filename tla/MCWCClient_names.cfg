CONSTANTS
  r1 = r1
  r2 = r2
  r3 = r3
  s1 = s1
  s2 = s2
  None = None
  Requests = {r1, r2, r3}
  Type <- TypeAll
  Sessions = {s1, s2}
  Controller <- ControllerOwn
  AccountOf <- AccountOwn
  Namespaces <- NamespacesThree
  Network = "mainnet"
SPECIFICATION Spec
SYMMETRY MCSymmetry
INVARIANT AnswersNameTheirRequest
CHECK_DEADLOCK FALSE
