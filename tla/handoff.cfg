SPECIFICATION MCSpec
CONSTANTS
  Attempts = {a1, a2}
  StateIds = {s1, s2}
  Codes = {h1, h2}
  Ports = {p1, p2}
  None = None
INVARIANTS
  BrokerInv
  TokensInOnePlace
  OnlyOwnerSpends
PROPERTIES
  HandoffPromise
  AuthorizeReturns
  LocalAuthorizeReturns
CHECK_DEADLOCK FALSE
