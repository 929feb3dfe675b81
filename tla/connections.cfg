SPECIFICATION MCSpec
CONSTANTS
  Calls = {c1, c2}
  NoCall = NoCall
  NoToken = NoToken
  MaxRateRetries = 1
  MaxGrants = 2
  MaxGens = 2
  MaxFaults = 1
SYMMETRY Symmetry
INVARIANTS
  StoresAgree
  RefreshTokenKept
PROPERTIES
  SelectionKept
  CallsEnd
