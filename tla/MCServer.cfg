SPECIFICATION Spec
CONSTANTS
  Requests = {r1, r2, r3, r4}
  cap_max = 2
  MaxId = 3
  MaxMembers = 1
INVARIANTS
  TokensKept
  Inductive
PROPERTIES
  ServesTokens
