SPECIFICATION FairSpec
CONSTANTS
  Requests = {r1, r2, r3}
  cap_max = 1
  MaxId = 2
  MaxMembers = 1
PROPERTIES
  EveryCommandAnswered
