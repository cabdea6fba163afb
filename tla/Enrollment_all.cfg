SPECIFICATION FairSpec
CONSTANTS
  Absent = Absent
  Torn = Torn
  Run = {r1, r2}
  Platforms <- AllPlatforms
  MaxRequests = 2
  MaxFaults = 1
INVARIANTS TypeOK OwnPair
PROPERTIES PairAfterSuccess PickupCompletes
