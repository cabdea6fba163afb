SPECIFICATION FairSpec
CONSTANTS
  Torn = Torn
  Run = {r1, r2}
  HasAccessToken = TRUE
  HasRefreshToken = TRUE
  MaxTokens = 5
  MaxFaults = 2
INVARIANTS TypeOK GrantKept
PROPERTIES RotationIsNeeded P12Recovers
