SPECIFICATION Spec
CONSTANTS
  Torn = Torn
  Run = {r1, r2}
  HasAccessToken = TRUE
  HasRefreshToken = TRUE
  MaxTokens = 5
  MaxFaults = 0
PROPERTIES RefreshedIsSaved
