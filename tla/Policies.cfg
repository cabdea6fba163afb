CONSTANTS
  p1 = p1
  p2 = p2
  Setter = {p1, p2}
  MaxRuns = 3
  Cit = {"c", "d"}
  Rules = {"r", "s"}
  Owners = {"me", "team"}
  Nobody = "nobody"
  NoRules = "none"
SYMMETRY Symmetry
SPECIFICATION SpecBoth
INVARIANTS
  BothTypeOK
  ExactOnSuccess
  AppliedWhenAlone
PROPERTIES
  NothingLostAlone
CHECK_DEADLOCK FALSE
