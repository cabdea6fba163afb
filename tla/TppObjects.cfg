CONSTANTS
  p1 = p1
  p2 = p2
  Caller = {p1, p2}
  c1 = c1
  c2 = c2
  c3 = c3
  DN = {c1, c2, c3}
  d1 = d1
  d2 = d2
  Device = {d1, d2}
  None = None
  Calls <- MCCalls
  First <- MCFirst
  BatchSize = 2
  MaxCalls = 3
  MaxFaults = 1
SYMMETRY Symmetry
SPECIFICATION Spec
INVARIANTS
  TypeOK
  DevicesStayServed
  ActsOnItsObject
  ListIsWhole
  MarkedOrLogged
PROPERTIES
  RenewalKeepsSans
CHECK_DEADLOCK FALSE
