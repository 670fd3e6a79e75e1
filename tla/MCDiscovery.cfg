SPECIFICATION FairDiscoverySpec
CONSTANTS
  a = a
  g1 = g1
  g2 = g2
  j1 = j1
  Absent = Absent
  Torn = Torn
  Apps = {a}
  Governors = {g1, g2}
  AppOf <- MCAppOf
  Headless = {g2}
  Joiners = {j1}
  Ports = {1}
  MaxSignals = 1
INVARIANTS
  DiscoveryInvariant
  ServingIsDiscoverable
  FreshStartReachesItself
PROPERTIES
  HalfGovernedEnds
CHECK_DEADLOCK FALSE
