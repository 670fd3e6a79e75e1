SPECIFICATION FairSpec
CONSTANTS
  search = search
  never = never
  a = a
  r1 = r1
  c1 = c1
  c2 = c2
  c3 = c3
  Tools <- MCTools
  Allowed <- MCTools
  Capped <- MCTools
  MaxCalls <- MCMaxCalls
  Names = {a}
  TokenWrap = 4
  Runs <- MCRuns
  Primary = r1
  Clients <- MCClients
  Requests <- MCRequests
  Builtin = {search}
  MaxRequests = 4
INVARIANTS
  CapOvershootBounded
  StragglersBounded
PROPERTIES
  EveryEventWritten
CHECK_DEADLOCK FALSE
