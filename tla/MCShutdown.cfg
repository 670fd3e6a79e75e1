SPECIFICATION FairShutdownSpec
CONSTANTS
  search = search
  a = a
  r1 = r1
  r2 = r2
  c1 = c1
  Tools = {search}
  Allowed = {search}
  Capped = {}
  MaxCalls <- MCMaxCalls
  Names = {a}
  TokenWrap = 4
  Runs <- MCRuns
  Primary = r1
  Clients = {c1}
  Requests <- MCRequests
  Builtin = {}
  MaxRequests = 2
INVARIANTS
  ShutdownInvariant
  ClosingEventIsAccurate
  SyncedExitIsComplete
PROPERTIES
  AppExitEndsProcess
CHECK_DEADLOCK FALSE
