SPECIFICATION Spec
CONSTANTS
  search = search
  mail = mail
  shell = shell
  a = a
  r1 = r1
  r2 = r2
  c1 = c1
  c2 = c2
  Tools <- MCTools
  Allowed <- MCAllowed
  Capped <- MCCapped
  MaxCalls <- MCMaxCalls
  Names <- MCNames
  TokenWrap = 4
  Runs <- MCRuns
  Primary = r1
  Clients <- MCClients
  Requests <- MCRequests
  Builtin = {search}
  MaxRequests = 3
INVARIANTS
  TypeOK
  StreamContiguous
  AccountsMatchLog
  DenialIsTheStop
PROPERTIES
  StreamAppendOnly
  RunsKeepContract
CHECK_DEADLOCK FALSE
