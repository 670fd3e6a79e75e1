INIT SdkInit
NEXT SdkNext
CONSTANTS
  read = read
  mail = mail
  a = a
  r1 = r1
  r2 = r2
  t1 = t1
  t2 = t2
  c1 = c1
  c2 = c2
  c3 = c3
  Tools <- MCTools
  Allowed <- MCTools
  Capped = {read}
  MaxCalls <- MCMaxCalls
  Names = {a}
  TokenWrap = 8
  Runs <- MCRuns
  Primary = r1
  Clients <- MCClients
  Requests <- MCRequests
  Builtin = {read}
  MaxRequests = 20
  Sdks = {"python"}
  Threads <- MCThreads
  Scopes <- MCShared
  Labelled <- MCLabelled
  OwnRules <- MCOwnRules
  PackRules <- MCPackRules
  RuleSet = a
  MaxTries = 1
  Spent = 1
  MaxTold = 0
  MaxBegun <- MCBegunFew
  MaxDepth = 1
  MaxFaults = 1
INVARIANTS
  EveryRuleEvaluated
CHECK_DEADLOCK FALSE
