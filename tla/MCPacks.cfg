SPECIFICATION PacksSpec
CONSTANTS
  v1 = v1
  v2 = v2
  alias = alias
  old = old
  torn = torn
  new = new
  other = other
  taint = taint
  loop = loop
  d1 = d1
  d2 = d2
  i1 = i1
  i2 = i2
  Terminals = {t1, t2}
  Sources <- MCSources
  Pins = {v1, v2, alias}
  PinOf <- MCPinOf
  Held <- MCHeld
  Promised <- MCPromised
  Signed <- MCSources
  FolderOf <- MCFolderOf
  Checkouts <- MCCheckouts
  Sorted <- MCSorted
  Ids = {i1, i2}
  MaxCommands = 2
  MaxDeaths = 1
  MaxRuns = 1
INVARIANTS
  PacksInvariant
  
  DeclarationsSurvive
  DeclaredIsEnforced
  IdentityIsPermanent
CHECK_DEADLOCK FALSE
