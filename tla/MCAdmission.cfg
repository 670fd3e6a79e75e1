SPECIFICATION AdmissionSpec
CONSTANTS
  g1 = g1
  g2 = g2
  remote = remote
  local = local
  far = far
  near = near
  None = None
  Governors = {g1, g2}
  Remotes = {remote}
  Locals = {local}
  Home <- MCHome
  From <- MCFrom
  Probe = far
  Tokens = {"old", "new", "weak"}
  Weak = {"weak"}
  First = "old"
  Rate = 2
  Second = 2
  MaxClock = 2
  MaxRequests = 4
  MaxCrashes = 1
INVARIANTS
  RotationAdmitsFleet
  LimiterInvariant
PROPERTIES
  RotationCompletes
CHECK_DEADLOCK FALSE
