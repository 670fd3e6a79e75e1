SPECIFICATION SpoolSpec
CONSTANTS
  p1 = p1
  p2 = p2
  p3 = p3
  Procs = {p1, p2, p3}
  Key <- MCKey
  Sizes = {1, 2}
  Header = 1
  MaxSpool = 4
  SendAttempts = 2
  MaxBatches = 2
  MaxStarts = 3
SYMMETRY Symmetry
INVARIANTS
  SpoolInvariant
  EveryBatchAccounted
  DrainInOrder
  OutboxBounded
PROPERTIES
  HeldIsDurable
CHECK_DEADLOCK FALSE
