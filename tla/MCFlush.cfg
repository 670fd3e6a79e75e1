SPECIFICATION FairSpoolSpec
CONSTANTS
  p1 = p1
  p2 = p2
  p3 = p3
  Procs = {p1}
  Key <- MCLiveKey
  Sizes = {2}
  Header = 1
  MaxSpool = 4
  SendAttempts = 3
  MaxBatches = 3
  MaxStarts = 2
PROPERTY
  FlushEnds
CHECK_DEADLOCK FALSE
