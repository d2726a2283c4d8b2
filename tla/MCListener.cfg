SPECIFICATION FairSpec
CONSTANTS
  l1 = l1
  l2 = l2
  l3 = l3
  Loops = {l1, l2, l3}
  Dollar = Dollar
  Count = 2
  MaxStream = 3
  MaxCalls = 3
  MaxErrors = 1
  MaxPanics = 1
INVARIANTS
  TypeOK
  NoSkip
  OneListener
PROPERTIES
  CatchesUp
  StopStops
CHECK_DEADLOCK FALSE
