SPECIFICATION FairSpec
CONSTANTS
  u1 = u1
  c1 = c1
  c2 = c2
  l1 = l1
  l2 = l2
  Users = {u1}
  Calls = {c1, c2}
  UserOf <- OneUser
  Loads = {l1, l2}
  NumExternal = 3
  RecoverLimit = 2
  LoadLimit = 2
  TrimLen = 1
  Scenarios <- Together
  MaxEntries = 3
  MaxExplicit = 1
  MaxFaults = 1
INVARIANTS
  TypeOK
  OffsetCovered
  InjectedOnce
  SerialLoads
PROPERTIES
  OffsetForward
  CatchesUp
CHECK_DEADLOCK FALSE
