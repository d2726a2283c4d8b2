SPECIFICATION Spec
CONSTANTS
  ann = ann
  bob = bob
  a1 = a1
  a2 = a2
  b1 = b1
  p1 = p1
  p2 = p2
  p3 = p3
  NoConn = NoConn
  Users = {ann, bob}
  Conns = {a1, a2}
  Publishers = {p1, p2}
  UserOf <- MCUserOf
  SenderOf <- MCSenderOf
  Ephemeral = {}
  Echo = {}
  RecoveryLimit = 1
  MaxFaults = 1
  MaxAdmin = 0
  MaxSubscribes = 2
INVARIANTS
  TypeOK
  NoGap
  DeliveredIsDurable
CHECK_DEADLOCK FALSE
