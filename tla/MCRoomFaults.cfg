SPECIFICATION FairSpec
CONSTANTS
  ann = ann
  bob = bob
  a1 = a1
  a2 = a2
  b1 = b1
  p1 = p1
  p2 = p2
  p3 = p3
  NoConn = NoConn
  Users = {ann, bob}
  Conns = {a1, a2, b1}
  Publishers = {p3}
  UserOf <- MCUserOf
  SenderOf <- MCSenderOf
  Ephemeral = {p3}
  Echo = {p3}
  RecoveryLimit = 1
  MaxFaults = 3
  MaxAdmin = 1
  MaxSubscribes = 2
INVARIANTS
  ReplacedAreClosed
  ReturnedAccounts
PROPERTIES
  PublishReturns
CHECK_DEADLOCK FALSE
