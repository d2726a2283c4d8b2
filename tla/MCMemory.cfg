SPECIFICATION Spec
CONSTANTS
  p1 = p1
  p2 = p2
  x1 = x1
  u1 = u1
  c1 = c1
  c2 = c2
  Publishers = {p1, p2}
  Ephemeral = {}
  Skip <- NoSkip
  External = {x1}
  Users = {u1}
  Conns = {c1, c2}
  NoConn = NoConn
  UserOf <- OneUser
  Members = {u1}
  Size = 2
  Limits = {1}
  Nil = Nil
  MaxEvents = 1
SYMMETRY Sym
INVARIANTS
  TypeOK
  NoGap
  MembersReported
PROPERTIES
  RingIsBoundedLog
CHECK_DEADLOCK FALSE
