SPECIFICATION Spec
CONSTANTS
  n1 = n1
  n2 = n2
  p1 = p1
  p2 = p2
  Nodes = {n1, n2}
  Publishers = {p1, p2}
  NodeOf <- FirstNode
  Ephemeral = {p2}
  EmptyID = EmptyID
  Confirm = Confirm
  Nil = Nil
  PoolSize = 3
  MinIdle = 1
  BufferSize = 1
  DedupeSize = 1
  MaxRetries = 2
  MaxConsecutive = 2
  MaxEvents = 2
  Closers = {n2}
  Deaf = {n1}
INVARIANT
  AtMostOnce
CHECK_DEADLOCK FALSE
