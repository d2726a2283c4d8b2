SPECIFICATION FairSpec
CONSTANTS
  c1 = c1
  c2 = c2
  c3 = c3
  f = f
  g = g
  r = r
  Conns = {c1, c2, c3}
  NoConn = NoConn
  Callers = {f, g, r}
  Readers = {r}
  PoolSize = 2
  Initial = {c1}
  MaxCalls = 5
  MaxDials = 1
  MaxBreaks = 1
  MaxCancels = 1
INVARIANTS
  TypeOK
  Exclusive
  Accounting
  ClosedIsEmpty
PROPERTIES
  Served
CHECK_DEADLOCK FALSE
