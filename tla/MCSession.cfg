SPECIFICATION Spec
CONSTANTS
  x = x
  y = y
  ux = ux
  uy = uy
  A = A
  B = B
  app = app
  Nobody = Nobody
  SameUser = TRUE
  Handlers = {x, y}
  Users = {ux, uy}
  UserOf <- MCUserOf
  NewNames = {ux, uy}
  Channels = {A}
  Resubscribes = TRUE
  MaxSubscribers = 0
  Apps = {app}
  MaxRooms = 2
  MaxCommands = 3
  MaxShutdowns = 1
INVARIANTS
  TypeOK
  LocksAreScoped
  ClosedLeavesRooms
  OnlyCloseDeadlocks
CHECK_DEADLOCK FALSE
