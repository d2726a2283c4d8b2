SPECIFICATION Spec
CONSTANTS
  x = x
  y = y
  ux = ux
  uy = uy
  A = A
  B = B
  app = app
  Nobody = Nobody
  SameUser = TRUE
  Handlers = {x, y}
  Users = {ux, uy}
  UserOf <- MCUserOf
  NewNames = {}
  Channels = {A}
  Resubscribes = FALSE
  MaxSubscribers = 0
  Apps = {}
  MaxRooms = 1
  MaxCommands = 2
  MaxShutdowns = 0
INVARIANTS
  NoDeadlock
CHECK_DEADLOCK FALSE
