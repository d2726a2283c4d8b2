SPECIFICATION FairSpec
CONSTANTS
  x = x
  y = y
  ux = ux
  uy = uy
  A = A
  B = B
  app = app
  Nobody = Nobody
  SameUser = FALSE
  Handlers = {x, y}
  Users = {ux, uy}
  UserOf <- MCUserOf
  NewNames = {}
  Channels = {A}
  Resubscribes = FALSE
  MaxSubscribers = 1
  Apps = {}
  MaxRooms = 2
  MaxCommands = 4
  MaxShutdowns = 0
INVARIANTS
  NoDeadlock
  NotOverfull
PROPERTIES
  CloseReturns
CHECK_DEADLOCK FALSE
