SPECIFICATION Spec
CONSTANTS
  h1 = h1
  u1 = u1
  r1 = r1
  Handlers = {h1}
  Users = {u1, anonymous}
  Anonymous = anonymous
  Empty = Empty
  Channels <- Two
  Star = "*"
  Roles = {r1}
  Permissions <- Some
  RuleSet <- Rules
  DefaultRule <- NewRule
  DefaultRules <- Closed
  Namespaces <- Both
  DefaultNS <- NewNS
  None = None
  MaxRules = 2
  MaxChanges = 2
INVARIANTS
  AccessIsCurrent
  RuleApplies
CHECK_DEADLOCK FALSE
