SPECIFICATION Spec
CONSTANTS
  n = n
  u = u
  v = v
  p = p
  x = x
  y = y
  AutoLabel = AutoLabel
  Labels = {n, u, v, p, x, y, AutoLabel}
  Attrs = {"w"}
  NULL = NULL
  Paths <- MCPaths
  GateLists <- MCGateLists
  Products <- MCProducts
  MaxNodes = 3
  MaxIds = 3
INVARIANTS
  TypeOK
  GraphIsSimple
  NodesMeetThroughGates
  AutoGatesOwned
  AskedIsConnected
PROPERTIES
  OnlyAdds
  ListsNeverRefused
CHECK_DEADLOCK FALSE
