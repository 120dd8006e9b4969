SPECIFICATION ExpandSpec
CONSTANTS
  Labels <- MCLabels
  Attrs = {}
  NULL = NULL
  AutoLabel = "_auto"
  Vars <- MCVars
  NoVar = NoVar
  Begins <- MCBegins
  Networks <- MCReplaceEnding
  Modules <- RModules
  Subs <- RSubs
  Conns <- RConns
  ModuleNames <- MCModuleNames
  Index = "index"
  Root = "n"
  None = None
  Paths = {}
  GateLists = {}
  Products = {}
  MaxNodes = 8
  MaxIds = 4
INVARIANTS
  ExpandTypeOK
  StacksNest
PROPERTIES
  Terminates
CHECK_DEADLOCK FALSE
