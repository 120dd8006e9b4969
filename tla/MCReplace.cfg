SPECIFICATION ExpandSpec
CONSTANTS
  Labels <- MCLabels
  Attrs = {}
  NULL = NULL
  AutoLabel = "_auto"
  Vars <- MCVars
  NoVar = NoVar
  Begins <- MCBegins
  Networks <- MCReplaceNetworks
  Modules <- RModules
  Subs <- RSubs
  Conns <- RConns
  ModuleNames <- MCModuleNames
  Index = "index"
  Root = "n"
  None = None
  Paths = {}
  GateLists = {}
  Products = {}
  MaxNodes = 100
  MaxIds = 4
INVARIANTS
  BuildsTheMeaning
  RejectsWithCause
  HandingOverMerges
  NothingStale
  LiveListsAgree
  AskedSurvives
CHECK_DEADLOCK FALSE
