SPECIFICATION ParserSpec
CONSTANTS
  Inputs <- MCRooted
INVARIANTS
  BothRootNames
CHECK_DEADLOCK FALSE
