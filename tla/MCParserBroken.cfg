SPECIFICATION ParserSpec
CONSTANTS
  Inputs <- MCBroken
INVARIANTS
  WholeDocuments
CHECK_DEADLOCK FALSE
