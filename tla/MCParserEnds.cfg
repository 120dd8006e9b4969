SPECIFICATION ParserSpec
CONSTANTS
  Inputs <- MCShort
PROPERTIES
  ReadingEnds
CHECK_DEADLOCK FALSE
