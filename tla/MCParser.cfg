SPECIFICATION ParserSpec
CONSTANTS
  Inputs <- MCInputs
INVARIANTS
  ParserTypeOK
  AcceptedIsMeant
  RefusedWithCause
  GivesBack
PROPERTIES
  FilesAddUp
CHECK_DEADLOCK FALSE
