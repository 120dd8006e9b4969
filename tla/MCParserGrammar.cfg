SPECIFICATION ParserSpec
CONSTANTS
  Inputs <- MCGrammar
INVARIANTS
  TakenIsGrammatical
CHECK_DEADLOCK FALSE
