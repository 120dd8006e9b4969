SPECIFICATION Spec
CONSTANTS
  x = x
  y = y
  z = z
  t = t
  p = p
  w1 = w1
  w2 = w2
  w3 = w3
  Open = Open
  Comma = Comma
  Close = Close
  Labels = {x, y, z, t, p, Open, Comma, Close}
  Attrs <- MCAttrs
  NULL = NULL
  Operands <- MCOperands
  Kinds = {"cart", "tens", "lex", "strong", "root"}
  Roots <- MCRoots
INVARIANTS
  TypeOK
  ProductIsSimple
  ProductIsTextbook
  AttrsFollow
  PairsKeepTheirGates
  FoundByName
CHECK_DEADLOCK FALSE
