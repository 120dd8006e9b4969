SPECIFICATION Spec
CONSTANTS
  m = m
  x = x
  y = y
  z = z
  p = p
  q = q
  Root = Root
  Blank = Blank
  Open = Open
  Comma = Comma
  Close = Close
  AutoLabel = AutoLabel
  Labels = {m, x, y, z, p, q, Root, Blank, Open, Comma, Close, AutoLabel}
  Attrs = {}
  NULL = NULL
  Programs <- MCPrograms
  MaxNodes = 200
  MaxIds = 3
INVARIANTS
  PrintsTheMeaning
  NothingMadeUp
  FailsWithCause
CHECK_DEADLOCK FALSE
