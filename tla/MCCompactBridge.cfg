SPECIFICATION Spec
CONSTANTS
  n = n
  a = a
  b = b
  c = c
  p = p
  q = q
  r = r
  AutoLabel = AutoLabel
  Labels = {n, a, b, c, p, q, r, AutoLabel}
  Attrs = {"w0", "w1", "w3"}
  NULL = NULL
  Inputs <- Unique
INVARIANTS
  AttrsComeFromTheChain
  DotOutputIsTheLinks
PROPERTIES
  ImplementsBridge
CHECK_DEADLOCK FALSE
