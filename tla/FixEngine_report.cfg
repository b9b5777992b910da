SPECIFICATION Spec
CONSTANTS
  Procs = {p1}
  Order <- TwoChecks
  Multi = {k2}
  Keys = {x1, x2}
  MessageOf <- SameMessages
  Parsable = {c1, c2, c3}
  Broken = {}
  Semantics <- UpToThree
  MayRaise = TRUE
  MaxEdits = 0
  None = None
  p1 = p1
  p2 = p2
  k1 = k1
  k2 = k2
  x1 = x1
  x2 = x2
  c1 = c1
  c2 = c2
  c3 = c3
  b1 = b1
  msg = msg
SYMMETRY Symmetric
INVARIANTS
  OpenIsPresent
  NoneVanishes
