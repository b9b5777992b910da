\* Two processes with two checks - the second writes once per violation - on one file, with an
\* editor, an unparsable text, and anything that may fail failing.
CONSTANTS
  Procs = {p1, p2}
  Order <- TwoChecks
  Multi = {k2}
  Keys = {x1}
  MessageOf <- SameMessages
  Parsable = {c1, c2}
  Broken = {b1}
  Semantics <- FixableFirst
  MayRaise = TRUE
  MaxEdits = 1
  None = None
  p1 = p1
  p2 = p2
  k1 = k1
  k2 = k2
  x1 = x1
  x2 = x2
  c1 = c1
  c2 = c2
  c3 = c3
  b1 = b1
  msg = msg
SPECIFICATION Spec
SYMMETRY Symmetric
INVARIANTS TypeOK TerminalKept OneFixer AbortAttributesNothing
PROPERTIES CachedIsFresh NoLostEdit FixKeepsValid
