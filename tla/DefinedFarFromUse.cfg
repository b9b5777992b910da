\* Every body of five to eight statements over each of four grammars; a body need not be moved in.
CONSTANTS
  Names = {"w", "x", "y", "z"}
  Params = {"y", "z"}
  MaxDistance = 1
  Grammars <- MCGrammars
SPECIFICATION Spec
CHECK_DEADLOCK FALSE
INVARIANTS SameValues
PROPERTIES ExitsAreExits
