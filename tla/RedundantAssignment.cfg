\* Every body of four to six statements over each of four grammars; a body may be left unfixed.
CONSTANTS
  Locals = {"x", "y", "z"}
  Globals = {"c", "h"}
  Grammars <- MCGrammars
SPECIFICATION Spec
CHECK_DEADLOCK FALSE
INVARIANTS SameToOthers
