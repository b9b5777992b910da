\* Every program of five or six statements over each of four grammars; a program may end anywhere.
CONSTANTS
  Names = {"c", "d", "e", "k"}
  Keys = {"a", "b"}
  Objects = {"o1", "o2", "o3"}
  Grammars <- MCGrammars
SPECIFICATION Spec
CHECK_DEADLOCK FALSE
INVARIANTS BeliefsHold
