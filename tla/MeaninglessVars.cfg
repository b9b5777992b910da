\* Every program of four occurrences over two grammars: one name all over three scopes of every
\* kind, and several names to be given at once. A program need not be finished.
CONSTANTS
  Wanted <- FitNames
  Grammars <- MCGrammars
SPECIFICATION Spec
CHECK_DEADLOCK FALSE
INVARIANTS RenameSound
PROPERTIES LeavesFewer
