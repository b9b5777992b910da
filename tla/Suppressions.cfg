\* Every file of five lines with format suppression, and of three with findings and directives;
\* a file need not be finished.
CONSTANT
  Grammars <- MCGrammars
SPECIFICATION FairSpec
CHECK_DEADLOCK FALSE
INVARIANTS FormatAsDocumented
PROPERTIES SuppressionsKept Settles
