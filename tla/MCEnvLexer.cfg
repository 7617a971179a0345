SPECIFICATION LexSpec
CONSTANTS
  Ordinary <- MCOrdinary
  Texts <- MCTexts
  Lines <- MCLines
INVARIANTS WordsArrive TextKept
\* The function returns.
CHECK_DEADLOCK FALSE
