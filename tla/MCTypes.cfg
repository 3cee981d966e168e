SPECIFICATION Spec
CONSTANTS
  Programs <- MCPrograms
  Expressions <- MCExpressions
  Hints <- MCHints
  Height <- MCHeight
  Depth = 6
INVARIANTS TypeOK NamesKeepTheirType AcceptedCompiles KeepsItsWidth ContextIsHarmless EndsWithAVerdict
CHECK_DEADLOCK FALSE
