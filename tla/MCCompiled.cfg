SPECIFICATION Spec
CONSTANTS
  Programs <- MCPrograms
  Fuel = 30
INVARIANTS Faithful LocalsDeclared LoopsOnlyStopEarly
PROPERTY Terminates
CHECK_DEADLOCK FALSE
