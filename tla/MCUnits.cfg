SPECIFICATION Spec
CONSTANTS
  Root = "root"
  Programs <- MCPrograms
INVARIANTS ConvertedWhole NamesArrive EveryCheckIsParked OnlyKnownCrashes
PROPERTY EndsOrReports
CHECK_DEADLOCK FALSE
