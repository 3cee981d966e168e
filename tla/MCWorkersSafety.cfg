CONSTANTS
    N = 3
    Programs <- SafetyProgram
    KeepsScope = {TRUE, FALSE}
SPECIFICATION Spec
INVARIANTS
    TypeOK
    SuccessIsComplete
    NothingForgotten
    ParkedOnce
    TypesKnown
    ResolvingIsRunning
    LoopsKeepTheirPlace
    OnlySelfCycles
PROPERTIES
    SettledStaysSettled
    MeetsContract
