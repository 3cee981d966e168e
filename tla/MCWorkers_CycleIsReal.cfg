CONSTANTS
    N = 3
    Programs <- SafetyProgram
    KeepsScope = {TRUE, FALSE}
SPECIFICATION Spec
INVARIANT CycleIsReal
