CONSTANTS
    N = 4
    Programs <- CompletingProgram
    KeepsScope = {TRUE}
SPECIFICATION FairSpec
PROPERTY Completes
