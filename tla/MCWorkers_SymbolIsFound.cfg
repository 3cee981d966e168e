CONSTANTS
    N = 3
    Programs <- LatePrototype
    KeepsScope = {FALSE}
SPECIFICATION Spec
INVARIANT SymbolIsFound
