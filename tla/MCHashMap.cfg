CONSTANTS
    k1 = k1
    k2 = k2
    k3 = k3
    zero = zero
    one = one
    Key = {k1, k2, k3}
    Value = {zero, one}
    Default = zero
    NoValue = NoValue
    Null = Null
    Hash <- Hashes
    InitialCapacity = 4
SPECIFICATION Spec
INVARIANTS
    TypeOK
    ChainsAreATable
    NothingShownTwice
    OnlyGrowthBreaksLoops
PROPERTY
    ImplementsMap
