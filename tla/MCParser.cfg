SPECIFICATION Spec
CONSTANTS
    Families <- MCFamilies
    Meanings <- MCMeanings
    ErrorLimit = 2
INVARIANTS
    TypeOK
    RoundTrip
    NothingLostSilently
PROPERTY
    Progresses
