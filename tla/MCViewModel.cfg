CONSTANTS
    p1 = p1
    p2 = p2
    shared = shared
    other = other
    Paths = {p1, p2}
    Images = {shared, other}
    Profiles <- SomeProfiles
    MaxWrites = 3
SYMMETRY Symmetry
SPECIFICATION Spec
INVARIANTS
    TypeOK
    OnlyLateWritesLost
    ShownProfileRuns
PROPERTIES
    NothingUndone
