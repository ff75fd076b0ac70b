CONSTANTS
    p1 = p1
    p2 = p2
    t1 = t1
    t2 = t2
    Processes = {p1, p2}
    Threads = {t1, t2}
    i1 = i1
    i2 = i2
    i3 = i3
    Pids = {i1, i2, i3}
    MaxSequence = 2
    Scenarios <- SomeScenarios
SYMMETRY Symmetry
SPECIFICATION Spec
INVARIANTS
    WholeImage
    TempIsOwn
    RenamesOwnBytes
    PermissionsKept
PROPERTY
    ImplementsAtomicFile
