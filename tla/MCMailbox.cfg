CONSTANTS
    Waiters = {w1, w2}
    MaxRevision = 3
    Predicates <- SomePredicates
SPECIFICATION FairSpec
INVARIANTS
    NoLostWakeup
PROPERTIES
    WaitEnds
