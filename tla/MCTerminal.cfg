CONSTANTS
    RawCapacity = 3
    DrainBytes = 4
    Byte = {1, 2}
    MaxPending = 5
    MaxPrinted = 8
SPECIFICATION Spec
INVARIANTS
    HistoryIsNewest
