CONSTANTS
    Tick = 3
    Capacity = 2
SPECIFICATION Spec
INVARIANTS
    QuantumEveryTick
