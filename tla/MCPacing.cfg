CONSTANTS
    Tick = 3
    Capacity = 2
SPECIFICATION Spec
INVARIANTS
    TypeOK
PROPERTIES
    NoBurst
    MessageRearms
    QuietRunsOn
