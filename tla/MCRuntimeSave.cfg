CONSTANTS
    Capacity = 2
    MaxWrites = 2
    Disks = {"none", "read_only", "writable"}
    Outcomes = {"budget_exhausted", "halted"}
    Profiles <- OneProfile
    UiCommands <- SaveCommands
SPECIFICATION Spec
INVARIANTS
    TypeOK
    SaveIsBarrier
    FailedSaveVisible
    AcknowledgedSaveCovers
    DropSaves
PROPERTIES
    NeverOlder
    ImplementsSaveService
