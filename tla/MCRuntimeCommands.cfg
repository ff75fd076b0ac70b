CONSTANTS
    Capacity = 1
    MaxWrites = 0
    Disks = {"none"}
    Outcomes = {"budget_exhausted", "panicked"}
    Profiles <- EveryProfile
    UiCommands <- Command
SPECIFICATION Spec
INVARIANTS
    SnapshotCoherent
    FaultShown
PROPERTIES
    OnlyUserResumes
