CONSTANTS
    Capacity = 1
    MaxWrites = 0
    Disks = {"writable"}
    Outcomes = {"budget_exhausted", "halted"}
    Profiles <- OneProfile
    UiCommands <- Command
    Widgets = {"Save disk", "Pause", "Reset", "Connect"}
SPECIFICATION FairWindow
INVARIANTS
    SettingsSettle
PROPERTIES
    UiReturns
    PauseIsShown
    StopIsShown
