CONSTANTS
    AddressSpace = 32
    Version = 1
    ControlBase = 11
    PlatformBases <- Bases
    PlicBase = 7
    VirtioBase = 20
    UartBytes = 2
    PlatformBytes = 2
    PlicBytes = 3
    VirtioBytes = 3
    Names = {1, 2, 3}
    Default = 2
    Contents <- SomeContents
SPECIFICATION Spec
INVARIANTS
    StartupChoice
    UartIsAlone
