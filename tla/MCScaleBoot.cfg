CONSTANTS
    Population = 2
    MeasuredTicks = 2
    BootTickLimit = 4
    WarmupTicks = 1
    Keep = 3
    Budget = 2
    Prompt <- NshPrompt
    Ready <- BenchReady
    Booting <- Greeting
    Benching <- Bench
    MaxPrint = 4
SPECIFICATION FairBench
INVARIANTS
    MarkerFound
    Saturated
PROPERTIES
    Ends
