CONSTANTS
    TxBufferCapacity = 2
    Word = 4
    BannerLength = 2
    RxFifo = 2
    TxFifo = 1
    MaxInput = 6
SPECIFICATION FairSpec
CHECK_DEADLOCK FALSE
INVARIANTS
    EchoInOrder
    BannerFirst
    NoSleepingWork
PROPERTIES
    ImplementsEchoPipe
    RingDrains
