\* A body that is read and a response that is written, on one runtime.
SPECIFICATION FairSpec
CONSTANTS
    Inbound = {i1}
    Outbound = {j1}
    HighWater = 1
    DataCap = 1
    Bound = 2
    None = None
INVARIANTS
    TypeOK
    Backpressure
    OnlyCancelledLinger
    OnlyCloseCrashes
    WaitsCanEnd
PROPERTIES
    ImplementsPipe
    CancelEndsReader
    RoomEndsWait
    EndReachesScript
    WriteFreed
CHECK_DEADLOCK FALSE
