\* Two waits and two agents on one cell of two bits.
SPECIFICATION FairSpec
CONSTANTS
    w1 = w1
    w2 = w2
    a1 = a1
    a2 = a2
    Cells = {x}
    Width = 2
    Waits <- MCWaits
    Agents <- MCAgents
    Casts <- MCCasts
    OpsBound = 2
INVARIANTS
    TypeOK
    OneWayOut
    PromiseKept
PROPERTIES
    ImplementsWaitLine
    UpdatesAtomic
    WaitEnds
CHECK_DEADLOCK FALSE
