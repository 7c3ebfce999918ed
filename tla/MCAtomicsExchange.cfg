\* Two agents that compare and exchange the same cell.
SPECIFICATION Spec
CONSTANTS
    w1 = w1
    w2 = w2
    a1 = a1
    a2 = a2
    Cells = {x}
    Width = 2
    Waits <- MCWaits
    Agents <- MCAgents
    Casts <- MCCasts
    OpsBound = 2
PROPERTIES
    CompareExchangeAtomic
CHECK_DEADLOCK FALSE
