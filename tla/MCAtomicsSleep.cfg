\* A wait and a store to the cell it looks at.
SPECIFICATION Spec
CONSTANTS
    w1 = w1
    w2 = w2
    a1 = a1
    a2 = a2
    Cells = {x}
    Width = 2
    Waits <- MCWaits
    Agents <- MCAgents
    Casts <- MCCasts
    OpsBound = 2
PROPERTIES
    SleepsOnValue
CHECK_DEADLOCK FALSE
