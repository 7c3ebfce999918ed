\* Two operations of any kind (see OneFamily), one driver, and a Close at any time.
SPECIFICATION Spec
CONSTANTS
    Ops = {o1, o2}
    Drivers = {d1}
    Kinds = {"timer", "proc", "promise", "waitAsync", "fs", "fetch"}
    Modes = {"run", "awaitCtx"}
    MayClose = TRUE
    None = None
INVARIANTS
    TypeOK
    NoLostWake
    ToldOnce
    OwnResultAlone
PROPERTIES
    ImplementsAsyncOps
    PendingKeepsAlive
CONSTRAINT OneFamily
SYMMETRY Symmetry
CHECK_DEADLOCK FALSE
