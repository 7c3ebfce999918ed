\* Two concurrent calls of EvalAsync on one Runtime.
SPECIFICATION Spec
CONSTANTS
    Ops = {o1, o2}
    Drivers = {d1, d2}
    Kinds = {"promise"}
    Modes = {"await"}
    MayClose = FALSE
    None = None
INVARIANTS
    OwnResult
SYMMETRY Symmetry
CHECK_DEADLOCK FALSE
