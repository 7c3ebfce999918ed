\* One request or file operation, and a driver whose closure has drained its manager when it fails or ends.
SPECIFICATION Spec
CONSTANTS
    Ops = {o1}
    Drivers = {d1}
    Kinds = {"fs", "fetch"}
    Modes = {"run"}
    MayClose = FALSE
    None = None
PROPERTIES
    UntilAllComplete
SYMMETRY Symmetry
CHECK_DEADLOCK FALSE
