\* A timer that may lie far ahead, and a process or a bridged promise that ends meanwhile.
SPECIFICATION FairSpec
CONSTANTS
    Ops = {o1, o2}
    Drivers = {d1}
    Kinds = {"timer", "proc", "promise"}
    Modes = {"run", "await"}
    MayClose = FALSE
    None = None
PROPERTIES
    EventuallyTold
    AsyncAnswers
CHECK_DEADLOCK FALSE
