\* Two workers, channels for two messages.
SPECIFICATION FairSpec
CONSTANTS
    Workers = {1, 2}
    Capacity = 2
    MaxPosts <- Posts
    MaxSends <- Sends
    None = None
INVARIANTS
    TypeOK
    OnlyEarlyTerminatePanics
PROPERTIES
    ImplementsMailboxes
    FailureReported
    TerminatedEnds
CHECK_DEADLOCK FALSE
