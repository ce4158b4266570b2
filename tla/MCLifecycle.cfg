SPECIFICATION Spec
CONSTANTS
    Client = {c1, c2, c3}
    HeaderTimeout = 1
    HandlerTimeout = 3
    Grace = 2
    MaxOpen = 2
INVARIANTS
    LifeInv
    GraceIsGiven
    IdleClientsDoNotDelay
PROPERTIES
    ShutdownCompletes
    BegunJobsFinish
    WaitingClientsAreAccepted
CHECK_DEADLOCK FALSE
