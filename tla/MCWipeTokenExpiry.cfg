SPECIFICATION CommandSpec
CONSTANTS
    Interval = 4
    Late = 0
    Stall = 0
    Grace = 3
    MaxTime = 24
    Command = {c1}
INVARIANTS
    ExpiredTokenIsRefused
CHECK_DEADLOCK FALSE
