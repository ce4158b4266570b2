SPECIFICATION CommandSpec
CONSTANTS
    Interval = 4
    Late = 2
    Stall = 1
    Grace = 3
    MaxTime = 24
    Command = {c1}
INVARIANTS
    CommandInv
    PrintedTokenLives
    OverstayIsBounded
    CurrentCommandsAreHonoured
    SupersededCommandsAreRefused
CHECK_DEADLOCK FALSE
