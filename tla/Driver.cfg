SPECIFICATION LiveSpec
CONSTANTS
    none = none
    user = user
    p1 = p1
    p2 = p2
    Runs = {r1, r2}
    Pids = {p1, p2}
    MaxTries = 2
    Requests <- MCRequests
    Sources <- MCSources
    Leftovers <- MCLeftovers
    Others <- MCOthers
    Statuses = {0, 7}
    NoOne = user
    NoPath = none
INVARIANTS
    RunsOwnBinary
    NoTempLeft
    RefusedLeavesFiles
    ZeroMeansWritten
PROPERTIES
    OwnTempsOnly
    NeverHangs
CHECK_DEADLOCK FALSE
