SPECIFICATION FairSpec
CONSTANTS
    Pods = {p1, p2}
    Guarded = {p1}
    MaxTries = 2
    MaxMoves = 2
    MaxFaults = 1
INVARIANTS DrainInv
PROPERTIES DeletedAreGone NoneOverlooked DeletionEnds
CHECK_DEADLOCK FALSE
