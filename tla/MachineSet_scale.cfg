SPECIFICATION FairSpec
CONSTANTS
    Names = {n1, n2, n3, n4}
    None = None
    Sizes = {0, 2}
    Orphans = {}
    MayGo = FALSE
    MaxUser = 2
    Faults = {"call", "crash"}
    MaxFaults = 1
PROPERTIES CreatesOnlyIfTooFew Converges
CHECK_DEADLOCK FALSE
