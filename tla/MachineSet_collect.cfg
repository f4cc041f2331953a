SPECIFICATION FairSpec
CONSTANTS
    Names = {n1, n2}
    None = None
    Sizes = {1}
    Orphans = {n1}
    MayGo = TRUE
    MaxUser = 2
    Faults = {"create", "wait", "call", "crash"}
    MaxFaults = 1
INVARIANTS FinalizerFirst
PROPERTIES OneController SetCollected StatusConverges
CHECK_DEADLOCK FALSE
