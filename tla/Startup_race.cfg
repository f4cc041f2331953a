SPECIFICATION FairSpec
CONSTANTS
    Pods = {p1, p2}
    MaxSignals = 1
    MaxFaults = 1
INVARIANTS RunningIsServed
PROPERTIES AllRun ListsSettle
CHECK_DEADLOCK FALSE
