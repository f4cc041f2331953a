SPECIFICATION FairSpec
CONSTANTS
    Managers = {m1, m2}
    Bundles = {b1}
    Remotes = {r1, r2}
    None = None
    MaxChanges = 1
    MaxFaults = 1
INVARIANTS TypeOK AccountBeforeJob InstalledHasJob
PROPERTIES InstalledInTheEnd
CHECK_DEADLOCK FALSE
