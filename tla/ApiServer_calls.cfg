SPECIFICATION Spec
CONSTANTS
    Calls = {c1, c2}
    Pools = {p1}
    Ops = {"CreateCluster", "GetCluster", "DeleteCluster", "UpgradeCluster", "AddNodePool", "DeleteNodePool", "ScaleNodePool"}
    MaxCalls = 3
    MaxFaults = 1
INVARIANTS TypeOK
PROPERTIES NoLeftovers DeletedMeansGone
CHECK_DEADLOCK FALSE
