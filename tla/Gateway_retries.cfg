SPECIFICATION FairGatewaySpec
CONSTANTS
    Calls = {c1, c2}
    Pools = {}
    Ops = {"CreateCluster"}
    Reads = {"GetClusterNodesStatus"}
    MaxCalls = 2
    MaxFaults = 1
    MaxGiveUps = 1
INVARIANTS SingleControlPlane
PROPERTIES OkMeansMade HandlersEnd
CHECK_DEADLOCK FALSE
