SPECIFICATION Spec
CONSTANTS
    m1 = m1
    m2 = m2
    w1 = w1
    s1 = s1
    s2 = s2
    none = none
    Machines = {m1, w1}
    Posted = {m1, w1}
    Masters = {m1}
    Systems = {s1, s2}
    None = none
    Faults = {"crash", "start", "noip", "release", "images", "api"}
    MaxFaults = 1
    Env = {"editCluster"}
SYMMETRY SystemSymmetry
INVARIANTS
    RecordedSystemsHeld
PROPERTIES
    KubeconfigForEndpoint
    EndpointStays
    LeaksOnlyAtKubeconfig
CHECK_DEADLOCK FALSE
