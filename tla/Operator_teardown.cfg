SPECIFICATION FairSpec
CONSTANTS
    m1 = m1
    m2 = m2
    w1 = w1
    s1 = s1
    s2 = s2
    none = none
    Machines = {m1}
    Posted = {m1}
    Masters = {m1}
    Systems = {s1}
    None = none
    Faults = {"crash", "release"}
    MaxFaults = 1
    Env = {"deleteCluster", "foreground"}
PROPERTIES
    SecretDeletedLast
    MachinesCollected
    SecretCollected
CHECK_DEADLOCK FALSE
