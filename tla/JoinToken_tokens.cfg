SPECIFICATION FairSpec
CONSTANTS
    Managers = {m1, m2}
    Machines = {w1, w2}
    Tokens = {t1, t2, t3}
    Lifetime = 4
    Margin = 2
    JoinLimit = 1
    MaxFaults = 2
INVARIANTS TypeOK NoneRefused FewTokens
PROPERTIES AllJoin
CHECK_DEADLOCK FALSE
