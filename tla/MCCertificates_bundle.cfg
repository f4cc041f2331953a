SPECIFICATION Spec
CONSTANTS
    Managers = {g1, g2}
    Masters = {m1, m2}
    Workers = {w1}
    None = None
    Year = 2
    MaxTime = 1
    MaxRev = 3
    MaxFaults = 1
INVARIANTS KubeconfigWorks MasterStarts WorkerTrusts
CHECK_DEADLOCK FALSE
SYMMETRY Symmetry
VIEW View
