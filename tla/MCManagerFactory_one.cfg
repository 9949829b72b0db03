SPECIFICATION Spec
CONSTANTS
    w1 = w1
    w2 = w2
    w3 = w3
    r1 = r1
    r2 = r2
    nobody = nobody
    Workers <- MCWorkers
    RmIds <- MCRmIds
    NoWorker = nobody
    MaxCalls = 5
CHECK_DEADLOCK FALSE
SYMMETRY MCSymmetry
INVARIANTS
    OneManagerPerId
