SPECIFICATION Spec
CONSTANTS
    Null = Null
    w1 = w1
    w2 = w2
    pA = pA
    pB = pB
    f1 = f1
    f2 = f2
    c1 = c1
    c2 = c2
    Workers = {w1, w2}
    Paths = {pA}
    Targets <- AnyPath
    Files = {f1}
    Contents = {c1, c2}
    FaultKinds = {}
    MaxRequests = 2
    MaxFaults = 0
    MaxCrashes = 0
INVARIANTS
    LabelIdentifiesDocuments
