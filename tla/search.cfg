SPECIFICATION FairSearchSpec
CONSTANTS
    Null = Null
    Empty = Empty
    Corrupt = Corrupt
    r1 = r1
    r2 = r2
    k1 = k1
    t1 = t1
    t2 = t2
    Paths = {pA}
    Collections = {d1, d2}
    MaxVersion = 2
    Threads = {t1, t2}
    Requests = {r1, r2}
    Keys = {k1}
    KeyOf <- SharedKey
INVARIANTS
    SearchTypeOK
    CacheIsCoherent
    AnswersTheCaptured
    AdmittedFindsState
    ServedIsPublished
PROPERTIES
    SearchesAreAnswered
