SPECIFICATION SearchSpec
CONSTANTS
    Null = Null
    Empty = Empty
    Corrupt = Corrupt
    t1 = t1
    t2 = t2
    Paths = {pA}
    Collections <- TiedOnly
    MaxVersion = 1
    Threads = {t1, t2}
    Requests <- Reordered
    Keys <- CodeKeys
    KeyOf <- CodeKey
    Upper <- Capitals
    Lower <- Small
    Digits = {}
    Underscore = "_"
    Foreign = {}
    LowerOf <- CaseOf
    Idf <- IdfTable
    MaxSnippetLines = 5
INVARIANTS
    AnswersTheRequest
