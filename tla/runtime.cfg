SPECIFICATION Spec
CONSTANTS
    Upper <- Capitals
    Lower <- Small
    Digits = {"1"}
    Underscore = "_"
    Foreign = {"e'"}
    LowerOf <- CaseOf
    Idf <- IdfTable
    MaxSnippetLines = 1
    Code <- CodePoints
    Characters <- Letters
    Collections <- FewDocuments
    Queries <- Asked
    Limits = {1, 2, 5}
INVARIANTS
    PostingsExact
    SpellingsExact
    SearchIsExact
    SharedKeyAgrees
    SuggestionsExact
    SuggestionsFind
