----------------------------- MODULE BM25Ranker -----------------------------
(***************************************************************************)
(* services/bm25_ranker.py: the documents an index has for a query, best   *)
(* first, and services/search_cache_key.py: what the cache keeps of the    *)
(* query.  Scores are integers here: the formula is that of the code with  *)
(* k1 = 1.5 and b = 0.75, brought over one denominator and scaled.         *)
(***************************************************************************)
EXTENDS InvertedIndex

CONSTANTS
    Idf,             \* Idf[n][df], _inverse_document_frequency, scaled
    MaxSnippetLines  \* lines shown of a result

ASSUME RankerAssumption ==
    /\ MaxSnippetLines \in Nat \ {0}
    /\ \A n \in DOMAIN Idf : Idf[n] \in [1..n -> Nat \ {0}]

ScoreTerm(index, posting, df) ==
    LET n == Len(index.documents)
        total == TotalTokens(index)
    IN  (100 * Idf[n][df] * 20 * posting.tf * total)
            \div (8 * posting.tf * total + 3 * total + 9 * posting.length * n)

(* What one posting adds to the document's result.  The results found so   *)
(* far are in the order of their first match, that of the code's dict.     *)
AddPosting(found, posting, token, score) ==
    IF \A k \in DOMAIN found : found[k].id # posting.id
    THEN Append(found, [id |-> posting.id, score |-> score,
                        tokens |-> {token}, lines |-> posting.lines])
    ELSE [k \in DOMAIN found |->
            IF found[k].id # posting.id THEN found[k]
            ELSE [id     |-> posting.id,
                  score  |-> found[k].score + score,
                  tokens |-> found[k].tokens \cup {token},
                  lines  |-> found[k].lines \cup posting.lines]]

AddToken(index, found, token) ==
    LET postings == GetPostings(index, token)
        after[n \in 0..Len(postings)] ==
            IF n = 0 THEN found
            ELSE AddPosting(after[n - 1], postings[n], token,
                            ScoreTerm(index, postings[n], Len(postings)))
    IN  after[Len(postings)]

(* An index whose documents have no token has average length zero. *)
Matches(index, query) ==
    LET tokens == Tokenize(query)
        after[n \in 0..Len(tokens)] ==
            IF n = 0 THEN <<>> ELSE AddToken(index, after[n - 1], tokens[n])
    IN  IF TotalTokens(index) = 0 THEN <<>> ELSE after[Len(tokens)]

(* _build_snippets: the first matched lines the document has *)
Snippets(index, result) ==
    LET document == CHOOSE d \in Range(index.documents) : d.id = result.id
    IN  { n \in result.lines :
            /\ n <= document.lines
            /\ Cardinality({ m \in result.lines : m < n }) < MaxSnippetLines }

(* sorted(..., reverse=True) keeps the order of results with equal scores. *)
BestFirst(found) ==
    LET order == Sorted(DOMAIN found, { p \in (DOMAIN found) \X (DOMAIN found) :
                    \/ found[p[1]].score > found[p[2]].score
                    \/ found[p[1]].score = found[p[2]].score /\ p[1] < p[2] })
    IN  [k \in DOMAIN found |-> found[order[k]]]

CutTo(limit, results) == SubSeq(results, 1, Min({limit, Len(results)}))

WithSnippets(index, r) ==
    [id |-> r.id, score |-> r.score, tokens |-> r.tokens, lines |-> r.lines,
     snippets |-> Snippets(index, r)]

SearchIndexCutFirst(index, query, limit) ==
    LET results == BestFirst(CutTo(limit, Matches(index, query)))
    IN  [k \in DOMAIN results |-> WithSnippets(index, results[k])]

SearchIndex(index, query, limit) ==
    LET results == CutTo(limit, BestFirst(Matches(index, query)))
    IN  [k \in DOMAIN results |-> WithSnippets(index, results[k])]

-----------------------------------------------------------------------------
(* SearchCacheKeyBuilder.build: the sorted tokens, that is the bag of      *)
(* them, and the limit.                                                    *)
RequestKeyOnce(query, limit) == <<ToSet(Tokenize(query)), limit>>
RequestKey(query, limit) == <<ToBag(Tokenize(query)), limit>>
=============================================================================
