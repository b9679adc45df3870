---------------------------- MODULE MCSharedEntry ----------------------------
(* SearchService over the ranker: the collection is a list of documents, a *)
(* request a query and a limit, and the cache key what the code keeps of   *)
(* it.  The documents tie for the two words of the queries.                *)
EXTENDS SearchService, BM25Ranker

CONSTANTS t1, t2  \* model values

Capitals == {"B"}
Small == {"a", "b"}
CaseOf == "B" :> "b"
IdfTable == <<<<288>>, <<693, 182>>>>

Tied == <<[id |-> 1, content |-> <<<<"a", "b">>>>],
          [id |-> 2, content |-> <<<<"b", "a">>>>]>>
TiedOnly == {Tied}

Reordered == { [query |-> q, limit |-> 1] :
                q \in {<<"a", "b", "B", "a">>, <<"b", "a", " ", "a", "b">>} }

CodeKey == [r \in Reordered |-> RequestKey(r.query, r.limit)]
CodeKeys == { CodeKey[r] : r \in Reordered }

IndexOf(documents) == FoldLeft(AddDocument, EmptyIndex, documents)

(* Queries with the same normalized tokens are equivalent: what a request  *)
(* is answered with is what searching the captured documents for it gives, *)
(* also when another query's entry was found (search_cache_key.py and      *)
(* test_search_cache_key_normalizes_equivalent_queries).                   *)
AnswersTheRequest ==
    \A t \in Threads : call[t].answer # Null =>
        LET asked == call[t].req
            found == call[t].answer.req
        IN  SearchIndex(IndexOf(call[t].answer.docs), found.query, found.limit)
                = SearchIndex(IndexOf(call[t].state.docs), asked.query, asked.limit)
=============================================================================
