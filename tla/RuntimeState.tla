---------------------------- MODULE RuntimeState ----------------------------
(***************************************************************************)
(* SearchEngine.build_runtime_state: the stored documents of a repository  *)
(* are added to a new index one by one and token by token, then the terms  *)
(* of the index to a new trie in whatever order the set of them is         *)
(* iterated.  The finished state answers searches and suggestions and      *)
(* never changes.                                                          *)
(***************************************************************************)
EXTENDS BM25Ranker, AutocompleteIndex

CONSTANTS
    Characters,   \* that texts are made of
    Collections,  \* document lists the table may hold, by relative path
    Queries,      \* queries, and prefixes, asked of the finished state
    Limits        \* results and suggestions a caller may ask for

ASSUME CollectionsAssumption ==
    \A documents \in Collections :
        /\ documents \in Seq(Range(documents))
        /\ IsInjective([i \in DOMAIN documents |-> documents[i].id])
        /\ \A i \in DOMAIN documents : documents[i].content \in Seq(Seq(Characters))
        /\ documents = <<>> \/ Len(documents) \in DOMAIN Idf

ASSUME RequestsAssumption == Queries \subseteq Seq(Characters) /\ Limits \subseteq Nat \ {0}

VARIABLES
    stored,  \* the documents read from the table
    stage,   \* what is being built
    index,
    counted, \* tokens of the last document of the index counted so far
    trie,
    terms    \* terms still to be inserted into the trie

vars == <<stored, stage, index, counted, trie, terms>>

Occurrences(document) == TokensByLine(document.content)

Init ==
    /\ stored \in Collections
    /\ stage = "index"
    /\ index = EmptyIndex
    /\ counted = 0
    /\ trie = EmptyTrie
    /\ terms = {}

LastAdded == stored[Len(index.documents)]

AllCounted == index.documents # <<>> => counted = Len(Occurrences(LastAdded))

AddNext ==
    /\ stage = "index" /\ AllCounted
    /\ Len(index.documents) < Len(stored)
    /\ index' = Registered(index, stored[Len(index.documents) + 1])
    /\ counted' = 0
    /\ UNCHANGED <<stored, stage, trie, terms>>

CountNext ==
    /\ stage = "index" /\ ~AllCounted
    /\ index' = [index EXCEPT !.postings =
                    Counted(@, LastAdded.id, Occurrences(LastAdded)[counted + 1])]
    /\ counted' = counted + 1
    /\ UNCHANGED <<stored, stage, trie, terms>>

CollectTermsOfIndex ==
    /\ stage = "index" /\ AllCounted
    /\ Len(index.documents) = Len(stored)
    /\ stage' = "trie"
    /\ terms' = Terms(index)
    /\ UNCHANGED <<stored, index, counted, trie>>

InsertTerm(term) ==
    /\ stage = "trie" /\ term \in terms
    /\ trie' = Insert(trie, term)
    /\ terms' = terms \ {term}
    /\ UNCHANGED <<stored, stage, index, counted>>

Built ==
    /\ stage = "trie" /\ terms = {}
    /\ stage' = "ready"
    /\ UNCHANGED <<stored, index, counted, trie, terms>>

(* Searches and suggestions read the finished state. *)
Answering ==
    /\ stage = "ready"
    /\ UNCHANGED vars

Next ==
    \/ AddNext \/ CountNext \/ CollectTermsOfIndex
    \/ \E t \in terms : InsertTerm(t)
    \/ Built \/ Answering

Spec == Init /\ [][Next]_vars

-----------------------------------------------------------------------------
(* What the documents themselves say. *)

CountOf(document, token) ==
    Cardinality({ i \in DOMAIN Occurrences(document) : Occurrences(document)[i].token = token })

LinesOf(document, tokens) ==
    { o.line : o \in { o \in ToSet(Occurrences(document)) : o.token \in tokens } }

Matching(tokens) == { i \in DOMAIN stored : LinesOf(stored[i], tokens) # {} }

TermScore(i, token) ==
    IF i \notin Matching({token}) THEN 0
    ELSE ScoreTerm(index, [tf |-> CountOf(stored[i], token),
                           length |-> Len(Occurrences(stored[i]))],
                   Cardinality(Matching({token})))

ScoreOf(i, query) ==
    LET tokens == Tokenize(query)
    IN  Total([k \in DOMAIN tokens |-> TermScore(i, tokens[k])], Len(tokens))

WordsWith(prefix) ==
    { w \in { ToLower(t) : t \in Terms(index) } : IsPrefix(ToLower(prefix), w) }

(* Alphabetical order: v is a prefix of w, or smaller where they part. *)
Precedes(v, w) ==
    \/ IsStrictPrefix(v, w)
    \/ \E i \in (DOMAIN v) \cap (DOMAIN w) :
        /\ \A j \in 1..(i - 1) : v[j] = w[j]
        /\ Code[v[i]] < Code[w[i]]

InAlphabet(words) == { p \in words \X words : Precedes(p[1], p[2]) }

-----------------------------------------------------------------------------
(* The tokens counted so far of a document of the index. *)
CountedOf(i) ==
    IF i = Len(index.documents) THEN counted ELSE Len(Occurrences(stored[i]))

PlacesIn(occurrences, n, token) == { k \in 1..n : occurrences[k].token = token }
PlacesOf(i, token) == PlacesIn(Occurrences(stored[i]), CountedOf(i), token)

PostingExact(token) ==
    /\ DOMAIN index.postings[token] =
        { stored[i].id : i \in { j \in DOMAIN index.documents : PlacesOf(j, token) # {} } }
    /\ \A i \in DOMAIN index.documents :
        LET places      == PlacesOf(i, token)
            occurrences == Occurrences(stored[i])
        IN  places # {} => index.postings[token][stored[i].id] =
                [tf |-> Cardinality(places), lines |-> { occurrences[k].line : k \in places }]

AllListed(i) ==
    LET occurrences == Occurrences(stored[i])
    IN  \A k \in 1..CountedOf(i) : occurrences[k].token \in DOMAIN index.postings

(* At every moment of the construction the index lists a document under a  *)
(* token exactly if one of those counted is that token, with how many are  *)
(* and on which lines, whatever documents were added before it; and when   *)
(* the terms are collected nothing is left to count.                       *)
PostingsExact ==
    /\ \A token \in DOMAIN index.postings : PostingExact(token)
    /\ \A i \in DOMAIN index.documents : AllListed(i)
    /\ stage # "index" =>
        /\ Len(index.documents) = Len(stored)
        /\ \A i \in DOMAIN index.documents : CountedOf(i) = Len(Occurrences(stored[i]))

(* The terms inserted so far, and what a trie that holds them is. *)
Added == IF stage = "index" THEN {} ELSE Terms(index) \ terms

Spells(t, added) ==
    /\ t.nodes = {<<>>} \cup UNION { Prefixes(ToLower(a)) : a \in added }
    /\ DOMAIN t.shown = { ToLower(a) : a \in added }
    /\ \A word \in DOMAIN t.shown :
        /\ t.shown[word] \in added
        /\ ToLower(t.shown[word]) = word
        /\ t.shown[word] = word => \A a \in added : ToLower(a) = word => a = word

(* At every moment of the construction, in whatever order the terms come,  *)
(* the trie leads to the words inserted so far and shows for each a        *)
(* spelling of its own, one with capitals if any was inserted.             *)
SpellingsExact == Spells(trie, Added)

(* A search returns as many as the limit allows of exactly the documents   *)
(* that share a token with the query, best first, none better left out;    *)
(* each with its score, the lines that match, and the first of them shown. *)
FindsTheBest(query, limit) ==
    LET tokens  == ToSet(Tokenize(query))
        results == SearchIndex(index, query, limit)
        place(r) == CHOOSE i \in DOMAIN stored : stored[i].id = r.id
        returned == { place(r) : r \in ToSet(results) }
    IN  /\ Len(results) = Min({limit, Cardinality(Matching(tokens))})
        /\ Cardinality(returned) = Len(results)
        /\ returned \subseteq Matching(tokens)
        /\ \A k \in DOMAIN results :
            LET r == results[k]
                i == place(r)
            IN  /\ r.score = ScoreOf(i, query)
                /\ r.tokens = { t \in tokens : i \in Matching({t}) }
                /\ r.lines = LinesOf(stored[i], tokens)
                /\ r.snippets \subseteq r.lines
                /\ \A n \in r.snippets, m \in r.lines \ r.snippets : n < m
                /\ Cardinality(r.snippets) = Min({MaxSnippetLines, Cardinality(r.lines)})
                /\ k + 1 \in DOMAIN results => r.score >= results[k + 1].score
                /\ \A j \in Matching(tokens) \ returned : r.score >= ScoreOf(j, query)

(* What a finished runtime state answers to any query and limit is exactly *)
(* what its documents say (BM25Ranker.search), although it is computed     *)
(* from postings counted one by one.                                       *)
SearchIsExact ==
    stage = "ready" => \A query \in Queries, limit \in Limits : FindsTheBest(query, limit)

(* Two queries get the same scores at every rank, and the same documents   *)
(* and lines when the limit cuts nothing off.                              *)
ScoreAlike(q1, q2, limit) ==
    LET a == SearchIndex(index, q1, limit)
        b == SearchIndex(index, q2, limit)
    IN  /\ [k \in DOMAIN a |-> a[k].score] = [k \in DOMAIN b |-> b[k].score]
        /\ limit >= Cardinality(Matching(ToSet(Tokenize(q1)))) => ToSet(a) = ToSet(b)

(* That is so of queries under one cache key, whatever the order of their  *)
(* tokens (SearchCacheKeyBuilder.build): all that a cached answer may      *)
(* differ in is which of several equal documents the limit leaves out.     *)
SharedKeyAgrees ==
    stage = "ready" => \A q1, q2 \in Queries, limit \in Limits :
        RequestKey(q1, limit) = RequestKey(q2, limit) => ScoreAlike(q1, q2, limit)

(* Suggestions are the first words with the prefix in alphabetical order,  *)
(* each in a spelling the documents have, with capitals if one of them     *)
(* has: the order of insertion decides only between spellings that have.   *)
SuggestionsExact ==
    stage = "ready" => \A prefix \in Queries, limit \in Limits :
        LET words == Sorted(WordsWith(prefix), InAlphabet(WordsWith(prefix)))
            shown == SuggestTerms(trie, prefix, limit)
        IN  /\ [k \in DOMAIN shown |-> ToLower(shown[k])] = CutTo(limit, words)
            /\ \A term \in ToSet(shown) :
                /\ term \in Terms(index)
                /\ term = ToLower(term) =>
                    \A t \in Terms(index) : ToLower(t) = term => t = term

(* Searching for what autocomplete suggests finds something, unless the    *)
(* suggestion has no token at all (its words are single letters).          *)
SuggestionsFind ==
    stage = "ready" => \A prefix \in Queries, limit \in Limits :
        \A term \in ToSet(SuggestTerms(trie, prefix, limit)) :
            Tokenize(term) # <<>> => SearchIndex(index, term, limit) # <<>>
=============================================================================
