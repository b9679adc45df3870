-------------------------- MODULE AutocompleteIndex --------------------------
(***************************************************************************)
(* services/autocomplete_index.py: a trie of lower-case words, each with   *)
(* one spelling to show.  A node is the word that leads to it, so a trie   *)
(* is a set of words closed under prefixes and the spelling at those that  *)
(* end a term.                                                             *)
(***************************************************************************)
EXTENDS CodeTokenizer

CONSTANT Code  \* code point of each character a lower-case term may have

ASSUME CodeAssumption ==
    /\ Lower \cup Digits \cup {Underscore} \subseteq DOMAIN Code
    /\ \A c \in DOMAIN Code : Code[c] \in Int
    /\ IsInjective(Code)

EmptyTrie == [nodes |-> {<<>>}, shown |-> <<>>]

(* The first spelling stays, unless it is all in lower case and the new    *)
(* one is not.                                                             *)
PreferredLast(trie, word, term) == term
PreferredFirst(trie, word, term) ==
    IF word \in DOMAIN trie.shown THEN trie.shown[word] ELSE term

Preferred(trie, word, term) ==
    IF \/ word \notin DOMAIN trie.shown
       \/ trie.shown[word] = word /\ term # word
    THEN term ELSE trie.shown[word]

Insert(trie, term) ==
    LET word == ToLower(term)
    IN  [nodes |-> trie.nodes \cup Prefixes(word),
         shown |-> [w \in DOMAIN trie.shown \cup {word} |->
                       IF w = word THEN Preferred(trie, word, term) ELSE trie.shown[w]]]

(* collect_terms: depth first, children by code point, nothing more once   *)
(* the limit is reached.                                                   *)
Children(trie, word) ==
    LET next == { c \in DOMAIN Code : Append(word, c) \in trie.nodes }
    IN  Sorted(next, { p \in next \X next : Code[p[1]] < Code[p[2]] })

CollectTerms(trie, start, limit) ==
    LET collect[word \in trie.nodes] == [suggestions \in Seq(Range(trie.shown)) |->
            IF Len(suggestions) >= limit THEN suggestions
            ELSE LET children == Children(trie, word)
                     after[n \in 0..Len(children)] ==
                        IF n > 0 THEN collect[Append(word, children[n])][after[n - 1]]
                        ELSE IF word \in DOMAIN trie.shown
                             THEN Append(suggestions, trie.shown[word]) ELSE suggestions
                 IN  after[Len(children)]]
    IN  collect[start][<<>>]

SuggestTerms(trie, prefix, limit) ==
    LET word == ToLower(prefix)
    IN  IF word \in trie.nodes THEN CollectTerms(trie, word, limit) ELSE <<>>
=============================================================================
