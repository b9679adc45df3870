---------------------------- MODULE InvertedIndex ----------------------------
(***************************************************************************)
(* services/inverted_index.py: which documents contain a token, how often  *)
(* and on which lines.  A document has an id and a content (a sequence of  *)
(* lines); ids are primary keys of the documents table, so that the        *)
(* refusals of a duplicate or non-positive id never apply.                 *)
(***************************************************************************)
EXTENDS CodeTokenizer, TLC

EmptyIndex ==
    [documents   |-> <<>>,   \* [id, length, lines] in the order added
     postings    |-> <<>>,   \* token -> document id -> [tf, lines]
     identifiers |-> {}]

At(f, x, default) == IF x \in DOMAIN f THEN f[x] ELSE default
With(f, x, value) == [y \in DOMAIN f \cup {x} |-> IF y = x THEN value ELSE f[y]]

NoOccurrence == [tf |-> 0, lines |-> {}]

CountedOncePerLine(postings, id, occurrence) ==
    LET documents == At(postings, occurrence.token, <<>>)
        posting   == At(documents, id, NoOccurrence)
    IN  With(postings, occurrence.token,
             With(documents, id,
                  [tf    |-> Cardinality(posting.lines \cup {occurrence.line}),
                   lines |-> posting.lines \cup {occurrence.line}]))

Counted(postings, id, occurrence) ==
    LET documents == At(postings, occurrence.token, <<>>)
        posting   == At(documents, id, NoOccurrence)
    IN  With(postings, occurrence.token,
             With(documents, id,
                  [tf    |-> posting.tf + 1,
                   lines |-> posting.lines \cup {occurrence.line}]))

(* add_document, up to the loop that counts the tokens *)
Registered(index, document) ==
    [index EXCEPT
        !.documents = Append(@, [id     |-> document.id,
                                 length |-> Len(TokensByLine(document.content)),
                                 lines  |-> Len(document.content)]),
        !.identifiers = @ \cup
            UNION { Identifiers(document.content[n]) : n \in DOMAIN document.content }]

AddDocument(index, document) ==
    [Registered(index, document) EXCEPT
        !.postings = FoldLeft(LAMBDA postings, o : Counted(postings, document.id, o),
                              @, TokensByLine(document.content))]

(* get_postings, in the order the documents were added *)
GetPostings(index, token) ==
    LET documents == At(index.postings, ToLower(token), <<>>)
        listed == { i \in DOMAIN index.documents :
                        index.documents[i].id \in DOMAIN documents }
        added == Sorted(listed, { p \in listed \X listed : p[1] < p[2] })
    IN  [k \in DOMAIN added |->
            LET d == index.documents[added[k]]
            IN  [id |-> d.id, length |-> d.length,
                 tf |-> documents[d.id].tf, lines |-> documents[d.id].lines]]

DocumentFrequency(index, token) == Len(GetPostings(index, token))

Total(f, n) ==
    LET sum[k \in 0..n] == IF k = 0 THEN 0 ELSE sum[k - 1] + f[k]
    IN  sum[n]

TotalTokens(index) ==
    Total([i \in DOMAIN index.documents |-> index.documents[i].length],
          Len(index.documents))

(* vocabulary() | identifier_vocabulary(), what autocomplete is built from *)
Terms(index) == DOMAIN index.postings \cup index.identifiers
=============================================================================
