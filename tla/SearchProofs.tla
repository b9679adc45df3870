---------------------------- MODULE SearchProofs ----------------------------
(***************************************************************************)
(* What a search returns: bm25_ranker.search ranks every document that has *)
(* a token of the query by its score and returns the first of them, so the *)
(* answer is that of scanning the content of every document; and two       *)
(* queries that share a cache key (search_cache_key.build) have one answer.*)
(***************************************************************************)
EXTENDS RuntimeStateProofs

-----------------------------------------------------------------------------
(* The documents that match, and the postings that list them.              *)

(* What the postings of a token say of the document at place i. *)
PostingOf(i, token) ==
    [id |-> stored[i].id, length |-> Len(Occurrences(stored[i])),
     tf |-> CountOf(stored[i], token), lines |-> LinesOf(stored[i], {token})]

(* The postings of a token are those of the documents that have it, once   *)
(* each.                                                                   *)
Lists(postings, token, added) ==
    /\ postings \in [1..Cardinality(Matching({token})) ->
                        { PostingOf(i, token) : i \in Matching({token}) }]
    /\ \A k \in 1..Cardinality(Matching({token})) : postings[k] = PostingOf(added[k], token)
    /\ \A j, k \in 1..Cardinality(Matching({token})) : added[j] = added[k] => j = k
    /\ \A i \in Matching({token}) : \E k \in 1..Cardinality(Matching({token})) : added[k] = i

LEMMA MatchingIs ==
    ASSUME stored \in Collections, NEW tokens
    PROVE  /\ Matching(tokens) \subseteq 1..Len(stored)
           /\ IsFiniteSet(Matching(tokens)) /\ Cardinality(Matching(tokens)) \in Nat
           /\ Cardinality(Matching(tokens)) <= Len(stored)
           /\ \A i : i \in Matching(tokens) <=>
                        i \in 1..Len(stored) /\ \E t \in tokens : i \in Matching({t})
<1>1. DOMAIN stored = 1..Len(stored) /\ Len(stored) \in Nat
  BY StoredRows
<1>2. Matching(tokens) \in SUBSET (1..Len(stored))
  BY <1>1 DEF Matching
<1>3. IsFiniteSet(1..Len(stored)) /\ Cardinality(1..Len(stored)) = Len(stored)
  <2>1. 1 \in Int /\ Len(stored) \in Int
    BY <1>1
  <2>2. /\ IsFiniteSet(1..Len(stored))
        /\ Cardinality(1..Len(stored)) = IF 1 > Len(stored) THEN 0 ELSE Len(stored) - 1 + 1
    BY <2>1, FS_Interval
  <2>3. QED
    BY <1>1, <2>2
<1>4. IsFiniteSet(Matching(tokens)) /\ Cardinality(Matching(tokens)) <= Len(stored)
  BY <1>2, <1>3, FS_Subset
<1>5. Cardinality(Matching(tokens)) \in Nat
  BY <1>4, FS_CardinalityType
<1>6. ASSUME NEW i PROVE i \in Matching(tokens) <=>
                           i \in 1..Len(stored) /\ \E t \in tokens : i \in Matching({t})
  <2>1. LinesOf(stored[i], tokens) # {} <=> \E t \in tokens : LinesOf(stored[i], {t}) # {}
    BY DEF LinesOf
  <2>2. QED
    BY <1>1, <2>1 DEF Matching
<1>7. QED
  BY <1>2, <1>4, <1>5, <1>6

LEMMA PostingsListed ==
    ASSUME IndexFinished, NEW token, ToLower(token) = token
    PROVE  \E added \in [1..Cardinality(Matching({token})) -> Matching({token})] :
              Lists(GetPostings(index, token), token, added)
<1>1. PICK documents : documents = At(index.postings, ToLower(token), <<>>)
  OBVIOUS
<1>2. PICK M, n : M = Matching({token}) /\ n = Len(stored)
  OBVIOUS
<1>3. /\ M \subseteq 1..n /\ IsFiniteSet(M) /\ Cardinality(M) \in Nat /\ n \in Nat
      /\ stored \in Collections /\ DOMAIN index.documents = 1..n
      /\ \A i, j \in 1..n : stored[i].id = stored[j].id => i = j
  BY <1>2, MatchingIs, StoredRows DEF IndexFinished
<1>4. /\ DOMAIN documents = { stored[i].id : i \in M }
      /\ \A i \in M : documents[stored[i].id] =
            [tf |-> CountOf(stored[i], token), lines |-> LinesOf(stored[i], {token})]
  <2>1. CASE token \in DOMAIN index.postings
    <3>1. documents = index.postings[token]
      BY <1>1, <2>1 DEF At
    <3>2. QED
      BY <1>2, <2>1, <3>1 DEF IndexFinished
  <2>2. CASE token \notin DOMAIN index.postings
    <3>1. documents = <<>> /\ DOMAIN documents = {}
      BY <1>1, <2>2 DEF At
    <3>2. M = {}
      BY <1>2, <2>2 DEF IndexFinished
    <3>3. QED
      BY <3>1, <3>2
  <2>3. QED
    BY <2>1, <2>2
<1>5. ASSUME NEW i \in 1..n
      PROVE  /\ index.documents[i].id = stored[i].id
             /\ index.documents[i].length = Len(Occurrences(stored[i]))
  <2>1. index.documents[i] = [id     |-> stored[i].id,
                              length |-> Len(Occurrences(stored[i])),
                              lines  |-> Len(stored[i].content)]
    BY <1>2 DEF IndexFinished
  <2>2. QED
    BY ONLY <2>1
<1>6. { i \in DOMAIN index.documents : index.documents[i].id \in DOMAIN documents } = M
  <2>1. ASSUME NEW i \in 1..n PROVE index.documents[i].id \in DOMAIN documents <=> i \in M
    <3>1. index.documents[i].id = stored[i].id
      BY <1>5
    <3>2. \A j \in M : stored[j].id = stored[i].id => j = i
      BY <1>3
    <3>3. QED
      BY <1>4, <3>1, <3>2
  <2>2. QED
    BY <1>3, <2>1
<1>7. PICK before : before = { p \in M \X M : p[1] < p[2] }
  OBVIOUS
<1>8. PICK added : added = Sorted(M, before)
  OBVIOUS
<1>9. /\ added \in [1..Cardinality(M) -> M]
      /\ \A j, k \in 1..Cardinality(M) : j < k <=> <<added[j], added[k]>> \in before
      /\ \A i \in M : \E k \in 1..Cardinality(M) : added[k] = i
  <2>1. \A x, y \in M : <<x, y>> \in before <=> x < y
    BY <1>7
  <2>2. \A x \in M : x \in Int
    BY <1>3
  <2>3. \A x, y \in M : <<x, y>> \in before => x # y /\ <<y, x>> \notin before
    BY <2>1, <2>2
  <2>4. \A x, y, z \in M : <<x, y>> \in before /\ <<y, z>> \in before => <<x, z>> \in before
    BY <2>1, <2>2
  <2>5. \A x, y \in M : x # y => <<x, y>> \in before \/ <<y, x>> \in before
    BY <2>1, <2>2
  <2>6. /\ Sorted(M, before) \in [1..Cardinality(M) -> M]
        /\ \A j, k \in 1..Cardinality(M) :
             j < k <=> <<Sorted(M, before)[j], Sorted(M, before)[k]>> \in before
        /\ \A i \in M : \E k \in 1..Cardinality(M) : Sorted(M, before)[k] = i
    <3>1. IsFiniteSet(M)
      BY <1>3
    <3>2. QED
      BY ONLY <3>1, <2>3, <2>4, <2>5, SortedIs
  <2>7. QED
    BY <1>8, <2>6
<1>10. \A j, k \in 1..Cardinality(M) : added[j] = added[k] => j = k
  <2> SUFFICES ASSUME NEW j \in 1..Cardinality(M), NEW k \in 1..Cardinality(M),
                      added[j] = added[k], j # k
               PROVE  FALSE
    OBVIOUS
  <2>1. j < k \/ k < j
    BY <1>3
  <2>2. <<added[j], added[j]>> \in before
    BY <1>9, <2>1
  <2>3. added[j] \in Int
    <3>1. added[j] \in M
      <4>1. added \in [1..Cardinality(M) -> M] /\ j \in 1..Cardinality(M)
        BY <1>9
      <4>2. QED
        BY ONLY <4>1
    <3>2. M \subseteq 1..n
      BY <1>3
    <3>3. added[j] \in 1..n
      BY ONLY <3>1, <3>2
    <3>4. QED
      BY ONLY <3>3
  <2>4. QED
    BY <1>7, <2>2, <2>3
<1>11. GetPostings(index, token) =
         [k \in DOMAIN added |->
            [id |-> index.documents[added[k]].id, length |-> index.documents[added[k]].length,
             tf |-> documents[index.documents[added[k]].id].tf,
             lines |-> documents[index.documents[added[k]].id].lines]]
  <2>1. PICK listed :
           listed = { i \in DOMAIN index.documents : index.documents[i].id \in DOMAIN documents }
    OBVIOUS
  <2>2. PICK order : order = Sorted(listed, { p \in listed \X listed : p[1] < p[2] })
    OBVIOUS
  <2>3. order = added
    BY ONLY <1>6, <1>7, <1>8, <2>1, <2>2
  <2>4. GetPostings(index, token) =
         [k \in DOMAIN order |->
            [id |-> index.documents[order[k]].id, length |-> index.documents[order[k]].length,
             tf |-> documents[index.documents[order[k]].id].tf,
             lines |-> documents[index.documents[order[k]].id].lines]]
    BY ONLY <1>1, <2>1, <2>2 DEF GetPostings
  <2>5. QED
    BY ONLY <2>3, <2>4
<1>12. PICK postings : postings = GetPostings(index, token)
  OBVIOUS
<1>13. DOMAIN postings = 1..Cardinality(M) /\ \A k \in 1..Cardinality(M) : postings[k] =
            [id |-> index.documents[added[k]].id, length |-> index.documents[added[k]].length,
             tf |-> documents[index.documents[added[k]].id].tf,
             lines |-> documents[index.documents[added[k]].id].lines]
  BY <1>9, <1>11, <1>12
<1>14. ASSUME NEW k \in 1..Cardinality(M) PROVE postings[k] = PostingOf(added[k], token)
  <2>1. PICK i : i = added[k]
    OBVIOUS
  <2>2. i \in M /\ i \in 1..n
    BY <1>3, <1>9, <2>1
  <2>3. index.documents[i].id = stored[i].id /\ index.documents[i].length = Len(Occurrences(stored[i]))
    BY <1>5, <2>2
  <2>4. /\ documents[stored[i].id].tf = CountOf(stored[i], token)
        /\ documents[stored[i].id].lines = LinesOf(stored[i], {token})
    <3>1. documents[stored[i].id] =
            [tf |-> CountOf(stored[i], token), lines |-> LinesOf(stored[i], {token})]
      BY <1>4, <2>2
    <3>2. QED
      BY ONLY <3>1
  <2>5. postings[k] = [id |-> index.documents[i].id, length |-> index.documents[i].length,
                       tf |-> documents[index.documents[i].id].tf,
                       lines |-> documents[index.documents[i].id].lines]
    BY <1>13, <2>1
  <2>6. QED
    BY ONLY <2>1, <2>3, <2>4, <2>5 DEF PostingOf
<1>15. postings \in [1..Cardinality(M) -> { PostingOf(i, token) : i \in M }]
  <2>1. postings = [k \in 1..Cardinality(M) |-> postings[k]]
    BY <1>9, <1>11, <1>12
  <2>2. \A k \in 1..Cardinality(M) : postings[k] \in { PostingOf(i, token) : i \in M }
    BY <1>9, <1>14
  <2>3. QED
    BY <2>1, <2>2
<1>16. QED
  <2>1. Lists(postings, token, added)
    BY ONLY <1>2, <1>9, <1>10, <1>14, <1>15 DEF Lists
  <2>2. QED
    BY <1>2, <1>9, <1>12, <2>1

-----------------------------------------------------------------------------
(* Sums of term scores.                                                    *)

LEMMA TotalIs ==
    ASSUME NEW N \in Nat, NEW f, \A k \in 1..N : f[k] \in Int
    PROVE  /\ Total(f, 0) = 0
           /\ \A n \in 1..N : Total(f, n) = Total(f, n - 1) + f[n]
           /\ \A n \in 0..N : Total(f, n) \in Int
<1>1. PICK g \in [0..N -> Int] : g[0] = 0 /\ \A n \in 1..N : g[n] = g[n - 1] + f[n]
  <2>1. PICK op : op = [n \in 1..N |-> [x \in Int |-> x + f[n]]]
    OBVIOUS
  <2>2. \A x \in Int, n \in 1..N : op[n][x] = x + f[n]
    BY <2>1
  <2>a. ASSUME NEW x \in Int, NEW n \in 1..N PROVE op[n][x] \in Int
    BY <2>2
  <2>3. PICK g \in [0..N -> Int] : Iterated(g, 0, N, op)
    <3>1. 0 \in Int
      OBVIOUS
    <3>2. QED
      BY <2>a, <3>1, Iterates
  <2>4. \A n \in 1..N : n - 1 \in 0..N
    OBVIOUS
  <2>5. ASSUME NEW n \in 1..N PROVE g[n] = g[n - 1] + f[n]
    <3>1. g[n - 1] \in Int
      BY <2>4
    <3>2. g[n] = op[n][g[n - 1]]
      BY <2>3 DEF Iterated
    <3>3. QED
      BY <2>2, <3>1, <3>2
  <2>6. QED
    BY <2>3, <2>5 DEF Iterated
<1>2. ASSUME NEW n \in 0..N PROVE Total(f, n) = g[n]
  <2> DEFINE sum == CHOOSE sum : sum = [k \in 0..n |-> IF k = 0 THEN 0 ELSE sum[k - 1] + f[k]]
  <2>1. Total(f, n) = sum[n]
    BY DEF Total
  <2>2. \E h : h = [k \in 0..n |-> IF k = 0 THEN 0 ELSE h[k - 1] + f[k]]
    <3>1. PICK h : h = [k \in 0..n |-> g[k]]
      OBVIOUS
    <3>2. ASSUME NEW k \in 0..n PROVE h[k] = IF k = 0 THEN 0 ELSE h[k - 1] + f[k]
      <4>1. h[k] = g[k] /\ (k # 0 => k \in 1..N /\ h[k - 1] = g[k - 1])
        BY <3>1
      <4>2. QED
        BY <1>1, <4>1
    <3>3. h = [k \in 0..n |-> IF k = 0 THEN 0 ELSE h[k - 1] + f[k]]
      BY <3>1, <3>2
    <3>4. QED
      BY <3>3
  <2>3. sum = [k \in 0..n |-> IF k = 0 THEN 0 ELSE sum[k - 1] + f[k]]
    BY <2>2
  <2> HIDE DEF sum
  <2>4. sum[0] = 0 /\ \A k \in 1..n : sum[k] = sum[k - 1] + f[k]
    BY <2>3
  <2> DEFINE T == { k \in 0..n : sum[k] = g[k] }
  <2>5. 0 \in T
    BY <1>1, <2>4
  <2>6. ASSUME NEW k \in 0..(n - 1), k \in T PROVE k + 1 \in T
    <3>1. k + 1 \in 1..n /\ k + 1 \in 1..N /\ (k + 1) - 1 = k /\ k + 1 \in 0..n
      OBVIOUS
    <3>2. sum[k + 1] = sum[k] + f[k + 1] /\ g[k + 1] = g[k] + f[k + 1]
      BY <1>1, <2>4, <3>1
    <3>3. sum[k] = g[k]
      BY <2>6
    <3>4. sum[k + 1] = g[k + 1]
      BY ONLY <3>2, <3>3
    <3>5. QED
      BY <3>1, <3>4
  <2> HIDE DEF T
  <2>b. n \in Nat /\ n \in 0..n
    OBVIOUS
  <2>7. 0..n \subseteq T
    BY <2>b, <2>5, <2>6, Induct
  <2>8. QED
    BY <2>1, <2>b, <2>7 DEF T
<1>3. \A n \in 1..N : n - 1 \in 0..N /\ n \in 0..N
  OBVIOUS
<1>4. Total(f, 0) = 0
  BY <1>1, <1>2
<1>5. \A n \in 1..N : Total(f, n) = Total(f, n - 1) + f[n]
  BY <1>1, <1>2, <1>3
<1>6. QED
  BY <1>1, <1>2, <1>4, <1>5

(* A sum of naturals is at least each of them. *)
LEMMA TotalCovers ==
    ASSUME NEW N \in Nat, NEW f, \A k \in 1..N : f[k] \in Nat
    PROVE  Total(f, N) \in Nat /\ \A k \in 1..N : f[k] <= Total(f, N)
<1> DEFINE T == { n \in 0..N : Total(f, n) \in Nat /\ \A k \in 1..n : f[k] <= Total(f, n) }
<1>1. /\ Total(f, 0) = 0
      /\ \A n \in 1..N : Total(f, n) = Total(f, n - 1) + f[n]
  <2>1. \A k \in 1..N : f[k] \in Int
    OBVIOUS
  <2>2. QED
    BY <2>1, TotalIs
<1>2. 0 \in T
  <2>1. 0 \in 0..N /\ 1..0 = {}
    OBVIOUS
  <2>2. QED
    BY <1>1, <2>1
<1>3. ASSUME NEW n \in 0..(N - 1), n \in T PROVE n + 1 \in T
  <2>1. n + 1 \in 1..N /\ n + 1 \in 0..N /\ (n + 1) - 1 = n /\ n \in Nat
    OBVIOUS
  <2>2. Total(f, n + 1) = Total(f, n) + f[n + 1] /\ f[n + 1] \in Nat
    BY <1>1, <2>1
  <2>3. PICK a, b, c : a = Total(f, n) /\ b = f[n + 1] /\ c = Total(f, n + 1)
    OBVIOUS
  <2>4. a \in Nat /\ b \in Nat /\ c = a + b /\ \A k \in 1..n : f[k] <= a
    BY <1>3, <2>2, <2>3
  <2>5. ASSUME NEW k \in 1..(n + 1) PROVE f[k] <= c
    <3>1. CASE k = n + 1
      BY <2>3, <2>4, <3>1
    <3>2. CASE k # n + 1
      <4>1. k \in 1..n /\ k \in 1..N
        BY <2>1, <3>2
      <4>2. f[k] <= a /\ f[k] \in Nat
        BY <2>4, <4>1
      <4>3. QED
        BY ONLY <2>4, <4>2
    <3>3. QED
      BY <3>1, <3>2
  <2>6. c \in Nat
    BY ONLY <2>4
  <2>7. QED
    BY <2>1, <2>3, <2>5, <2>6
<1> HIDE DEF T
<1>4. N \in T
  <2>1. 0..N \subseteq T
    BY <1>2, <1>3, Induct
  <2>2. N \in 0..N
    OBVIOUS
  <2>3. QED
    BY <2>1, <2>2
<1>5. QED
  BY <1>4 DEF T

(* Equal terms have equal sums. *)
LEMMA TotalOfEqual ==
    ASSUME NEW N \in Nat, NEW f, NEW g, \A k \in 1..N : f[k] \in Int /\ g[k] = f[k]
    PROVE  Total(g, N) = Total(f, N)
<1> DEFINE T == { n \in 0..N : Total(g, n) = Total(f, n) }
<1>1. /\ Total(f, 0) = 0
      /\ \A n \in 1..N : Total(f, n) = Total(f, n - 1) + f[n]
  BY TotalIs
<1>2. /\ Total(g, 0) = 0
      /\ \A n \in 1..N : Total(g, n) = Total(g, n - 1) + g[n]
  <2>1. \A k \in 1..N : g[k] \in Int
    OBVIOUS
  <2>2. QED
    BY <2>1, TotalIs
<1>3. 0 \in T
  BY <1>1, <1>2
<1>4. ASSUME NEW n \in 0..(N - 1), n \in T PROVE n + 1 \in T
  <2>1. n + 1 \in 1..N /\ n + 1 \in 0..N /\ (n + 1) - 1 = n
    OBVIOUS
  <2>2. Total(f, n + 1) = Total(f, n) + f[n + 1] /\ Total(g, n + 1) = Total(g, n) + g[n + 1]
    BY <1>1, <1>2, <2>1
  <2>3. g[n + 1] = f[n + 1] /\ Total(g, n) = Total(f, n)
    BY <1>4, <2>1
  <2>4. Total(g, n + 1) = Total(f, n + 1)
    BY ONLY <2>2, <2>3
  <2>5. QED
    BY <2>1, <2>4
<1> HIDE DEF T
<1>5. N \in T
  <2>1. 0..N \subseteq T
    BY <1>3, <1>4, Induct
  <2>2. N \in 0..N
    OBVIOUS
  <2>3. QED
    BY <2>1, <2>2
<1>6. QED
  BY <1>5 DEF T

(* The tokens of an index are those of its documents; an index without     *)
(* tokens matches nothing.                                                 *)
LEMMA TokensOfIndex ==
    ASSUME IndexFinished
    PROVE  /\ TotalTokens(index) \in Nat
           /\ TotalTokens(index) = 0 => \A tokens : Matching(tokens) = {}
<1> DEFINE n == Len(stored)
           lengths == [i \in DOMAIN index.documents |-> index.documents[i].length]
<1>1. n \in Nat /\ Len(index.documents) = n /\ DOMAIN index.documents = 1..n /\ stored \in Collections
  BY StoredRows DEF IndexFinished
<1>2. ASSUME NEW i \in 1..n
      PROVE  lengths[i] = Len(Occurrences(stored[i])) /\ lengths[i] \in Nat
  <2>1. index.documents[i] = [id     |-> stored[i].id,
                              length |-> Len(Occurrences(stored[i])),
                              lines  |-> Len(stored[i].content)]
    BY DEF IndexFinished
  <2>2. Len(Occurrences(stored[i])) \in Nat
    BY <1>1, OccurrencesOf
  <2>3. lengths[i] = index.documents[i].length
    BY <1>1
  <2>4. index.documents[i].length = Len(Occurrences(stored[i]))
    BY ONLY <2>1
  <2>5. QED
    BY ONLY <2>2, <2>3, <2>4
<1>3. TotalTokens(index) = Total(lengths, n)
  BY <1>1 DEF TotalTokens
<1> HIDE DEF lengths
<1>4. Total(lengths, n) \in Nat /\ \A i \in 1..n : lengths[i] <= Total(lengths, n)
  BY <1>1, <1>2, TotalCovers
<1>5. ASSUME TotalTokens(index) = 0, NEW tokens PROVE Matching(tokens) = {}
  <2> SUFFICES ASSUME NEW i \in Matching(tokens) PROVE FALSE
    OBVIOUS
  <2>1. i \in 1..n /\ LinesOf(stored[i], tokens) # {}
    BY <1>1, StoredRows DEF Matching
  <2>2. lengths[i] \in Nat /\ lengths[i] <= 0
    BY <1>2, <1>3, <1>4, <1>5, <2>1
  <2>3. Len(Occurrences(stored[i])) = 0
    BY <1>2, <2>1, <2>2
  <2>4. DOMAIN Occurrences(stored[i]) = {}
    <3>1. DOMAIN Occurrences(stored[i]) = 1..0
      BY <1>1, <2>1, <2>3, OccurrencesOf
    <3>2. QED
      BY <3>1
  <2>5. QED
    BY <2>1, <2>4 DEF LinesOf, ToSet
<1>6. QED
  BY <1>3, <1>4, <1>5

(* The score of a term is a number, and nothing but how often the document *)
(* has it and how long the document is decides it.                         *)
LEMMA ScoresAre ==
    ASSUME IndexFinished, NEW token, NEW i \in Matching({token})
    PROVE  /\ TermScore(i, token) \in Int
           /\ ScoreTerm(index, PostingOf(i, token), Cardinality(Matching({token})))
                = TermScore(i, token)
<1> DEFINE n == Len(stored)
           total == TotalTokens(index)
           df == Cardinality(Matching({token}))
           tf == CountOf(stored[i], token)
           length == Len(Occurrences(stored[i]))
<1>1. /\ stored \in Collections /\ n \in Nat /\ Len(index.documents) = n /\ i \in 1..n
      /\ DOMAIN stored = 1..n
  BY MatchingIs, StoredRows DEF IndexFinished
<1>2. total \in Nat /\ total # 0
  BY TokensOfIndex
<1>3. length \in Nat
  BY <1>1, OccurrencesOf
<1>4. tf \in Nat
  <2>1. DOMAIN Occurrences(stored[i]) = 1..length
    BY <1>1, OccurrencesOf
  <2>2. IsFiniteSet(1..length)
    BY <1>3, FS_Interval
  <2>3. IsFiniteSet({ k \in DOMAIN Occurrences(stored[i]) : Occurrences(stored[i])[k].token = token })
    BY <2>1, <2>2, FS_Subset
  <2>4. QED
    BY <2>3, FS_CardinalityType DEF CountOf
<1>5. df \in 1..n
  <2>1. df \in Nat /\ df <= n /\ IsFiniteSet(Matching({token}))
    BY <1>1, MatchingIs
  <2>2. df # 0
    BY <2>1, FS_EmptySet
  <2>3. QED
    BY <1>1, <2>1, <2>2
<1>6. Idf[n][df] \in Nat
  <2>1. n \in DOMAIN Idf
    <3>1. stored # <<>>
      BY <1>1
    <3>2. QED
      BY <1>1, <3>1, CollectionsAssumption
  <2>2. Idf[n] \in [1..n -> Nat \ {0}]
    BY <2>1, RankerAssumption
  <2>3. QED
    BY <1>5, <2>2
<1>7. TermScore(i, token) =
        ScoreTerm(index, [tf |-> tf, length |-> length], df)
  BY DEF TermScore
<1>8. ScoreTerm(index, [tf |-> tf, length |-> length], df) =
        (100 * Idf[n][df] * 20 * tf * total) \div (8 * tf * total + 3 * total + 9 * length * n)
  BY <1>1 DEF ScoreTerm
<1>9. ScoreTerm(index, PostingOf(i, token), df) =
        (100 * Idf[n][df] * 20 * tf * total) \div (8 * tf * total + 3 * total + 9 * length * n)
  BY <1>1 DEF ScoreTerm, PostingOf
<1> HIDE DEF n, total, df, tf, length
<1>10. PICK idf : idf = Idf[n][df]
  OBVIOUS
<1>11. /\ 100 * idf * 20 * tf * total \in Int
       /\ 8 * tf * total + 3 * total + 9 * length * n \in Int
       /\ 8 * tf * total + 3 * total + 9 * length * n > 0
  <2>1. idf \in Nat /\ tf \in Nat /\ total \in Nat /\ total # 0 /\ length \in Nat /\ n \in Nat
    BY <1>1, <1>2, <1>3, <1>4, <1>6, <1>10
  <2>2. PICK a, b : a = tf * total /\ b = length * n
    OBVIOUS
  <2>3. a \in Nat /\ b \in Nat
    BY ONLY <2>1, <2>2
  <2>4. 8 * tf * total = 8 * a /\ 9 * length * n = 9 * b
    BY ONLY <2>1, <2>2
  <2>5. 8 * a + 3 * total + 9 * b \in Int /\ 8 * a + 3 * total + 9 * b > 0
    BY ONLY <2>1, <2>3
  <2>6. 100 * idf * 20 * tf * total \in Int
    BY ONLY <2>1
  <2>7. QED
    BY ONLY <2>4, <2>5, <2>6
<1>12. (100 * Idf[n][df] * 20 * tf * total) \div (8 * tf * total + 3 * total + 9 * length * n) \in Int
  <2>1. PICK p, q : /\ p = 100 * idf * 20 * tf * total
                    /\ q = 8 * tf * total + 3 * total + 9 * length * n
    OBVIOUS
  <2>2. p \div q \in Int
    <3>1. p \in Int /\ q \in Int /\ q > 0
      BY ONLY <1>11, <2>1
    <3>2. QED
      BY ONLY <3>1
  <2>3. QED
    BY ONLY <1>10, <2>1, <2>2
<1>13. QED
  BY <1>7, <1>8, <1>9, <1>12 DEF df

-----------------------------------------------------------------------------
(* What one posting, one token and a whole query find.                     *)

(* The documents found so far, each with what was found of it: its score,  *)
(* the tokens that matched, and the lines they are on.                     *)
Results(T) ==
    [id : { stored[i].id : i \in 1..Len(stored) }, score : Int, tokens : SUBSET T,
     lines : SUBSET UNION { LinesOf(stored[i], T) : i \in 1..Len(stored) }]

ResultOf(i, score, matched, lines) ==
    [id |-> stored[i].id, score |-> score[i], tokens |-> matched[i], lines |-> lines[i]]

Represents(found, T, score, matched, lines) ==
    /\ found \in Seq(Results(T))
    /\ \A k \in DOMAIN found : \E i \in 1..Len(stored) :
          matched[i] # {} /\ found[k] = ResultOf(i, score, matched, lines)
    /\ \A j, k \in DOMAIN found : found[j].id = found[k].id => j = k
    /\ \A i \in 1..Len(stored) :
          matched[i] # {} => \E k \in DOMAIN found : found[k].id = stored[i].id
    /\ \A i \in 1..Len(stored) : matched[i] = {} => score[i] = 0 /\ lines[i] = {}

(* Adding keeps the results well typed. *)
LEMMA AddPostingTyped ==
    ASSUME NEW T, NEW found \in Seq(Results(T)), NEW i \in 1..Len(stored), NEW token \in T,
           NEW s \in Int
    PROVE  AddPosting(found, PostingOf(i, token), token, s) \in Seq(Results(T))
<1>1. PICK posting, lines : posting = PostingOf(i, token) /\ lines = LinesOf(stored[i], {token})
  OBVIOUS
<1>2. posting.id = stored[i].id /\ posting.lines = lines
  BY <1>1 DEF PostingOf
<1>3. PICK All : All = UNION { LinesOf(stored[j], T) : j \in 1..Len(stored) }
  OBVIOUS
<1>4. lines \subseteq All
  <2>1. lines \subseteq LinesOf(stored[i], T)
    BY <1>1 DEF LinesOf
  <2>2. QED
    BY <1>3, <2>1
<1>5. Results(T) = [id : { stored[j].id : j \in 1..Len(stored) }, score : Int,
                    tokens : SUBSET T, lines : SUBSET All]
  BY <1>3 DEF Results
<1>6. PICK N : N = Len(found)
  OBVIOUS
<1>7. N \in Nat /\ DOMAIN found = 1..N /\ \A k \in 1..N : found[k] \in Results(T)
  BY <1>6, LenProperties, ElementOfSeq
<1>8. CASE \A k \in DOMAIN found : found[k].id # posting.id
  <2>1. [id |-> posting.id, score |-> s, tokens |-> {token}, lines |-> posting.lines] \in Results(T)
    BY <1>2, <1>4, <1>5
  <2>2. AddPosting(found, posting, token, s) =
          Append(found, [id |-> posting.id, score |-> s, tokens |-> {token}, lines |-> posting.lines])
    BY <1>8 DEF AddPosting
  <2>3. QED
    BY <1>1, <2>1, <2>2, AppendProperties
<1>9. CASE ~(\A k \in DOMAIN found : found[k].id # posting.id)
  <2>1. PICK more : more = AddPosting(found, posting, token, s)
    OBVIOUS
  <2>2. more = [k \in 1..N |->
                  IF found[k].id # posting.id THEN found[k]
                  ELSE [id     |-> posting.id,
                        score  |-> found[k].score + s,
                        tokens |-> found[k].tokens \cup {token},
                        lines  |-> found[k].lines \cup posting.lines]]
    BY <1>7, <1>9, <2>1 DEF AddPosting
  <2>3. ASSUME NEW k \in 1..N PROVE more[k] \in Results(T)
    <3>1. found[k] \in Results(T)
      BY <1>7
    <3>2. [id     |-> posting.id,
           score  |-> found[k].score + s,
           tokens |-> found[k].tokens \cup {token},
           lines  |-> found[k].lines \cup posting.lines] \in Results(T)
      <4>1. PICK r : r = found[k]
        OBVIOUS
      <4>2. r.score \in Int /\ r.tokens \in SUBSET T /\ r.lines \in SUBSET All
        BY <1>5, <3>1, <4>1
      <4>3. /\ posting.id \in { stored[j].id : j \in 1..Len(stored) } /\ r.score + s \in Int
            /\ r.tokens \cup {token} \in SUBSET T /\ r.lines \cup posting.lines \in SUBSET All
        BY <1>2, <1>4, <4>2
      <4>4. QED
        BY <1>5, <4>1, <4>3
    <3>3. QED
      BY <2>2, <3>1, <3>2
  <2>4. more \in [1..N -> Results(T)]
    <3>1. more = [k \in 1..N |-> more[k]]
      BY <2>2
    <3>2. QED
      BY <2>3, <3>1
  <2>5. QED
    BY <1>1, <1>7, <2>1, <2>4, SeqIs
<1>10. QED
  BY <1>8, <1>9

(* What a posting of the document at place i adds to its values.           *)
Adds(i, token, s, score, matched, lines, score2, matched2, lines2) ==
    /\ score2[i] = score[i] + s
    /\ matched2[i] = matched[i] \cup {token}
    /\ lines2[i] = lines[i] \cup LinesOf(stored[i], {token})
    /\ \A j \in 1..Len(stored) : j # i => /\ score2[j] = score[j]
                                          /\ matched2[j] = matched[j]
                                          /\ lines2[j] = lines[j]

(* Adding a posting adds to what was found of its document.                *)
LEMMA AddPostingRepresents ==
    ASSUME stored \in Collections, NEW T, NEW found, NEW score, NEW matched, NEW lines,
           Represents(found, T, score, matched, lines),
           NEW i \in 1..Len(stored), NEW token \in T, NEW s \in Int,
           NEW score2, NEW matched2, NEW lines2,
           Adds(i, token, s, score, matched, lines, score2, matched2, lines2)
    PROVE  Represents(AddPosting(found, PostingOf(i, token), token, s),
                      T, score2, matched2, lines2)
<1>b. /\ score2[i] = score[i] + s
      /\ matched2[i] = matched[i] \cup {token}
      /\ lines2[i] = lines[i] \cup LinesOf(stored[i], {token})
      /\ \A j \in 1..Len(stored) : j # i => /\ score2[j] = score[j]
                                            /\ matched2[j] = matched[j]
                                            /\ lines2[j] = lines[j]
  BY DEF Adds
<1>1. PICK posting : posting = PostingOf(i, token)
  OBVIOUS
<1>2. posting.id = stored[i].id /\ posting.lines = LinesOf(stored[i], {token})
  BY <1>1 DEF PostingOf
<1>3. PICK more : more = AddPosting(found, posting, token, s)
  OBVIOUS
<1>4. found \in Seq(Results(T)) /\ more \in Seq(Results(T))
  BY <1>1, <1>3, AddPostingTyped DEF Represents
<1>5. PICK N : N = Len(found)
  OBVIOUS
<1>6. N \in Nat /\ DOMAIN found = 1..N
  BY <1>4, <1>5, LenProperties
<1>7. \A j, k \in 1..Len(stored) : stored[j].id = stored[k].id => j = k
  BY StoredRows
<1>8. ASSUME NEW j \in 1..Len(stored), j # i
      PROVE  ResultOf(j, score2, matched2, lines2) = ResultOf(j, score, matched, lines)
  BY <1>b, <1>8 DEF ResultOf
<1>9. ASSUME NEW k \in DOMAIN found, found[k].id = posting.id
      PROVE  matched[i] # {} /\ found[k] = ResultOf(i, score, matched, lines)
  <2>1. PICK j \in 1..Len(stored) : matched[j] # {} /\ found[k] = ResultOf(j, score, matched, lines)
    BY DEF Represents
  <2>2. stored[j].id = stored[i].id
    BY <1>2, <1>9, <2>1 DEF ResultOf
  <2>3. QED
    BY <1>7, <2>1, <2>2
<1>10. \A k \in DOMAIN found : found[k].id # posting.id => \E j \in 1..Len(stored) :
          /\ j # i /\ matched[j] # {} /\ found[k] = ResultOf(j, score, matched, lines)
  BY <1>2 DEF Represents, ResultOf
<1>a. \A j, k \in DOMAIN found : found[j].id = found[k].id => j = k
  BY DEF Represents
<1>11. matched2[i] # {}
  BY <1>b
<1>12. \A j \in 1..Len(stored) : matched2[j] = {} => score2[j] = 0 /\ lines2[j] = {}
  BY <1>b, <1>11 DEF Represents
<1>13. CASE \A k \in DOMAIN found : found[k].id # posting.id
  <2>1. PICK new : new = [id |-> posting.id, score |-> s, tokens |-> {token}, lines |-> posting.lines]
    OBVIOUS
  <2>2. more = Append(found, new)
    BY <1>3, <1>13, <2>1 DEF AddPosting
  <2>3. /\ DOMAIN more = 1..(N + 1) /\ more[N + 1] = new
        /\ \A k \in 1..N : more[k] = found[k]
    <3>1. found \in Seq(Results(T) \cup {new}) /\ new \in Results(T) \cup {new}
      BY <1>4, SeqMonotonic
    <3>2. /\ Append(found, new) \in Seq(Results(T) \cup {new}) /\ Len(Append(found, new)) = N + 1
          /\ Append(found, new)[N + 1] = new
          /\ \A k \in 1..N : Append(found, new)[k] = found[k]
      BY <1>5, <3>1, AppendProperties
    <3>3. DOMAIN Append(found, new) = 1..(N + 1)
      BY <3>2, LenProperties
    <3>4. QED
      BY <2>2, <3>2, <3>3
  <2>4. matched[i] = {} /\ score[i] = 0 /\ lines[i] = {}
    BY <1>2, <1>13 DEF Represents
  <2>5. new = ResultOf(i, score2, matched2, lines2)
    BY <1>b, <1>2, <2>1, <2>4 DEF ResultOf
  <2>6. 1..(N + 1) = 1..N \cup {N + 1} /\ N + 1 \notin 1..N
    BY <1>6
  <2>7. ASSUME NEW k \in DOMAIN more
        PROVE  \E j \in 1..Len(stored) :
                  matched2[j] # {} /\ more[k] = ResultOf(j, score2, matched2, lines2)
    <3>1. CASE k = N + 1
      BY <1>11, <2>3, <2>5, <3>1
    <3>2. CASE k # N + 1
      <4>1. k \in DOMAIN found /\ more[k] = found[k]
        BY <1>6, <2>3, <2>6, <3>2
      <4>2. PICK j \in 1..Len(stored) :
              j # i /\ matched[j] # {} /\ found[k] = ResultOf(j, score, matched, lines)
        BY <1>10, <1>13, <4>1
      <4>3. matched2[j] # {} /\ more[k] = ResultOf(j, score2, matched2, lines2)
        BY <1>b, <1>8, <4>1, <4>2
      <4>4. QED
        BY <4>3
    <3>3. QED
      BY <3>1, <3>2
  <2>8. ASSUME NEW j \in DOMAIN more, NEW k \in DOMAIN more, more[j].id = more[k].id PROVE j = k
    <3>1. more[N + 1].id = posting.id
      BY <2>1, <2>3
    <3>2. \A l \in DOMAIN more : l # N + 1 => l \in DOMAIN found /\ more[l] = found[l]
      BY <1>6, <2>3, <2>6
    <3>3. j # N + 1 /\ k = N + 1 => FALSE
      BY <1>13, <2>8, <3>1, <3>2
    <3>4. j = N + 1 /\ k # N + 1 => FALSE
      BY <1>13, <2>8, <3>1, <3>2
    <3>5. j # N + 1 /\ k # N + 1 => j = k
      BY <1>a, <2>8, <3>2
    <3>6. QED
      BY <3>3, <3>4, <3>5
  <2>9. ASSUME NEW j \in 1..Len(stored), matched2[j] # {}
        PROVE  \E k \in DOMAIN more : more[k].id = stored[j].id
    <3>1. CASE j = i
      BY <1>2, <2>1, <2>3, <2>6, <3>1
    <3>2. CASE j # i
      <4>1. PICK k \in DOMAIN found : found[k].id = stored[j].id
        BY <1>b, <2>9, <3>2 DEF Represents
      <4>2. k \in DOMAIN more /\ more[k] = found[k]
        BY <1>6, <2>3, <2>6, <4>1
      <4>3. QED
        BY <4>1, <4>2
    <3>3. QED
      BY <3>1, <3>2
  <2>10. Represents(more, T, score2, matched2, lines2)
    BY ONLY <1>4, <1>12, <2>7, <2>8, <2>9 DEF Represents
  <2>11. QED
    BY <1>1, <1>3, <2>10
<1>14. CASE ~(\A k \in DOMAIN found : found[k].id # posting.id)
  <2>1. /\ DOMAIN more = DOMAIN found
        /\ \A k \in DOMAIN found : found[k].id # posting.id => more[k] = found[k]
        /\ \A k \in DOMAIN found : found[k].id = posting.id => more[k] =
              [id     |-> posting.id,
               score  |-> found[k].score + s,
               tokens |-> found[k].tokens \cup {token},
               lines  |-> found[k].lines \cup posting.lines]
    BY <1>3, <1>14 DEF AddPosting
  <2>2. ASSUME NEW k \in DOMAIN found, found[k].id = posting.id
        PROVE  more[k] = ResultOf(i, score2, matched2, lines2)
    <3>1. found[k] = ResultOf(i, score, matched, lines)
      BY <1>9, <2>2
    <3>2. found[k].score = score[i] /\ found[k].tokens = matched[i] /\ found[k].lines = lines[i]
      BY <3>1 DEF ResultOf
    <3>3. more[k] = [id     |-> posting.id,
                     score  |-> found[k].score + s,
                     tokens |-> found[k].tokens \cup {token},
                     lines  |-> found[k].lines \cup posting.lines]
      BY <2>1, <2>2
    <3>4. QED
      BY <1>b, <1>2, <3>2, <3>3 DEF ResultOf
  <2>3. ASSUME NEW k \in DOMAIN more
        PROVE  /\ more[k].id = found[k].id
               /\ \E j \in 1..Len(stored) :
                     matched2[j] # {} /\ more[k] = ResultOf(j, score2, matched2, lines2)
    <3>1. CASE found[k].id = posting.id
      <4>1. more[k] = ResultOf(i, score2, matched2, lines2)
        BY <2>1, <2>2, <3>1
      <4>2. more[k].id = found[k].id
        BY <1>2, <3>1, <4>1 DEF ResultOf
      <4>3. QED
        BY <1>11, <4>1, <4>2
    <3>2. CASE found[k].id # posting.id
      <4>1. PICK j \in 1..Len(stored) :
              j # i /\ matched[j] # {} /\ found[k] = ResultOf(j, score, matched, lines)
        BY <1>10, <2>1, <3>2
      <4>2. matched2[j] # {} /\ more[k] = ResultOf(j, score2, matched2, lines2)
        BY <1>b, <1>8, <2>1, <3>2, <4>1
      <4>3. more[k].id = found[k].id
        BY <2>1, <3>2
      <4>4. QED
        BY <4>2, <4>3
    <3>3. QED
      BY <3>1, <3>2
  <2>4. ASSUME NEW j \in 1..Len(stored), matched2[j] # {}
        PROVE  \E k \in DOMAIN more : more[k].id = stored[j].id
    <3>1. \E k \in DOMAIN found : found[k].id = stored[j].id
      BY <1>b, <1>2, <1>14, <2>4 DEF Represents
    <3>2. QED
      BY <2>1, <2>3, <3>1
  <2>5. \A j, k \in DOMAIN more : more[j].id = more[k].id => j = k
    <3>1. \A k \in DOMAIN found : more[k].id = found[k].id
      BY <2>1, <2>3
    <3>2. DOMAIN more = DOMAIN found
      BY <2>1
    <3>3. QED
      BY ONLY <1>a, <3>1, <3>2
  <2>6. Represents(more, T, score2, matched2, lines2)
    BY ONLY <1>4, <1>12, <2>3, <2>4, <2>5 DEF Represents
  <2>7. QED
    BY <1>1, <1>3, <2>6
<1>15. QED
  BY <1>13, <1>14

(* What is found is a matter of the documents' values only. *)
LEMMA RepresentsSame ==
    ASSUME NEW T, NEW found, NEW score, NEW matched, NEW lines,
           Represents(found, T, score, matched, lines),
           NEW score2, NEW matched2, NEW lines2,
           \A i \in 1..Len(stored) : /\ score2[i] = score[i]
                                     /\ matched2[i] = matched[i]
                                     /\ lines2[i] = lines[i]
    PROVE  Represents(found, T, score2, matched2, lines2)
<1>1. \A i \in 1..Len(stored) :
         ResultOf(i, score2, matched2, lines2) = ResultOf(i, score, matched, lines)
  BY DEF ResultOf
<1>2. \A k \in DOMAIN found : \E i \in 1..Len(stored) :
         matched2[i] # {} /\ found[k] = ResultOf(i, score2, matched2, lines2)
  <2> SUFFICES ASSUME NEW k \in DOMAIN found
               PROVE  \E i \in 1..Len(stored) :
                         matched2[i] # {} /\ found[k] = ResultOf(i, score2, matched2, lines2)
    OBVIOUS
  <2>1. PICK i \in 1..Len(stored) : matched[i] # {} /\ found[k] = ResultOf(i, score, matched, lines)
    BY DEF Represents
  <2>2. matched2[i] # {} /\ found[k] = ResultOf(i, score2, matched2, lines2)
    BY <1>1, <2>1
  <2>3. QED
    BY <2>2
<1>3. /\ \A i \in 1..Len(stored) :
            matched2[i] # {} => \E k \in DOMAIN found : found[k].id = stored[i].id
      /\ \A i \in 1..Len(stored) : matched2[i] = {} => score2[i] = 0 /\ lines2[i] = {}
  BY DEF Represents
<1>4. found \in Seq(Results(T)) /\ \A j, k \in DOMAIN found : found[j].id = found[k].id => j = k
  BY DEF Represents
<1>5. QED
  BY ONLY <1>2, <1>3, <1>4 DEF Represents

(* What a token adds to the values of every document. *)
AddsToken(token, score, matched, lines, score2, matched2, lines2) ==
    \A i \in 1..Len(stored) :
        /\ score[i] \in Int
        /\ score2[i] = score[i] + TermScore(i, token)
        /\ matched2[i] = matched[i] \cup (IF i \in Matching({token}) THEN {token} ELSE {})
        /\ lines2[i] = lines[i] \cup LinesOf(stored[i], {token})

(* add a token: every document that has it gets the token's score, the     *)
(* token and its lines.                                                    *)
LEMMA AddTokenRepresents ==
    ASSUME IndexFinished, NEW T, NEW found, NEW score, NEW matched, NEW lines,
           Represents(found, T, score, matched, lines),
           NEW token \in T, ToLower(token) = token,
           NEW score2, NEW matched2, NEW lines2,
           AddsToken(token, score, matched, lines, score2, matched2, lines2)
    PROVE  Represents(AddToken(index, found, token), T, score2, matched2, lines2)
<1>a. \A i \in 1..Len(stored) :
         /\ score[i] \in Int
         /\ score2[i] = score[i] + TermScore(i, token)
         /\ matched2[i] = matched[i] \cup (IF i \in Matching({token}) THEN {token} ELSE {})
         /\ lines2[i] = lines[i] \cup LinesOf(stored[i], {token})
  BY DEF AddsToken
<1>1. PICK M, N : M = Matching({token}) /\ N = Cardinality(M)
  OBVIOUS
<1>2. PICK postings : postings = GetPostings(index, token)
  OBVIOUS
<1>3. PICK added \in [1..N -> M] : Lists(postings, token, added)
  BY <1>1, <1>2, PostingsListed
<1>4. /\ stored \in Collections /\ M \subseteq 1..Len(stored) /\ N \in Nat
      /\ \A i \in 1..Len(stored) : i \notin M => LinesOf(stored[i], {token}) = {}
  <2>1. stored \in Collections
    BY DEF IndexFinished
  <2>2. M \subseteq 1..Len(stored) /\ N \in Nat
    BY <1>1, <2>1, MatchingIs
  <2>3. DOMAIN stored = 1..Len(stored)
    BY <2>1, StoredRows
  <2>4. QED
    BY <1>1, <2>1, <2>2, <2>3 DEF Matching
<1>5. /\ postings \in [1..N -> { PostingOf(i, token) : i \in M }]
      /\ \A k \in 1..N : added[k] \in M /\ postings[k] = PostingOf(added[k], token)
      /\ \A j, k \in 1..N : added[j] = added[k] => j = k
      /\ \A i \in M : \E k \in 1..N : added[k] = i
  BY <1>1, <1>3 DEF Lists
<1>6. Len(postings) = N
  BY <1>4, <1>5, SeqIs
<1>7. ASSUME NEW k \in 1..N
      PROVE  /\ TermScore(added[k], token) \in Int
             /\ ScoreTerm(index, postings[k], N) = TermScore(added[k], token)
  <2>1. added[k] \in Matching({token}) /\ postings[k] = PostingOf(added[k], token)
    BY <1>1, <1>5
  <2>2. QED
    BY <1>1, <2>1, ScoresAre
<1> DEFINE A == Seq(Results(T))
           step(x, n) == AddPosting(x, postings[n], token, ScoreTerm(index, postings[n], N))
           after == CHOOSE after : after = [n \in 0..N |->
                        IF n = 0 THEN found ELSE step(after[n - 1], n)]
<1>8. AddToken(index, found, token) = after[N]
  BY <1>2, <1>6 DEF AddToken
<1>9. ASSUME NEW x \in A, NEW n \in 1..N PROVE step(x, n) \in A
  <2>1. added[n] \in 1..Len(stored) /\ TermScore(added[n], token) \in Int
    BY <1>4, <1>5, <1>7
  <2>2. AddPosting(x, PostingOf(added[n], token), token, TermScore(added[n], token)) \in A
    BY <2>1, AddPostingTyped
  <2>3. postings[n] = PostingOf(added[n], token)
    BY <1>5
  <2>4. QED
    BY <1>7, <2>2, <2>3
<1> HIDE DEF step
<1>10. found \in A
  BY DEF Represents
<1>11. \E f : f = [n \in 0..N |-> IF n = 0 THEN found ELSE step(f[n - 1], n)]
  <2> HIDE DEF A
  <2>1. PICK op : op = [n \in 1..N |-> [x \in A |-> step(x, n)]]
    OBVIOUS
  <2>2. \A x \in A, n \in 1..N : op[n][x] = step(x, n)
    BY <2>1
  <2>3. \A x \in A, n \in 1..N : op[n][x] \in A
    BY <1>9, <2>2
  <2>4. PICK g \in [0..N -> A] : Iterated(g, found, N, op)
    BY <1>4, <1>10, <2>3, Iterates
  <2>5. ASSUME NEW n \in 0..N PROVE g[n] = IF n = 0 THEN found ELSE step(g[n - 1], n)
    <3>1. CASE n = 0
      BY <2>4, <3>1 DEF Iterated
    <3>2. CASE n # 0
      <4>1. n \in 1..N /\ n - 1 \in 0..N
        BY <1>4, <3>2
      <4>2. g[n] = op[n][g[n - 1]] /\ g[n - 1] \in A
        BY <2>4, <4>1 DEF Iterated
      <4>3. QED
        BY <2>2, <3>2, <4>1, <4>2
    <3>3. QED
      BY <3>1, <3>2
  <2>6. g = [n \in 0..N |-> IF n = 0 THEN found ELSE step(g[n - 1], n)]
    BY <2>4, <2>5
  <2>7. QED
    BY <2>6
<1>12. after = [n \in 0..N |-> IF n = 0 THEN found ELSE step(after[n - 1], n)]
  BY <1>11
<1> HIDE DEF after
<1>13. after[0] = found /\ \A n \in 1..N : after[n] = step(after[n - 1], n)
  BY <1>4, <1>12
<1> DEFINE Done(n) == { added[k] : k \in 1..n }
           partly(n, f, f2) == [i \in 1..Len(stored) |-> IF i \in Done(n) THEN f2[i] ELSE f[i]]
           Good(n) == Represents(after[n], T, partly(n, score, score2),
                                 partly(n, matched, matched2), partly(n, lines, lines2))
           U == { n \in 0..N : Good(n) }
<1>14. 0 \in U
  <2>1. Done(0) = {} /\ 0 \in 0..N
    BY <1>4
  <2> HIDE DEF Done
  <2>2. \A i \in 1..Len(stored) : /\ partly(0, score, score2)[i] = score[i]
                                  /\ partly(0, matched, matched2)[i] = matched[i]
                                  /\ partly(0, lines, lines2)[i] = lines[i]
    BY <2>1
  <2> HIDE DEF partly
  <2>3. Good(0)
    BY <1>13, <2>2, RepresentsSame
  <2>4. QED
    BY <2>1, <2>3
<1>15. ASSUME NEW n \in 0..(N - 1), n \in U PROVE n + 1 \in U
  <2>1. n + 1 \in 1..N /\ n + 1 \in 0..N /\ (n + 1) - 1 = n /\ 1..(n + 1) = 1..n \cup {n + 1}
        /\ n + 1 \notin 1..n /\ 1..n \subseteq 1..N
    BY <1>4
  <2>2. PICK i : i = added[n + 1]
    OBVIOUS
  <2>3. i \in M /\ i \in 1..Len(stored) /\ i \notin Done(n) /\ Done(n + 1) = Done(n) \cup {i}
    <3>1. i \in M /\ i \in 1..Len(stored)
      BY <1>4, <1>5, <2>1, <2>2
    <3>2. i \notin Done(n)
      BY <1>5, <2>1, <2>2
    <3>3. Done(n + 1) = Done(n) \cup {i}
      BY <2>1, <2>2
    <3>4. QED
      BY <3>1, <3>2, <3>3
  <2>4. after[n + 1] = AddPosting(after[n], PostingOf(i, token), token, TermScore(i, token))
        /\ TermScore(i, token) \in Int
    <3>1. after[n + 1] = step(after[n], n + 1)
      BY <1>13, <2>1
    <3>2. postings[n + 1] = PostingOf(i, token)
      BY <1>5, <2>1, <2>2
    <3>3. ScoreTerm(index, postings[n + 1], N) = TermScore(i, token) /\ TermScore(i, token) \in Int
      BY <1>7, <2>1, <2>2
    <3>4. QED
      BY <3>1, <3>2, <3>3 DEF step
  <2> HIDE DEF Done
  <2>5. PICK sa, ma, la, sb, mb, lb :
          /\ sa = partly(n, score, score2) /\ sb = partly(n + 1, score, score2)
          /\ ma = partly(n, matched, matched2) /\ mb = partly(n + 1, matched, matched2)
          /\ la = partly(n, lines, lines2) /\ lb = partly(n + 1, lines, lines2)
    OBVIOUS
  <2>6. /\ sb[i] = sa[i] + TermScore(i, token)
        /\ mb[i] = ma[i] \cup {token}
        /\ lb[i] = la[i] \cup LinesOf(stored[i], {token})
    <3>1. sa[i] = score[i] /\ ma[i] = matched[i] /\ la[i] = lines[i]
      BY <2>3, <2>5
    <3>2. sb[i] = score2[i] /\ mb[i] = matched2[i] /\ lb[i] = lines2[i]
      BY <2>3, <2>5
    <3>3. QED
      BY <1>1, <1>a, <2>3, <3>1, <3>2
  <2>7. \A j \in 1..Len(stored) : j # i => sb[j] = sa[j] /\ mb[j] = ma[j] /\ lb[j] = la[j]
    BY <2>3, <2>5
  <2>8. Represents(after[n], T, sa, ma, la)
    BY <1>15, <2>5
  <2> HIDE DEF partly
  <2>9. Represents(after[n + 1], T, sb, mb, lb)
    <3>1. PICK s, x : s = TermScore(i, token) /\ x = after[n]
      OBVIOUS
    <3>2. Represents(AddPosting(x, PostingOf(i, token), token, s), T, sb, mb, lb)
      <4>1. Adds(i, token, s, sa, ma, la, sb, mb, lb)
        BY <2>6, <2>7, <3>1 DEF Adds
      <4>2. s \in Int /\ Represents(x, T, sa, ma, la)
        BY <2>4, <2>8, <3>1
      <4>3. stored \in Collections /\ i \in 1..Len(stored) /\ token \in T
        BY <1>4, <2>3
      <4>4. QED
        BY ONLY <4>1, <4>2, <4>3, AddPostingRepresents
    <3>3. QED
      BY <2>4, <3>1, <3>2
  <2>10. QED
    BY <2>1, <2>5, <2>9
<1>16. N \in U
  <2> HIDE DEF U
  <2>1. 0..N \subseteq U
    BY <1>4, <1>14, <1>15, Induct
  <2>2. N \in 0..N
    BY <1>4
  <2>3. QED
    BY <2>1, <2>2
<1>17. Done(N) = M
  BY <1>5
<1>18. \A i \in 1..Len(stored) : /\ score2[i] = partly(N, score, score2)[i]
                                 /\ matched2[i] = partly(N, matched, matched2)[i]
                                 /\ lines2[i] = partly(N, lines, lines2)[i]
  <2> HIDE DEF Done
  <2> SUFFICES ASSUME NEW i \in 1..Len(stored)
               PROVE  /\ score2[i] = partly(N, score, score2)[i]
                      /\ matched2[i] = partly(N, matched, matched2)[i]
                      /\ lines2[i] = partly(N, lines, lines2)[i]
    OBVIOUS
  <2>1. CASE i \in M
    BY <1>17, <2>1
  <2>2. CASE i \notin M
    <3>1. LinesOf(stored[i], {token}) = {} /\ TermScore(i, token) = 0
      BY <1>1, <1>4, <2>2 DEF TermScore
    <3>2. score2[i] = score[i] /\ matched2[i] = matched[i] /\ lines2[i] = lines[i]
      <4>1. score[i] \in Int /\ score2[i] = score[i] + 0 /\ lines2[i] = lines[i] \cup {}
        BY <1>a, <3>1
      <4>2. matched2[i] = matched[i] \cup {}
        BY <1>1, <1>a, <2>2
      <4>3. QED
        BY ONLY <4>1, <4>2
    <3>3. QED
      BY <1>17, <2>2, <3>2
  <2>3. QED
    BY <2>1, <2>2
<1>19. Good(N)
  BY <1>16
<1> HIDE DEF partly
<1>20. QED
  BY <1>8, <1>18, <1>19, RepresentsSame

(* What a query whose tokens are T should find of each document. *)
ScoresFor(text) == [i \in 1..Len(stored) |-> ScoreOf(i, text)]
TokensFor(T) == [i \in 1..Len(stored) |-> { t \in T : i \in Matching({t}) }]
LinesFor(T) == [i \in 1..Len(stored) |-> LinesOf(stored[i], T)]

(* The score of any document for any token is a number. *)
LEMMA TermScoreIs ==
    ASSUME IndexFinished, NEW token, NEW i
    PROVE  TermScore(i, token) \in Int
<1>1. CASE i \in Matching({token})
  BY <1>1, ScoresAre
<1>2. CASE i \notin Matching({token})
  <2>1. TermScore(i, token) = 0
    BY <1>2 DEF TermScore
  <2>2. QED
    BY <2>1
<1>3. QED
  BY <1>1, <1>2

(* Matches finds the documents that share a token with the query, each     *)
(* once, with the sum of its term scores, its tokens and their lines.      *)
LEMMA MatchesFind ==
    ASSUME IndexFinished, NEW S, NEW text \in Seq(S)
    PROVE  Represents(Matches(index, text), Range(Tokenize(text)),
                      ScoresFor(text), TokensFor(Range(Tokenize(text))),
                      LinesFor(Range(Tokenize(text))))
<1>1. PICK tokens, K, T : tokens = Tokenize(text) /\ K = Len(tokens) /\ T = Range(tokens)
  OBVIOUS
<1>2. /\ K \in Nat /\ DOMAIN tokens = 1..K /\ T = { tokens[k] : k \in 1..K }
      /\ \A k \in 1..K : tokens[k] \in T /\ ToLower(tokens[k]) = tokens[k]
  <2>1. tokens \in Seq(T)
    BY <1>1, TokensAre
  <2>2. K \in Nat /\ DOMAIN tokens = 1..K
    BY <1>1, <2>1, LenProperties
  <2>3. T = { tokens[k] : k \in 1..K }
    BY <1>1, <2>2 DEF Range
  <2>4. \A t \in T : ToLower(t) = t
    BY <1>1, TokenOfItself
  <2>5. QED
    BY <2>2, <2>3, <2>4
<1>3. PICK D : D = 1..Len(stored)
  OBVIOUS
<1> DEFINE step(x, n) == AddToken(index, x, tokens[n])
           after == CHOOSE after : after = [n \in 0..K |->
                        IF n = 0 THEN <<>> ELSE step(after[n - 1], n)]
           terms_(i) == [k \in 1..K |-> TermScore(i, tokens[k])]
           seen(n) == { tokens[k] : k \in 1..n }
           scoreAt(n) == [i \in D |-> Total(terms_(i), n)]
<1>4. Matches(index, text) = IF TotalTokens(index) = 0 THEN <<>> ELSE after[K]
  BY <1>1 DEF Matches
<1> HIDE DEF step
<1>5. ASSUME NEW x, NEW n \in 1..K, NEW score, NEW matched, NEW lines,
             Represents(x, T, score, matched, lines),
             NEW score2, NEW matched2, NEW lines2,
             AddsToken(tokens[n], score, matched, lines, score2, matched2, lines2)
      PROVE  Represents(step(x, n), T, score2, matched2, lines2)
  <2>1. PICK token : token = tokens[n]
    OBVIOUS
  <2>2. token \in T /\ ToLower(token) = token
    BY <1>2, <2>1
  <2>3. AddsToken(token, score, matched, lines, score2, matched2, lines2)
    BY <1>5, <2>1
  <2>4. Represents(x, T, score, matched, lines)
    BY <1>5
  <2>5. Represents(AddToken(index, x, token), T, score2, matched2, lines2)
    BY ONLY IndexFinished, <2>2, <2>3, <2>4, AddTokenRepresents
  <2>6. QED
    BY <2>1, <2>5 DEF step
<1> DEFINE A == { x \in Seq(Results(T)) : \E score \in [D -> Int] : \E matched, lines :
                    Represents(x, T, score, matched, lines) }
<1>6. ASSUME NEW x \in A, NEW n \in 1..K PROVE step(x, n) \in A
  <2>1. PICK score \in [D -> Int] : \E matched, lines : Represents(x, T, score, matched, lines)
    OBVIOUS
  <2>2. PICK matched, lines : Represents(x, T, score, matched, lines)
    BY <2>1
  <2>3. PICK score2 : score2 = [i \in D |-> score[i] + TermScore(i, tokens[n])]
    OBVIOUS
  <2>4. score2 \in [D -> Int]
    BY <2>3, TermScoreIs
  <2>5. PICK matched2, lines2 :
          /\ matched2 = [i \in D |-> matched[i] \cup (IF i \in Matching({tokens[n]})
                                                      THEN {tokens[n]} ELSE {})]
          /\ lines2 = [i \in D |-> lines[i] \cup LinesOf(stored[i], {tokens[n]})]
    OBVIOUS
  <2>a. AddsToken(tokens[n], score, matched, lines, score2, matched2, lines2)
    BY <1>3, <2>3, <2>5 DEF AddsToken
  <2>6. Represents(step(x, n), T, score2, matched2, lines2)
    BY <1>5, <2>2, <2>a
  <2>7. step(x, n) \in Seq(Results(T))
    BY <2>6 DEF Represents
  <2>8. QED
    BY <2>4, <2>6, <2>7
<1>7. ASSUME NEW score, NEW matched, NEW lines,
             \A i \in D : score[i] = 0 /\ matched[i] = {} /\ lines[i] = {}
      PROVE  Represents(<<>>, T, score, matched, lines)
  <2>1. <<>> \in Seq(Results(T)) /\ DOMAIN <<>> = {}
    BY EmptySeq
  <2>2. QED
    BY <1>3, <1>7, <2>1 DEF Represents
<1>8. <<>> \in A
  <2>1. PICK zero, none : zero = [i \in D |-> 0] /\ none = [i \in D |-> {}]
    OBVIOUS
  <2>2. zero \in [D -> Int]
    BY <2>1
  <2>3. Represents(<<>>, T, zero, none, none)
    BY <1>7, <2>1
  <2>4. <<>> \in Seq(Results(T))
    BY EmptySeq
  <2>5. QED
    BY <2>2, <2>3, <2>4
<1> HIDE DEF A
<1>9. \E f : f = [n \in 0..K |-> IF n = 0 THEN <<>> ELSE step(f[n - 1], n)]
  <2>1. PICK op : op = [n \in 1..K |-> [x \in A |-> step(x, n)]]
    OBVIOUS
  <2>2. \A x \in A, n \in 1..K : op[n][x] = step(x, n)
    BY <2>1
  <2>3. \A x \in A, n \in 1..K : op[n][x] \in A
    BY <1>6, <2>2
  <2>4. PICK g \in [0..K -> A] : Iterated(g, <<>>, K, op)
    BY <1>2, <1>8, <2>3, Iterates
  <2>5. ASSUME NEW n \in 0..K PROVE g[n] = IF n = 0 THEN <<>> ELSE step(g[n - 1], n)
    <3>1. CASE n = 0
      BY <2>4, <3>1 DEF Iterated
    <3>2. CASE n # 0
      <4>1. n \in 1..K /\ n - 1 \in 0..K
        BY <1>2, <3>2
      <4>2. g[n] = op[n][g[n - 1]] /\ g[n - 1] \in A
        BY <2>4, <4>1 DEF Iterated
      <4>3. QED
        BY <2>2, <3>2, <4>1, <4>2
    <3>3. QED
      BY <3>1, <3>2
  <2>6. g = [n \in 0..K |-> IF n = 0 THEN <<>> ELSE step(g[n - 1], n)]
    BY <2>4, <2>5
  <2>7. QED
    BY <2>6
<1>10. after = [n \in 0..K |-> IF n = 0 THEN <<>> ELSE step(after[n - 1], n)]
  BY <1>9
<1> HIDE DEF after
<1>11. after[0] = <<>> /\ \A n \in 1..K : after[n] = step(after[n - 1], n)
  BY <1>2, <1>10
<1>12. ASSUME NEW i \in D
       PROVE  /\ Total(terms_(i), 0) = 0
              /\ \A n \in 1..K : Total(terms_(i), n) = Total(terms_(i), n - 1) + TermScore(i, tokens[n])
              /\ \A n \in 0..K : Total(terms_(i), n) \in Int
  <2>1. \A k \in 1..K : terms_(i)[k] = TermScore(i, tokens[k]) /\ terms_(i)[k] \in Int
    BY TermScoreIs
  <2>2. PICK f : f = terms_(i)
    OBVIOUS
  <2>3. \A k \in 1..K : f[k] = TermScore(i, tokens[k]) /\ f[k] \in Int
    BY <2>1, <2>2
  <2>4. /\ Total(f, 0) = 0
        /\ \A n \in 1..K : Total(f, n) = Total(f, n - 1) + f[n]
        /\ \A n \in 0..K : Total(f, n) \in Int
    BY <1>2, <2>3, TotalIs
  <2> HIDE DEF terms_
  <2>5. QED
    BY <2>2, <2>3, <2>4
<1> HIDE DEF terms_
<1> DEFINE Good(n) == Represents(after[n], T, scoreAt(n), TokensFor(seen(n)), LinesFor(seen(n)))
           U == { n \in 0..K : Good(n) }
<1>13. 0 \in U
  <2>1. seen(0) = {} /\ 0 \in 0..K
    BY <1>2
  <2> HIDE DEF seen
  <2>2. \A i \in D : /\ scoreAt(0)[i] = 0 /\ TokensFor(seen(0))[i] = {}
                     /\ LinesFor(seen(0))[i] = {}
    BY <1>3, <1>12, <2>1 DEF TokensFor, LinesFor, LinesOf
  <2> HIDE DEF scoreAt
  <2>3. Good(0)
    BY <1>7, <1>11, <2>2
  <2>4. QED
    BY <2>1, <2>3
<1>14. ASSUME NEW n \in 0..(K - 1), n \in U PROVE n + 1 \in U
  <2>1. n + 1 \in 1..K /\ n + 1 \in 0..K /\ (n + 1) - 1 = n /\ 1..(n + 1) = 1..n \cup {n + 1}
        /\ n \in 0..K
    <3>1. K \in Nat
      BY <1>2
    <3>2. QED
      BY ONLY <3>1, n \in 0..(K - 1)
  <2>2. PICK token : token = tokens[n + 1]
    OBVIOUS
  <2>3. seen(n + 1) = seen(n) \cup {token}
    BY <2>1, <2>2
  <2> HIDE DEF seen
  <2>4. scoreAt(n) \in [D -> Int]
    BY <1>12, <2>1
  <2>5. \A i \in D : scoreAt(n + 1)[i] = scoreAt(n)[i] + TermScore(i, token)
    BY <1>12, <2>1, <2>2
  <2>6. \A i \in D : TokensFor(seen(n + 1))[i] =
                        TokensFor(seen(n))[i] \cup (IF i \in Matching({token}) THEN {token} ELSE {})
    BY <1>3, <2>3 DEF TokensFor
  <2>7. \A i \in D : LinesFor(seen(n + 1))[i] =
                        LinesFor(seen(n))[i] \cup LinesOf(stored[i], {token})
    BY <1>3, <2>3 DEF LinesFor, LinesOf
  <2> HIDE DEF scoreAt
  <2>8. Represents(step(after[n], n + 1), T, scoreAt(n + 1), TokensFor(seen(n + 1)),
                   LinesFor(seen(n + 1)))
    <3>1. PICK sa, sb, ma, mb, la, lb :
            /\ sa = scoreAt(n) /\ ma = TokensFor(seen(n)) /\ la = LinesFor(seen(n))
            /\ sb = scoreAt(n + 1) /\ mb = TokensFor(seen(n + 1)) /\ lb = LinesFor(seen(n + 1))
      OBVIOUS
    <3>2. AddsToken(tokens[n + 1], sa, ma, la, sb, mb, lb)
      BY <1>3, <2>2, <2>4, <2>5, <2>6, <2>7, <3>1 DEF AddsToken
    <3>3. Represents(after[n], T, sa, ma, la)
      BY <1>14, <3>1
    <3>4. Represents(step(after[n], n + 1), T, sb, mb, lb)
      BY ONLY <1>5, <2>1, <3>2, <3>3
    <3>5. QED
      BY <3>1, <3>4
  <2>9. after[n + 1] = step(after[n], n + 1)
    BY <1>11, <2>1
  <2>10. QED
    BY <2>1, <2>8, <2>9
<1>15. Good(K)
  <2> HIDE DEF U
  <2>1. 0..K \subseteq U
    BY <1>2, <1>13, <1>14, Induct
  <2>2. K \in 0..K
    BY <1>2
  <2>3. QED
    BY <2>1, <2>2 DEF U
<1>16. seen(K) = T
  BY <1>2
<1>17. scoreAt(K) = ScoresFor(text)
  <2>1. ASSUME NEW i \in D PROVE ScoreOf(i, text) = Total(terms_(i), K)
    BY <1>1, <1>2 DEF ScoreOf, terms_
  <2>2. QED
    BY <1>3, <2>1 DEF ScoresFor
<1> HIDE DEF seen, scoreAt
<1>18. Represents(after[K], T, ScoresFor(text), TokensFor(T), LinesFor(T))
  BY <1>15, <1>16, <1>17
<1>19. Matches(index, text) = after[K]
  <2> SUFFICES ASSUME TotalTokens(index) = 0 PROVE after[K] = <<>>
    BY <1>4
  <2>1. \A t : Matching({t}) = {}
    BY TokensOfIndex
  <2>2. \A i \in 1..Len(stored) : TokensFor(T)[i] = {}
    BY <2>1 DEF TokensFor
  <2>3. after[K] \in Seq(Results(T)) /\ DOMAIN after[K] = {}
    BY <1>18, <2>2 DEF Represents
  <2>4. DOMAIN after[K] = 1..Len(after[K]) /\ Len(after[K]) \in Nat
    BY <2>3, LenProperties
  <2>5. Len(after[K]) = 0
    <3>1. PICK m : m = Len(after[K])
      OBVIOUS
    <3>2. m \in Nat /\ 1..m = {}
      BY <2>3, <2>4, <3>1
    <3>3. m = 0
      BY ONLY <3>2
    <3>4. QED
      BY <3>1, <3>3
  <2>6. QED
    BY <2>3, <2>5, EmptySeq
<1>20. QED
  BY <1>1, <1>18, <1>19

-----------------------------------------------------------------------------
(* The best first, cut, with their snippets.                               *)

(* The smaller of two numbers. *)
LEMMA SmallerIs ==
    ASSUME NEW a \in Int, NEW b \in Int
    PROVE  Min({a, b}) = IF a <= b THEN a ELSE b
<1>1. PICK m : m = IF a <= b THEN a ELSE b
  OBVIOUS
<1>2. m \in {a, b} /\ \A y \in {a, b} : m <= y
  BY <1>1
<1>3. \A x \in {a, b} : (\A y \in {a, b} : x <= y) => x = m
  BY <1>1
<1>4. Min({a, b}) = m
  BY <1>2, <1>3 DEF Min
<1>5. QED
  BY <1>1, <1>4

(* As many elements as places, if no two places hold the same. *)
LEMMA ImageCounts ==
    ASSUME NEW n \in Nat, NEW f, \A j, k \in 1..n : f[j] = f[k] => j = k,
           NEW T, \A x : x \in T <=> \E k \in 1..n : x = f[k]
    PROVE  IsFiniteSet(T) /\ Cardinality(T) = n
<1>1. PICK g : g = [k \in 1..n |-> f[k]]
  OBVIOUS
<1>2. /\ g \in [1..n -> T] /\ \A j, k \in 1..n : g[j] = g[k] => j = k
      /\ \A t \in T : \E k \in 1..n : g[k] = t
  BY <1>1
<1>3. g \in Bijection(1..n, T)
  BY <1>2, Fun_IsBij
<1>4. ExistsBijection(1..n, T)
  BY <1>3, Fun_ExistsBij
<1>5. IsFiniteSet(1..n) /\ Cardinality(1..n) = n
  <2>1. IsFiniteSet(1..n) /\ Cardinality(1..n) = IF 1 > n THEN 0 ELSE n - 1 + 1
    BY FS_Interval
  <2>2. QED
    BY <2>1
<1>6. QED
  BY <1>4, <1>5, FS_Bijection

(* sorted(results, key=score, reverse=True) lists the same results, the    *)
(* better before the worse.                                                *)
RankedBy(ranked, found, order) ==
    /\ DOMAIN ranked = 1..Len(found)
    /\ \A k \in 1..Len(found) : order[k] \in 1..Len(found) /\ ranked[k] = found[order[k]]
    /\ \A j, k \in 1..Len(found) : order[j] = order[k] => j = k
    /\ \A i \in 1..Len(found) : \E k \in 1..Len(found) : order[k] = i
    /\ \A j, k \in 1..Len(found) : j < k => ranked[j].score >= ranked[k].score

LEMMA BestFirstIs ==
    ASSUME NEW R, NEW found \in Seq(R), \A k \in DOMAIN found : found[k].score \in Int
    PROVE  \E order : RankedBy(BestFirst(found), found, order)
<1>1. PICK D, n : D = DOMAIN found /\ n = Len(found)
  OBVIOUS
<1>2. n \in Nat /\ D = 1..n
  BY <1>1, LenProperties
<1>3. IsFiniteSet(D) /\ Cardinality(D) = n
  <2>1. n \in Int /\ 1 \in Int
    BY <1>2
  <2>2. IsFiniteSet(1..n) /\ Cardinality(1..n) = IF 1 > n THEN 0 ELSE n - 1 + 1
    BY <2>1, FS_Interval
  <2>3. QED
    BY <1>2, <2>2
<1>4. PICK before : before = { p \in D \X D :
                    \/ found[p[1]].score > found[p[2]].score
                    \/ found[p[1]].score = found[p[2]].score /\ p[1] < p[2] }
  OBVIOUS
<1>5. PICK s : s = [k \in D |-> found[k].score]
  OBVIOUS
<1>6. \A k \in D : s[k] \in Int /\ s[k] = found[k].score /\ k \in Int
  BY <1>1, <1>2, <1>5
<1>7. \A x, y \in D : <<x, y>> \in before <=> s[x] > s[y] \/ (s[x] = s[y] /\ x < y)
  BY <1>4, <1>6
<1>8. PICK order : order = Sorted(D, before)
  OBVIOUS
<1>9. /\ order \in [1..n -> D]
      /\ \A i, j \in 1..n : i < j <=> <<order[i], order[j]>> \in before
      /\ \A x \in D : \E k \in 1..n : order[k] = x
  <2>0. \A k \in D : s[k] \in Int /\ k \in Int
    BY <1>6
  <2>1. \A x, y \in D : <<x, y>> \in before => x # y /\ <<y, x>> \notin before
    BY ONLY <1>7, <2>0
  <2>2. \A x, y, z \in D : <<x, y>> \in before /\ <<y, z>> \in before => <<x, z>> \in before
    BY ONLY <1>7, <2>0
  <2>3. \A x, y \in D : x # y => <<x, y>> \in before \/ <<y, x>> \in before
    BY ONLY <1>7, <2>0
  <2>4. /\ Sorted(D, before) \in [1..Cardinality(D) -> D]
        /\ \A i, j \in 1..Cardinality(D) :
             i < j <=> <<Sorted(D, before)[i], Sorted(D, before)[j]>> \in before
        /\ \A x \in D : \E k \in 1..Cardinality(D) : Sorted(D, before)[k] = x
    BY ONLY <1>3, <2>1, <2>2, <2>3, SortedIs
  <2>5. QED
    BY <1>3, <1>8, <2>4
<1>10. PICK ranked : ranked = BestFirst(found)
  OBVIOUS
<1>11. ranked = [k \in D |-> found[order[k]]]
  BY <1>1, <1>4, <1>8, <1>10 DEF BestFirst
<1>12. \A k \in 1..n : order[k] \in D /\ ranked[k] = found[order[k]]
  BY <1>2, <1>9, <1>11
<1>13. ASSUME NEW j \in 1..n, NEW k \in 1..n, order[j] = order[k] PROVE j = k
  <2>1. \A x \in D : <<x, x>> \notin before
    BY <1>6, <1>7
  <2>2. ~(j < k) /\ ~(k < j)
    BY <1>9, <1>12, <1>13, <2>1
  <2>3. QED
    BY <1>2, <2>2
<1>14. ASSUME NEW j \in 1..n, NEW k \in 1..n, j < k PROVE ranked[j].score >= ranked[k].score
  <2>1. PICK x, y : x = order[j] /\ y = order[k]
    OBVIOUS
  <2>2. x \in D /\ y \in D /\ <<x, y>> \in before /\ ranked[j] = found[x] /\ ranked[k] = found[y]
    BY <1>9, <1>12, <1>14, <2>1
  <2>3. s[x] >= s[y]
    <3>1. s[x] > s[y] \/ s[x] = s[y]
      BY <1>7, <2>2
    <3>2. s[x] \in Int /\ s[y] \in Int
      BY <1>6, <2>2
    <3>3. QED
      BY ONLY <3>1, <3>2
  <2>4. QED
    BY <1>6, <2>2, <2>3
<1>15. RankedBy(ranked, found, order)
  <2>1. DOMAIN ranked = 1..n
    BY <1>2, <1>11
  <2>2. QED
    BY ONLY <1>1, <1>2, <1>9, <1>12, <1>13, <1>14, <2>1 DEF RankedBy
<1>16. QED
  BY <1>10, <1>15

(* The first of some lines, as many as are shown of a result. *)
FirstLines(lines) ==
    { n \in lines : Cardinality({ m \in lines : m < n }) < MaxSnippetLines }

LEMMA FirstLinesAre ==
    ASSUME NEW lines \in SUBSET Nat, IsFiniteSet(lines)
    PROVE  /\ \A n \in FirstLines(lines), m \in lines \ FirstLines(lines) : n < m
           /\ Cardinality(FirstLines(lines)) = Min({MaxSnippetLines, Cardinality(lines)})
<1>1. PICK before : before = { p \in lines \X lines : p[1] < p[2] }
  OBVIOUS
<1>2. PICK N, line : N = Cardinality(lines) /\ line = Sorted(lines, before)
  OBVIOUS
<1>3. /\ N \in Nat /\ line \in [1..N -> lines]
      /\ \A i, j \in 1..N : i < j <=> <<line[i], line[j]>> \in before
      /\ \A n \in lines : \E k \in 1..N : line[k] = n
  <2>1. \A x, y \in lines : <<x, y>> \in before <=> x < y
    BY <1>1
  <2>2. \A x \in lines : x \in Int
    OBVIOUS
  <2>3. \A x, y \in lines : <<x, y>> \in before => x # y /\ <<y, x>> \notin before
    BY ONLY <2>1, <2>2
  <2>4. \A x, y, z \in lines : <<x, y>> \in before /\ <<y, z>> \in before => <<x, z>> \in before
    BY ONLY <2>1, <2>2
  <2>5. \A x, y \in lines : x # y => <<x, y>> \in before \/ <<y, x>> \in before
    BY ONLY <2>1, <2>2
  <2>6. /\ Cardinality(lines) \in Nat /\ Sorted(lines, before) \in [1..Cardinality(lines) -> lines]
        /\ \A i, j \in 1..Cardinality(lines) :
             i < j <=> <<Sorted(lines, before)[i], Sorted(lines, before)[j]>> \in before
        /\ \A x \in lines : \E k \in 1..Cardinality(lines) : Sorted(lines, before)[k] = x
    BY <2>3, <2>4, <2>5, SortedIs
  <2>7. QED
    BY <1>2, <2>6
<1>4. \A k \in 1..N : line[k] \in lines /\ line[k] \in Nat
  BY <1>3
<1>5. \A i, j \in 1..N : i < j <=> line[i] < line[j]
  BY <1>1, <1>3, <1>4
<1>6. \A j, k \in 1..N : line[j] = line[k] => j = k
  <2> SUFFICES ASSUME NEW j \in 1..N, NEW k \in 1..N, line[j] = line[k] PROVE j = k
    OBVIOUS
  <2>1. ~(j < k) /\ ~(k < j)
    <3>1. line[j] \in Nat /\ ~(line[j] < line[k]) /\ ~(line[k] < line[j])
      <4>1. line[j] \in Nat /\ line[k] = line[j]
        BY <1>4
      <4>2. QED
        BY <4>1
    <3>2. QED
      BY <1>5, <3>1
  <2>2. QED
    BY <1>3, <2>1
<1>7. ASSUME NEW k \in 1..N PROVE Cardinality({ m \in lines : m < line[k] }) = k - 1
  <2>1. { m \in lines : m < line[k] } = { line[j] : j \in 1..(k - 1) }
    <3>1. ASSUME NEW m \in lines, m < line[k] PROVE m \in { line[j] : j \in 1..(k - 1) }
      <4>1. PICK j \in 1..N : line[j] = m
        BY <1>3
      <4>2. j < k
        BY <1>5, <3>1, <4>1
      <4>3. j \in 1..(k - 1)
        BY <1>3, <4>2
      <4>4. QED
        BY <4>1, <4>3
    <3>2. ASSUME NEW j \in 1..(k - 1) PROVE line[j] \in lines /\ line[j] < line[k]
      <4>1. j \in 1..N /\ j < k
        BY <1>3
      <4>2. QED
        BY <1>4, <1>5, <4>1
    <3>3. QED
      BY <3>1, <3>2
  <2>2. k - 1 \in Nat /\ \A i, j \in 1..(k - 1) : i \in 1..N /\ j \in 1..N
    BY <1>3
  <2>3. Cardinality({ line[j] : j \in 1..(k - 1) }) = k - 1
    <3>1. PICK n, T : n = k - 1 /\ T = { line[j] : j \in 1..(k - 1) }
      OBVIOUS
    <3>2. n \in Nat /\ \A i, j \in 1..n : line[i] = line[j] => i = j
      BY <1>6, <2>2, <3>1
    <3>3. \A x : x \in T <=> \E j \in 1..n : x = line[j]
      BY <3>1
    <3>4. Cardinality(T) = n
      BY ONLY <3>2, <3>3, ImageCounts
    <3>5. QED
      BY <3>1, <3>4
  <2>4. QED
    BY <2>1, <2>3
<1>8. PICK c : c = IF MaxSnippetLines <= N THEN MaxSnippetLines ELSE N
  OBVIOUS
<1>9. c \in Nat /\ c <= N /\ (\A k \in 1..N : k - 1 < MaxSnippetLines <=> k <= c)
      /\ c = Min({MaxSnippetLines, N})
  <2>1. MaxSnippetLines \in Nat
    BY RankerAssumption
  <2>2. Min({MaxSnippetLines, N}) = IF MaxSnippetLines <= N THEN MaxSnippetLines ELSE N
    <3>1. MaxSnippetLines \in Int /\ N \in Int
      BY <1>3, <2>1
    <3>2. QED
      BY <3>1, SmallerIs
  <2>3. QED
    BY <1>3, <1>8, <2>1, <2>2
<1>10. \A k \in 1..N : line[k] \in FirstLines(lines) <=> k <= c
  BY <1>4, <1>7, <1>9 DEF FirstLines
<1>11. FirstLines(lines) = { line[k] : k \in 1..c }
  <2>1. ASSUME NEW n \in FirstLines(lines) PROVE n \in { line[k] : k \in 1..c }
    <3>1. n \in lines
      BY DEF FirstLines
    <3>2. PICK k \in 1..N : line[k] = n
      BY <1>3, <3>1
    <3>3. k \in 1..c
      BY <1>9, <1>10, <3>2
    <3>4. QED
      BY <3>2, <3>3
  <2>2. ASSUME NEW k \in 1..c PROVE line[k] \in FirstLines(lines)
    <3>1. k \in 1..N /\ k <= c
      BY <1>3, <1>9
    <3>2. QED
      BY <1>10, <3>1
  <2>3. QED
    BY <2>1, <2>2
<1>12. Cardinality({ line[k] : k \in 1..c }) = c
  <2>1. \A j \in 1..c : j \in 1..N
    BY <1>3, <1>9
  <2>2. \A j, k \in 1..c : line[j] = line[k] => j = k
    BY <1>6, <2>1
  <2>3. PICK T : T = { line[k] : k \in 1..c }
    OBVIOUS
  <2>4. \A x : x \in T <=> \E k \in 1..c : x = line[k]
    BY <2>3
  <2>5. Cardinality(T) = c
    BY <1>9, <2>2, <2>4, ImageCounts
  <2>6. QED
    BY <2>3, <2>5
<1>13. ASSUME NEW n \in FirstLines(lines), NEW m \in lines \ FirstLines(lines) PROVE n < m
  <2>1. PICK k \in 1..N : line[k] = n
    <3>1. n \in lines
      BY DEF FirstLines
    <3>2. QED
      BY <1>3, <3>1
  <2>2. PICK j \in 1..N : line[j] = m
    BY <1>3
  <2>3. k <= c /\ ~(j <= c)
    BY <1>10, <2>1, <2>2
  <2>4. k < j
    BY <1>9, <2>3
  <2>5. QED
    BY <1>5, <2>1, <2>2, <2>4
<1>14. QED
  BY <1>2, <1>9, <1>11, <1>12, <1>13

(* The lines of a document that have some tokens are lines of its content. *)
LEMMA LinesAreLines ==
    ASSUME stored \in Collections, NEW i \in 1..Len(stored), NEW T
    PROVE  /\ LinesOf(stored[i], T) \subseteq 1..Len(stored[i].content)
           /\ LinesOf(stored[i], T) \in SUBSET Nat /\ IsFiniteSet(LinesOf(stored[i], T))
<1>1. PICK content : content = stored[i].content
  OBVIOUS
<1>2. content \in Seq(Seq(Characters)) /\ Range(Occurrences(stored[i])) = OccurrencesIn(content)
  BY <1>1, OccurrencesOf
<1>3. DOMAIN content = 1..Len(content) /\ Len(content) \in Nat
  BY <1>2, LenProperties
<1>4. PICK lines : lines = LinesOf(stored[i], T)
  OBVIOUS
<1>5. lines \in SUBSET (1..Len(content))
  <2>1. \A o \in Range(Occurrences(stored[i])) : o.line \in DOMAIN content
    BY <1>2 DEF OccurrencesIn
  <2>2. lines \subseteq DOMAIN content
    BY <1>4, <2>1 DEF LinesOf, ToSet, Range
  <2>3. QED
    BY <1>3, <2>2
<1>6. IsFiniteSet(1..Len(content))
  <2>1. 1 \in Int /\ Len(content) \in Int
    BY <1>3
  <2>2. QED
    BY <2>1, FS_Interval
<1>7. lines \in SUBSET Nat /\ IsFiniteSet(lines)
  <2>1. IsFiniteSet(lines)
    BY <1>5, <1>6, FS_Subset
  <2>2. lines \in SUBSET Nat
    BY <1>5
  <2>3. QED
    BY <2>1, <2>2
<1>8. QED
  BY <1>1, <1>4, <1>5, <1>7

(* The snippets of a result are the first of its lines. *)
LEMMA SnippetsAre ==
    ASSUME IndexFinished, NEW i \in 1..Len(stored), NEW T, NEW r,
           r.id = stored[i].id, r.lines = LinesOf(stored[i], T)
    PROVE  Snippets(index, r) = FirstLines(r.lines)
<1>1. PICK document : document = CHOOSE d \in Range(index.documents) : d.id = r.id
  OBVIOUS
<1>2. /\ stored \in Collections /\ DOMAIN index.documents = 1..Len(stored)
      /\ \A j \in 1..Len(stored) : index.documents[j] =
            [id     |-> stored[j].id,
             length |-> Len(Occurrences(stored[j])),
             lines  |-> Len(stored[j].content)]
  BY DEF IndexFinished
<1>3. \A j \in 1..Len(stored) : index.documents[j].id = stored[j].id
  <2> SUFFICES ASSUME NEW j \in 1..Len(stored) PROVE index.documents[j].id = stored[j].id
    OBVIOUS
  <2>1. index.documents[j] = [id     |-> stored[j].id,
                              length |-> Len(Occurrences(stored[j])),
                              lines  |-> Len(stored[j].content)]
    BY <1>2
  <2>2. QED
    BY ONLY <2>1
<1>4. \A j, k \in 1..Len(stored) : stored[j].id = stored[k].id => j = k
  BY <1>2, StoredRows
<1>5. document \in Range(index.documents) /\ document.id = r.id
  <2>1. index.documents[i] \in Range(index.documents)
    BY <1>2 DEF Range
  <2>2. index.documents[i].id = r.id
    BY <1>3
  <2>3. QED
    BY <1>1, <2>1, <2>2
<1>6. PICK j \in 1..Len(stored) : document = index.documents[j]
  BY <1>2, <1>5 DEF Range
<1>7. j = i
  BY <1>3, <1>4, <1>5, <1>6
<1>8. document.lines = Len(stored[i].content)
  <2>1. document = [id     |-> stored[i].id,
                    length |-> Len(Occurrences(stored[i])),
                    lines  |-> Len(stored[i].content)]
    BY <1>2, <1>6, <1>7
  <2>2. QED
    BY ONLY <2>1
<1>9. \A n \in r.lines : n <= document.lines
  <2>1. r.lines \subseteq 1..document.lines
    BY <1>2, <1>8, LinesAreLines
  <2>2. document.lines \in Nat
    <3>1. stored[i].content \in Seq(Seq(Characters))
      BY <1>2, OccurrencesOf
    <3>2. QED
      BY <1>8, <3>1, LenProperties
  <2>3. QED
    BY ONLY <2>1, <2>2
<1>10. Snippets(index, r) =
         { n \in r.lines : /\ n <= document.lines
                           /\ Cardinality({ m \in r.lines : m < n }) < MaxSnippetLines }
  BY <1>1 DEF Snippets
<1>11. QED
  BY <1>9, <1>10 DEF FirstLines

(* What a search should return of the document at place i, in which order  *)
(* of the documents, and how many of them.                                 *)
ResultFor(i, text) ==
    LET T == Range(Tokenize(text))
    IN  [id |-> stored[i].id, score |-> ScoreOf(i, text),
         tokens |-> { t \in T : i \in Matching({t}) }, lines |-> LinesOf(stored[i], T),
         snippets |-> FirstLines(LinesOf(stored[i], T))]

Hits(text) == Matching(Range(Tokenize(text)))

Ranks(places, text) ==
    /\ Cardinality(Hits(text)) \in Nat
    /\ \A k \in 1..Cardinality(Hits(text)) : places[k] \in Hits(text)
    /\ \A j, k \in 1..Cardinality(Hits(text)) : places[j] = places[k] => j = k
    /\ \A i \in Hits(text) : \E k \in 1..Cardinality(Hits(text)) : places[k] = i
    /\ \A j, k \in 1..Cardinality(Hits(text)) :
          j < k => ScoreOf(places[j], text) >= ScoreOf(places[k], text)

Ranking(ranked, places, text) ==
    /\ ranked \in Seq(Results(Range(Tokenize(text)))) /\ Len(ranked) = Cardinality(Hits(text))
    /\ \A k \in 1..Cardinality(Hits(text)) :
          /\ ranked[k].id = stored[places[k]].id
          /\ ranked[k].score = ScoreOf(places[k], text)
          /\ ranked[k].tokens = { t \in Range(Tokenize(text)) : places[k] \in Matching({t}) }
          /\ ranked[k].lines = LinesOf(stored[places[k]], Range(Tokenize(text)))

Returns(results, places, text, limit) ==
    LET n == Min({limit, Cardinality(Hits(text))})
    IN  /\ DOMAIN results = 1..n /\ Len(results) = n
        /\ \A k \in 1..n : results[k] = ResultFor(places[k], text)

(* The score of a document is a number. *)
LEMMA ScoreIs ==
    ASSUME IndexFinished, NEW S, NEW text \in Seq(S), NEW i
    PROVE  ScoreOf(i, text) \in Int
<1>1. PICK tokens : tokens = Tokenize(text)
  OBVIOUS
<1>2. tokens \in Seq(Range(tokens))
  BY <1>1, TokensAre
<1>3. PICK K : K = Len(tokens)
  OBVIOUS
<1>4. K \in Nat /\ DOMAIN tokens = 1..K
  BY <1>2, <1>3, LenProperties
<1>5. PICK f : f = [k \in DOMAIN tokens |-> TermScore(i, tokens[k])]
  OBVIOUS
<1>6. \A k \in 1..K : f[k] \in Int
  BY <1>4, <1>5, TermScoreIs
<1>7. K \in 0..K
  BY <1>4
<1>8. Total(f, K) \in Int
  BY <1>4, <1>6, <1>7, TotalIs
<1>9. QED
  BY <1>1, <1>3, <1>5, <1>8 DEF ScoreOf

(* The results found, best first, are those of the documents that share a  *)
(* token with the query, in an order of their scores.                      *)
LEMMA RankingIs ==
    ASSUME IndexFinished, NEW S, NEW text \in Seq(S)
    PROVE  \E places : Ranks(places, text) /\ Ranking(BestFirst(Matches(index, text)), places, text)
<1>1. PICK T, found, M : T = Range(Tokenize(text)) /\ found = Matches(index, text) /\ M = Hits(text)
  OBVIOUS
<1>2. PICK n : n = Len(found)
  OBVIOUS
<1>3. Represents(found, T, ScoresFor(text), TokensFor(T), LinesFor(T))
  BY <1>1, MatchesFind
<1>4. found \in Seq(Results(T)) /\ n \in Nat /\ DOMAIN found = 1..n
  BY <1>2, <1>3, LenProperties DEF Represents
<1>5. stored \in Collections
  BY DEF IndexFinished
<1>6. /\ M = Matching(T) /\ M \subseteq 1..Len(stored)
      /\ \A i \in 1..Len(stored) : i \in M <=> TokensFor(T)[i] # {}
  <2>1. M = Matching(T)
    BY <1>1 DEF Hits
  <2>2. /\ M \subseteq 1..Len(stored)
        /\ \A i : i \in M <=> i \in 1..Len(stored) /\ \E t \in T : i \in Matching({t})
    BY <1>5, <2>1, MatchingIs
  <2>3. \A i \in 1..Len(stored) : TokensFor(T)[i] = { t \in T : i \in Matching({t}) }
    BY DEF TokensFor
  <2>4. QED
    BY <2>1, <2>2, <2>3
<1>7. \A i \in 1..Len(stored) :
        LET r == ResultOf(i, ScoresFor(text), TokensFor(T), LinesFor(T))
        IN  /\ r.id = stored[i].id
            /\ r.score = ScoreOf(i, text)
            /\ r.tokens = { t \in T : i \in Matching({t}) }
            /\ r.lines = LinesOf(stored[i], T)
  BY DEF ResultOf, ScoresFor, TokensFor, LinesFor
<1>8. \A k \in 1..n : \E i \in M : found[k] = ResultOf(i, ScoresFor(text), TokensFor(T), LinesFor(T))
  BY <1>3, <1>4, <1>6 DEF Represents
<1>9. \A k \in 1..n : found[k].score \in Int
  BY <1>6, <1>7, <1>8, ScoreIs
<1>10. PICK ranked : ranked = BestFirst(found)
  OBVIOUS
<1>11. PICK order : RankedBy(ranked, found, order)
  BY <1>4, <1>9, <1>10, BestFirstIs
<1>12. /\ DOMAIN ranked = 1..n
       /\ \A k \in 1..n : order[k] \in 1..n /\ ranked[k] = found[order[k]]
       /\ \A j, k \in 1..n : order[j] = order[k] => j = k
       /\ \A i \in 1..n : \E k \in 1..n : order[k] = i
       /\ \A j, k \in 1..n : j < k => ranked[j].score >= ranked[k].score
  BY <1>2, <1>11 DEF RankedBy
<1>13. PICK places : places = [k \in 1..n |-> CHOOSE i \in M :
                        ranked[k] = ResultOf(i, ScoresFor(text), TokensFor(T), LinesFor(T))]
  OBVIOUS
<1>14. ASSUME NEW k \in 1..n
       PROVE  /\ places[k] \in M
              /\ ranked[k] = ResultOf(places[k], ScoresFor(text), TokensFor(T), LinesFor(T))
  <2>1. \E i \in M : ranked[k] = ResultOf(i, ScoresFor(text), TokensFor(T), LinesFor(T))
    <3>1. PICK j \in 1..n : j = order[k] /\ ranked[k] = found[j]
      BY <1>12
    <3>2. QED
      BY <1>8, <3>1
  <2>2. places[k] = CHOOSE i \in M :
            ranked[k] = ResultOf(i, ScoresFor(text), TokensFor(T), LinesFor(T))
    BY <1>13
  <2>3. QED
    BY <2>1, <2>2
<1>15. ASSUME NEW k \in 1..n
       PROVE  /\ ranked[k].id = stored[places[k]].id
              /\ ranked[k].score = ScoreOf(places[k], text)
              /\ ranked[k].tokens = { t \in T : places[k] \in Matching({t}) }
              /\ ranked[k].lines = LinesOf(stored[places[k]], T)
  BY <1>6, <1>7, <1>14
<1>16. ASSUME NEW j \in 1..n, NEW k \in 1..n, places[j] = places[k] PROVE j = k
  <2>1. ranked[j].id = ranked[k].id
    BY <1>15, <1>16
  <2>2. found[order[j]].id = found[order[k]].id
    BY <1>12, <2>1
  <2>3. order[j] = order[k]
    BY <1>3, <1>4, <1>12, <2>2 DEF Represents
  <2>4. QED
    BY <1>12, <2>3
<1>17. ASSUME NEW i \in M PROVE \E k \in 1..n : places[k] = i
  <2>1. PICK l \in 1..n : found[l].id = stored[i].id
    BY <1>3, <1>4, <1>6 DEF Represents
  <2>2. PICK k \in 1..n : order[k] = l
    BY <1>12
  <2>3. stored[places[k]].id = stored[i].id
    BY <1>12, <1>15, <2>1, <2>2
  <2>4. QED
    BY <1>5, <1>6, <1>14, <2>3, StoredRows
<1>18. Cardinality(M) = n
  <2>1. \A x : x \in M <=> \E k \in 1..n : x = places[k]
    BY <1>14, <1>17
  <2>2. \A j, k \in 1..n : places[j] = places[k] => j = k
    BY <1>16
  <2>3. QED
    BY ONLY <1>4, <2>1, <2>2, ImageCounts
<1>19. \A j, k \in 1..n : j < k => ScoreOf(places[j], text) >= ScoreOf(places[k], text)
  BY <1>12, <1>15
<1>20. Ranks(places, text)
  BY <1>1, <1>4, <1>14, <1>16, <1>17, <1>18, <1>19 DEF Ranks
<1>21. ranked \in Seq(Results(T)) /\ Len(ranked) = n
  <2>1. \A k \in 1..n : ranked[k] \in Results(T)
    <3>1. \A k \in 1..n : found[k] \in Results(T)
      BY <1>2, <1>4, ElementOfSeq
    <3>2. QED
      BY <1>12, <3>1
  <2>2. ranked \in [1..n -> Results(T)]
    <3>1. ranked = [k \in 1..n |-> ranked[k]]
      BY <1>4, <1>10, <1>12 DEF BestFirst
    <3>2. QED
      BY <2>1, <3>1
  <2>3. QED
    BY <1>4, <2>2, SeqIs
<1>22. Ranking(ranked, places, text)
  BY <1>1, <1>15, <1>18, <1>21 DEF Ranking
<1>23. QED
  BY <1>1, <1>10, <1>20, <1>22

(* A search returns the first of that ranking, as many as asked for.       *)
LEMMA SearchFinds ==
    ASSUME IndexFinished, NEW S, NEW text \in Seq(S), NEW limit \in Nat
    PROVE  \E places : /\ Ranks(places, text)
                       /\ Returns(SearchIndex(index, text, limit), places, text, limit)
<1>1. PICK T, B, n : /\ T = Range(Tokenize(text)) /\ B = BestFirst(Matches(index, text))
                     /\ n = Cardinality(Hits(text))
  OBVIOUS
<1>a. PICK places : Ranks(places, text) /\ Ranking(B, places, text)
  BY <1>1, RankingIs
<1>2.   /\ Ranks(places, text) /\ B \in Seq(Results(T)) /\ Len(B) = n
        /\ \A k \in 1..n : /\ B[k].id = stored[places[k]].id
                           /\ B[k].score = ScoreOf(places[k], text)
                           /\ B[k].tokens = { t \in T : places[k] \in Matching({t}) }
                           /\ B[k].lines = LinesOf(stored[places[k]], T)
  BY <1>1, <1>a DEF Ranking
<1>3. PICK c, C : c = Min({limit, n}) /\ C = CutTo(limit, B)
  OBVIOUS
<1>4. n \in Nat /\ c \in Nat /\ c <= n
  <2>1. n \in Nat
    BY <1>1, <1>2 DEF Ranks
  <2>2. c = IF limit <= n THEN limit ELSE n
    <3>1. limit \in Int /\ n \in Int
      BY <2>1
    <3>2. QED
      BY <1>3, <3>1, SmallerIs
  <2>3. QED
    BY <2>1, <2>2
<1>5. C = SubSeq(B, 1, c)
  BY <1>2, <1>3 DEF CutTo
<1>6. DOMAIN C = 1..c /\ \A k \in 1..c : C[k] = B[k]
  <2>1. \A k \in 1..c : B[k] \in Results(T)
    <3>1. \A k \in 1..n : B[k] \in Results(T)
      BY <1>2, ElementOfSeq
    <3>2. QED
      BY <1>4, <3>1
  <2>2. 1 \in Int /\ c \in Int
    BY <1>4
  <2>3. /\ C \in Seq(Results(T)) /\ Len(C) = (IF 1 <= c THEN c - 1 + 1 ELSE 0)
        /\ \A k \in 1..(c - 1 + 1) : C[k] = B[1 + k - 1]
    BY <1>5, <2>1, <2>2, SubSeqProperties
  <2>4. Len(C) = c
    BY <1>4, <2>3
  <2>5. DOMAIN C = 1..c
    BY <2>3, <2>4, LenProperties
  <2>6. \A k \in 1..c : k \in 1..(c - 1 + 1) /\ 1 + k - 1 = k
    BY <1>4
  <2>7. QED
    BY <2>3, <2>5, <2>6
<1>7. PICK results : results = SearchIndex(index, text, limit)
  OBVIOUS
<1>8. results = [k \in 1..c |-> WithSnippets(index, B[k])]
  <2>1. results = [k \in DOMAIN C |-> WithSnippets(index, C[k])]
    BY <1>1, <1>3, <1>7 DEF SearchIndex
  <2>2. QED
    BY <1>6, <2>1
<1>9. ASSUME NEW k \in 1..c PROVE results[k] = ResultFor(places[k], text)
  <2>1. k \in 1..n
    BY <1>4
  <2>2. PICK i, r : i = places[k] /\ r = B[k]
    OBVIOUS
  <2>3. /\ r.id = stored[i].id /\ r.score = ScoreOf(i, text)
        /\ r.tokens = { t \in T : i \in Matching({t}) } /\ r.lines = LinesOf(stored[i], T)
    BY <1>2, <2>1, <2>2
  <2>4. i \in 1..Len(stored)
    <3>1. i \in Hits(text)
      BY <1>1, <1>2, <2>1, <2>2 DEF Ranks
    <3>2. stored \in Collections
      BY DEF IndexFinished
    <3>3. QED
      BY <3>1, <3>2, MatchingIs DEF Hits
  <2>5. Snippets(index, r) = FirstLines(LinesOf(stored[i], T))
    <3>1. Snippets(index, r) = FirstLines(r.lines)
      BY <2>3, <2>4, SnippetsAre
    <3>2. QED
      BY <2>3, <3>1
  <2>6. results[k] = [id |-> r.id, score |-> r.score, tokens |-> r.tokens, lines |-> r.lines,
                      snippets |-> Snippets(index, r)]
    BY <1>8, <2>2 DEF WithSnippets
  <2>7. results[k] = [id |-> stored[i].id, score |-> ScoreOf(i, text),
                      tokens |-> { t \in T : i \in Matching({t}) },
                      lines |-> LinesOf(stored[i], T),
                      snippets |-> FirstLines(LinesOf(stored[i], T))]
    BY ONLY <2>3, <2>5, <2>6
  <2>8. QED
    BY ONLY <1>1, <2>2, <2>7 DEF ResultFor
<1>10. DOMAIN results = 1..c /\ Len(results) = c
  <2>1. DOMAIN results = 1..c
    BY <1>8
  <2>2. PICK R : R = { results[k] : k \in 1..c }
    OBVIOUS
  <2>3. results \in [1..c -> R]
    <3>1. results = [k \in 1..c |-> results[k]]
      BY <1>8
    <3>2. QED
      BY <2>2, <3>1
  <2>4. QED
    BY <1>4, <2>1, <2>3, SeqIs
<1>11. Returns(results, places, text, limit)
  BY <1>1, <1>3, <1>9, <1>10 DEF Returns
<1>12. QED
  BY <1>2, <1>7, <1>11

(* A search of a finished index finds the best of its documents.           *)
LEMMA SearchExact ==
    ASSUME IndexFinished, NEW S, NEW query \in Seq(S), NEW limit \in Nat
    PROVE  FindsTheBest(query, limit)
<1> DEFINE tokens  == ToSet(Tokenize(query))
           results == SearchIndex(index, query, limit)
           place(r) == CHOOSE i \in DOMAIN stored : stored[i].id = r.id
           returned == { place(r) : r \in ToSet(results) }
<1>1. PICK places : Ranks(places, query) /\ Returns(results, places, query, limit)
  BY SearchFinds
<1>2. tokens = Range(Tokenize(query)) /\ Matching(tokens) = Hits(query)
  <2>1. tokens = Range(Tokenize(query))
    BY DEF ToSet, Range
  <2>2. QED
    BY <2>1 DEF Hits
<1>3. PICK M, n, c : M = Hits(query) /\ n = Cardinality(M) /\ c = Min({limit, n})
  OBVIOUS
<1>4. /\ n \in Nat /\ M \subseteq 1..Len(stored) /\ DOMAIN stored = 1..Len(stored)
      /\ stored \in Collections
  <2>1. stored \in Collections
    BY DEF IndexFinished
  <2>2. QED
    BY <1>3, <2>1, MatchingIs, StoredRows DEF Hits
<1>5. c \in Nat /\ c <= n
  <2>1. c = IF limit <= n THEN limit ELSE n
    <3>1. limit \in Int /\ n \in Int
      BY <1>4
    <3>2. QED
      BY <1>3, <3>1, SmallerIs
  <2>2. QED
    BY <1>4, <2>1
<1>6. /\ \A k \in 1..n : places[k] \in M
      /\ \A j, k \in 1..n : places[j] = places[k] => j = k
      /\ \A i \in M : \E k \in 1..n : places[k] = i
      /\ \A j, k \in 1..n : j < k => ScoreOf(places[j], query) >= ScoreOf(places[k], query)
  BY <1>1, <1>3 DEF Ranks
<1>7. /\ DOMAIN results = 1..c /\ Len(results) = c
      /\ \A k \in 1..c : results[k] = ResultFor(places[k], query)
  BY <1>1, <1>3 DEF Returns
<1>8. ASSUME NEW i
      PROVE  /\ ResultFor(i, query).id = stored[i].id
             /\ ResultFor(i, query).score = ScoreOf(i, query)
             /\ ResultFor(i, query).tokens = { t \in tokens : i \in Matching({t}) }
             /\ ResultFor(i, query).lines = LinesOf(stored[i], tokens)
             /\ ResultFor(i, query).snippets = FirstLines(LinesOf(stored[i], tokens))
  <2> HIDE DEF tokens
  <2>1. QED
    BY <1>2 DEF ResultFor
<1> HIDE DEF tokens
<1>9. ASSUME NEW i \in 1..Len(stored), NEW r, r.id = stored[i].id PROVE place(r) = i
  <2>1. \A j \in 1..Len(stored) : stored[j].id = stored[i].id => j = i
    BY <1>4, StoredRows
  <2>2. QED
    BY <1>4, <1>9, <2>1
<1>10. ASSUME NEW k \in 1..c PROVE k \in 1..n /\ places[k] \in M /\ place(results[k]) = places[k]
  <2>1. k \in 1..n
    BY <1>4, <1>5
  <2>2. places[k] \in M /\ places[k] \in 1..Len(stored)
    BY <1>4, <1>6, <2>1
  <2>3. results[k].id = stored[places[k]].id
    BY <1>7, <1>8
  <2> HIDE DEF results, place
  <2>4. place(results[k]) = places[k]
    BY <1>9, <2>2, <2>3
  <2>5. QED
    BY <2>1, <2>2, <2>4
<1>11. \A x : x \in returned <=> \E k \in 1..c : x = places[k]
  <2>1. ToSet(results) = { results[k] : k \in 1..c }
    BY <1>7 DEF ToSet
  <2> HIDE DEF results, place
  <2>2. returned = { place(results[k]) : k \in 1..c }
    BY <2>1
  <2>3. QED
    BY <1>10, <2>2
<1> HIDE DEF results, place, returned
<1>12. Cardinality(returned) = c
  <2>1. \A j, k \in 1..c : places[j] = places[k] => j = k
    BY <1>6, <1>10
  <2>2. QED
    BY ONLY <1>5, <1>11, <2>1, ImageCounts
<1>13. returned \subseteq M
  BY <1>10, <1>11
<1> DEFINE Right(k, r, i) ==
              /\ r.score = ScoreOf(i, query)
              /\ r.tokens = { t \in tokens : i \in Matching({t}) }
              /\ r.lines = LinesOf(stored[i], tokens)
              /\ r.snippets \subseteq r.lines
              /\ \A b \in r.snippets, m \in r.lines \ r.snippets : b < m
              /\ Cardinality(r.snippets) = Min({MaxSnippetLines, Cardinality(r.lines)})
              /\ k + 1 \in 1..c => r.score >= results[k + 1].score
              /\ \A j \in M \ returned : r.score >= ScoreOf(j, query)
<1>14. ASSUME NEW k \in 1..c PROVE Right(k, results[k], place(results[k]))
  <2>0. PICK r, i : r = results[k] /\ i = place(r)
    OBVIOUS
  <2>1. i = places[k] /\ i \in M /\ k \in 1..n /\ i \in 1..Len(stored)
    BY <1>4, <1>10, <2>0
  <2>2. r = ResultFor(i, query)
    BY <1>7, <2>0, <2>1
  <2>3. /\ r.score = ScoreOf(i, query)
        /\ r.tokens = { t \in tokens : i \in Matching({t}) }
        /\ r.lines = LinesOf(stored[i], tokens)
        /\ r.snippets = FirstLines(r.lines)
    BY <1>8, <2>2
  <2>4. r.lines \in SUBSET Nat /\ IsFiniteSet(r.lines)
    <3>1. LinesOf(stored[i], tokens) \in SUBSET Nat /\ IsFiniteSet(LinesOf(stored[i], tokens))
      BY <1>4, <2>1, LinesAreLines
    <3>2. QED
      BY <2>3, <3>1
  <2>5. /\ r.snippets \subseteq r.lines
        /\ \A b \in r.snippets, m \in r.lines \ r.snippets : b < m
        /\ Cardinality(r.snippets) = Min({MaxSnippetLines, Cardinality(r.lines)})
    <3>1. PICK lines : lines = r.lines
      OBVIOUS
    <3>2. lines \in SUBSET Nat /\ IsFiniteSet(lines) /\ r.snippets = FirstLines(lines)
      BY <2>3, <2>4, <3>1
    <3>3. /\ \A b \in FirstLines(lines), m \in lines \ FirstLines(lines) : b < m
          /\ Cardinality(FirstLines(lines)) = Min({MaxSnippetLines, Cardinality(lines)})
      BY <3>2, FirstLinesAre
    <3>4. FirstLines(lines) \subseteq lines
      BY DEF FirstLines
    <3>5. QED
      BY ONLY <3>1, <3>2, <3>3, <3>4
  <2>6. ASSUME k + 1 \in 1..c PROVE r.score >= results[k + 1].score
    <3>1. k + 1 \in 1..n /\ k < k + 1
      BY <1>5, <1>10, <2>6
    <3>2. results[k + 1].score = ScoreOf(places[k + 1], query)
      BY <1>7, <1>8, <2>6
    <3>3. ScoreOf(places[k], query) >= ScoreOf(places[k + 1], query)
      BY <1>6, <2>1, <3>1
    <3>4. QED
      BY <2>1, <2>3, <3>2, <3>3
  <2>7. ASSUME NEW j \in M \ returned PROVE r.score >= ScoreOf(j, query)
    <3>1. PICK l \in 1..n : places[l] = j
      BY <1>6
    <3>2. l \notin 1..c
      BY <1>11, <3>1
    <3>3. k < l
      BY <1>5, <3>2
    <3>4. ScoreOf(places[k], query) >= ScoreOf(places[l], query)
      BY <1>6, <2>1, <3>3
    <3>5. QED
      BY <2>1, <2>3, <3>1, <3>4
  <2>8. Right(k, r, i)
    BY <2>3, <2>5, <2>6, <2>7
  <2>9. QED
    BY <2>0, <2>8
<1>15. /\ Len(results) = Min({limit, Cardinality(Matching(tokens))})
       /\ Cardinality(returned) = Len(results)
       /\ returned \subseteq Matching(tokens)
  BY <1>2, <1>3, <1>7, <1>12, <1>13
<1>16. ASSUME NEW k \in DOMAIN results
       PROVE  LET r == results[k]
                  i == place(r)
              IN  /\ r.score = ScoreOf(i, query)
                  /\ r.tokens = { t \in tokens : i \in Matching({t}) }
                  /\ r.lines = LinesOf(stored[i], tokens)
                  /\ r.snippets \subseteq r.lines
                  /\ \A b \in r.snippets, m \in r.lines \ r.snippets : b < m
                  /\ Cardinality(r.snippets) = Min({MaxSnippetLines, Cardinality(r.lines)})
                  /\ k + 1 \in DOMAIN results => r.score >= results[k + 1].score
                  /\ \A j \in Matching(tokens) \ returned : r.score >= ScoreOf(j, query)
  <2>1. k \in 1..c
    BY <1>7
  <2>2. Right(k, results[k], place(results[k]))
    BY <1>14, <2>1
  <2>3. QED
    BY <1>2, <1>3, <1>7, <2>2
<1>17. QED
  BY <1>15, <1>16 DEF FindsTheBest, tokens, results, place, returned

(* BM25Ranker.search (bm25_ranker.py:29-95): whatever the documents, the   *)
(* query and the limit, a search returns the best of exactly the documents *)
(* that share a token with the query, each with its score, its matched     *)
(* tokens and lines, and the first of these as snippets.                   *)
THEOREM SearchesStayExact == Spec => []SearchIsExact
<1>1. IndexInv => SearchIsExact
  <2> SUFFICES ASSUME IndexInv, stage = "ready" PROVE SearchIsExact
    BY DEF SearchIsExact
  <2>1. IndexFinished
    BY FinishedIndex
  <2>2. \A query \in Queries, limit \in Limits : query \in Seq(Characters) /\ limit \in Nat
    BY RequestsAssumption
  <2>3. QED
    BY <2>1, <2>2, SearchExact DEF SearchIsExact
<1>2. QED
  BY <1>1, IndexInit, IndexNext, PTL DEF Spec

-----------------------------------------------------------------------------
(* Queries under one cache key: sums in another order.                     *)

(* Changing one term changes the sum by as much. *)
LEMMA TotalChanged ==
    ASSUME NEW N \in Nat, NEW f \in [1..N -> Int], NEW j \in 1..N, NEW x \in Int
    PROVE  Total([k \in 1..N |-> IF k = j THEN x ELSE f[k]], N) = Total(f, N) - f[j] + x
<1>1. PICK g : g = [k \in 1..N |-> IF k = j THEN x ELSE f[k]]
  OBVIOUS
<1>2. \A k \in 1..N : f[k] \in Int /\ g[k] \in Int /\ g[k] = IF k = j THEN x ELSE f[k]
  BY <1>1
<1>3. /\ Total(f, 0) = 0 /\ \A n \in 0..N : Total(f, n) \in Int
      /\ \A n \in 1..N : Total(f, n) = Total(f, n - 1) + f[n]
  BY <1>2, TotalIs
<1>4. /\ Total(g, 0) = 0 /\ \A n \in 0..N : Total(g, n) \in Int
      /\ \A n \in 1..N : Total(g, n) = Total(g, n - 1) + g[n]
  BY <1>2, TotalIs
<1> DEFINE T == { n \in 0..N : Total(g, n) = IF n < j THEN Total(f, n) ELSE Total(f, n) - f[j] + x }
<1>5. 0 \in T
  BY <1>3, <1>4
<1>6. ASSUME NEW n \in 0..(N - 1), n \in T PROVE n + 1 \in T
  <2>1. n + 1 \in 1..N /\ n + 1 \in 0..N /\ (n + 1) - 1 = n /\ n \in 0..N /\ n \in Int /\ j \in Int
    OBVIOUS
  <2>2. /\ Total(f, n + 1) = Total(f, n) + f[n + 1] /\ Total(g, n + 1) = Total(g, n) + g[n + 1]
        /\ Total(f, n) \in Int /\ f[n + 1] \in Int /\ f[j] \in Int
        /\ g[n + 1] = IF n + 1 = j THEN x ELSE f[n + 1]
    BY <1>2, <1>3, <1>4, <2>1
  <2>3. Total(g, n) = IF n < j THEN Total(f, n) ELSE Total(f, n) - f[j] + x
    BY <1>6
  <2>4. CASE n + 1 < j
    BY <2>1, <2>2, <2>3, <2>4
  <2>5. CASE n + 1 = j
    <3>1. n < j /\ ~(n + 1 < j) /\ f[j] = f[n + 1]
      BY <2>1, <2>5
    <3>2. Total(g, n + 1) = Total(f, n + 1) - f[j] + x
      BY ONLY <2>2, <2>3, <2>5, <3>1, x \in Int
    <3>3. QED
      BY <2>1, <3>1, <3>2
  <2>6. CASE n + 1 > j
    <3>1. ~(n < j) /\ ~(n + 1 < j) /\ n + 1 # j
      BY <2>1, <2>6
    <3>2. Total(g, n + 1) = Total(f, n + 1) - f[j] + x
      BY ONLY <2>2, <2>3, <3>1, x \in Int
    <3>3. QED
      BY <2>1, <3>1, <3>2
  <2>7. QED
    BY <2>1, <2>4, <2>5, <2>6
<1> HIDE DEF T
<1>7. 0..N \subseteq T
  BY <1>5, <1>6, Induct
<1>8. N \in T
  <2>1. N \in 0..N
    OBVIOUS
  <2>2. QED
    BY <1>7, <2>1
<1>9. QED
  <2>1. ~(N < j)
    OBVIOUS
  <2>2. QED
    BY <1>1, <1>8, <2>1 DEF T

(* The order of its terms does not change a sum. *)
Reordered(n) ==
    \A f \in [1..n -> Int], p \in [1..n -> 1..n] :
        (\A j, k \in 1..n : p[j] = p[k] => j = k) =>
            Total([k \in 1..n |-> f[p[k]]], n) = Total(f, n)

LEMMA TotalReordered == \A n \in Nat : Reordered(n)
<1> SUFFICES ASSUME NEW N \in Nat PROVE Reordered(N)
  OBVIOUS
<1> DEFINE T == { n \in 0..N : Reordered(n) }
<1>1. 0 \in T
  <2>1. 0 \in 0..N
    OBVIOUS
  <2>2. ASSUME NEW f PROVE Total(f, 0) = 0
    <3>1. \A k \in 1..0 : f[k] \in Int
      OBVIOUS
    <3>2. QED
      BY <3>1, TotalIs
  <2>3. Reordered(0)
    BY <2>2 DEF Reordered
  <2>4. QED
    BY <2>1, <2>3
<1>2. ASSUME NEW n \in 0..(N - 1), n \in T PROVE n + 1 \in T
  <2>1. n + 1 \in 0..N /\ n \in Nat /\ n + 1 \in Nat /\ (n + 1) - 1 = n /\ n + 1 \in 1..(n + 1)
        /\ \A k \in 1..n : k \in 1..(n + 1)
    OBVIOUS
  <2>2. ASSUME NEW f \in [1..(n + 1) -> Int], NEW p \in [1..(n + 1) -> 1..(n + 1)],
               \A j, k \in 1..(n + 1) : p[j] = p[k] => j = k
        PROVE  Total([k \in 1..(n + 1) |-> f[p[k]]], n + 1) = Total(f, n + 1)
    <3>1. PICK j, x : j = p[n + 1] /\ x = f[n + 1]
      OBVIOUS
    <3>2. PICK g : g = [k \in 1..n |-> IF k = j THEN x ELSE f[k]]
      OBVIOUS
    <3>3. PICK q : q = [k \in 1..n |-> IF p[k] = n + 1 THEN j ELSE p[k]]
      OBVIOUS
    <3>4. j \in 1..(n + 1) /\ x \in Int /\ f[j] \in Int /\ g \in [1..n -> Int]
      BY <2>1, <3>1, <3>2
    <3>5. ASSUME NEW k \in 1..n PROVE q[k] \in 1..n /\ g[q[k]] = f[p[k]]
      <4>1. p[k] \in 1..(n + 1) /\ p[k] # j /\ k \in 1..(n + 1)
        <5>1. k # n + 1 /\ k \in 1..(n + 1)
          BY <2>1
        <5>2. QED
          BY <2>1, <2>2, <3>1, <5>1
      <4>2. CASE p[k] = n + 1
        <5>1. q[k] = j /\ j # n + 1
          BY <3>3, <4>1, <4>2
        <5>2. j \in 1..n
          BY <2>1, <3>4, <5>1
        <5>3. QED
          BY <3>1, <3>2, <4>2, <5>1, <5>2
      <4>3. CASE p[k] # n + 1
        <5>0. p[k] \in 1..n
          <6>1. \A y \in 1..(n + 1) : y # n + 1 => y \in 1..n
            BY <2>1
          <6>2. QED
            BY <4>1, <4>3, <6>1
        <5>1. q[k] = p[k] /\ p[k] \in 1..n
          BY <3>3, <4>3, <5>0
        <5>2. QED
          BY <3>2, <4>1, <5>1
      <4>4. QED
        BY <4>2, <4>3
    <3>6. q \in [1..n -> 1..n]
      BY <3>3, <3>5
    <3>7. ASSUME NEW i \in 1..n, NEW k \in 1..n, q[i] = q[k] PROVE i = k
      <4>1. i \in 1..(n + 1) /\ k \in 1..(n + 1) /\ i # n + 1 /\ k # n + 1
        BY <2>1
      <4>2. p[i] # j /\ p[k] # j
        BY <2>1, <2>2, <3>1, <4>1
      <4>3. p[i] = p[k]
        BY <3>3, <3>7, <4>2
      <4>4. QED
        BY <2>2, <4>1, <4>3
    <3>8. Total([k \in 1..n |-> g[q[k]]], n) = Total(g, n)
      <4>1. Reordered(n)
        BY <1>2
      <4>2. QED
        BY <3>4, <3>6, <3>7, <4>1 DEF Reordered
    <3>9. PICK h : h = [k \in 1..(n + 1) |-> f[p[k]]]
      OBVIOUS
    <3>10. \A k \in 1..(n + 1) : h[k] \in Int /\ f[k] \in Int
      BY <3>9
    <3>11. /\ Total(h, n + 1) = Total(h, n) + h[n + 1] /\ Total(f, n + 1) = Total(f, n) + f[n + 1]
           /\ Total(f, n) \in Int
      <4>1. PICK m : m = n + 1
        OBVIOUS
      <4>2. m \in Nat /\ m \in 1..m /\ n \in 0..m /\ m - 1 = n
        BY <2>1, <4>1
      <4>3. \A k \in 1..m : h[k] \in Int
        BY <3>10, <4>1
      <4>4. \A k \in 1..m : f[k] \in Int
        BY <3>10, <4>1
      <4>5. Total(h, m) = Total(h, m - 1) + h[m]
        BY ONLY <4>2, <4>3, TotalIs
      <4>6. Total(f, m) = Total(f, m - 1) + f[m] /\ Total(f, n) \in Int
        BY ONLY <4>2, <4>4, TotalIs
      <4>7. QED
        BY <4>1, <4>2, <4>5, <4>6
    <3>12. h[n + 1] = f[j]
      BY <2>1, <3>1, <3>9
    <3>13. Total(h, n) = Total(g, n)
      <4>1. PICK u : u = [k \in 1..n |-> g[q[k]]]
        OBVIOUS
      <4>2. \A k \in 1..n : h[k] \in Int /\ u[k] = h[k]
        BY <2>1, <3>5, <3>9, <3>10, <4>1
      <4>3. Total(u, n) = Total(h, n)
        BY <2>1, <4>2, TotalOfEqual
      <4>4. QED
        BY <3>8, <4>1, <4>3
    <3>14. Total(g, n) = Total(f, n) + x - f[j]
      <4>1. PICK e : e = [k \in 1..n |-> f[k]]
        OBVIOUS
      <4>2. e \in [1..n -> Int] /\ \A k \in 1..n : f[k] \in Int /\ e[k] = f[k]
        BY <2>1, <3>10, <4>1
      <4>3. Total(e, n) = Total(f, n)
        BY <2>1, <4>2, TotalOfEqual
      <4>4. CASE j = n + 1
        <5>1. \A k \in 1..n : k # j
          BY <2>1, <4>4
        <5>2. g = e
          BY <3>2, <4>1, <5>1
        <5>3. f[j] = x
          BY <3>1, <4>4
        <5>4. QED
          BY <3>4, <3>11, <4>3, <5>2, <5>3
      <4>5. CASE j # n + 1
        <5>1. j \in 1..n
          BY <2>1, <3>4, <4>5
        <5>2. g = [k \in 1..n |-> IF k = j THEN x ELSE e[k]]
          BY <3>2, <4>1
        <5>3. Total(g, n) = Total(e, n) - e[j] + x
          BY <2>1, <3>4, <4>2, <5>1, <5>2, TotalChanged
        <5>4. e[j] = f[j]
          BY <4>2, <5>1
        <5>5. QED
          BY ONLY <3>4, <3>11, <4>3, <5>3, <5>4
      <4>6. QED
        BY <4>4, <4>5
    <3>15. Total(h, n + 1) = Total(f, n + 1)
      <4>1. x = f[n + 1]
        BY <3>1
      <4>2. QED
        BY ONLY <3>4, <3>11, <3>12, <3>13, <3>14, <4>1
    <3>16. QED
      BY <3>9, <3>15
  <2>3. Reordered(n + 1)
    BY <2>2 DEF Reordered
  <2>4. QED
    BY <2>1, <2>3
<1> HIDE DEF T
<1>3. N \in T
  <2>1. 0..N \subseteq T
    BY <1>1, <1>2, Induct
  <2>2. N \in 0..N
    OBVIOUS
  <2>3. QED
    BY <2>1, <2>2
<1>4. QED
  BY <1>3 DEF T

(* The elements of b are those of a in another order. *)
Shuffles(p, a, b, n) ==
    /\ p \in [1..n -> 1..n] /\ \A j, k \in 1..n : p[j] = p[k] => j = k
    /\ \A k \in 1..n : b[k] = a[p[k]]

(* Sequences with the same bag have the same elements in another order. *)
LEMMA SameBag ==
    ASSUME NEW A, NEW B, NEW a \in Seq(A), NEW b \in Seq(B), ToBag(a) = ToBag(b)
    PROVE  /\ Range(a) = Range(b) /\ Len(a) = Len(b)
           /\ \E p : Shuffles(p, a, b, Len(a))
<1>1. PICK m, n : m = Len(a) /\ n = Len(b)
  OBVIOUS
<1>2. m \in Nat /\ DOMAIN a = 1..m /\ n \in Nat /\ DOMAIN b = 1..n
  BY <1>1, LenProperties
<1>3. Range(a) = Range(b)
  <2>1. DOMAIN ToBag(a) = Range(a) /\ DOMAIN ToBag(b) = Range(b)
    BY DEF ToBag
  <2>2. QED
    BY <2>1
<1> DEFINE at(x) == { i \in 1..m : a[i] = x }
           bt(x) == { i \in 1..n : b[i] = x }
<1>4. IsFiniteSet(1..m) /\ IsFiniteSet(1..n) /\ Cardinality(1..m) = m /\ Cardinality(1..n) = n
  <2>1. ASSUME NEW k \in Nat PROVE IsFiniteSet(1..k) /\ Cardinality(1..k) = k
    <3>1. IsFiniteSet(1..k) /\ Cardinality(1..k) = IF 1 > k THEN 0 ELSE k - 1 + 1
      BY FS_Interval
    <3>2. QED
      BY <3>1
  <2>2. QED
    BY <1>2, <2>1
<1>5. ASSUME NEW x \in Range(b) PROVE Bijection(bt(x), at(x)) # {}
  <2>1. at(x) \in SUBSET (1..m) /\ bt(x) \in SUBSET (1..n)
    OBVIOUS
  <2>2. ToBag(a)[x] = Cardinality(at(x))
    BY <1>2, <1>3 DEF ToBag
  <2>3. ToBag(b)[x] = Cardinality(bt(x))
    BY <1>2 DEF ToBag
  <2> HIDE DEF at, bt
  <2>4. IsFiniteSet(at(x)) /\ IsFiniteSet(bt(x)) /\ Cardinality(bt(x)) = Cardinality(at(x))
    BY <1>4, <2>1, <2>2, <2>3, FS_Subset
  <2>5. ExistsBijection(bt(x), at(x))
    BY <2>4, FS_SameCardinalityBij
  <2>6. QED
    BY <2>5, Fun_ExistsBij
<1>6. PICK pair : pair = [x \in Range(b) |-> CHOOSE g : g \in Bijection(bt(x), at(x))]
  OBVIOUS
<1>7. ASSUME NEW x \in Range(b) PROVE pair[x] \in Bijection(bt(x), at(x))
  <2> HIDE DEF at, bt
  <2>1. QED
    BY <1>5, <1>6
<1>8. PICK p : p = [k \in 1..n |-> pair[b[k]][k]]
  OBVIOUS
<1>9. ASSUME NEW k \in 1..n PROVE b[k] \in Range(b) /\ k \in bt(b[k])
  BY <1>2 DEF Range
<1>10. ASSUME NEW k \in 1..n PROVE p[k] \in at(b[k])
  <2>1. PICK g, x : g = pair[b[k]] /\ x = b[k]
    OBVIOUS
  <2>2. g \in Bijection(bt(x), at(x)) /\ k \in bt(x)
    BY <1>7, <1>9, <2>1
  <2> HIDE DEF at, bt
  <2>3. g \in [bt(x) -> at(x)]
    BY <2>2, Fun_BijectionProperties
  <2>4. g[k] \in at(x)
    BY <2>2, <2>3
  <2>5. QED
    BY <1>8, <2>1, <2>4
<1>11. \A k \in 1..n : p[k] \in 1..m /\ a[p[k]] = b[k]
  BY <1>10
<1>12. ASSUME NEW j \in 1..n, NEW k \in 1..n, p[j] = p[k] PROVE j = k
  <2>1. PICK x : x = b[j]
    OBVIOUS
  <2>2. b[k] = x
    BY <1>11, <1>12, <2>1
  <2>3. PICK g : g = pair[x]
    OBVIOUS
  <2>4. g \in Bijection(bt(x), at(x)) /\ j \in bt(x) /\ k \in bt(x) /\ g[j] = g[k]
    BY <1>7, <1>8, <1>9, <1>12, <2>1, <2>2, <2>3
  <2> HIDE DEF at, bt
  <2>5. QED
    BY <2>4, Fun_BijectionProperties
<1>13. ASSUME NEW i \in 1..m PROVE \E k \in 1..n : p[k] = i
  <2>1. PICK x : x = a[i]
    OBVIOUS
  <2>2. x \in Range(b) /\ i \in at(x)
    BY <1>2, <1>3, <2>1 DEF Range
  <2>3. PICK g : g = pair[x]
    OBVIOUS
  <2>4. g \in Bijection(bt(x), at(x))
    BY <1>7, <2>2, <2>3
  <2>5. PICK k \in bt(x) : g[k] = i
    <3> HIDE DEF at, bt
    <3>1. QED
      BY <2>2, <2>4, Fun_BijectionProperties
  <2>6. k \in 1..n /\ b[k] = x
    OBVIOUS
  <2>7. p[k] = i
    BY <1>8, <2>3, <2>5, <2>6
  <2>8. QED
    BY <2>6, <2>7
<1> HIDE DEF at, bt
<1>14. m = n
  <2>1. p \in [1..n -> 1..m]
    BY <1>8, <1>11
  <2>2. p \in Bijection(1..n, 1..m)
    BY <1>12, <1>13, <2>1, Fun_IsBij
  <2>3. ExistsBijection(1..n, 1..m)
    BY <2>2, Fun_ExistsBij
  <2>4. QED
    BY <1>4, <2>3, FS_Bijection
<1>15. p \in [1..m -> 1..m]
  BY <1>8, <1>11, <1>14
<1>16. Shuffles(p, a, b, m)
  BY <1>11, <1>12, <1>14, <1>15 DEF Shuffles
<1>17. QED
  BY <1>1, <1>3, <1>14, <1>16

(* Two rankings of the same documents by the same scores have the same     *)
(* score at every rank: what comes first in one and scores more than the   *)
(* k-th of the other would be k documents among k - 1.                     *)
LEMMA NoBetterRank ==
    ASSUME NEW n \in Nat, NEW M, NEW P, NEW Q, NEW s,
           \A k \in 1..n : P[k] \in M /\ Q[k] \in M,
           \A i \in M : s[i] \in Int,
           \A j, k \in 1..n : P[j] = P[k] => j = k,
           \A j, k \in 1..n : Q[j] = Q[k] => j = k,
           \A i \in M : \E k \in 1..n : Q[k] = i,
           \A j, k \in 1..n : j < k => s[P[j]] >= s[P[k]],
           \A j, k \in 1..n : j < k => s[Q[j]] >= s[Q[k]],
           NEW k \in 1..n
    PROVE  s[P[k]] <= s[Q[k]]
<1> SUFFICES ASSUME ~(s[P[k]] <= s[Q[k]]) PROVE FALSE
  OBVIOUS
<1>1. \A j \in 1..n : s[P[j]] \in Int /\ s[Q[j]] \in Int
  OBVIOUS
<1>2. PICK first, before : first = { P[j] : j \in 1..k } /\ before = { Q[j] : j \in 1..(k - 1) }
  OBVIOUS
<1>3. k \in Nat /\ k - 1 \in Nat /\ (\A j \in 1..k : j \in 1..n) /\ (\A j \in 1..(k - 1) : j \in 1..n)
  OBVIOUS
<1>4. IsFiniteSet(first) /\ Cardinality(first) = k
  <2>1. \A i, j \in 1..k : P[i] = P[j] => i = j
    BY <1>3
  <2>2. \A x : x \in first <=> \E j \in 1..k : x = P[j]
    BY <1>2
  <2>3. QED
    BY ONLY <1>3, <2>1, <2>2, ImageCounts
<1>5. IsFiniteSet(before) /\ Cardinality(before) = k - 1
  <2>1. \A i, j \in 1..(k - 1) : Q[i] = Q[j] => i = j
    BY <1>3
  <2>2. PICK m : m = k - 1
    OBVIOUS
  <2>3. \A x : x \in before <=> \E j \in 1..m : x = Q[j]
    BY <1>2, <2>2
  <2>4. m \in Nat /\ \A i, j \in 1..m : Q[i] = Q[j] => i = j
    BY <1>3, <2>1, <2>2
  <2>5. QED
    BY ONLY <2>2, <2>3, <2>4, ImageCounts
<1>6. ASSUME NEW j \in 1..k PROVE P[j] \in before
  <2>1. j \in 1..n /\ (j < k \/ j = k)
    BY <1>3
  <2>2. s[P[j]] >= s[P[k]]
    BY <1>1, <2>1
  <2>3. PICK i \in 1..n : Q[i] = P[j]
    BY <2>1
  <2>4. s[Q[i]] = s[P[j]]
    BY <2>3
  <2>5. ~(s[Q[k]] >= s[Q[i]])
    BY <1>1, <2>1, <2>2, <2>4
  <2>6. i # k /\ ~(k < i)
    <3>1. k < i => s[Q[k]] >= s[Q[i]]
      OBVIOUS
    <3>2. s[Q[k]] >= s[Q[k]]
      BY <1>1
    <3>3. QED
      BY <2>5, <3>1, <3>2
  <2>7. i \in 1..(k - 1)
    BY <2>6
  <2>8. QED
    BY <1>2, <2>3, <2>7
<1>7. first \in SUBSET before
  BY <1>2, <1>6
<1>8. Cardinality(first) <= Cardinality(before)
  BY <1>5, <1>7, FS_Subset
<1>9. QED
  BY <1>3, <1>4, <1>5, <1>8

(* Queries with the same bag of tokens have the same tokens, and the same  *)
(* score for every document.                                               *)
LEMMA BagDecides ==
    ASSUME IndexFinished, NEW S, NEW q1 \in Seq(S), NEW q2 \in Seq(S),
           ToBag(Tokenize(q1)) = ToBag(Tokenize(q2))
    PROVE  /\ Range(Tokenize(q1)) = Range(Tokenize(q2))
           /\ \A i : ScoreOf(i, q1) = ScoreOf(i, q2)
<1>1. PICK a, b, n : a = Tokenize(q1) /\ b = Tokenize(q2) /\ n = Len(a)
  OBVIOUS
<1>2. a \in Seq(Range(a)) /\ b \in Seq(Range(b))
  BY <1>1, TokensAre
<1>3. ToBag(a) = ToBag(b)
  BY <1>1
<1>4. Range(a) = Range(b) /\ Len(b) = n
  BY <1>1, <1>2, <1>3, SameBag
<1>5. PICK p : Shuffles(p, a, b, n)
  BY <1>1, <1>2, <1>3, SameBag
<1>6. n \in Nat /\ DOMAIN a = 1..n /\ DOMAIN b = 1..n
  BY <1>1, <1>2, <1>4, LenProperties
<1>7. ASSUME NEW i PROVE ScoreOf(i, q1) = ScoreOf(i, q2)
  <2>1. PICK f, g : /\ f = [k \in 1..n |-> TermScore(i, a[k])]
                    /\ g = [k \in 1..n |-> TermScore(i, b[k])]
    OBVIOUS
  <2>2. ScoreOf(i, q1) = Total(f, n) /\ ScoreOf(i, q2) = Total(g, n)
    BY <1>1, <1>4, <1>6, <2>1 DEF ScoreOf
  <2>3. f \in [1..n -> Int]
    BY <2>1, TermScoreIs
  <2>4. g = [k \in 1..n |-> f[p[k]]]
    BY <1>5, <2>1 DEF Shuffles
  <2>5. Total(g, n) = Total(f, n)
    <3>1. Reordered(n)
      BY <1>6, TotalReordered
    <3>2. QED
      BY <1>5, <2>3, <2>4, <3>1 DEF Reordered, Shuffles
  <2>6. QED
    BY <2>2, <2>5
<1>8. QED
  BY <1>1, <1>4, <1>7

(* Queries under one key have the same scores in a finished index.         *)
LEMMA SharedKey ==
    ASSUME IndexFinished, NEW S, NEW q1 \in Seq(S), NEW q2 \in Seq(S), NEW limit \in Nat,
           RequestKey(q1, limit) = RequestKey(q2, limit)
    PROVE  ScoreAlike(q1, q2, limit)
<1>1. PICK a, b : a = SearchIndex(index, q1, limit) /\ b = SearchIndex(index, q2, limit)
  OBVIOUS
<1>2. Range(Tokenize(q1)) = Range(Tokenize(q2)) /\ \A i : ScoreOf(i, q1) = ScoreOf(i, q2)
  <2>1. ToBag(Tokenize(q1)) = ToBag(Tokenize(q2))
    BY DEF RequestKey
  <2>2. QED
    BY <2>1, BagDecides
<1>3. Hits(q1) = Hits(q2)
  BY <1>2 DEF Hits
<1>4. PICK M, n, c : M = Hits(q1) /\ n = Cardinality(M) /\ c = Min({limit, n})
  OBVIOUS
<1>5. PICK P : Ranks(P, q1) /\ Returns(a, P, q1, limit)
  BY <1>1, SearchFinds
<1>6. PICK Q : Ranks(Q, q2) /\ Returns(b, Q, q2, limit)
  BY <1>1, SearchFinds
<1>7. PICK s : s = [i \in M |-> ScoreOf(i, q1)]
  OBVIOUS
<1>8. /\ \A i \in M : s[i] = ScoreOf(i, q1) /\ s[i] = ScoreOf(i, q2)
      /\ \A i \in M : s[i] \in Int
  BY <1>2, <1>7, ScoreIs
<1>9. /\ n \in Nat /\ \A k \in 1..n : P[k] \in M
      /\ \A j, k \in 1..n : P[j] = P[k] => j = k
      /\ \A i \in M : \E k \in 1..n : P[k] = i
      /\ \A j, k \in 1..n : j < k => ScoreOf(P[j], q1) >= ScoreOf(P[k], q1)
  BY <1>4, <1>5 DEF Ranks
<1>10. /\ \A k \in 1..n : Q[k] \in M
       /\ \A j, k \in 1..n : Q[j] = Q[k] => j = k
       /\ \A i \in M : \E k \in 1..n : Q[k] = i
       /\ \A j, k \in 1..n : j < k => ScoreOf(Q[j], q2) >= ScoreOf(Q[k], q2)
  BY <1>3, <1>4, <1>6 DEF Ranks
<1>11. ASSUME NEW k \in 1..n PROVE ScoreOf(P[k], q1) = ScoreOf(Q[k], q2)
  <2>1. /\ \A i \in 1..n : P[i] \in M /\ Q[i] \in M
        /\ \A i, j \in 1..n : i < j => s[P[i]] >= s[P[j]]
        /\ \A i, j \in 1..n : i < j => s[Q[i]] >= s[Q[j]]
    BY <1>8, <1>9, <1>10
  <2>2. s[P[k]] <= s[Q[k]]
    <3>1. \A i \in M : s[i] \in Int
      BY <1>8
    <3>2. QED
      BY ONLY <1>9, <1>10, <2>1, <3>1, k \in 1..n, NoBetterRank
  <2>3. s[Q[k]] <= s[P[k]]
    <3>1. \A i \in M : s[i] \in Int
      BY <1>8
    <3>2. QED
      BY ONLY <1>9, <1>10, <2>1, <3>1, k \in 1..n, NoBetterRank
  <2>4. s[P[k]] = s[Q[k]]
    <3>1. s[P[k]] \in Int /\ s[Q[k]] \in Int
      BY <1>8, <2>1
    <3>2. QED
      BY <2>2, <2>3, <3>1
  <2>5. QED
    BY <1>8, <2>1, <2>4
<1>12. c \in Nat /\ c <= n /\ (limit >= n => c = n)
  <2>1. c = IF limit <= n THEN limit ELSE n
    <3>1. limit \in Int /\ n \in Int
      BY <1>9
    <3>2. QED
      BY <1>4, <3>1, SmallerIs
  <2>2. QED
    BY <1>9, <2>1
<1>13. /\ DOMAIN a = 1..c /\ DOMAIN b = 1..c
       /\ \A k \in 1..c : a[k] = ResultFor(P[k], q1) /\ b[k] = ResultFor(Q[k], q2)
  BY <1>3, <1>4, <1>5, <1>6 DEF Returns
<1>14. [k \in DOMAIN a |-> a[k].score] = [k \in DOMAIN b |-> b[k].score]
  <2>1. ASSUME NEW i, NEW q PROVE ResultFor(i, q).score = ScoreOf(i, q)
    BY DEF ResultFor
  <2>2. ASSUME NEW k \in 1..c PROVE a[k].score = b[k].score
    <3>1. k \in 1..n
      BY <1>9, <1>12
    <3>2. QED
      BY <1>11, <1>13, <2>1, <3>1
  <2>3. QED
    BY <1>13, <2>2
<1>15. ASSUME limit >= n PROVE ToSet(a) = ToSet(b)
  <2>1. c = n
    BY <1>12, <1>15
  <2>2. ASSUME NEW i PROVE ResultFor(i, q1) = ResultFor(i, q2)
    BY <1>2 DEF ResultFor
  <2>3. ToSet(a) = { ResultFor(P[k], q1) : k \in 1..n }
    BY <1>13, <2>1 DEF ToSet
  <2>4. ToSet(b) = { ResultFor(Q[k], q1) : k \in 1..n }
    BY <1>13, <2>1, <2>2 DEF ToSet
  <2>5. { ResultFor(P[k], q1) : k \in 1..n } = { ResultFor(i, q1) : i \in M }
    BY <1>9
  <2>6. { ResultFor(Q[k], q1) : k \in 1..n } = { ResultFor(i, q1) : i \in M }
    BY <1>10
  <2>7. QED
    BY <2>3, <2>4, <2>5, <2>6
<1>16. Matching(ToSet(Tokenize(q1))) = M
  <2>1. ToSet(Tokenize(q1)) = Range(Tokenize(q1))
    BY DEF ToSet, Range
  <2>2. QED
    BY <1>4, <2>1 DEF Hits
<1>17. QED
  BY <1>1, <1>4, <1>14, <1>15, <1>16 DEF ScoreAlike

(* SearchCacheKeyBuilder.build (search_cache_key.py:20-45): queries that   *)
(* share a cache entry score alike at every rank, and find the same        *)
(* documents when the limit cuts nothing off.                              *)
THEOREM SharedKeysAgree == Spec => []SharedKeyAgrees
<1>1. IndexInv => SharedKeyAgrees
  <2> SUFFICES ASSUME IndexInv, stage = "ready" PROVE SharedKeyAgrees
    BY DEF SharedKeyAgrees
  <2>1. IndexFinished
    BY FinishedIndex
  <2>2. \A query \in Queries, limit \in Limits : query \in Seq(Characters) /\ limit \in Nat
    BY RequestsAssumption
  <2>3. QED
    BY <2>1, <2>2, SharedKey DEF SharedKeyAgrees
<1>2. QED
  BY <1>1, IndexInit, IndexNext, PTL DEF Spec
=============================================================================
