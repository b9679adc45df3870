--------------------------- MODULE TokenizerProofs ---------------------------
(***************************************************************************)
(* What the tokenizer guarantees for any alphabet and any text, and facts  *)
(* about numbers, loops and sorted sequences that the proofs about the     *)
(* index, its searches and its suggestions rest on too.                    *)
(***************************************************************************)
EXTENDS CodeTokenizer, FiniteSetTheorems, FunctionTheorems, SequenceTheorems,
        WellFoundedInduction, TLAPS

-----------------------------------------------------------------------------
(* Numbers, loops and sorted sequences. *)

(* A set of numbers has a least element. *)
LEMMA Least ==
    ASSUME NEW T \in SUBSET Nat, T # {}
    PROVE  \E m \in T : \A n \in T : m <= n
<1>1. PICK m \in T : \A n \in T : ~(<<n, m>> \in OpToRel(<, Nat))
  BY NatLessThanWellFounded, WFMin
<1>2. \A n \in T : ~(n < m)
  BY <1>1 DEF OpToRel
<1>3. QED
  BY <1>2

(* Induction up to a number, over a set: what zero has and every step      *)
(* keeps, all have.                                                        *)
LEMMA Induct ==
    ASSUME NEW N \in Nat, NEW T, 0 \in T, \A n \in 0..(N - 1) : n \in T => n + 1 \in T
    PROVE  0..N \subseteq T
<1> DEFINE U == (0..N) \ T
<1> SUFFICES ASSUME U # {} PROVE FALSE
  OBVIOUS
<1>1. PICK m \in U : \A n \in U : m <= n
  <2>1. U \in SUBSET Nat
    OBVIOUS
  <2> HIDE DEF U
  <2>2. QED
    BY <2>1, Least
<1>2. m \in 0..N /\ m \notin T /\ m # 0
  BY <1>1
<1>3. m - 1 \in 0..(N - 1) /\ m - 1 \in 0..N /\ (m - 1) + 1 = m
  BY <1>2
<1>4. m - 1 \notin T
  BY <1>2, <1>3
<1>5. QED
  BY <1>1, <1>3, <1>4

(* What a loop of N steps that starts with base has after each of them. *)
Iterated(g, base, N, op) == g[0] = base /\ \A n \in 1..N : g[n] = op[n][g[n - 1]]

LEMMA Iterates ==
    ASSUME NEW A, NEW base \in A, NEW N \in Nat, NEW op,
           \A x \in A, n \in 1..N : op[n][x] \in A
    PROVE  \E g \in [0..N -> A] : Iterated(g, base, N, op)
<1> DEFINE Up(n) == \E g \in [0..n -> A] :
                      g[0] = base /\ \A k \in 1..n : g[k] = op[k][g[k - 1]]
           T == { n \in 0..N : Up(n) }
<1>1. 0 \in T
  <2>1. PICK g : g = [k \in 0..0 |-> base]
    OBVIOUS
  <2>2. g \in [0..0 -> A] /\ g[0] = base
    BY <2>1
  <2>3. 1..0 = {} /\ 0 \in 0..N
    OBVIOUS
  <2>4. Up(0)
    BY <2>2, <2>3
  <2>5. QED
    BY <2>3, <2>4
<1>2. ASSUME NEW n \in 0..(N - 1), n \in T PROVE n + 1 \in T
  <2>1. PICK g \in [0..n -> A] : g[0] = base /\ \A k \in 1..n : g[k] = op[k][g[k - 1]]
    BY <1>2
  <2>2. n + 1 \in 1..N /\ n + 1 \in 0..N /\ n \in 0..n /\ n \in Nat /\ g[n] \in A
    OBVIOUS
  <2>3. PICK x : x = op[n + 1][g[n]]
    OBVIOUS
  <2>4. x \in A
    BY <2>2, <2>3
  <2>5. PICK h : h = [k \in 0..(n + 1) |-> IF k = n + 1 THEN x ELSE g[k]]
    OBVIOUS
  <2>6. h \in [0..(n + 1) -> A] /\ h[n + 1] = x /\ \A k \in 0..n : h[k] = g[k]
    BY <2>2, <2>4, <2>5
  <2>7. ASSUME NEW k \in 1..(n + 1) PROVE h[k] = op[k][h[k - 1]]
    <3>1. CASE k = n + 1
      <4>1. k - 1 = n
        BY <2>2, <3>1
      <4>2. h[k - 1] = g[n]
        BY <2>2, <2>6, <4>1
      <4>3. QED
        BY <2>3, <2>6, <3>1, <4>2
    <3>2. CASE k # n + 1
      <4>1. k \in 1..n /\ k \in 0..n /\ k - 1 \in 0..n
        BY <2>2, <3>2
      <4>2. QED
        BY <2>1, <2>6, <4>1
    <3>3. QED
      BY <3>1, <3>2
  <2>8. h[0] = base
    BY <2>1, <2>2, <2>6
  <2>9. Up(n + 1)
    BY <2>6, <2>7, <2>8
  <2>10. QED
    BY <2>2, <2>9
<1> HIDE DEF T
<1>3. 0..N \subseteq T
  BY <1>1, <1>2, Induct
<1>4. QED
  BY <1>3 DEF T, Iterated

(* Sorting a set by a strict and total order lists each element once, each *)
(* after those before it.                                                  *)
LEMMA SortedIs ==
    ASSUME NEW S, IsFiniteSet(S), NEW before,
           \A x, y \in S : <<x, y>> \in before => x # y /\ <<y, x>> \notin before,
           \A x, y, z \in S : <<x, y>> \in before /\ <<y, z>> \in before => <<x, z>> \in before,
           \A x, y \in S : x # y => <<x, y>> \in before \/ <<y, x>> \in before
    PROVE  /\ Cardinality(S) \in Nat
           /\ Sorted(S, before) \in [1..Cardinality(S) -> S]
           /\ \A i, j \in 1..Cardinality(S) :
                i < j <=> <<Sorted(S, before)[i], Sorted(S, before)[j]>> \in before
           /\ \A x \in S : \E k \in 1..Cardinality(S) : Sorted(S, before)[k] = x
<1> DEFINE N == Cardinality(S)
           below(x) == { y \in S : <<y, x>> \in before }
<1>1. N \in Nat /\ IsFiniteSet(0..(N - 1)) /\ Cardinality(0..(N - 1)) = N
  <2>1. N \in Nat
    BY FS_CardinalityType
  <2>2. /\ IsFiniteSet(0..(N - 1))
        /\ Cardinality(0..(N - 1)) = IF 0 > N - 1 THEN 0 ELSE N - 1 - 0 + 1
    <3>1. 0 \in Int /\ N - 1 \in Int
      BY <2>1
    <3>2. QED
      BY <3>1, FS_Interval
  <2> HIDE DEF N
  <2>3. (IF 0 > N - 1 THEN 0 ELSE N - 1 - 0 + 1) = N
    BY <2>1
  <2>4. QED
    BY <2>1, <2>2, <2>3
<1>2. PICK rank : rank = [x \in S |-> Cardinality(below(x))]
  OBVIOUS
<1>3. Sorted(S, before) = [k \in 1..N |-> CHOOSE x \in S : Cardinality(below(x)) = k - 1]
  BY DEF Sorted
<1>4. ASSUME NEW x \in S, NEW z \in S, <<x, z>> \in before
      PROVE  below(x) \cup {x} \in SUBSET below(z) /\ x \notin below(x)
  BY <1>4
<1>5. ASSUME NEW x \in S PROVE below(x) \in SUBSET (S \ {x})
  OBVIOUS
<1> HIDE DEF below
<1>6. \A x \in S : rank[x] = Cardinality(below(x))
  BY <1>2
<1>7. ASSUME NEW x \in S PROVE IsFiniteSet(below(x)) /\ rank[x] \in 0..(N - 1)
  <2>1. IsFiniteSet(S \ {x}) /\ Cardinality(S \ {x}) = N - 1
    BY FS_RemoveElement
  <2>2. IsFiniteSet(below(x)) /\ Cardinality(below(x)) <= N - 1
    BY <1>5, <2>1, FS_Subset
  <2>3. QED
    BY <1>1, <1>6, <2>2, FS_CardinalityType
<1>8. ASSUME NEW x \in S, NEW z \in S, <<x, z>> \in before PROVE rank[x] < rank[z]
  <2>1. below(x) \cup {x} \in SUBSET below(z) /\ x \notin below(x)
    BY <1>4, <1>8
  <2>2. /\ IsFiniteSet(below(x)) /\ IsFiniteSet(below(z)) /\ rank[x] \in Int /\ rank[z] \in Int
        /\ rank[x] = Cardinality(below(x)) /\ rank[z] = Cardinality(below(z))
    BY <1>6, <1>7
  <2>3. Cardinality(below(x) \cup {x}) = Cardinality(below(x)) + 1
    BY <2>1, <2>2, FS_AddElement
  <2>4. Cardinality(below(x) \cup {x}) <= Cardinality(below(z))
    BY <2>1, <2>2, FS_Subset
  <2>5. QED
    BY ONLY <2>2, <2>3, <2>4
<1>9. rank \in [S -> 0..(N - 1)]
  <2>1. rank = [x \in S |-> rank[x]]
    BY <1>2
  <2>2. QED
    BY <1>7, <2>1
<1>10. ASSUME NEW x \in S, NEW z \in S, rank[x] = rank[z] PROVE x = z
  <2>1. rank[x] \in Int
    BY <1>1, <1>7
  <2>2. x # z => rank[x] < rank[z] \/ rank[z] < rank[x]
    BY <1>8
  <2>3. QED
    BY ONLY <1>10, <2>1, <2>2
<1>11. \A k \in 0..(N - 1) : \E x \in S : rank[x] = k
  <2>1. rank \in Injection(S, 0..(N - 1))
    BY <1>9, <1>10, Fun_IsInj
  <2>2. rank \in Surjection(S, 0..(N - 1))
    BY <1>1, <2>1, FS_Injection
  <2>3. QED
    BY <2>2, Fun_SurjectionProperties
<1>12. ASSUME NEW k \in 1..N PROVE Sorted(S, before)[k] \in S /\ rank[Sorted(S, before)[k]] = k - 1
  <2>1. k - 1 \in 0..(N - 1)
    BY <1>1
  <2>2. \E x \in S : Cardinality(below(x)) = k - 1
    <3>1. PICK x \in S : rank[x] = k - 1
      BY <1>11, <2>1
    <3>2. Cardinality(below(x)) = k - 1
      BY <1>6, <3>1
    <3>3. QED
      BY <3>2
  <2>3. Sorted(S, before)[k] = CHOOSE x \in S : Cardinality(below(x)) = k - 1
    BY <1>3
  <2>4. PICK x : x = CHOOSE y \in S : Cardinality(below(y)) = k - 1
    OBVIOUS
  <2>5. x \in S /\ Cardinality(below(x)) = k - 1
    BY <2>2, <2>4
  <2>6. QED
    BY <1>6, <2>3, <2>4, <2>5
<1>13. Sorted(S, before) \in [1..N -> S]
  BY <1>3, <1>12
<1>14. ASSUME NEW i \in 1..N, NEW j \in 1..N
       PROVE  i < j <=> <<Sorted(S, before)[i], Sorted(S, before)[j]>> \in before
  <2>1. PICK x, y : x = Sorted(S, before)[i] /\ y = Sorted(S, before)[j]
    OBVIOUS
  <2>2. x \in S /\ y \in S /\ rank[x] = i - 1 /\ rank[y] = j - 1 /\ i \in Int /\ j \in Int
    BY <1>1, <1>12, <2>1
  <2>3. ASSUME i < j PROVE <<x, y>> \in before
    <3>1. ~(rank[y] < rank[x]) /\ rank[x] # rank[y]
      BY ONLY <2>2, <2>3
    <3>2. x # y /\ <<y, x>> \notin before
      BY <1>8, <2>2, <3>1
    <3>3. QED
      BY <2>2, <3>2
  <2>4. ASSUME <<x, y>> \in before PROVE i < j
    <3>1. rank[x] < rank[y]
      BY <1>8, <2>2, <2>4
    <3>2. QED
      BY ONLY <2>2, <3>1
  <2>5. QED
    BY <2>1, <2>3, <2>4
<1>15. ASSUME NEW x \in S PROVE \E k \in 1..N : Sorted(S, before)[k] = x
  <2>1. PICK k : k = rank[x] + 1
    OBVIOUS
  <2>2. k \in 1..N /\ k - 1 = rank[x]
    BY <1>1, <1>7, <2>1
  <2>3. QED
    BY <1>10, <1>12, <2>2
<1>16. QED
  BY <1>1, <1>13, <1>14, <1>15

(* A function from an initial part of the numbers is a sequence. *)
LEMMA SeqIs ==
    ASSUME NEW S, NEW N \in Nat, NEW f \in [1..N -> S]
    PROVE  f \in Seq(S) /\ Len(f) = N /\ DOMAIN f = 1..N
<1>1. DOMAIN f = 1..N /\ f \in Seq(S)
  BY SeqDef
<1>2. QED
  BY <1>1, LenProperties

(* Concatenating sequences keeps all their elements and adds none. *)
LEMMA FlattenIs ==
    ASSUME NEW A, NEW N \in Nat, NEW seqs \in [1..N -> Seq(A)]
    PROVE  /\ FlattenSeq(seqs) \in Seq(A)
           /\ Range(FlattenSeq(seqs)) = UNION { Range(seqs[i]) : i \in 1..N }
<1>1. Len(seqs) = N /\ DOMAIN seqs = 1..N
  BY SeqIs
<1>2. PICK g \in [0..N -> Seq(A)] : g[0] = <<>> /\ \A n \in 1..N : g[n] = g[n - 1] \o seqs[n]
  <2>1. PICK op : op = [n \in 1..N |-> [x \in Seq(A) |-> x \o seqs[n]]]
    OBVIOUS
  <2>2. \A x \in Seq(A), n \in 1..N : op[n][x] = x \o seqs[n]
    BY <2>1
  <2>a. <<>> \in Seq(A)
    BY EmptySeq
  <2>3. ASSUME NEW x \in Seq(A), NEW n \in 1..N PROVE op[n][x] \in Seq(A)
    <3>1. seqs[n] \in Seq(A)
      OBVIOUS
    <3>2. x \o seqs[n] \in Seq(A)
      BY <3>1, ConcatProperties
    <3>3. QED
      BY <2>2, <3>2
  <2>4. PICK g \in [0..N -> Seq(A)] : Iterated(g, <<>>, N, op)
    BY <2>a, <2>3, Iterates
  <2>5. ASSUME NEW n \in 1..N PROVE g[n] = g[n - 1] \o seqs[n]
    <3>1. n - 1 \in 0..N
      OBVIOUS
    <3>2. g[n - 1] \in Seq(A) /\ g[n] = op[n][g[n - 1]]
      BY <2>4, <3>1 DEF Iterated
    <3>3. QED
      BY <2>2, <3>2
  <2>6. QED
    BY <2>4, <2>5 DEF Iterated
<1>3. CASE N = 0
  <2>1. seqs \in Seq(A) /\ seqs = <<>> /\ Range(seqs) = {}
    BY <1>1, <1>3, EmptySeq, SeqIs DEF Range
  <2>2. FlattenSeq(seqs) = seqs
    BY <1>1, <1>3 DEF FlattenSeq
  <2>3. UNION { Range(seqs[i]) : i \in 1..N } = {}
    BY <1>3
  <2>4. QED
    BY <2>1, <2>2, <2>3
<1>4. CASE N # 0
  <2> DEFINE flatten == CHOOSE flatten :
                flatten = [i \in 1..N |-> IF i = 1 THEN seqs[i] ELSE flatten[i - 1] \o seqs[i]]
  <2>1. FlattenSeq(seqs) = flatten[N]
    BY <1>1, <1>4 DEF FlattenSeq
  <2>2. \E h : h = [i \in 1..N |-> IF i = 1 THEN seqs[i] ELSE h[i - 1] \o seqs[i]]
    <3>1. PICK h : h = [i \in 1..N |-> g[i]]
      OBVIOUS
    <3>2. ASSUME NEW i \in 1..N PROVE h[i] = IF i = 1 THEN seqs[i] ELSE h[i - 1] \o seqs[i]
      <4>1. CASE i = 1
        <5>1. g[1] = <<>> \o seqs[1] /\ seqs[1] \in Seq(A)
          <6>1. 1 \in 1..N /\ 1 - 1 = 0
            BY <4>1
          <6>2. g[1] = g[1 - 1] \o seqs[1]
            BY <1>2, <6>1
          <6>3. QED
            BY <1>2, <6>1, <6>2
        <5>2. QED
          BY <3>1, <4>1, <5>1, ConcatEmptySeq
      <4>2. CASE i # 1
        <5>1. i - 1 \in 1..N
          BY <4>2
        <5>2. QED
          BY <1>2, <3>1, <4>2, <5>1
      <4>3. QED
        BY <4>1, <4>2
    <3>3. h = [i \in 1..N |-> IF i = 1 THEN seqs[i] ELSE h[i - 1] \o seqs[i]]
      BY <3>1, <3>2
    <3>4. QED
      BY <3>3
  <2>3. flatten = [i \in 1..N |-> IF i = 1 THEN seqs[i] ELSE flatten[i - 1] \o seqs[i]]
    BY <2>2
  <2> HIDE DEF flatten
  <2>4. flatten[1] = seqs[1] /\ \A i \in 2..N : flatten[i] = flatten[i - 1] \o seqs[i]
    <3>1. flatten[1] = seqs[1]
      <4>1. 1 \in 1..N
        BY <1>4
      <4>2. QED
        BY <2>3, <4>1
    <3>2. ASSUME NEW i \in 2..N PROVE flatten[i] = flatten[i - 1] \o seqs[i]
      <4>1. i \in 1..N /\ i # 1
        OBVIOUS
      <4>2. QED
        BY <2>3, <4>1
    <3>3. QED
      BY <3>1, <3>2
  <2> DEFINE Good(n) == /\ flatten[n] \in Seq(A)
                        /\ Range(flatten[n]) = UNION { Range(seqs[i]) : i \in 1..n }
             T == { n \in 0..N : n = 0 \/ Good(n) }
  <2>5. 0 \in T
    OBVIOUS
  <2>6. ASSUME NEW n \in 0..(N - 1), n \in T PROVE n + 1 \in T
    <3>1. n + 1 \in 1..N /\ n + 1 \in 0..N /\ 1..(n + 1) = 1..n \cup {n + 1}
      OBVIOUS
    <3>a. seqs[n + 1] \in Seq(A)
      BY <3>1
    <3>2. CASE n = 0
      <4>1. flatten[1] = seqs[1] /\ 1..1 = {1}
        BY <2>4
      <4>2. Good(1)
        BY <3>a, <3>2, <4>1
      <4>3. QED
        BY <3>1, <3>2, <4>2
    <3>3. CASE n # 0
      <4>1. Good(n)
        BY <2>6, <3>3
      <4>2. flatten[n + 1] = flatten[n] \o seqs[n + 1]
        <5>1. n + 1 \in 2..N /\ (n + 1) - 1 = n
          BY <3>3
        <5>2. QED
          BY <2>4, <5>1
      <4>3. flatten[n + 1] \in Seq(A)
        BY <3>a, <4>1, <4>2, ConcatProperties
      <4>4. Range(flatten[n + 1]) = Range(flatten[n]) \cup Range(seqs[n + 1])
        BY <3>a, <4>1, <4>2, RangeConcatenation
      <4>5. Range(flatten[n + 1]) = UNION { Range(seqs[i]) : i \in 1..(n + 1) }
        BY <3>1, <4>1, <4>4
      <4>6. QED
        BY <3>1, <4>3, <4>5
    <3>4. QED
      BY <3>2, <3>3
  <2>7. 0..N \subseteq T
    <3> HIDE DEF T
    <3>1. QED
      BY <2>5, <2>6, Induct
  <2>8. Good(N)
    <3>1. N \in 0..N
      OBVIOUS
    <3>2. QED
      BY <1>4, <2>7, <3>1
  <2>9. QED
    BY <2>1, <2>8
<1>5. QED
  BY <1>3, <1>4

-----------------------------------------------------------------------------
(* The tokenizer. *)

(* TokenStretches before the short ones are dropped. *)
TokenRuns(text) == Stretches(text, Alphanumeric, LAMBDA i : Boundary(text, i))
IdentifierRuns(text) == Stretches(text, Word, LAMBDA i : FALSE)

LEMMA RunsAre ==
    ASSUME NEW S, NEW text \in Seq(S)
    PROVE  TokenRuns(text) =
             { s \in (1..Len(text)) \X (1..Len(text)) :
                 /\ s[1] <= s[2]
                 /\ \A i \in s[1]..s[2] : text[i] \in Alphanumeric
                 /\ \A i \in s[1]..(s[2] - 1) : ~Boundary(text, i)
                 /\ s[1] = 1 \/ text[s[1] - 1] \notin Alphanumeric \/ Boundary(text, s[1] - 1)
                 /\ \/ s[2] = Len(text) \/ text[s[2] + 1] \notin Alphanumeric
                    \/ Boundary(text, s[2]) }
BY LenProperties DEF TokenRuns, Stretches

(* Two of them that meet are the same. *)
LEMMA RunsApart ==
    ASSUME NEW S, NEW text \in Seq(S), NEW r \in TokenRuns(text), NEW s \in TokenRuns(text),
           r[1] <= s[2], s[1] <= r[2]
    PROVE  r = s
<1>1. /\ r = <<r[1], r[2]>> /\ s = <<s[1], s[2]>>
      /\ r[1] \in Int /\ r[2] \in Int /\ s[1] \in Int /\ s[2] \in Int /\ Len(text) \in Nat
      /\ 1 <= r[1] /\ r[2] <= Len(text) /\ 1 <= s[1] /\ s[2] <= Len(text)
  BY RunsAre, LenProperties
<1>2. ASSUME NEW a \in TokenRuns(text), NEW b \in TokenRuns(text), a[1] <= b[2], b[1] <= a[2],
             a[1] < b[1]
      PROVE  FALSE
  <2>1. /\ a[1] \in Int /\ a[2] \in Int /\ b[1] \in Int /\ b[1] - 1 \in a[1]..(a[2] - 1)
        /\ b[1] - 1 \in a[1]..a[2] /\ b[1] # 1
    BY <1>2, RunsAre, LenProperties
  <2>2. text[b[1] - 1] \in Alphanumeric /\ ~Boundary(text, b[1] - 1)
    BY <2>1, RunsAre
  <2>3. QED
    BY <2>1, <2>2, RunsAre
<1>3. ASSUME NEW a \in TokenRuns(text), NEW b \in TokenRuns(text), a[1] <= b[2], b[1] <= a[2],
             a[2] < b[2]
      PROVE  FALSE
  <2>1. /\ a[1] \in Int /\ a[2] \in Int /\ b[2] \in Int /\ a[2] \in b[1]..(b[2] - 1)
        /\ a[2] + 1 \in b[1]..b[2] /\ a[2] # Len(text)
    BY <1>3, RunsAre, LenProperties
  <2>2. text[a[2] + 1] \in Alphanumeric /\ ~Boundary(text, a[2])
    BY <2>1, RunsAre
  <2>3. QED
    BY <2>1, <2>2, RunsAre
<1>4. ~(r[1] < s[1]) /\ ~(s[1] < r[1]) /\ ~(r[2] < s[2]) /\ ~(s[2] < r[2])
  BY <1>2, <1>3
<1>5. QED
  BY <1>1, <1>4

(* The first and last place of a stretch, by themselves. *)
Run(text, a, b) ==
    /\ a <= b
    /\ \A i \in a..b : text[i] \in Alphanumeric
    /\ \A i \in a..(b - 1) : ~Boundary(text, i)
    /\ a = 1 \/ text[a - 1] \notin Alphanumeric \/ Boundary(text, a - 1)
    /\ b = Len(text) \/ text[b + 1] \notin Alphanumeric \/ Boundary(text, b)

LEMMA RunPlaces ==
    ASSUME NEW S, NEW text \in Seq(S)
    PROVE  /\ \A s \in TokenRuns(text) :
                 \E a, b \in 1..Len(text) : s = <<a, b>> /\ Run(text, a, b)
           /\ \A a, b \in 1..Len(text) : Run(text, a, b) => <<a, b>> \in TokenRuns(text)
           /\ \A s \in TokenStretches(text) :
                 \E a, b \in 1..Len(text) : s = <<a, b>> /\ a < b /\ Run(text, a, b)
           /\ \A a, b \in 1..Len(text) :
                 a < b /\ Run(text, a, b) => <<a, b>> \in TokenStretches(text)
<1>1. Len(text) \in Nat
  BY LenProperties
<1>2. ASSUME NEW s \in TokenRuns(text)
      PROVE  \E a, b \in 1..Len(text) : s = <<a, b>> /\ Run(text, a, b)
  <2>1. s[1] \in 1..Len(text) /\ s[2] \in 1..Len(text) /\ s = <<s[1], s[2]>>
    BY RunsAre
  <2>2. Run(text, s[1], s[2])
    BY RunsAre DEF Run
  <2>3. QED
    BY <2>1, <2>2
<1>3. ASSUME NEW a \in 1..Len(text), NEW b \in 1..Len(text), Run(text, a, b)
      PROVE  <<a, b>> \in TokenRuns(text)
  BY <1>3, RunsAre DEF Run
<1>4. TokenStretches(text) = { s \in TokenRuns(text) : s[2] - s[1] + 1 >= 2 }
  BY DEF TokenStretches, TokenRuns, MinTokenLength
<1>5. ASSUME NEW s \in TokenStretches(text)
      PROVE  \E a, b \in 1..Len(text) : s = <<a, b>> /\ a < b /\ Run(text, a, b)
  <2>1. PICK a \in 1..Len(text), b \in 1..Len(text) : s = <<a, b>> /\ Run(text, a, b)
    BY <1>2, <1>4
  <2>2. a < b
    BY <1>1, <1>4, <2>1
  <2>3. QED
    BY <2>1, <2>2
<1>6. ASSUME NEW a \in 1..Len(text), NEW b \in 1..Len(text), a < b, Run(text, a, b)
      PROVE  <<a, b>> \in TokenStretches(text)
  BY <1>1, <1>3, <1>4, <1>6
<1>7. QED
  BY <1>2, <1>3, <1>5, <1>6

(* Every letter and digit is in one of them: the stretch from the first    *)
(* place to the last that no boundary and no other character parts from it.*)
LEMMA RunsCover ==
    ASSUME NEW S, NEW text \in Seq(S), NEW i \in DOMAIN text, text[i] \in Alphanumeric
    PROVE  \E s \in TokenRuns(text) : i \in s[1]..s[2]
<1> SUFFICES ASSUME NEW N, N = Len(text)
             PROVE  \E s \in TokenRuns(text) : i \in s[1]..s[2]
  OBVIOUS
<1> DEFINE Joined(a, b) == /\ \A j \in a..b : text[j] \in Alphanumeric
                           /\ \A j \in a..(b - 1) : ~Boundary(text, j)
           Firsts == { a \in 1..i : Joined(a, i) }
           Rests == { n \in 0..(N - i) : Joined(i, i + n) }
           Gaps == { N - i - n : n \in Rests }
<1>1. N \in Nat /\ DOMAIN text = 1..N /\ i \in 1..N
  BY LenProperties
<1>2. i \in Firsts /\ 0 \in Rests
  BY <1>1
<1>3. Firsts \in SUBSET Nat /\ Gaps \in SUBSET Nat
  BY <1>1
<1>4. PICK a \in Firsts : \A c \in Firsts : a <= c
  BY <1>2, <1>3, Least
<1>5. PICK m \in Rests : \A c \in Rests : N - i - m <= N - i - c
  <2>1. Gaps # {}
    BY <1>2
  <2>2. PICK g \in Gaps : \A h \in Gaps : g <= h
    BY <1>3, <2>1, Least
  <2>3. PICK m \in Rests : g = N - i - m
    BY <2>2
  <2>4. ASSUME NEW c \in Rests PROVE N - i - m <= N - i - c
    <3>1. N - i - c \in Gaps
      OBVIOUS
    <3>2. QED
      BY <2>2, <2>3, <3>1
  <2>5. QED
    BY <2>3, <2>4
<1> DEFINE b == i + m
<1>6. /\ a \in 1..i /\ b \in i..N /\ Joined(a, i) /\ Joined(i, b)
  BY <1>1, <1>4, <1>5
<1>7. Joined(a, b)
  <2>1. \A j \in a..b : j \in a..i \/ j \in i..b
    BY <1>1, <1>6
  <2>2. \A j \in a..(b - 1) : j \in a..(i - 1) \/ j \in i..(b - 1)
    BY <1>1, <1>6
  <2>3. QED
    BY <1>6, <2>1, <2>2
<1>8. a = 1 \/ text[a - 1] \notin Alphanumeric \/ Boundary(text, a - 1)
  <2> SUFFICES ASSUME a # 1, text[a - 1] \in Alphanumeric, ~Boundary(text, a - 1) PROVE FALSE
    OBVIOUS
  <2>1. \A j \in (a - 1)..i : j = a - 1 \/ j \in a..i
    BY <1>1, <1>6
  <2>2. \A j \in (a - 1)..(i - 1) : j = a - 1 \/ j \in a..(i - 1)
    BY <1>1, <1>6
  <2>3. a - 1 \in Firsts
    BY <1>1, <1>6, <2>1, <2>2
  <2>4. QED
    BY <1>4, <1>6, <2>3
<1>9. b = N \/ text[b + 1] \notin Alphanumeric \/ Boundary(text, b)
  <2> SUFFICES ASSUME b # N, text[b + 1] \in Alphanumeric, ~Boundary(text, b) PROVE FALSE
    OBVIOUS
  <2>1. \A j \in i..(b + 1) : j = b + 1 \/ j \in i..b
    BY <1>1, <1>6
  <2>2. \A j \in i..b : j = b \/ j \in i..(b - 1)
    BY <1>1, <1>6
  <2>3. m + 1 \in 0..(N - i) /\ i + (m + 1) = b + 1 /\ (b + 1) - 1 = b
    BY <1>1, <1>6
  <2>4. m + 1 \in Rests
    BY <1>1, <1>6, <2>1, <2>2, <2>3
  <2>5. N - i - m <= N - i - (m + 1)
    BY <1>5, <2>4
  <2>6. N \in Int /\ i \in Int /\ m \in Int
    BY <1>1, <1>5
  <2>7. QED
    BY <2>5, <2>6
<1>10. <<a, b>> \in TokenRuns(text)
  <2> HIDE DEF b
  <2>1. a \in 1..Len(text) /\ b \in 1..Len(text) /\ a <= b
    BY <1>1, <1>6
  <2>2. /\ \A j \in a..b : text[j] \in Alphanumeric
        /\ \A j \in a..(b - 1) : ~Boundary(text, j)
    BY <1>7
  <2>3. Run(text, a, b)
    BY <1>8, <1>9, <2>1, <2>2 DEF Run
  <2>4. QED
    BY <2>1, <2>3, RunPlaces
<1>11. i \in <<a, b>>[1]..<<a, b>>[2]
  BY <1>1, <1>6
<1>12. QED
  BY <1>10, <1>11

(* tokenize (code_tokenizer.py) counts no character twice, and leaves no   *)
(* letter or digit out but those of words of a single character.           *)
THEOREM TokensPartition ==
    ASSUME NEW S, NEW text \in Seq(S)
    PROVE  /\ \A r, s \in TokenStretches(text) : r # s => r[2] < s[1] \/ s[2] < r[1]
           /\ \A i \in DOMAIN text : text[i] \in Alphanumeric =>
                 \/ \E s \in TokenStretches(text) : i \in s[1]..s[2]
                 \/ <<i, i>> \in TokenRuns(text)
<1>1. /\ \A s \in TokenStretches(text) : s \in TokenRuns(text)
      /\ \A s \in TokenRuns(text) : s[2] - s[1] + 1 >= 2 => s \in TokenStretches(text)
  BY DEF TokenStretches, TokenRuns, MinTokenLength
<1>2. \A s \in TokenRuns(text) : s[1] \in Int /\ s[2] \in Int /\ s = <<s[1], s[2]>>
  BY RunsAre
<1>3. ASSUME NEW r \in TokenStretches(text), NEW s \in TokenStretches(text), r # s
      PROVE  r[2] < s[1] \/ s[2] < r[1]
  BY <1>1, <1>2, <1>3, RunsApart
<1>4. ASSUME NEW i \in DOMAIN text, text[i] \in Alphanumeric
      PROVE  \/ \E s \in TokenStretches(text) : i \in s[1]..s[2]
             \/ <<i, i>> \in TokenRuns(text)
  <2>1. PICK s \in TokenRuns(text) : i \in s[1]..s[2]
    BY <1>4, RunsCover
  <2>2. CASE s[2] - s[1] + 1 >= 2
    BY <1>1, <2>1, <2>2
  <2>3. CASE ~(s[2] - s[1] + 1 >= 2)
    <3>1. s = <<i, i>>
      BY <1>2, <2>1, <2>3
    <3>2. QED
      BY <2>1, <3>1
  <2>4. QED
    BY <2>2, <2>3
<1>5. QED
  BY <1>3, <1>4

LEMMA PartIs ==
    ASSUME NEW S, NEW text \in Seq(S), NEW a \in 1..Len(text), NEW b \in 1..Len(text), a <= b,
           NEW part, part = Part(text, <<a, b>>)
    PROVE  /\ part \in Seq(S) /\ Len(part) = b - a + 1 /\ DOMAIN part = 1..(b - a + 1)
           /\ \A i \in 1..(b - a + 1) : part[i] = text[a + i - 1]
<1>1. Len(text) \in Nat /\ \A i \in a..b : text[i] \in S
  BY LenProperties
<1>2. a \in Int /\ b \in Int /\ part = SubSeq(text, a, b)
  BY <1>1 DEF Part
<1>3. /\ part \in Seq(S) /\ Len(part) = b - a + 1
      /\ \A i \in 1..(b - a + 1) : part[i] = text[a + i - 1]
  <2>1. /\ SubSeq(text, a, b) \in Seq(S)
        /\ Len(SubSeq(text, a, b)) = IF a <= b THEN b - a + 1 ELSE 0
        /\ \A i \in 1..(b - a + 1) : SubSeq(text, a, b)[i] = text[a + i - 1]
    BY <1>1, <1>2
  <2>2. QED
    BY <1>2, <2>1
<1>4. QED
  BY <1>3, LenProperties

LEMMA PartHas ==
    ASSUME NEW S, NEW text \in Seq(S), NEW a \in 1..Len(text), NEW b \in 1..Len(text), a <= b
    PROVE  /\ Part(text, <<a, b>>) \in Seq(S)
           /\ Len(Part(text, <<a, b>>)) = b - a + 1
           /\ \A i \in 1..(b - a + 1) : Part(text, <<a, b>>)[i] = text[a + i - 1]
BY PartIs

(* A token is a lower-case text of at least two characters that is its own *)
(* only token: InvertedIndex.get_postings, which lowers what it is asked   *)
(* for, finds it, and so does a search for it.                             *)
THEOREM TokensAreTheirOwn ==
    ASSUME NEW S, NEW text \in Seq(S), NEW s \in TokenStretches(text),
           NEW token, token = ToLower(Part(text, s))
    PROVE  /\ Len(token) >= 2 /\ \A i \in DOMAIN token : token[i] \in Lower \cup Digits
           /\ ToLower(token) = token
           /\ TokenStretches(token) = {<<1, Len(token)>>}
<1>1. PICK a \in 1..Len(text), b \in 1..Len(text) : s = <<a, b>> /\ a < b /\ Run(text, a, b)
  BY RunPlaces
<1> SUFFICES ASSUME NEW n, n = b - a + 1, NEW part, part = Part(text, <<a, b>>)
             PROVE  /\ Len(token) >= 2
                    /\ \A i \in DOMAIN token : token[i] \in Lower \cup Digits
                    /\ ToLower(token) = token
                    /\ TokenStretches(token) = {<<1, Len(token)>>}
  OBVIOUS
<1>2. /\ Len(text) \in Nat /\ n \in Nat /\ n >= 2 /\ DOMAIN part = 1..n
      /\ \A i \in 1..n : part[i] = text[a + i - 1]
  BY <1>1, PartIs, LenProperties
<1>3. ASSUME NEW i \in 1..n PROVE part[i] \in Alphanumeric
  <2>1. a + i - 1 \in a..b
    BY <1>2
  <2>2. QED
    BY <1>1, <1>2, <2>1 DEF Run
<1>4. token = [i \in 1..n |-> IF part[i] \in Upper THEN LowerOf[part[i]] ELSE part[i]]
  BY <1>1, <1>2 DEF ToLower
<1>5. \A i \in 1..n : token[i] \in Lower \cup Digits /\ token[i] \notin Upper
  BY <1>3, <1>4, AlphabetAssumption DEF Alphanumeric
<1>6. token \in Seq(Lower \cup Digits) /\ Len(token) = n /\ DOMAIN token = 1..n
  <2>1. token \in [1..n -> Lower \cup Digits]
    BY <1>4, <1>5
  <2>2. token \in Seq(Lower \cup Digits)
    BY <1>2, <2>1, SeqDef
  <2>3. Len(token) \in Nat /\ 1..Len(token) = 1..n
    BY <2>1, <2>2, LenProperties
  <2>4. n \in 1..Len(token) /\ (Len(token) # 0 => Len(token) \in 1..n)
    BY <1>2, <2>3
  <2>5. QED
    BY <1>2, <2>1, <2>2, <2>3, <2>4
<1>7. ToLower(token) = token
  BY <1>4, <1>5, <1>6 DEF ToLower
<1>8. \A i \in 1..(n - 1) : ~Boundary(token, i)
  <2> SUFFICES ASSUME NEW i \in 1..(n - 1), token[i + 1] \in Upper PROVE FALSE
    BY DEF Boundary
  <2>1. i + 1 \in 1..n
    BY <1>2
  <2>2. QED
    BY <1>5, <2>1
<1>9. 1 \in 1..n /\ n \in 1..n /\ 1 < n
  BY <1>2
<1>10. Run(token, 1, n)
  <2>1. \A i \in 1..n : token[i] \in Alphanumeric
    BY <1>5 DEF Alphanumeric
  <2>2. QED
    BY <1>6, <1>8, <1>9, <2>1 DEF Run
<1>11. <<1, n>> \in TokenStretches(token) /\ <<1, n>> \in TokenRuns(token)
  BY <1>6, <1>9, <1>10, RunPlaces
<1>12. ASSUME NEW r \in TokenStretches(token) PROVE r = <<1, n>>
  <2>1. PICK c \in 1..n, d \in 1..n : r = <<c, d>> /\ Run(token, c, d)
    BY <1>6, RunPlaces
  <2>2. r \in TokenRuns(token) /\ r[1] <= <<1, n>>[2] /\ <<1, n>>[1] <= r[2]
    <3>1. <<c, d>> \in TokenRuns(token)
      BY <1>6, <2>1, RunPlaces
    <3>2. r[1] = c /\ r[2] = d /\ <<1, n>>[2] = n /\ <<1, n>>[1] = 1
      BY <2>1
    <3>3. c <= n /\ 1 <= d
      BY <1>2
    <3>4. QED
      BY <2>1, <3>1, <3>2, <3>3
  <2>3. QED
    BY <1>6, <1>11, <2>2, RunsApart
<1>13. QED
  BY <1>2, <1>5, <1>6, <1>7, <1>11, <1>12

(* Inside an identifier the same places are boundaries as in the line: the *)
(* letters a boundary looks ahead to belong to the identifier.             *)
LEMMA BoundaryInside ==
    ASSUME NEW S, NEW text \in Seq(S), NEW x \in 1..Len(text), NEW y \in 1..Len(text), x <= y,
           y = Len(text) \/ text[y + 1] \notin Word,
           NEW word, word = Part(text, <<x, y>>), NEW j \in 1..(y - x)
    PROVE  Boundary(word, j) <=> Boundary(text, x + j - 1)
<1> SUFFICES ASSUME NEW i, i = x + j - 1 PROVE Boundary(word, j) <=> Boundary(text, i)
  OBVIOUS
<1>1. /\ Len(text) \in Nat /\ Len(word) = y - x + 1
      /\ \A k \in 1..(y - x + 1) : word[k] = text[x + k - 1]
  <2>1. Len(text) \in Nat
    BY LenProperties
  <2>2. /\ Len(Part(text, <<x, y>>)) = y - x + 1
        /\ \A k \in 1..(y - x + 1) : Part(text, <<x, y>>)[k] = text[x + k - 1]
    BY PartHas
  <2>3. QED
    BY <2>1, <2>2
<1>2. word[j] = text[i] /\ word[j + 1] = text[i + 1]
  <2>1. j \in 1..(y - x + 1) /\ j + 1 \in 1..(y - x + 1) /\ x + (j + 1) - 1 = i + 1
    BY <1>1
  <2>2. QED
    BY <1>1, <2>1
<1>3. (j + 2 <= Len(word) /\ word[j + 2] \in Lower) <=> (i + 2 <= Len(text) /\ text[i + 2] \in Lower)
  <2>1. CASE j + 2 <= Len(word)
    <3>1. j + 2 \in 1..(y - x + 1) /\ x + (j + 2) - 1 = i + 2 /\ i + 2 <= Len(text)
      BY <1>1, <2>1
    <3>2. word[j + 2] = text[i + 2]
      BY <1>1, <3>1
    <3>3. QED
      BY <2>1, <3>1, <3>2
  <2>2. CASE ~(j + 2 <= Len(word))
    <3>1. i + 2 = y + 1
      <4>1. /\ x \in Int /\ y \in Int /\ j \in Int /\ j <= y - x
            /\ Len(word) = y - x + 1 /\ i = x + j - 1 /\ ~(j + 2 <= Len(word))
        BY <1>1, <2>2
      <4>2. QED
        BY ONLY <4>1
    <3>2. ~(i + 2 <= Len(text)) \/ text[i + 2] \notin Word
      BY <1>1, <3>1
    <3>3. QED
      BY <2>2, <3>2 DEF Word, Alphanumeric
  <2>3. QED
    BY <2>1, <2>2
<1>4. QED
  BY <1>2, <1>3 DEF Boundary

(* extract_identifiers and tokenize cut a line at places that agree: every *)
(* token of an identifier of a line is a token of the line, so searching   *)
(* for an identifier that autocomplete suggests looks for tokens the index *)
(* has counted in the documents it comes from.                             *)
THEOREM IdentifierTokensFound ==
    ASSUME NEW S, NEW text \in Seq(S), NEW s \in IdentifierRuns(text),
           NEW q \in TokenStretches(Part(text, s))
    PROVE  \E r \in TokenStretches(text) : Part(text, r) = Part(Part(text, s), q)
<1>1. PICK x \in 1..Len(text), y \in 1..Len(text) :
         /\ s = <<x, y>> /\ x <= y
         /\ x = 1 \/ text[x - 1] \notin Word
         /\ y = Len(text) \/ text[y + 1] \notin Word
  BY LenProperties DEF IdentifierRuns, Stretches
<1>2. PICK word, n : word = Part(text, <<x, y>>) /\ n = y - x + 1
  OBVIOUS
<1>3. /\ Len(text) \in Nat /\ word \in Seq(S) /\ Len(word) = n /\ n \in Nat
      /\ \A i \in 1..n : word[i] = text[x + i - 1]
  <2>1. /\ Part(text, <<x, y>>) \in Seq(S) /\ Len(Part(text, <<x, y>>)) = y - x + 1
        /\ \A i \in 1..(y - x + 1) : Part(text, <<x, y>>)[i] = text[x + i - 1]
    BY <1>1, PartHas
  <2>2. word \in Seq(S) /\ Len(word) = n /\ \A i \in 1..n : word[i] = text[x + i - 1]
    BY ONLY <1>2, <2>1
  <2>3. Len(text) \in Nat /\ n \in Nat
    BY <2>2, LenProperties
  <2>4. QED
    BY <2>2, <2>3
<1>4. PICK c \in 1..n, d \in 1..n : q = <<c, d>> /\ c < d /\ Run(word, c, d)
  BY <1>1, <1>2, <1>3, RunPlaces
<1>5. PICK a, b : a = x + c - 1 /\ b = x + d - 1
  OBVIOUS
<1>6. /\ a \in 1..Len(text) /\ b \in 1..Len(text) /\ a < b /\ a <= b /\ c <= d
      /\ b - a = d - c /\ b - a + 1 = d - c + 1 /\ b <= y
  <2>1. c \in Int /\ d \in Int /\ 1 <= c /\ c < d /\ d <= n /\ Len(text) \in Nat /\ n \in Nat
    BY <1>3, <1>4
  <2>2. x \in Int /\ y \in Int /\ 1 <= x /\ y <= Len(text) /\ n = y - x + 1
    BY <1>2, <2>1
  <2>3. QED
    BY <1>5, <2>1, <2>2
<1>7. Alphanumeric \subseteq Word
  BY DEF Word
<1>8. \A j \in 1..(n - 1) : Boundary(word, j) <=> Boundary(text, x + j - 1)
  BY <1>1, <1>2, BoundaryInside
<1>9. ASSUME NEW i \in a..b PROVE text[i] \in Alphanumeric
  <2>1. i - x + 1 \in c..d /\ i - x + 1 \in 1..n /\ x + (i - x + 1) - 1 = i
    BY <1>2, <1>3, <1>5, <1>6
  <2>2. word[i - x + 1] \in Alphanumeric
    BY <1>4, <2>1 DEF Run
  <2>3. QED
    BY <1>3, <2>1, <2>2
<1>10. ASSUME NEW i \in a..(b - 1) PROVE ~Boundary(text, i)
  <2>1. i - x + 1 \in c..(d - 1) /\ i - x + 1 \in 1..(n - 1) /\ x + (i - x + 1) - 1 = i
    BY <1>2, <1>3, <1>5, <1>6
  <2>2. ~Boundary(word, i - x + 1)
    BY <1>4, <2>1 DEF Run
  <2>3. QED
    BY <1>8, <2>1, <2>2
<1>11. a = 1 \/ text[a - 1] \notin Alphanumeric \/ Boundary(text, a - 1)
  <2>1. CASE c = 1
    <3>1. a = x
      BY <1>2, <1>3, <1>5, <2>1
    <3>2. QED
      BY <1>1, <1>7, <3>1
  <2>2. CASE c # 1
    <3>1. c - 1 \in 1..(n - 1) /\ c - 1 \in 1..n /\ x + (c - 1) - 1 = a - 1
      BY <1>2, <1>3, <1>5, <2>2
    <3>2. word[c - 1] \notin Alphanumeric \/ Boundary(word, c - 1)
      BY <1>4, <2>2 DEF Run
    <3>3. QED
      BY <1>3, <1>8, <3>1, <3>2
  <2>3. QED
    BY <2>1, <2>2
<1>12. b = Len(text) \/ text[b + 1] \notin Alphanumeric \/ Boundary(text, b)
  <2>1. CASE d = n
    <3>1. b = y
      BY <1>2, <1>3, <1>5, <2>1
    <3>2. QED
      BY <1>1, <1>7, <3>1
  <2>2. CASE d # n
    <3>1. d \in 1..(n - 1) /\ d + 1 \in 1..n /\ x + (d + 1) - 1 = b + 1
      BY <1>2, <1>3, <1>5, <2>2
    <3>2. word[d + 1] \notin Alphanumeric \/ Boundary(word, d)
      BY <1>3, <1>4, <2>2 DEF Run
    <3>3. word[d + 1] = text[x + (d + 1) - 1]
      BY <1>3, <3>1, Zenon
    <3>4. word[d + 1] = text[b + 1]
      BY <3>1, <3>3, Zenon
    <3>5. Boundary(word, d) <=> Boundary(text, b)
      BY <1>2, <1>3, <1>5, <1>8, <3>1
    <3>6. QED
      BY <3>2, <3>4, <3>5
  <2>3. QED
    BY <2>1, <2>2
<1>13. Run(text, a, b)
  BY <1>6, <1>9, <1>10, <1>11, <1>12 DEF Run
<1>14. <<a, b>> \in TokenStretches(text)
  BY <1>6, <1>13, RunPlaces
<1>15. Part(text, <<a, b>>) = Part(word, <<c, d>>)
  <2> SUFFICES ASSUME NEW u, u = Part(text, <<a, b>>), NEW v, v = Part(word, <<c, d>>)
               PROVE  u = v
    OBVIOUS
  <2>1. /\ a \in 1..Len(text) /\ b \in 1..Len(text) /\ a <= b
        /\ c \in 1..Len(word) /\ d \in 1..Len(word) /\ c <= d /\ word \in Seq(S)
    BY <1>3, <1>6
  <2>2. u \in Seq(S) /\ Len(u) = b - a + 1 /\ \A i \in 1..(b - a + 1) : u[i] = text[a + i - 1]
    BY <2>1, PartHas, Zenon
  <2>3. v \in Seq(S) /\ Len(v) = d - c + 1 /\ \A i \in 1..(d - c + 1) : v[i] = word[c + i - 1]
    BY <2>1, PartHas, Zenon
  <2>4. ASSUME NEW i \in 1..(b - a + 1) PROVE u[i] = v[i]
    <3>1. c + i - 1 \in 1..n /\ x + (c + i - 1) - 1 = a + i - 1 /\ i \in 1..(d - c + 1)
      BY <1>2, <1>3, <1>5, <1>6
    <3>2. u[i] = text[a + i - 1] /\ v[i] = word[c + i - 1]
      BY <2>2, <2>3, <3>1, Zenon
    <3>3. word[c + i - 1] = text[x + (c + i - 1) - 1]
      BY <1>3, <3>1, Zenon
    <3>4. QED
      BY <3>1, <3>2, <3>3, Zenon
  <2>5. Len(u) = Len(v) /\ \A i \in 1..Len(u) : u[i] = v[i]
    BY <1>6, <2>2, <2>3, <2>4
  <2>6. QED
    BY <2>2, <2>3, <2>5, SeqEqual
<1>16. QED
  BY <1>1, <1>2, <1>4, <1>14, <1>15


(* tokenize lists the tokens at the stretches it finds, once each. *)
LEMMA TokensAre ==
    ASSUME NEW S, NEW text \in Seq(S)
    PROVE  /\ Tokenize(text) \in Seq({ ToLower(Part(text, s)) : s \in TokenStretches(text) })
           /\ Range(Tokenize(text)) = { ToLower(Part(text, s)) : s \in TokenStretches(text) }
           /\ Len(Tokenize(text)) = Cardinality(TokenStretches(text))
<1> DEFINE found == TokenStretches(text)
           before == { p \in found \X found : p[1][1] < p[2][1] }
           N == Cardinality(found)
<1>1. found \subseteq (1..Len(text)) \X (1..Len(text)) /\ \A s \in found : s[1] <= s[2]
  <2>1. found \subseteq TokenRuns(text)
    BY DEF TokenStretches, TokenRuns
  <2>2. /\ TokenRuns(text) \subseteq (1..Len(text)) \X (1..Len(text))
        /\ \A s \in TokenRuns(text) : s[1] <= s[2]
    BY RunsAre
  <2>3. QED
    BY <2>1, <2>2
<1>2. IsFiniteSet(found)
  <2>1. Len(text) \in Int /\ 1 \in Int
    BY LenProperties
  <2>2. IsFiniteSet(1..Len(text))
    BY <2>1, FS_Interval
  <2>3. IsFiniteSet((1..Len(text)) \X (1..Len(text)))
    BY <2>2, FS_Product
  <2>4. QED
    BY <1>1, <2>3, FS_Subset
<1>3. \A r, s \in found : r # s => r[2] < s[1] \/ s[2] < r[1]
  BY TokensPartition
<1>4. \A r, s \in found : <<r, s>> \in before <=> r[1] < s[1]
  OBVIOUS
<1>5. \A r \in found : r[1] \in Int /\ r[2] \in Int
  BY <1>1
<1> PICK order : order = before
  OBVIOUS
<1> HIDE DEF found, before
<1>6. \A r, s \in found : <<r, s>> \in before => r # s /\ <<s, r>> \notin before
  BY <1>4, <1>5
<1>7. \A r, s, t \in found : <<r, s>> \in before /\ <<s, t>> \in before => <<r, t>> \in before
  BY <1>4, <1>5
<1>8. ASSUME NEW r \in found, NEW s \in found, r # s PROVE <<r, s>> \in before \/ <<s, r>> \in before
  <2>1. r[2] < s[1] \/ s[2] < r[1]
    BY <1>3, <1>8
  <2>2. r[1] <= r[2] /\ s[1] <= s[2] /\ r[1] \in Int /\ r[2] \in Int /\ s[1] \in Int /\ s[2] \in Int
    BY <1>1, <1>5
  <2>3. r[1] < s[1] \/ s[1] < r[1]
    BY ONLY <2>1, <2>2
  <2>4. QED
    BY <1>4, <2>3
<1>9. PICK parts : parts = Sorted(found, before)
  OBVIOUS
<1>10. /\ N \in Nat /\ parts \in [1..N -> found] /\ \A s \in found : \E k \in 1..N : parts[k] = s
  BY <1>2, <1>6, <1>7, <1>8, <1>9, SortedIs
<1>11. Tokenize(text) = [i \in DOMAIN parts |-> ToLower(Part(text, parts[i]))]
  BY <1>9 DEF Tokenize, InOrder, found, before
<1>12. PICK tokens : tokens = Tokenize(text)
  OBVIOUS
<1>13. tokens \in [1..N -> { ToLower(Part(text, s)) : s \in found }]
  BY <1>10, <1>11, <1>12
<1>14. ASSUME NEW s \in found PROVE \E k \in 1..N : tokens[k] = ToLower(Part(text, s))
  BY <1>10, <1>11, <1>12
<1>15. Range(tokens) = { ToLower(Part(text, s)) : s \in found }
  <2>1. Range(tokens) \subseteq { ToLower(Part(text, s)) : s \in found }
    BY <1>13 DEF Range
  <2>2. \A s \in found : ToLower(Part(text, s)) \in Range(tokens)
    BY <1>13, <1>14 DEF Range
  <2>3. QED
    BY <2>1, <2>2
<1>16. tokens \in Seq({ ToLower(Part(text, s)) : s \in found }) /\ Len(tokens) = N
  BY <1>10, <1>13, SeqIs
<1>17. QED
  BY <1>12, <1>15, <1>16 DEF found

(* A token has one token, itself. *)
LEMMA TokenOfItself ==
    ASSUME NEW S, NEW text \in Seq(S), NEW token \in Range(Tokenize(text))
    PROVE  /\ token \in Seq(Lower \cup Digits) /\ ToLower(token) = token
           /\ Range(Tokenize(token)) = {token}
<1>1. PICK s \in TokenStretches(text) : token = ToLower(Part(text, s))
  BY TokensAre
<1>2. /\ Len(token) >= 2 /\ \A i \in DOMAIN token : token[i] \in Lower \cup Digits
      /\ ToLower(token) = token
      /\ TokenStretches(token) = {<<1, Len(token)>>}
  BY <1>1, TokensAreTheirOwn
<1>3. token \in Seq(Lower \cup Digits)
  <2>1. PICK a \in 1..Len(text), b \in 1..Len(text) : s = <<a, b>> /\ a < b
    BY <1>1, RunPlaces
  <2>2. PICK part : part = Part(text, <<a, b>>)
    OBVIOUS
  <2>3. part \in Seq(S) /\ DOMAIN part = 1..Len(part) /\ Len(part) \in Nat
    <3>1. a <= b
      BY <2>1, LenProperties
    <3>2. QED
      BY <2>2, <3>1, PartHas, LenProperties
  <2>4. DOMAIN token = 1..Len(part)
    BY <1>1, <2>1, <2>2, <2>3 DEF ToLower
  <2>5. token \in [1..Len(part) -> Lower \cup Digits]
    <3>1. token = [i \in 1..Len(part) |-> token[i]]
      BY <1>1, <2>1, <2>2, <2>3 DEF ToLower
    <3>2. QED
      BY <1>2, <2>4, <3>1
  <2>6. QED
    BY <2>3, <2>5, SeqIs
<1>4. Part(token, <<1, Len(token)>>) = token
  BY <1>3, SubSeqFull DEF Part
<1>5. Range(Tokenize(token)) = { ToLower(Part(token, s1)) : s1 \in TokenStretches(token) }
  BY <1>3, TokensAre
<1>6. QED
  BY <1>2, <1>3, <1>4, <1>5

(* tokenize_by_line finds the tokens of every line, and no others. *)
OccurrencesIn(content) ==
    UNION { { [line |-> n, token |-> t] : t \in Range(Tokenize(content[n])) } :
            n \in DOMAIN content }

LEMMA OccurrencesAre ==
    ASSUME NEW S, NEW content \in Seq(Seq(S))
    PROVE  /\ TokensByLine(content) \in Seq(OccurrencesIn(content))
           /\ Range(TokensByLine(content)) = OccurrencesIn(content)
<1> DEFINE OnLine(n) == { [line |-> n, token |-> t] : t \in Range(Tokenize(content[n])) }
           All == UNION { OnLine(n) : n \in DOMAIN content }
           line(n) == LET tokens == Tokenize(content[n])
                      IN  [i \in DOMAIN tokens |-> [line |-> n, token |-> tokens[i]]]
<1>1. PICK N : N = Len(content)
  OBVIOUS
<1>2. N \in Nat /\ DOMAIN content = 1..N /\ \A n \in 1..N : content[n] \in Seq(S)
  BY <1>1, LenProperties, ElementOfSeq
<1>3. ASSUME NEW n \in 1..N PROVE line(n) \in Seq(OnLine(n)) /\ Range(line(n)) = OnLine(n)
  <2>1. PICK tokens : tokens = Tokenize(content[n])
    OBVIOUS
  <2>2. tokens \in Seq(Range(tokens)) /\ Len(tokens) \in Nat /\ DOMAIN tokens = 1..Len(tokens)
    BY <1>2, <2>1, TokensAre, LenProperties
  <2>3. PICK l : l = [i \in 1..Len(tokens) |-> [line |-> n, token |-> tokens[i]]]
    OBVIOUS
  <2>4. l = line(n)
    BY <2>1, <2>2, <2>3
  <2>5. \A i \in 1..Len(tokens) : tokens[i] \in Range(tokens)
    BY <2>2 DEF Range
  <2>6. PICK on : on = { [line |-> n, token |-> t] : t \in Range(tokens) }
    OBVIOUS
  <2>7. l \in [1..Len(tokens) -> on]
    BY <2>3, <2>5, <2>6
  <2>8. l \in Seq(on)
    BY <2>2, <2>7, SeqIs
  <2>9. Range(l) = on
    BY <2>2, <2>3, <2>6, <2>7 DEF Range
  <2>10. QED
    BY <2>1, <2>4, <2>6, <2>8, <2>9
<1>4. PICK seqs : seqs = [n \in 1..N |-> line(n)]
  OBVIOUS
<1>5. TokensByLine(content) = FlattenSeq(seqs)
  BY <1>2, <1>4 DEF TokensByLine
<1> HIDE DEF line, OnLine
<1>6. \A n \in 1..N : Range(line(n)) = OnLine(n)
  BY <1>3
<1>7. ASSUME NEW n \in 1..N PROVE line(n) \in Seq(All)
  <2>1. OnLine(n) \subseteq All
    BY <1>2
  <2>2. QED
    BY <1>3, <2>1, SeqMonotonic
<1>8. UNION { Range(seqs[n]) : n \in 1..N } = All
  BY <1>2, <1>4, <1>6
<1> HIDE DEF All
<1>9. seqs \in [1..N -> Seq(All)]
  BY <1>4, <1>7
<1>10. FlattenSeq(seqs) \in Seq(All) /\ Range(FlattenSeq(seqs)) = All
  BY <1>2, <1>8, <1>9, FlattenIs
<1>11. QED
  BY <1>5, <1>10 DEF All, OnLine, OccurrencesIn
=============================================================================
