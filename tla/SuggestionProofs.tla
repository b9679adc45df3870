-------------------------- MODULE SuggestionProofs --------------------------
(***************************************************************************)
(* What an autocompletion returns.  suggest_terms walks the trie to the    *)
(* node of the prefix and collect_terms goes through what is below it, a   *)
(* child after the other in the order of their characters, until it has    *)
(* enough: the suggestions are the first of the indexed spellings that     *)
(* begin with the prefix, in the order of the alphabet.                    *)
(*                                                                         *)
(* The walk is a recursive function of what is left to collect, and its    *)
(* value is proved by induction on the number of nodes below a node: every *)
(* child has fewer.                                                        *)
(***************************************************************************)
EXTENDS SearchProofs

-----------------------------------------------------------------------------
(* The order of the alphabet.                                              *)

(* The characters whose order is known. *)
Ordered == DOMAIN Code

(* A prefix agrees wherever it has a character.                            *)
LEMMA PrefixIs ==
    ASSUME NEW S, NEW v \in Seq(S), NEW w \in Seq(S)
    PROVE  IsPrefix(v, w) <=> Len(v) <= Len(w) /\ \A j \in 1..Len(v) : v[j] = w[j]
<1>1. /\ Len(v) \in Nat /\ Len(w) \in Nat
      /\ \A j \in 1..Len(v) : v[j] \in S
      /\ \A j \in 1..Len(w) : w[j] \in S
  BY LenProperties, ElementOfSeq
<1>2. SubSeq(v, 1, Len(v)) = v
  BY SubSeqFull
<1>3. ASSUME Len(v) <= Len(w)
      PROVE  SubSeq(w, 1, Len(v)) = v <=> \A j \in 1..Len(v) : v[j] = w[j]
  <2>1. PICK n, part : n = Len(v) /\ part = SubSeq(w, 1, n)
    OBVIOUS
  <2>2. n \in Int /\ 1 \in Int /\ \A j \in 1..n : w[j] \in S
    BY <1>1, <1>3, <2>1
  <2>3. /\ part \in Seq(S) /\ Len(part) = IF 1 <= n THEN n - 1 + 1 ELSE 0
        /\ \A j \in 1..(n - 1 + 1) : part[j] = w[1 + j - 1]
    BY <2>1, <2>2, SubSeqProperties
  <2>4. Len(part) = n /\ \A j \in 1..n : part[j] = w[j]
    BY <1>1, <2>1, <2>3
  <2>5. part = v <=> \A j \in 1..n : part[j] = v[j]
    BY <2>1, <2>3, <2>4, SeqEqual
  <2>6. QED
    BY <2>1, <2>4, <2>5
<1>4. QED
  BY <1>2, <1>3 DEF IsPrefix

(* Where one word is before another: at the first character that differs,  *)
(* or after the last of the first.                                         *)
PartAt(v, w, i) ==
    /\ i \in 1..(Len(v) + 1) /\ i <= Len(w)
    /\ \A j \in 1..(i - 1) : v[j] = w[j]
    /\ i <= Len(v) => Code[v[i]] < Code[w[i]]

LEMMA PrecedesAt ==
    ASSUME NEW v \in Seq(Ordered), NEW w \in Seq(Ordered)
    PROVE  Precedes(v, w) <=> \E i \in 1..Len(w) : PartAt(v, w, i)
<1>1. /\ Len(v) \in Nat /\ Len(w) \in Nat
      /\ DOMAIN v = 1..Len(v) /\ DOMAIN w = 1..Len(w)
  BY LenProperties
<1>2. IsPrefix(v, w) <=> Len(v) <= Len(w) /\ \A j \in 1..Len(v) : v[j] = w[j]
  BY PrefixIs
<1>3. ASSUME IsStrictPrefix(v, w) PROVE \E i \in 1..Len(w) : PartAt(v, w, i)
  <2>1. /\ Len(v) <= Len(w) /\ v # w
        /\ \A j \in 1..Len(v) : v[j] = w[j]
    BY <1>2, <1>3 DEF IsStrictPrefix
  <2>2. Len(v) # Len(w)
    BY <2>1, SeqEqual
  <2>3. PICK i : i = Len(v) + 1
    OBVIOUS
  <2>a. Len(v) \in Nat /\ Len(w) \in Nat /\ Len(v) <= Len(w)
    BY <1>1, <2>1
  <2>4. i \in 1..Len(w) /\ i \in 1..(Len(v) + 1) /\ i <= Len(w) /\ ~(i <= Len(v)) /\ i - 1 = Len(v)
    BY ONLY <2>a, <2>2, <2>3
  <2>5. PartAt(v, w, i)
    BY <2>1, <2>4 DEF PartAt
  <2>6. QED
    BY <2>4, <2>5
<1>4. ASSUME NEW i \in (DOMAIN v) \cap (DOMAIN w), \A j \in 1..(i - 1) : v[j] = w[j],
             Code[v[i]] < Code[w[i]]
      PROVE  i \in 1..Len(w) /\ PartAt(v, w, i)
  BY <1>1, <1>4 DEF PartAt
<1>5. ASSUME NEW i \in 1..Len(w), PartAt(v, w, i), i <= Len(v)
      PROVE  Precedes(v, w)
  <2>1. i \in (DOMAIN v) \cap (DOMAIN w)
    BY <1>1, <1>5 DEF PartAt
  <2>2. QED
    BY <1>5, <2>1 DEF PartAt, Precedes
<1>6. ASSUME NEW i \in 1..Len(w), PartAt(v, w, i), ~(i <= Len(v))
      PROVE  Precedes(v, w)
  <2>a. Len(v) \in Nat /\ Len(w) \in Nat /\ i \in 1..(Len(v) + 1) /\ i <= Len(w) /\ ~(i <= Len(v))
    BY <1>1, <1>6 DEF PartAt
  <2>1. i = Len(v) + 1 /\ i - 1 = Len(v) /\ Len(v) <= Len(w) /\ Len(v) # Len(w)
    BY ONLY <2>a
  <2>2. \A j \in 1..Len(v) : v[j] = w[j]
    BY <1>6, <2>1 DEF PartAt
  <2>3. QED
    BY <1>2, <2>1, <2>2 DEF Precedes, IsStrictPrefix
<1>7. QED
  BY <1>3, <1>4, <1>5, <1>6 DEF Precedes

(* The alphabetical order is strict and total. *)
LEMMA OrderAt ==
    ASSUME NEW u \in Seq(Ordered), NEW v \in Seq(Ordered), NEW w \in Seq(Ordered)
    PROVE  /\ \A i \in 1..Len(v), j \in 1..Len(u) : ~(PartAt(u, v, i) /\ PartAt(v, u, j))
           /\ \A i \in 1..Len(v), j \in 1..Len(w) : PartAt(u, v, i) /\ PartAt(v, w, j) =>
                 PartAt(u, w, IF i <= j THEN i ELSE j)
           /\ u # v => \E i : \/ i \in 1..Len(v) /\ PartAt(u, v, i)
                              \/ i \in 1..Len(u) /\ PartAt(v, u, i)
<1>1. /\ Len(u) \in Nat /\ Len(v) \in Nat /\ Len(w) \in Nat
      /\ \A i \in 1..Len(u) : u[i] \in Ordered /\ Code[u[i]] \in Int
      /\ \A i \in 1..Len(v) : v[i] \in Ordered /\ Code[v[i]] \in Int
      /\ \A i \in 1..Len(w) : w[i] \in Ordered /\ Code[w[i]] \in Int
  BY LenProperties, ElementOfSeq, CodeAssumption DEF Ordered
<1>2. ASSUME NEW i \in 1..Len(v), NEW j \in 1..Len(u), PartAt(u, v, i), PartAt(v, u, j)
      PROVE  FALSE
  <2>1. CASE i = j
    <3>1. Code[u[i]] < Code[v[i]] /\ Code[v[i]] < Code[u[i]] /\ Code[u[i]] \in Int /\ Code[v[i]] \in Int
      BY <1>1, <1>2, <2>1 DEF PartAt
    <3>2. QED
      BY <3>1
  <2>2. CASE i < j
    <3>1. i \in 1..(j - 1) /\ i <= Len(u)
      BY <1>1, <1>2, <2>2 DEF PartAt
    <3>2. v[i] = u[i] /\ Code[u[i]] < Code[v[i]] /\ Code[u[i]] \in Int
      BY <1>1, <1>2, <3>1 DEF PartAt
    <3>3. QED
      BY <3>2
  <2>3. CASE j < i
    <3>1. j \in 1..(i - 1) /\ j <= Len(v)
      BY <1>1, <1>2, <2>3 DEF PartAt
    <3>2. u[j] = v[j] /\ Code[v[j]] < Code[u[j]] /\ Code[u[j]] \in Int
      BY <1>1, <1>2, <3>1 DEF PartAt
    <3>3. QED
      BY <3>2
  <2>4. QED
    BY <2>1, <2>2, <2>3
<1>3. ASSUME NEW i \in 1..Len(v), NEW j \in 1..Len(w), PartAt(u, v, i), PartAt(v, w, j)
      PROVE  PartAt(u, w, IF i <= j THEN i ELSE j)
  <2>1. CASE i < j
    <3>1. /\ i \in 1..(Len(u) + 1) /\ i <= Len(w) /\ i \in 1..(j - 1)
          /\ \A k \in 1..(i - 1) : k \in 1..(j - 1)
      BY <1>1, <1>3, <2>1 DEF PartAt
    <3>2. /\ \A k \in 1..(i - 1) : u[k] = v[k] /\ v[k] = w[k]
          /\ v[i] = w[i] /\ (i <= Len(u) => Code[u[i]] < Code[v[i]])
      BY <1>3, <3>1 DEF PartAt
    <3>3. PartAt(u, w, i)
      BY <3>1, <3>2 DEF PartAt
    <3>4. QED
      BY <2>1, <3>3
  <2>2. CASE i = j
    <3>1. /\ i \in 1..(Len(u) + 1) /\ i <= Len(w) /\ i <= Len(v)
      BY <1>1, <1>3, <2>2 DEF PartAt
    <3>2. /\ \A k \in 1..(i - 1) : u[k] = v[k] /\ v[k] = w[k]
          /\ Code[v[i]] < Code[w[i]] /\ (i <= Len(u) => Code[u[i]] < Code[v[i]])
      BY <1>3, <2>2, <3>1 DEF PartAt
    <3>3. Code[v[i]] \in Int /\ Code[w[i]] \in Int /\ (i <= Len(u) => Code[u[i]] \in Int)
      BY <1>1, <1>3, <2>2
    <3>4. i <= Len(u) => Code[u[i]] < Code[w[i]]
      BY <3>2, <3>3
    <3>5. PartAt(u, w, i)
      BY <3>1, <3>2, <3>4 DEF PartAt
    <3>6. QED
      BY <2>2, <3>5
  <2>3. CASE j < i
    <3>1. /\ j \in 1..(Len(u) + 1) /\ j <= Len(w) /\ j \in 1..(i - 1) /\ j <= Len(v)
          /\ \A k \in 1..(j - 1) : k \in 1..(i - 1)
      BY <1>1, <1>3, <2>3 DEF PartAt
    <3>2. /\ \A k \in 1..(j - 1) : u[k] = v[k] /\ v[k] = w[k]
          /\ u[j] = v[j] /\ Code[v[j]] < Code[w[j]]
      BY <1>3, <3>1 DEF PartAt
    <3>3. PartAt(u, w, j)
      BY <3>1, <3>2 DEF PartAt
    <3>4. ~(i <= j)
      BY <2>3
    <3>5. QED
      BY <3>3, <3>4
  <2>4. QED
    BY <2>1, <2>2, <2>3
<1>4. ASSUME u # v
      PROVE  \E i : \/ i \in 1..Len(v) /\ PartAt(u, v, i)
                    \/ i \in 1..Len(u) /\ PartAt(v, u, i)
  <2>1. PICK D : D = { i \in 1..Len(u) : i <= Len(v) /\ u[i] # v[i] }
    OBVIOUS
  <2>2. CASE D # {}
    <3>1. D \in SUBSET Nat
      BY <2>1
    <3>2. PICK i \in D : \A j \in D : i <= j
      BY <2>2, <3>1, Least
    <3>3. /\ i \in 1..Len(u) /\ i \in 1..Len(v) /\ u[i] # v[i]
          /\ \A j \in 1..(i - 1) : j \in 1..Len(u) /\ j <= Len(v) /\ ~(i <= j)
          /\ i \in 1..(Len(u) + 1) /\ i \in 1..(Len(v) + 1)
      BY <1>1, <2>1, <3>2
    <3>4. \A j \in 1..(i - 1) : u[j] = v[j]
      BY <2>1, <3>2, <3>3
    <3>5. Code[u[i]] # Code[v[i]] /\ Code[u[i]] \in Int /\ Code[v[i]] \in Int
      BY <1>1, <3>3, CodeAssumption DEF IsInjective, Ordered
    <3>6. i <= Len(u) /\ i <= Len(v)
      BY <1>1, <2>1, <3>2
    <3>7. CASE Code[u[i]] < Code[v[i]]
      <4>1. PartAt(u, v, i)
        BY <3>3, <3>4, <3>6, <3>7 DEF PartAt
      <4>2. QED
        BY <3>3, <4>1
    <3>8. CASE Code[v[i]] < Code[u[i]]
      <4>1. PartAt(v, u, i)
        BY <3>3, <3>4, <3>6, <3>8 DEF PartAt
      <4>2. QED
        BY <3>3, <4>1
    <3>9. QED
      BY <3>5, <3>7, <3>8
  <2>3. CASE D = {}
    <3>1. \A j : j \in 1..Len(u) /\ j \in 1..Len(v) => u[j] = v[j]
      <4>1. \A j \in 1..Len(v) : j <= Len(v)
        BY <1>1
      <4>2. QED
        BY <2>1, <2>3, <4>1
    <3>2. CASE Len(u) < Len(v)
      <4>1. PICK i : i = Len(u) + 1
        OBVIOUS
      <4>2. i \in 1..Len(v) /\ i \in 1..(Len(u) + 1) /\ ~(i <= Len(u)) /\ i <= Len(v)
            /\ \A j \in 1..(i - 1) : j \in 1..Len(u) /\ j \in 1..Len(v)
        BY <1>1, <3>2, <4>1
      <4>3. PartAt(u, v, i)
        BY <3>1, <4>2 DEF PartAt
      <4>4. QED
        BY <4>2, <4>3
    <3>3. CASE Len(v) < Len(u)
      <4>1. PICK i : i = Len(v) + 1
        OBVIOUS
      <4>2. i \in 1..Len(u) /\ i \in 1..(Len(v) + 1) /\ ~(i <= Len(v)) /\ i <= Len(u)
            /\ \A j \in 1..(i - 1) : j \in 1..Len(u) /\ j \in 1..Len(v)
        BY <1>1, <3>3, <4>1
      <4>3. PartAt(v, u, i)
        BY <3>1, <4>2 DEF PartAt
      <4>4. QED
        BY <4>2, <4>3
    <3>4. CASE Len(u) = Len(v)
      BY <1>4, <3>1, <3>4, SeqEqual
    <3>5. QED
      BY <1>1, <3>2, <3>3, <3>4
  <2>4. QED
    BY <2>2, <2>3
<1>5. QED
  BY <1>2, <1>3, <1>4

LEMMA Alphabetical ==
    ASSUME NEW u \in Seq(Ordered), NEW v \in Seq(Ordered), NEW w \in Seq(Ordered)
    PROVE  /\ ~(Precedes(u, v) /\ Precedes(v, u)) /\ ~Precedes(u, u)
           /\ Precedes(u, v) /\ Precedes(v, w) => Precedes(u, w)
           /\ u # v => Precedes(u, v) \/ Precedes(v, u)
<1>1. \A x, y \in Seq(Ordered) : Precedes(x, y) <=> \E i \in 1..Len(y) : PartAt(x, y, i)
  BY PrecedesAt
<1>2. ~(Precedes(u, v) /\ Precedes(v, u))
  BY <1>1, OrderAt
<1>3. ~Precedes(u, u)
  BY <1>1, OrderAt
<1>4. ASSUME Precedes(u, v), Precedes(v, w) PROVE Precedes(u, w)
  <2>1. PICK i \in 1..Len(v), j \in 1..Len(w) : PartAt(u, v, i) /\ PartAt(v, w, j)
    BY <1>1, <1>4
  <2>2. PICK k : k = IF i <= j THEN i ELSE j
    OBVIOUS
  <2>3. PartAt(u, w, k)
    BY <2>1, <2>2, OrderAt
  <2>4. k \in 1..Len(w)
    BY <2>3, LenProperties DEF PartAt
  <2>5. QED
    BY <1>1, <2>3, <2>4
<1>5. u # v => Precedes(u, v) \/ Precedes(v, u)
  BY <1>1, OrderAt
<1>6. QED
  BY <1>2, <1>3, <1>4, <1>5

(* The words of a set, each once, each after those before it. *)
InTurn(g, n, A) ==
    /\ g \in [1..n -> A]
    /\ \A i, j \in 1..n : i < j => Precedes(g[i], g[j])
    /\ \A x \in A : \E k \in 1..n : g[k] = x

Alphabet(A) == Sorted(A, InAlphabet(A))

LEMMA AlphabetIs ==
    ASSUME NEW A, A \subseteq Seq(Ordered), IsFiniteSet(A)
    PROVE  Cardinality(A) \in Nat /\ InTurn(Alphabet(A), Cardinality(A), A)
<1>1. PICK before : before = InAlphabet(A)
  OBVIOUS
<1>2. \A x, y \in A : <<x, y>> \in before <=> Precedes(x, y)
  BY <1>1 DEF InAlphabet
<1>3. \A x, y \in A : <<x, y>> \in before => x # y /\ <<y, x>> \notin before
  <2>1. \A x, y \in A : Precedes(x, y) => x # y /\ ~Precedes(y, x)
    BY Alphabetical
  <2>2. QED
    BY <1>2, <2>1
<1>4. \A x, y, z \in A : <<x, y>> \in before /\ <<y, z>> \in before => <<x, z>> \in before
  <2>1. \A x, y, z \in A : Precedes(x, y) /\ Precedes(y, z) => Precedes(x, z)
    BY Alphabetical
  <2>2. QED
    BY <1>2, <2>1
<1>5. \A x, y \in A : x # y => <<x, y>> \in before \/ <<y, x>> \in before
  <2>1. \A x, y \in A : x # y => Precedes(x, y) \/ Precedes(y, x)
    BY Alphabetical
  <2>2. QED
    BY <1>2, <2>1
<1>6. PICK N, f : N = Cardinality(A) /\ f = Sorted(A, before)
  OBVIOUS
<1>7. /\ N \in Nat /\ f \in [1..N -> A]
      /\ \A i, j \in 1..N : i < j <=> <<f[i], f[j]>> \in before
      /\ \A x \in A : \E k \in 1..N : f[k] = x
  BY <1>3, <1>4, <1>5, <1>6, SortedIs
<1>8. \A i, j \in 1..N : i < j => Precedes(f[i], f[j])
  BY <1>2, <1>7
<1>9. QED
  BY <1>1, <1>6, <1>7, <1>8 DEF InTurn, Alphabet

(* Numbers that ascend are at least their places. *)
LEMMA Ascends ==
    ASSUME NEW N \in Nat, NEW f, \A k \in 1..N : f[k] \in Nat \ {0},
           \A i, j \in 1..N : i < j => f[i] < f[j]
    PROVE  \A k \in 1..N : k <= f[k]
<1> DEFINE T == { n \in 0..N : n = 0 \/ n <= f[n] }
<1>1. 0 \in T
  OBVIOUS
<1>2. ASSUME NEW n \in 0..(N - 1), n \in T PROVE n + 1 \in T
  <2>1. PICK m : m = n + 1
    OBVIOUS
  <2>2. m \in 1..N /\ m \in 0..N /\ f[m] \in Nat \ {0}
    BY <2>1
  <2>3. CASE n = 0
    BY <2>1, <2>2, <2>3
  <2>4. CASE n # 0
    <3>1. n \in 1..N /\ n < m /\ n <= f[n] /\ f[n] \in Nat
      BY <1>2, <2>1, <2>4
    <3>2. f[n] < f[m]
      BY <2>2, <3>1
    <3>3. m <= f[m]
      BY <2>1, <2>2, <3>1, <3>2
    <3>4. QED
      BY <2>1, <2>2, <3>3
  <2>5. QED
    BY <2>3, <2>4
<1> HIDE DEF T
<1>3. 0..N \subseteq T
  BY <1>1, <1>2, Induct
<1>4. QED
  BY <1>3 DEF T

(* There is one way to put words in alphabetical order. *)
PlacedIn(f, g, n, h, m) == \A k \in 1..n : f[k] \in 1..m /\ h[f[k]] = g[k] /\ k <= f[k]

LEMMA PlacesAscend ==
    ASSUME NEW A, A \subseteq Seq(Ordered), NEW n \in Nat, NEW m \in Nat, NEW g, NEW h,
           InTurn(g, n, A), InTurn(h, m, A)
    PROVE  \E f : PlacedIn(f, g, n, h, m)
<1>1. PICK f : f = [k \in 1..n |-> CHOOSE j \in 1..m : h[j] = g[k]]
  OBVIOUS
<1>2. ASSUME NEW k \in 1..n PROVE f[k] \in 1..m /\ h[f[k]] = g[k]
  <2>1. g[k] \in A
    BY DEF InTurn
  <2>2. \E j \in 1..m : h[j] = g[k]
    BY <2>1 DEF InTurn
  <2>3. QED
    BY <1>1, <2>2
<1>3. ASSUME NEW i \in 1..n, NEW j \in 1..n, i < j PROVE f[i] < f[j]
  <2>1. Precedes(g[i], g[j]) /\ g[i] \in Seq(Ordered) /\ g[j] \in Seq(Ordered)
    BY <1>3 DEF InTurn
  <2>2. ~Precedes(g[j], g[i]) /\ g[i] # g[j]
    BY <2>1, Alphabetical
  <2>3. PICK a \in 1..m, b \in 1..m : a = f[i] /\ b = f[j] /\ h[a] = g[i] /\ h[b] = g[j]
    BY <1>2
  <2>4. ~(b < a)
    BY <2>2, <2>3 DEF InTurn
  <2>5. a # b
    BY <2>2, <2>3
  <2>6. QED
    BY <2>3, <2>4, <2>5
<1>4. \A k \in 1..n : f[k] \in Nat \ {0}
  BY <1>2
<1>5. \A k \in 1..n : k <= f[k]
  BY <1>3, <1>4, Ascends
<1>6. PlacedIn(f, g, n, h, m)
  BY <1>2, <1>5 DEF PlacedIn
<1>7. QED
  BY <1>6

LEMMA OneOrder ==
    ASSUME NEW A, A \subseteq Seq(Ordered), NEW n \in Nat, NEW m \in Nat, NEW g, NEW h,
           InTurn(g, n, A), InTurn(h, m, A)
    PROVE  n = m /\ g = h
<1>a. (\E f : PlacedIn(f, g, n, h, m)) /\ \E f : PlacedIn(f, h, m, g, n)
  BY PlacesAscend
<1>1. PICK f : \A k \in 1..n : f[k] \in 1..m /\ h[f[k]] = g[k] /\ k <= f[k]
  BY <1>a DEF PlacedIn
<1>2. PICK e : \A k \in 1..m : e[k] \in 1..n /\ g[e[k]] = h[k] /\ k <= e[k]
  BY <1>a DEF PlacedIn
<1>3. ASSUME NEW k \in 1..n PROVE f[k] = k /\ k \in 1..m
  <2>1. PICK j \in 1..m : j = f[k] /\ h[j] = g[k] /\ k <= j
    BY <1>1
  <2>2. PICK i \in 1..n : i = e[j] /\ g[i] = h[j] /\ j <= i
    BY <1>2
  <2>3. i = k
    <3>1. Precedes(g[i], g[k]) \/ Precedes(g[k], g[i]) \/ i = k
      BY DEF InTurn
    <3>2. g[k] \in Seq(Ordered)
      BY DEF InTurn
    <3>3. QED
      BY <2>1, <2>2, <3>1, <3>2, Alphabetical
  <2>4. QED
    BY <2>1, <2>2, <2>3
<1>4. ASSUME NEW k \in 1..m PROVE k \in 1..n
  <2>1. k <= e[k] /\ e[k] \in 1..n
    BY <1>2
  <2>2. QED
    BY <2>1
<1>5. n = m
  <2>1. n \in 1..n => n <= m
    BY <1>3
  <2>2. m \in 1..m => m <= n
    BY <1>4
  <2>3. QED
    BY <2>1, <2>2
<1>6. \A k \in 1..n : g[k] = h[k]
  BY <1>1, <1>3
<1>7. g \in [1..n -> A] /\ h \in [1..n -> A]
  BY <1>5 DEF InTurn
<1>8. QED
  BY <1>5, <1>6, <1>7

(* Words that all come before others come before them in order too. *)
LEMMA OrderJoins ==
    ASSUME NEW A, NEW B, A \subseteq Seq(Ordered), B \subseteq Seq(Ordered),
           IsFiniteSet(A), IsFiniteSet(B), \A a \in A, b \in B : Precedes(a, b)
    PROVE  Alphabet(A \cup B) = Alphabet(A) \o Alphabet(B)
<1>1. PICK C : C = A \cup B
  OBVIOUS
<1>2. C \subseteq Seq(Ordered) /\ IsFiniteSet(C)
  BY <1>1, FS_Union
<1>3. PICK n, m, c : n = Cardinality(A) /\ m = Cardinality(B) /\ c = Cardinality(C)
  OBVIOUS
<1>4. PICK g, h, f : g = Alphabet(A) /\ h = Alphabet(B) /\ f = Alphabet(C)
  OBVIOUS
<1>5. n \in Nat /\ InTurn(g, n, A) /\ m \in Nat /\ InTurn(h, m, B) /\ c \in Nat /\ InTurn(f, c, C)
  BY <1>2, <1>3, <1>4, AlphabetIs
<1>6. g \in [1..n -> C] /\ h \in [1..m -> C]
  BY <1>1, <1>5 DEF InTurn
<1>7. g \in Seq(C) /\ h \in Seq(C) /\ Len(g) = n /\ Len(h) = m
  BY <1>5, <1>6, SeqIs
<1>8. PICK l : l = g \o h
  OBVIOUS
<1>9. /\ l \in Seq(C) /\ Len(l) = n + m
      /\ \A i \in 1..(n + m) : l[i] = IF i <= n THEN g[i] ELSE h[i - n]
  BY <1>7, <1>8, ConcatProperties
<1>10. l \in [1..(n + m) -> C]
  BY <1>9, LenProperties
<1>11. ASSUME NEW i \in 1..(n + m), NEW j \in 1..(n + m), i < j PROVE Precedes(l[i], l[j])
  <2>1. CASE j <= n
    <3>1. i \in 1..n /\ j \in 1..n /\ i <= n
      BY <1>5, <1>11, <2>1
    <3>2. l[i] = g[i] /\ l[j] = g[j]
      BY <1>9, <2>1, <3>1
    <3>3. QED
      BY <1>5, <1>11, <3>1, <3>2 DEF InTurn
  <2>2. CASE ~(j <= n) /\ i <= n
    <3>1. i \in 1..n /\ j - n \in 1..m
      BY <1>5, <1>11, <2>2
    <3>2. l[i] = g[i] /\ l[j] = h[j - n]
      BY <1>9, <2>2
    <3>3. g[i] \in A /\ h[j - n] \in B
      BY <1>5, <3>1 DEF InTurn
    <3>4. QED
      BY <3>2, <3>3
  <2>3. CASE ~(i <= n)
    <3>1. i - n \in 1..m /\ j - n \in 1..m /\ i - n < j - n /\ ~(j <= n)
      BY <1>5, <1>11, <2>3
    <3>2. l[i] = h[i - n] /\ l[j] = h[j - n]
      BY <1>9, <2>3, <3>1
    <3>3. QED
      BY <1>5, <3>1, <3>2 DEF InTurn
  <2>4. QED
    BY <2>1, <2>2, <2>3
<1>12. ASSUME NEW x \in C PROVE \E k \in 1..(n + m) : l[k] = x
  <2>1. CASE x \in A
    <3>1. PICK k \in 1..n : g[k] = x
      BY <1>5, <2>1 DEF InTurn
    <3>2. k \in 1..(n + m) /\ k <= n
      BY <1>5
    <3>3. QED
      BY <1>9, <3>1, <3>2
  <2>2. CASE x \in B
    <3>1. PICK k \in 1..m : h[k] = x
      BY <1>5, <2>2 DEF InTurn
    <3>2. PICK i : i = k + n
      OBVIOUS
    <3>3. i \in 1..(n + m) /\ ~(i <= n) /\ i - n = k
      BY <1>5, <3>2
    <3>4. l[i] = h[k]
      BY <1>9, <3>3
    <3>5. QED
      BY <3>1, <3>3, <3>4
  <2>3. QED
    BY <1>1, <2>1, <2>2
<1>13. InTurn(l, n + m, C) /\ n + m \in Nat
  BY <1>5, <1>10, <1>11, <1>12 DEF InTurn
<1>14. f = l
  BY <1>2, <1>5, <1>13, OneOrder
<1>15. QED
  BY <1>1, <1>4, <1>8, <1>14

(* The spellings shown of some words, in alphabetical order of the words.  *)
Showing(shown, A) == [k \in 1..Cardinality(A) |-> shown[Alphabet(A)[k]]]

LEMMA ShowingIs ==
    ASSUME NEW shown, NEW A, A \subseteq Seq(Ordered), IsFiniteSet(A), A \subseteq DOMAIN shown
    PROVE  /\ Showing(shown, A) \in Seq(Range(shown))
           /\ Len(Showing(shown, A)) = Cardinality(A)
           /\ \A k \in 1..Cardinality(A) : /\ Alphabet(A)[k] \in A
                                           /\ Showing(shown, A)[k] = shown[Alphabet(A)[k]]
<1>1. PICK n, f, s : n = Cardinality(A) /\ f = Alphabet(A) /\ s = Showing(shown, A)
  OBVIOUS
<1>2. n \in Nat /\ f \in [1..n -> A]
  BY <1>1, AlphabetIs DEF InTurn
<1>3. s = [k \in 1..n |-> shown[f[k]]]
  BY <1>1 DEF Showing
<1>4. s \in [1..n -> Range(shown)]
  BY <1>2, <1>3 DEF Range
<1>5. s \in Seq(Range(shown)) /\ Len(s) = n
  BY <1>2, <1>4, SeqIs
<1>6. QED
  BY <1>1, <1>2, <1>3, <1>5

(* Those of words that follow others come after them.                      *)
LEMMA ShowingJoins ==
    ASSUME NEW shown, NEW A, NEW B, A \subseteq Seq(Ordered), B \subseteq Seq(Ordered),
           IsFiniteSet(A), IsFiniteSet(B), A \subseteq DOMAIN shown, B \subseteq DOMAIN shown,
           \A a \in A, b \in B : Precedes(a, b)
    PROVE  Showing(shown, A \cup B) = Showing(shown, A) \o Showing(shown, B)
<1>1. PICK C : C = A \cup B
  OBVIOUS
<1>2. C \subseteq Seq(Ordered) /\ IsFiniteSet(C) /\ C \subseteq DOMAIN shown
  BY <1>1, FS_Union
<1>3. PICK n, m, c : n = Cardinality(A) /\ m = Cardinality(B) /\ c = Cardinality(C)
  OBVIOUS
<1>4. PICK g, h, f : g = Alphabet(A) /\ h = Alphabet(B) /\ f = Alphabet(C)
  OBVIOUS
<1>5. PICK s, t, r : s = Showing(shown, A) /\ t = Showing(shown, B) /\ r = Showing(shown, C)
  OBVIOUS
<1>6. /\ n \in Nat /\ g \in [1..n -> A] /\ m \in Nat /\ h \in [1..m -> B]
      /\ c \in Nat /\ f \in [1..c -> C]
  BY <1>2, <1>3, <1>4, AlphabetIs DEF InTurn
<1>7. f = g \o h
  BY <1>1, <1>4, OrderJoins
<1>8. g \in Seq(C) /\ h \in Seq(C) /\ Len(g) = n /\ Len(h) = m /\ Len(f) = c
  <2>1. g \in [1..n -> C] /\ h \in [1..m -> C]
    BY <1>1, <1>6
  <2>2. QED
    BY <1>6, <2>1, SeqIs
<1>9. c = n + m /\ \A i \in 1..(n + m) : f[i] = IF i <= n THEN g[i] ELSE h[i - n]
  BY <1>7, <1>8, ConcatProperties
<1>10. /\ s \in Seq(Range(shown)) /\ Len(s) = n /\ \A k \in 1..n : s[k] = shown[g[k]]
       /\ t \in Seq(Range(shown)) /\ Len(t) = m /\ \A k \in 1..m : t[k] = shown[h[k]]
       /\ r \in Seq(Range(shown)) /\ Len(r) = c /\ \A k \in 1..c : r[k] = shown[f[k]]
  BY <1>2, <1>3, <1>4, <1>5, ShowingIs
<1>11. PICK l : l = s \o t
  OBVIOUS
<1>12. /\ l \in Seq(Range(shown)) /\ Len(l) = n + m
       /\ \A i \in 1..(n + m) : l[i] = IF i <= n THEN s[i] ELSE t[i - n]
  BY <1>10, <1>11, ConcatProperties
<1>13. ASSUME NEW i \in 1..(n + m) PROVE l[i] = r[i]
  <2>1. CASE i <= n
    <3>1. i \in 1..n
      BY <1>6, <2>1
    <3>2. f[i] = g[i] /\ l[i] = s[i]
      BY <1>9, <1>12, <2>1
    <3>3. QED
      BY <1>9, <1>10, <3>1, <3>2
  <2>2. CASE ~(i <= n)
    <3>1. PICK j : j = i - n
      OBVIOUS
    <3>2. j \in 1..m
      BY <1>6, <2>2, <3>1
    <3>3. f[i] = h[j] /\ l[i] = t[j]
      BY <1>9, <1>12, <2>2, <3>1
    <3>4. QED
      BY <1>9, <1>10, <3>2, <3>3
  <2>3. QED
    BY <2>1, <2>2
<1>14. l = r
  <2>1. Len(l) = Len(r) /\ \A i \in 1..Len(l) : l[i] = r[i]
    BY <1>9, <1>10, <1>12, <1>13
  <2>2. QED
    BY <1>10, <1>12, <2>1, SeqEqual
<1>15. QED
  BY <1>1, <1>5, <1>11, <1>14

LEMMA ShowingFew ==
    ASSUME NEW shown
    PROVE  /\ Showing(shown, {}) = <<>>
           /\ \A v \in Seq(Ordered) \cap DOMAIN shown : Showing(shown, {v}) = <<shown[v]>>
<1>1. Showing(shown, {}) = <<>>
  <2>1. PICK s : s = Showing(shown, {})
    OBVIOUS
  <2>2. IsFiniteSet({}) /\ Cardinality({}) = 0
    BY FS_EmptySet
  <2>3. s \in Seq(Range(shown)) /\ Len(s) = 0
    BY <2>1, <2>2, ShowingIs
  <2>4. QED
    BY <2>1, <2>3, EmptySeq
<1>2. ASSUME NEW v \in Seq(Ordered) \cap DOMAIN shown
      PROVE  Showing(shown, {v}) = <<shown[v]>>
  <2>1. PICK s, A, w : s = Showing(shown, A) /\ A = {v} /\ w = shown[v]
    OBVIOUS
  <2>2. IsFiniteSet(A) /\ Cardinality(A) = 1
    BY <2>1, FS_Singleton
  <2>3. A \subseteq Seq(Ordered) /\ A \subseteq DOMAIN shown
    BY <2>1
  <2>4. s \in Seq(Range(shown)) /\ Len(s) = 1 /\ Alphabet(A)[1] \in A /\ s[1] = shown[Alphabet(A)[1]]
    <3>1. /\ s \in Seq(Range(shown)) /\ Len(s) = 1
          /\ \A k \in 1..1 : Alphabet(A)[k] \in A /\ s[k] = shown[Alphabet(A)[k]]
      <4>1. IsFiniteSet(A)
        BY <2>2
      <4>2. /\ Showing(shown, A) \in Seq(Range(shown))
            /\ Len(Showing(shown, A)) = Cardinality(A)
            /\ \A k \in 1..Cardinality(A) :
                  /\ Alphabet(A)[k] \in A
                  /\ Showing(shown, A)[k] = shown[Alphabet(A)[k]]
        BY <2>3, <4>1, ShowingIs
      <4>3. QED
        BY <2>1, <2>2, <4>2
    <3>2. 1 \in 1..1
      OBVIOUS
    <3>3. QED
      BY <3>1, <3>2
  <2>5. s[1] = w /\ w \in Range(shown)
    BY <2>1, <2>4 DEF Range
  <2>6. <<w>> \in Seq(Range(shown)) /\ Len(<<w>>) = 1 /\ <<w>>[1] = w
    BY <2>5
  <2>7. s = <<w>>
    <3>1. \A i \in 1..Len(s) : s[i] = <<w>>[i]
      BY <2>4, <2>5, <2>6
    <3>2. QED
      BY <2>4, <2>6, <3>1, SeqEqual
  <2>8. QED
    BY <2>1, <2>7
<1>3. QED
  BY <1>1, <1>2

(* What is left of a list cut to a limit, and what of one that goes on.    *)
LEMMA CutIs ==
    ASSUME NEW S, NEW x \in Seq(S), NEW limit \in Nat
    PROVE  /\ CutTo(limit, x) \in Seq(S)
           /\ Len(CutTo(limit, x)) = IF limit <= Len(x) THEN limit ELSE Len(x)
           /\ \A k \in 1..Len(CutTo(limit, x)) : CutTo(limit, x)[k] = x[k]
           /\ Len(x) <= limit => CutTo(limit, x) = x
<1>1. PICK n, m, y : n = Len(x) /\ m = (IF limit <= n THEN limit ELSE n) /\ y = CutTo(limit, x)
  OBVIOUS
<1>2. n \in Nat /\ m \in Nat /\ m <= n /\ \A k \in 1..n : x[k] \in S
  BY <1>1, LenProperties, ElementOfSeq
<1>3. y = SubSeq(x, 1, m)
  BY <1>1, <1>2, SmallerIs DEF CutTo
<1>4. m \in Int /\ 1 \in Int /\ \A k \in 1..m : x[k] \in S
  BY <1>2
<1>5. /\ y \in Seq(S) /\ Len(y) = IF 1 <= m THEN m - 1 + 1 ELSE 0
      /\ \A k \in 1..(m - 1 + 1) : y[k] = x[1 + k - 1]
  BY <1>3, <1>4, SubSeqProperties
<1>6. Len(y) = m /\ \A k \in 1..m : y[k] = x[k]
  BY <1>2, <1>5
<1>7. n <= limit => y = x
  <2>1. n <= limit => m = n
    BY <1>1, <1>2
  <2>2. m = n => y = x
    BY <1>1, <1>5, <1>6, SeqEqual
  <2>3. QED
    BY <2>1, <2>2
<1>8. QED
  BY <1>1, <1>5, <1>6, <1>7

LEMMA CutJoins ==
    ASSUME NEW S, NEW x \in Seq(S), NEW y \in Seq(S), NEW limit \in Nat
    PROVE  /\ CutTo(limit, CutTo(limit, x) \o y) = CutTo(limit, x \o y)
           /\ limit = Len(x) => CutTo(limit, x \o y) = x
<1>1. Len(x) \in Nat /\ Len(y) \in Nat
  BY LenProperties
<1>2. ASSUME limit <= Len(x), NEW z \in Seq(S), z = CutTo(limit, x)
      PROVE  CutTo(limit, z \o y) = z /\ CutTo(limit, x \o y) = z
  <2>1. /\ Len(z) = limit /\ \A k \in 1..limit : z[k] = x[k]
    BY <1>2, CutIs
  <2>2. /\ z \o y \in Seq(S) /\ Len(z \o y) = limit + Len(y)
        /\ \A i \in 1..(limit + Len(y)) : (z \o y)[i] = IF i <= limit THEN z[i] ELSE y[i - limit]
    BY <2>1, ConcatProperties
  <2>3. /\ x \o y \in Seq(S) /\ Len(x \o y) = Len(x) + Len(y)
        /\ \A i \in 1..(Len(x) + Len(y)) :
              (x \o y)[i] = IF i <= Len(x) THEN x[i] ELSE y[i - Len(x)]
    BY ConcatProperties
  <2>4. PICK u, v, p, q : u = z \o y /\ v = x \o y /\ p = CutTo(limit, u) /\ q = CutTo(limit, v)
    OBVIOUS
  <2>5. limit <= Len(u) /\ limit <= Len(v)
    BY <1>1, <1>2, <2>2, <2>3, <2>4
  <2>6. /\ p \in Seq(S) /\ Len(p) = limit /\ \A k \in 1..limit : p[k] = u[k]
        /\ q \in Seq(S) /\ Len(q) = limit /\ \A k \in 1..limit : q[k] = v[k]
    BY <2>2, <2>3, <2>4, <2>5, CutIs
  <2>7. ASSUME NEW k \in 1..limit PROVE p[k] = z[k] /\ q[k] = z[k]
    <3>1. k \in 1..(limit + Len(y)) /\ k <= limit /\ k \in 1..(Len(x) + Len(y)) /\ k <= Len(x)
      BY <1>1, <1>2
    <3>2. u[k] = z[k] /\ v[k] = x[k]
      BY <2>2, <2>3, <2>4, <3>1
    <3>3. QED
      BY <2>1, <2>6, <3>2
  <2>8. p = z /\ q = z
    BY <2>1, <2>6, <2>7, SeqEqual
  <2>9. QED
    BY <2>4, <2>8
<1>3. CASE limit <= Len(x)
  <2>1. CutTo(limit, x) \in Seq(S) /\ (limit = Len(x) => CutTo(limit, x) = x)
    BY <1>1, <1>3, CutIs
  <2>2. QED
    BY <1>2, <1>3, <2>1
<1>4. CASE ~(limit <= Len(x))
  <2>1. CutTo(limit, x) = x /\ limit # Len(x)
    BY <1>1, <1>4, CutIs
  <2>2. QED
    BY <2>1
<1>5. QED
  BY <1>3, <1>4

-----------------------------------------------------------------------------
(* Tries, and the words below a node.                                      *)

(* The words with a prefix. *)
Below(words, v) == { w \in words : IsPrefix(v, w) }

LEMMA ExtendsBy ==
    ASSUME NEW v \in Seq(Ordered), NEW w \in Seq(Ordered), NEW c \in Ordered
    PROVE  /\ Append(v, c) \in Seq(Ordered) /\ IsPrefix(v, v)
           /\ IsPrefix(Append(v, c), w) <=>
                 IsPrefix(v, w) /\ Len(v) < Len(w) /\ w[Len(v) + 1] = c
<1>1. PICK n, x : n = Len(v) + 1 /\ x = Append(v, c)
  OBVIOUS
<1>2. /\ x \in Seq(Ordered) /\ Len(x) = n /\ x[n] = c
      /\ \A i \in 1..Len(v) : x[i] = v[i]
  BY <1>1, AppendProperties
<1>3. /\ IsPrefix(v, w) <=> Len(v) <= Len(w) /\ \A j \in 1..Len(v) : v[j] = w[j]
      /\ IsPrefix(x, w) <=> Len(x) <= Len(w) /\ \A j \in 1..Len(x) : x[j] = w[j]
      /\ IsPrefix(v, v)
  BY <1>2, PrefixIs, LenProperties
<1>4. Len(v) \in Nat /\ Len(w) \in Nat
  BY LenProperties
<1>5. ASSUME IsPrefix(x, w) PROVE IsPrefix(v, w) /\ Len(v) < Len(w) /\ w[n] = c
  <2>1. n <= Len(w) /\ \A j \in 1..n : x[j] = w[j]
    BY <1>2, <1>3, <1>5
  <2>2. n \in 1..n /\ Len(v) <= Len(w) /\ Len(v) < Len(w) /\ \A j \in 1..Len(v) : j \in 1..n
    BY <1>1, <1>4, <2>1
  <2>3. QED
    BY <1>2, <1>3, <2>1, <2>2
<1>6. ASSUME IsPrefix(v, w), Len(v) < Len(w), w[n] = c PROVE IsPrefix(x, w)
  <2>1. n <= Len(w) /\ \A j \in 1..n : j \in 1..Len(v) \/ j = n
    BY <1>1, <1>4, <1>6
  <2>2. \A j \in 1..Len(v) : v[j] = w[j]
    BY <1>3, <1>6
  <2>3. \A j \in 1..n : x[j] = w[j]
    BY <1>2, <1>6, <2>1, <2>2
  <2>4. QED
    BY <1>2, <1>3, <2>1, <2>3
<1>7. QED
  BY <1>1, <1>2, <1>3, <1>5, <1>6

(* A word comes before those it is a prefix of, and what goes on with a    *)
(* smaller character before what goes on with a greater one.               *)
LEMMA ExtensionsFollow ==
    ASSUME NEW v \in Seq(Ordered), NEW x \in Seq(Ordered), NEW c \in Ordered,
           IsPrefix(Append(v, c), x)
    PROVE  /\ Precedes(v, x)
           /\ \A d \in Ordered, y \in Seq(Ordered) :
                 IsPrefix(Append(v, d), y) /\ Code[c] < Code[d] => Precedes(x, y)
<1>1. PICK n : n = Len(v) + 1
  OBVIOUS
<1>2. IsPrefix(v, x) /\ Len(v) < Len(x) /\ x[n] = c
  BY <1>1, ExtendsBy
<1>3. Precedes(v, x)
  BY <1>2 DEF Precedes, IsStrictPrefix
<1>4. ASSUME NEW d \in Ordered, NEW y \in Seq(Ordered),
             IsPrefix(Append(v, d), y), Code[c] < Code[d]
      PROVE  Precedes(x, y)
  <2>1. IsPrefix(v, y) /\ Len(v) < Len(y) /\ y[n] = d
    BY <1>1, <1>4, ExtendsBy
  <2>2. /\ \A j \in 1..Len(v) : v[j] = x[j]
        /\ \A j \in 1..Len(v) : v[j] = y[j]
    BY <1>2, <2>1, PrefixIs
  <2>3. /\ Len(v) \in Nat /\ Len(x) \in Nat /\ Len(y) \in Nat
        /\ DOMAIN x = 1..Len(x) /\ DOMAIN y = 1..Len(y)
    BY LenProperties
  <2>4. n \in (DOMAIN x) \cap (DOMAIN y) /\ n - 1 = Len(v)
    BY <1>1, <1>2, <2>1, <2>3
  <2>5. \A j \in 1..(n - 1) : x[j] = y[j]
    BY <2>2, <2>4
  <2>6. Code[x[n]] < Code[y[n]]
    BY <1>2, <1>4, <2>1
  <2>7. QED
    BY <2>4, <2>5, <2>6 DEF Precedes
<1>5. QED
  BY <1>3, <1>4

(* The prefixes of a word, and that they are finitely many.                *)
LEMMA PrefixesAre ==
    ASSUME NEW S, NEW w \in Seq(S)
    PROVE  /\ Prefixes(w) \subseteq Seq(S) /\ IsFiniteSet(Prefixes(w))
           /\ \A v \in Seq(S) : v \in Prefixes(w) <=> IsPrefix(v, w)
<1>1. PICK n : n = Len(w)
  OBVIOUS
<1>2. n \in Nat /\ \A k \in 1..n : w[k] \in S
  BY <1>1, LenProperties, ElementOfSeq
<1>3. PICK f : f = [l \in 0..n |-> SubSeq(w, 1, l)]
  OBVIOUS
<1>4. Prefixes(w) = { f[l] : l \in 0..n }
  BY <1>1, <1>3 DEF Prefixes
<1>5. ASSUME NEW l \in 0..n
      PROVE  f[l] \in Seq(S) /\ Len(f[l]) = l /\ \A k \in 1..l : f[l][k] = w[k]
  <2>1. l \in Int /\ 1 \in Int /\ \A k \in 1..l : w[k] \in S
    BY <1>2
  <2>2. PICK part : part = SubSeq(w, 1, l)
    OBVIOUS
  <2>3. /\ part \in Seq(S) /\ Len(part) = IF 1 <= l THEN l - 1 + 1 ELSE 0
        /\ \A k \in 1..(l - 1 + 1) : part[k] = w[1 + k - 1]
    BY <2>1, <2>2, SubSeqProperties
  <2>4. Len(part) = l /\ \A k \in 1..l : part[k] = w[k]
    BY <2>3
  <2>5. QED
    BY <1>3, <2>2, <2>3, <2>4
<1>6. IsFiniteSet(Prefixes(w))
  <2>1. IsFiniteSet(0..n)
    BY <1>2, FS_Interval
  <2>2. f \in Surjection(0..n, Prefixes(w))
    BY <1>3, <1>4, Fun_IsSurj
  <2>3. QED
    BY <2>1, <2>2, FS_Surjection
<1>7. ASSUME NEW v \in Seq(S) PROVE v \in Prefixes(w) <=> IsPrefix(v, w)
  <2>1. Len(v) \in Nat
    BY LenProperties
  <2>2. IsPrefix(v, w) <=> Len(v) <= n /\ \A j \in 1..Len(v) : v[j] = w[j]
    BY <1>1, PrefixIs
  <2>3. ASSUME v \in Prefixes(w) PROVE IsPrefix(v, w)
    <3>1. PICK l \in 0..n : v = f[l]
      BY <1>4, <2>3
    <3>2. QED
      BY <1>5, <2>2, <3>1
  <2>4. ASSUME IsPrefix(v, w) PROVE v \in Prefixes(w)
    <3>1. PICK l : l = Len(v)
      OBVIOUS
    <3>2. l \in 0..n /\ \A j \in 1..l : v[j] = w[j]
      BY <1>2, <2>1, <2>2, <2>4, <3>1
    <3>3. /\ f[l] \in Seq(S) /\ Len(f[l]) = l /\ \A k \in 1..l : f[l][k] = w[k]
      BY <1>5, <3>2
    <3>4. v = f[l]
      BY <3>1, <3>2, <3>3, SeqEqual
    <3>5. QED
      BY <1>4, <3>2, <3>4
  <2>5. QED
    BY <2>3, <2>4
<1>8. Prefixes(w) \subseteq Seq(S)
  BY <1>4, <1>5
<1>9. QED
  BY <1>6, <1>7, <1>8

(* A trie of finitely many words: its nodes are their prefixes.            *)
Leads(t) ==
    /\ DOMAIN t.shown \subseteq Seq(Ordered) /\ IsFiniteSet(DOMAIN t.shown)
    /\ t.nodes = {<<>>} \cup UNION { Prefixes(w) : w \in DOMAIN t.shown }

LEMMA NodesAre ==
    ASSUME NEW t, Leads(t)
    PROVE  /\ t.nodes \subseteq Seq(Ordered) /\ IsFiniteSet(t.nodes) /\ <<>> \in t.nodes
           /\ \A v \in Seq(Ordered) : v \in t.nodes <=> v = <<>> \/ Below(DOMAIN t.shown, v) # {}
<1>1. PICK D : D = DOMAIN t.shown
  OBVIOUS
<1>2. /\ D \subseteq Seq(Ordered) /\ IsFiniteSet(D)
      /\ t.nodes = {<<>>} \cup UNION { Prefixes(w) : w \in D }
  BY <1>1 DEF Leads
<1>3. \A w \in D : /\ Prefixes(w) \subseteq Seq(Ordered) /\ IsFiniteSet(Prefixes(w))
                   /\ \A v \in Seq(Ordered) : v \in Prefixes(w) <=> IsPrefix(v, w)
  BY <1>2, PrefixesAre
<1>4. IsFiniteSet(t.nodes)
  <2>1. PICK P : P = { Prefixes(w) : w \in D }
    OBVIOUS
  <2>2. PICK f : f = [w \in D |-> Prefixes(w)]
    OBVIOUS
  <2>3. f \in Surjection(D, P)
    BY <2>1, <2>2, Fun_IsSurj
  <2>4. IsFiniteSet(P)
    BY <1>2, <2>3, FS_Surjection
  <2>5. \A T \in P : IsFiniteSet(T)
    BY <1>3, <2>1
  <2>6. IsFiniteSet(UNION P)
    BY <2>4, <2>5, FS_UNION
  <2>7. IsFiniteSet((UNION P) \cup {<<>>})
    BY <2>6, FS_AddElement
  <2>8. QED
    BY <1>2, <2>1, <2>7
<1>5. <<>> \in Seq(Ordered)
  BY EmptySeq
<1>6. QED
  BY <1>1, <1>2, <1>3, <1>4, <1>5 DEF Below

(* The children of a node: the characters its words go on with, in the     *)
(* order of their codes.                                                   *)
Descends(children, N, t, v) ==
    /\ N \in Nat /\ children \in [1..N -> Ordered] /\ Len(children) = N
    /\ \A n \in 1..N : Append(v, children[n]) \in t.nodes
    /\ \A i, j \in 1..N : i < j => Code[children[i]] < Code[children[j]]
    /\ \A c \in Ordered : Append(v, c) \in t.nodes => \E n \in 1..N : children[n] = c

LEMMA ChildrenAre ==
    ASSUME NEW t, Leads(t), NEW v \in Seq(Ordered)
    PROVE  \E N : Descends(Children(t, v), N, t, v)
<1>1. PICK next : next = { c \in Ordered : Append(v, c) \in t.nodes }
  OBVIOUS
<1>2. PICK before : before = { p \in next \X next : Code[p[1]] < Code[p[2]] }
  OBVIOUS
<1>3. Children(t, v) = Sorted(next, before)
  BY <1>1, <1>2 DEF Children, Ordered
<1>4. PICK D : D = DOMAIN t.shown
  OBVIOUS
<1>5. D \subseteq Seq(Ordered) /\ IsFiniteSet(D)
  BY <1>4 DEF Leads
<1>6. PICK B : B = { w \in D : IsPrefix(v, w) /\ Len(v) < Len(w) }
  OBVIOUS
<1>7. PICK f : f = [w \in B |-> w[Len(v) + 1]]
  OBVIOUS
<1>8. ASSUME NEW c \in Ordered
      PROVE  Append(v, c) \in t.nodes <=> \E w \in B : f[w] = c
  <2>1. /\ Append(v, c) \in Seq(Ordered) /\ Append(v, c) # <<>>
    <3>1. Append(v, c) \in Seq(Ordered) /\ Len(Append(v, c)) = Len(v) + 1 /\ Len(v) \in Nat
      BY AppendProperties, LenProperties
    <3>2. Len(<<>>) = 0
      BY EmptySeq
    <3>3. QED
      BY <3>1, <3>2
  <2>2. Append(v, c) \in t.nodes <=> \E w \in D : IsPrefix(Append(v, c), w)
    BY <1>4, <2>1, NodesAre DEF Below
  <2>3. \A w \in D : IsPrefix(Append(v, c), w) <=>
                        IsPrefix(v, w) /\ Len(v) < Len(w) /\ w[Len(v) + 1] = c
    BY <1>5, ExtendsBy
  <2>4. QED
    BY <1>6, <1>7, <2>2, <2>3
<1>9. \A w \in B : f[w] \in Ordered
  <2>1. ASSUME NEW w \in B PROVE f[w] \in Ordered
    <3>1. w \in Seq(Ordered) /\ Len(v) < Len(w) /\ Len(v) \in Nat /\ Len(w) \in Nat
      BY <1>5, <1>6, LenProperties
    <3>2. Len(v) + 1 \in 1..Len(w)
      BY <3>1
    <3>3. w[Len(v) + 1] \in Ordered
      BY <3>1, <3>2, ElementOfSeq
    <3>4. QED
      BY <1>7, <3>3
  <2>2. QED
    BY <2>1
<1>10. IsFiniteSet(next)
  <2>1. next = { f[w] : w \in B }
    BY <1>1, <1>8, <1>9
  <2>2. f \in Surjection(B, next)
    BY <1>7, <2>1, Fun_IsSurj
  <2>3. IsFiniteSet(B)
    BY <1>5, <1>6, FS_Subset
  <2>4. QED
    BY <2>2, <2>3, FS_Surjection
<1>11. \A x, y \in next : <<x, y>> \in before <=> Code[x] < Code[y]
  BY <1>2
<1>12. \A x \in next : Code[x] \in Int
  BY <1>1, CodeAssumption DEF Ordered
<1>13. \A x, y \in next : x # y => Code[x] # Code[y]
  BY <1>1, CodeAssumption DEF IsInjective, Ordered
<1>14. \A x, y \in next : <<x, y>> \in before => x # y /\ <<y, x>> \notin before
  BY <1>11, <1>12
<1>15. \A x, y, z \in next : <<x, y>> \in before /\ <<y, z>> \in before => <<x, z>> \in before
  BY <1>11, <1>12
<1>16. \A x, y \in next : x # y => <<x, y>> \in before \/ <<y, x>> \in before
  BY <1>11, <1>12, <1>13
<1>17. PICK N, children : N = Cardinality(next) /\ children = Sorted(next, before)
  OBVIOUS
<1>18. /\ N \in Nat /\ children \in [1..N -> next]
       /\ \A i, j \in 1..N : i < j <=> <<children[i], children[j]>> \in before
       /\ \A x \in next : \E k \in 1..N : children[k] = x
  BY <1>10, <1>14, <1>15, <1>16, <1>17, SortedIs
<1>19. Len(children) = N
  BY <1>18, SeqIs
<1>20. Descends(children, N, t, v)
  BY <1>1, <1>11, <1>18, <1>19 DEF Descends
<1>21. QED
  BY <1>3, <1>17, <1>20

(* The words reached once a node and n of its children are visited.        *)
Reached(t, v, children, n) ==
    { w \in DOMAIN t.shown : w = v \/ \E m \in 1..n : IsPrefix(Append(v, children[m]), w) }

LEMMA ReachedIs ==
    ASSUME NEW t, Leads(t), NEW v \in Seq(Ordered), NEW children, NEW N,
           Descends(children, N, t, v)
    PROVE  /\ Reached(t, v, children, 0) = {v} \cap DOMAIN t.shown
           /\ Reached(t, v, children, N) = Below(DOMAIN t.shown, v)
           /\ \A n \in 1..N :
                /\ Reached(t, v, children, n) =
                     Reached(t, v, children, n - 1)
                       \cup Below(DOMAIN t.shown, Append(v, children[n]))
                /\ \A x \in Reached(t, v, children, n - 1),
                      y \in Below(DOMAIN t.shown, Append(v, children[n])) : Precedes(x, y)
<1>1. PICK D : D = DOMAIN t.shown
  OBVIOUS
<1>2. D \subseteq Seq(Ordered)
  BY <1>1 DEF Leads
<1>3. /\ N \in Nat /\ \A n \in 1..N : children[n] \in Ordered
      /\ \A i, j \in 1..N : i < j => Code[children[i]] < Code[children[j]]
      /\ \A c \in Ordered : Append(v, c) \in t.nodes => \E n \in 1..N : children[n] = c
  BY DEF Descends
<1>4. Reached(t, v, children, 0) = {v} \cap D
  <2>1. 1..0 = {}
    OBVIOUS
  <2>2. QED
    BY <1>1, <2>1 DEF Reached
<1>5. ASSUME NEW w \in D
      PROVE  IsPrefix(v, w) <=> w = v \/ \E m \in 1..N : IsPrefix(Append(v, children[m]), w)
  <2>1. w \in Seq(Ordered)
    BY <1>2
  <2>2. ASSUME NEW m \in 1..N, IsPrefix(Append(v, children[m]), w) PROVE IsPrefix(v, w)
    BY <1>3, <2>1, <2>2, ExtendsBy
  <2>3. IsPrefix(v, v)
    BY PrefixIs, LenProperties
  <2>4. ASSUME IsPrefix(v, w), w # v PROVE \E m \in 1..N : IsPrefix(Append(v, children[m]), w)
    <3>1. /\ Len(v) \in Nat /\ Len(w) \in Nat /\ Len(v) <= Len(w)
          /\ \A j \in 1..Len(v) : v[j] = w[j]
      BY <2>1, <2>4, PrefixIs, LenProperties
    <3>2. Len(v) # Len(w)
      BY <2>1, <2>4, <3>1, SeqEqual
    <3>3. Len(v) + 1 \in 1..Len(w) /\ Len(v) < Len(w)
      BY ONLY <3>1, <3>2
    <3>4. PICK c : c = w[Len(v) + 1]
      OBVIOUS
    <3>5. c \in Ordered
      BY <2>1, <3>3, <3>4, ElementOfSeq
    <3>6. IsPrefix(Append(v, c), w) /\ Append(v, c) \in Seq(Ordered)
      BY <2>1, <2>4, <3>3, <3>4, <3>5, ExtendsBy
    <3>7. Append(v, c) \in t.nodes
      BY <1>1, <3>6, NodesAre DEF Below
    <3>8. QED
      BY <1>3, <3>5, <3>6, <3>7
  <2>5. QED
    BY <2>2, <2>3, <2>4
<1>6. Reached(t, v, children, N) = Below(D, v)
  BY <1>1, <1>5 DEF Reached, Below
<1>7. ASSUME NEW n \in 1..N
      PROVE  /\ Reached(t, v, children, n) =
                  Reached(t, v, children, n - 1) \cup Below(D, Append(v, children[n]))
             /\ \A x \in Reached(t, v, children, n - 1), y \in Below(D, Append(v, children[n])) :
                    Precedes(x, y)
  <2>1. 1..n = 1..(n - 1) \cup {n} /\ \A m \in 1..(n - 1) : m \in 1..N /\ m < n
    BY <1>3
  <2>2. Reached(t, v, children, n) =
            Reached(t, v, children, n - 1) \cup Below(D, Append(v, children[n]))
    BY <1>1, <2>1 DEF Reached, Below
  <2>3. ASSUME NEW x \in Reached(t, v, children, n - 1),
               NEW y \in Below(D, Append(v, children[n]))
        PROVE  Precedes(x, y)
    <3>1. y \in Seq(Ordered) /\ IsPrefix(Append(v, children[n]), y) /\ children[n] \in Ordered
      BY <1>2, <1>3 DEF Below
    <3>2. x \in Seq(Ordered)
      BY <1>1, <1>2 DEF Reached
    <3>3. CASE x = v
      BY <3>1, <3>3, ExtensionsFollow
    <3>4. CASE x # v
      <4>1. PICK m \in 1..(n - 1) : IsPrefix(Append(v, children[m]), x)
        BY <3>4 DEF Reached
      <4>2. children[m] \in Ordered /\ Code[children[m]] < Code[children[n]]
        BY <1>3, <2>1
      <4>3. QED
        BY <3>1, <3>2, <4>1, <4>2, ExtensionsFollow
    <3>5. QED
      BY <3>3, <3>4
  <2>4. QED
    BY <2>2, <2>3
<1>8. QED
  BY <1>1, <1>4, <1>6, <1>7

-----------------------------------------------------------------------------
(* The walk of collect_terms.                                              *)

(* What visiting a node makes of the suggestions found so far, when        *)
(* visiting its children is known (collect_terms).                         *)
Visited(collect, t, limit, word, suggestions) ==
    IF Len(suggestions) >= limit THEN suggestions
    ELSE LET children == Children(t, word)
             after[n \in 0..Len(children)] ==
                IF n > 0 THEN collect[Append(word, children[n])][after[n - 1]]
                ELSE IF word \in DOMAIN t.shown
                     THEN Append(suggestions, t.shown[word]) ELSE suggestions
         IN  after[Len(children)]

(* What it makes of them: the words below it follow, up to the limit.      *)
Collected(t, limit, word, suggestions) ==
    IF Len(suggestions) >= limit THEN suggestions
    ELSE CutTo(limit, suggestions \o Showing(t.shown, Below(DOMAIN t.shown, word)))

LEMMA CollectedIs ==
    ASSUME NEW t, Leads(t), NEW limit \in Nat, NEW v \in Seq(Ordered),
           NEW s \in Seq(Range(t.shown))
    PROVE  /\ Showing(t.shown, Below(DOMAIN t.shown, v)) \in Seq(Range(t.shown))
           /\ Collected(t, limit, v, s) \in Seq(Range(t.shown))
           /\ Len(s) <= limit => Collected(t, limit, v, s) =
                CutTo(limit, s \o Showing(t.shown, Below(DOMAIN t.shown, v)))
<1>1. PICK A, R : A = Below(DOMAIN t.shown, v) /\ R = Range(t.shown)
  OBVIOUS
<1>2. A \subseteq Seq(Ordered) /\ IsFiniteSet(A) /\ A \subseteq DOMAIN t.shown
  BY <1>1, FS_Subset DEF Leads, Below
<1>3. PICK x : x = Showing(t.shown, A)
  OBVIOUS
<1>4. x \in Seq(R)
  BY <1>1, <1>2, <1>3, ShowingIs
<1>5. s \in Seq(R) /\ s \o x \in Seq(R)
  BY <1>1, <1>4, ConcatProperties
<1>6. CutTo(limit, s \o x) \in Seq(R)
  BY <1>5, CutIs
<1>7. limit = Len(s) => CutTo(limit, s \o x) = s
  BY <1>4, <1>5, CutJoins
<1>8. Collected(t, limit, v, s) = IF Len(s) >= limit THEN s ELSE CutTo(limit, s \o x)
  BY <1>1, <1>3 DEF Collected
<1>9. Len(s) \in Nat
  BY LenProperties
<1>10. QED
  BY <1>1, <1>3, <1>4, <1>5, <1>6, <1>7, <1>8, <1>9

(* What is cut already may be cut again once more has joined it.           *)
JoinsCut(A, limit, s, p, q) ==
    /\ CutTo(limit, s \o p) \in A
    /\ Len(CutTo(limit, s \o p)) <= limit
    /\ CutTo(limit, CutTo(limit, s \o p) \o q) = CutTo(limit, s \o (p \o q))

LEMMA JoinsCutIs ==
    ASSUME NEW R, NEW limit \in Nat, NEW s \in Seq(R), NEW p \in Seq(R), NEW q \in Seq(R)
    PROVE  JoinsCut(Seq(R), limit, s, p, q)
<1>1. s \o p \in Seq(R)
  BY ConcatProperties
<1>2. s \o (p \o q) = (s \o p) \o q
  BY ConcatAssociative
<1>3. PICK u : u = s \o p
  OBVIOUS
<1>4. u \in Seq(R) /\ Len(u) \in Nat
  BY <1>1, <1>3, LenProperties
<1>5. /\ CutTo(limit, u) \in Seq(R)
      /\ Len(CutTo(limit, u)) = IF limit <= Len(u) THEN limit ELSE Len(u)
  BY <1>4, CutIs
<1>6. Len(CutTo(limit, u)) <= limit
  BY <1>4, <1>5
<1>7. CutTo(limit, CutTo(limit, u) \o q) = CutTo(limit, u \o q)
  BY <1>4, CutJoins
<1>8. QED
  BY <1>2, <1>3, <1>5, <1>6, <1>7 DEF JoinsCut

(* Visiting the children one after another collects the words below them.  *)
CollectsBelow(collect, t, limit, v) ==
    \A c \in Ordered : Append(v, c) \in t.nodes =>
        \A x \in Seq(Range(t.shown)) :
            collect[Append(v, c)][x] = Collected(t, limit, Append(v, c), x)

LEMMA VisitedIs ==
    ASSUME NEW t, Leads(t), NEW limit \in Nat, NEW v \in Seq(Ordered),
           NEW s \in Seq(Range(t.shown)), NEW collect, CollectsBelow(collect, t, limit, v)
    PROVE  Visited(collect, t, limit, v, s) = Collected(t, limit, v, s)
<1>1. CASE Len(s) >= limit
  BY <1>1 DEF Visited, Collected
<1>2. CASE ~(Len(s) >= limit)
  <2>1. PICK D, A : D = DOMAIN t.shown /\ A = Seq(Range(t.shown))
    OBVIOUS
  <2>2. D \subseteq Seq(Ordered) /\ IsFiniteSet(D) /\ Len(s) \in Nat /\ Len(s) < limit /\ s \in A
    BY <1>2, <2>1, LenProperties DEF Leads
  <2>3. PICK children, N : children = Children(t, v) /\ Descends(children, N, t, v)
    BY ChildrenAre
  <2>4. /\ N \in Nat /\ Len(children) = N
        /\ \A n \in 1..N : children[n] \in Ordered /\ Append(v, children[n]) \in t.nodes
                           /\ Append(v, children[n]) \in Seq(Ordered)
    BY <2>3, AppendProperties DEF Descends
  <2>5. PICK base : base = IF v \in D THEN Append(s, t.shown[v]) ELSE s
    OBVIOUS
  <2> DEFINE step(x, n) == collect[Append(v, children[n])][x]
             after == CHOOSE after : after = [n \in 0..N |->
                          IF n > 0 THEN step(after[n - 1], n) ELSE base]
  <2>6. Visited(collect, t, limit, v, s) = after[N]
    BY <1>2, <2>1, <2>3, <2>4, <2>5 DEF Visited
  <2>7. ASSUME NEW x \in A, NEW n \in 1..N
        PROVE  /\ step(x, n) = Collected(t, limit, Append(v, children[n]), x)
               /\ step(x, n) \in A
    <3>1. step(x, n) = Collected(t, limit, Append(v, children[n]), x)
      BY <2>1, <2>4 DEF CollectsBelow
    <3>2. Collected(t, limit, Append(v, children[n]), x) \in A
      BY <2>1, <2>4, CollectedIs
    <3>3. QED
      BY <3>1, <3>2
  <2> HIDE DEF step
  <2> DEFINE reached(n) == Reached(t, v, children, n)
             partly(n) == CutTo(limit, s \o Showing(t.shown, reached(n)))
  <2>8. ASSUME NEW n \in 0..N
        PROVE  /\ reached(n) \subseteq Seq(Ordered) /\ IsFiniteSet(reached(n))
               /\ reached(n) \subseteq D /\ Showing(t.shown, reached(n)) \in A
    <3>1. PICK B : B = reached(n)
      OBVIOUS
    <3>2. B \subseteq D
      BY <2>1, <3>1 DEF Reached
    <3>3. B \subseteq Seq(Ordered) /\ IsFiniteSet(B)
      BY <2>2, <3>2, FS_Subset
    <3>4. Showing(t.shown, B) \in A
      BY <2>1, <3>2, <3>3, ShowingIs
    <3>5. QED
      BY <3>1, <3>2, <3>3, <3>4
  <2>9. base = partly(0) /\ base \in A
    <3>1. reached(0) = {v} \cap D
      BY <2>1, <2>3, ReachedIs
    <3>2. CASE v \in D
      <4>1. reached(0) = {v} /\ Showing(t.shown, {v}) = <<t.shown[v]>> /\ base = Append(s, t.shown[v])
        BY <2>1, <2>5, <3>1, <3>2, ShowingFew
      <4>2. PICK w : w = t.shown[v]
        OBVIOUS
      <4>3. w \in Range(t.shown)
        BY <2>1, <3>2, <4>2 DEF Range
      <4>4. Append(s, w) = s \o <<w>> /\ Append(s, w) \in A /\ Len(Append(s, w)) = Len(s) + 1
        BY <2>1, <4>3, AppendProperties, AppendIsConcat
      <4>5. CutTo(limit, Append(s, w)) = Append(s, w)
        <5>1. Len(Append(s, w)) <= limit
          BY <2>2, <4>4
        <5>2. QED
          BY <2>1, <4>4, <5>1, CutIs
      <4>6. QED
        BY <4>1, <4>2, <4>4, <4>5
    <3>3. CASE v \notin D
      <4>1. reached(0) = {} /\ Showing(t.shown, {}) = <<>> /\ base = s
        BY <2>5, <3>1, <3>3, ShowingFew
      <4>2. s \o <<>> = s
        BY ConcatEmptySeq
      <4>3. CutTo(limit, s) = s
        BY <2>2, CutIs
      <4>4. QED
        BY <2>2, <4>1, <4>2, <4>3
    <3>4. QED
      BY <3>2, <3>3
  <2>10. ASSUME NEW n \in 1..N, NEW x, x = partly(n - 1)
         PROVE  x \in A /\ step(x, n) = partly(n)
    <3>1. n - 1 \in 0..N /\ n \in 0..N
      BY <2>4
    <3>2. PICK B, C : B = reached(n - 1) /\ C = Below(D, Append(v, children[n]))
      OBVIOUS
    <3>3. /\ B \subseteq Seq(Ordered) /\ IsFiniteSet(B) /\ B \subseteq D
          /\ Showing(t.shown, B) \in A
      BY <2>8, <3>1, <3>2
    <3>4. C \subseteq D /\ C \subseteq Seq(Ordered) /\ IsFiniteSet(C)
      BY <2>2, <3>2, FS_Subset DEF Below
    <3>5. reached(n) = B \cup C /\ \A b \in B, c \in C : Precedes(b, c)
      BY <2>1, <2>3, <3>2, ReachedIs
    <3>6. PICK p, q : p = Showing(t.shown, B) /\ q = Showing(t.shown, C)
      OBVIOUS
    <3>7. Showing(t.shown, reached(n)) = p \o q
      <4>1. B \subseteq DOMAIN t.shown /\ C \subseteq DOMAIN t.shown
        BY <2>1, <3>3, <3>4
      <4>2. \A b \in B, c \in C : Precedes(b, c)
        BY <3>5
      <4>3. /\ B \subseteq Seq(Ordered) /\ IsFiniteSet(B)
            /\ C \subseteq Seq(Ordered) /\ IsFiniteSet(C)
        BY <3>3, <3>4
      <4>4. Showing(t.shown, B \cup C) = Showing(t.shown, B) \o Showing(t.shown, C)
        BY ONLY <4>1, <4>2, <4>3, ShowingJoins
      <4>5. QED
        BY <3>5, <3>6, <4>4
    <3>8. p \in A /\ q \in A
      BY <2>1, <3>3, <3>4, <3>6, ShowingIs
    <3>9. JoinsCut(A, limit, s, p, q)
      BY <2>1, <3>8, JoinsCutIs
    <3>10. x = CutTo(limit, s \o p)
      BY <2>10, <3>2, <3>6
    <3>11. x \in A /\ Len(x) <= limit
      BY <3>9, <3>10 DEF JoinsCut
    <3>12. step(x, n) = CutTo(limit, x \o q)
      <4>1. step(x, n) = Collected(t, limit, Append(v, children[n]), x)
        BY <2>7, <3>11
      <4>2. Collected(t, limit, Append(v, children[n]), x) = CutTo(limit, x \o q)
        BY <2>1, <2>4, <3>2, <3>6, <3>11, CollectedIs
      <4>3. QED
        BY <4>1, <4>2
    <3>13. CutTo(limit, x \o q) = CutTo(limit, s \o (p \o q))
      BY <3>9, <3>10 DEF JoinsCut
    <3>14. QED
      BY <3>7, <3>11, <3>12, <3>13
  <2>11. \E f : f = [n \in 0..N |-> IF n > 0 THEN step(f[n - 1], n) ELSE base]
    <3>1. PICK f : f = [n \in 0..N |-> partly(n)]
      OBVIOUS
    <3> HIDE DEF partly
    <3>2. ASSUME NEW n \in 0..N PROVE f[n] = IF n > 0 THEN step(f[n - 1], n) ELSE base
      <4>1. CASE n > 0
        <5>1. n \in 1..N /\ n - 1 \in 0..N
          BY <2>4, <4>1
        <5>2. f[n - 1] = partly(n - 1) /\ f[n] = partly(n)
          BY <3>1, <5>1
        <5>3. step(f[n - 1], n) = partly(n)
          BY <2>10, <5>1, <5>2
        <5>4. QED
          BY <4>1, <5>2, <5>3
      <4>2. CASE ~(n > 0)
        <5>1. n = 0
          BY <2>4, <4>2
        <5>2. QED
          BY <2>9, <3>1, <5>1
      <4>3. QED
        BY <4>1, <4>2
    <3>3. f = [n \in 0..N |-> IF n > 0 THEN step(f[n - 1], n) ELSE base]
      BY <3>1, <3>2
    <3>4. QED
      BY <3>3
  <2>12. after = [n \in 0..N |-> IF n > 0 THEN step(after[n - 1], n) ELSE base]
    BY <2>11
  <2> HIDE DEF after
  <2>13. after[0] = base /\ \A n \in 1..N : after[n] = step(after[n - 1], n)
    BY <2>4, <2>12
  <2> DEFINE T == { n \in 0..N : after[n] = partly(n) }
  <2>14. 0 \in T
    BY <2>4, <2>9, <2>13
  <2>15. ASSUME NEW n \in 0..(N - 1), n \in T PROVE n + 1 \in T
    <3>1. PICK m : m = n + 1
      OBVIOUS
    <3>2. m \in 1..N /\ m \in 0..N /\ m - 1 = n
      BY <2>4, <3>1
    <3>3. after[m] = step(after[m - 1], m) /\ after[m - 1] = partly(m - 1)
      BY <2>13, <2>15, <3>2
    <3>4. step(after[m - 1], m) = partly(m)
      BY <2>10, <3>2, <3>3
    <3>5. QED
      BY <3>1, <3>2, <3>3, <3>4
  <2> HIDE DEF T
  <2>16. 0..N \subseteq T
    BY <2>4, <2>14, <2>15, Induct
  <2>17. after[N] = partly(N)
    BY <2>4, <2>16 DEF T
  <2>18. reached(N) = Below(D, v)
    BY <2>1, <2>3, ReachedIs
  <2>19. QED
    BY <1>2, <2>1, <2>6, <2>17, <2>18 DEF Collected
<1>3. QED
  BY <1>1, <1>2

(* A node has more nodes below it than its children have.                  *)
LEMMA FewerBelow ==
    ASSUME NEW t, Leads(t), NEW v \in t.nodes, NEW c \in Ordered
    PROVE  /\ Cardinality(Below(t.nodes, Append(v, c))) < Cardinality(Below(t.nodes, v))
           /\ Cardinality(Below(t.nodes, Append(v, c))) \in Nat
<1>1. PICK V : V = t.nodes
  OBVIOUS
<1>2. V \subseteq Seq(Ordered) /\ IsFiniteSet(V) /\ v \in V
  BY <1>1, NodesAre
<1>3. PICK A, B : A = Below(V, v) /\ B = Below(V, Append(v, c))
  OBVIOUS
<1>4. IsPrefix(v, v) /\ v \in Seq(Ordered)
  BY <1>2, PrefixIs, LenProperties
<1>5. \A w \in V : IsPrefix(Append(v, c), w) => IsPrefix(v, w) /\ Len(v) < Len(w)
  BY <1>2, <1>4, ExtendsBy
<1>6. A \subseteq V /\ v \in A /\ B \subseteq A \ {v}
  <2>1. ~(Len(v) < Len(v))
    BY <1>4, LenProperties
  <2>2. QED
    BY <1>2, <1>3, <1>4, <1>5, <2>1 DEF Below
<1>7. IsFiniteSet(A)
  BY <1>2, <1>6, FS_Subset
<1>8. IsFiniteSet(A \ {v}) /\ Cardinality(A \ {v}) = Cardinality(A) - 1
  BY <1>6, <1>7, FS_RemoveElement
<1>9. IsFiniteSet(B) /\ Cardinality(B) <= Cardinality(A) - 1
  BY <1>6, <1>8, FS_Subset
<1>10. Cardinality(A) \in Nat /\ Cardinality(B) \in Nat
  BY <1>7, <1>9, FS_CardinalityType
<1>11. QED
  BY <1>1, <1>3, <1>9, <1>10

(* collect_terms finds the words below a node in alphabetical order, as    *)
(* many as the limit allows.                                               *)
LEMMA CollectTermsIs ==
    ASSUME NEW t, Leads(t), NEW limit \in Nat, NEW start \in t.nodes
    PROVE  CollectTerms(t, start, limit) = Collected(t, limit, start, <<>>)
<1>1. PICK V, A : V = t.nodes /\ A = Seq(Range(t.shown))
  OBVIOUS
<1>2. V \subseteq Seq(Ordered) /\ IsFiniteSet(V) /\ start \in V /\ <<>> \in A
  BY <1>1, NodesAre, EmptySeq
<1> DEFINE collect == CHOOSE collect : collect = [word \in V |->
                        [suggestions \in A |-> Visited(collect, t, limit, word, suggestions)]]
<1>3. CollectTerms(t, start, limit) = collect[start][<<>>]
  BY <1>1 DEF CollectTerms, Visited
<1>4. \E f : f = [word \in V |-> [suggestions \in A |-> Visited(f, t, limit, word, suggestions)]]
  <2>1. PICK f : f = [word \in V |-> [s \in A |-> Collected(t, limit, word, s)]]
    OBVIOUS
  <2>2. \A word \in V, s \in A : f[word][s] = Collected(t, limit, word, s)
    BY <2>1
  <2>3. ASSUME NEW word \in V, NEW s \in A
        PROVE  Visited(f, t, limit, word, s) = Collected(t, limit, word, s)
    <3>1. CollectsBelow(f, t, limit, word)
      BY <1>1, <2>2 DEF CollectsBelow
    <3>2. QED
      BY <1>1, <1>2, <3>1, VisitedIs
  <2>4. f = [word \in V |-> [suggestions \in A |-> Visited(f, t, limit, word, suggestions)]]
    BY <2>1, <2>3
  <2>5. QED
    BY <2>4
<1>5. collect = [word \in V |->
                    [suggestions \in A |-> Visited(collect, t, limit, word, suggestions)]]
  BY <1>4
<1> HIDE DEF collect
<1>6. \A word \in V, s \in A : collect[word][s] = Visited(collect, t, limit, word, s)
  BY <1>5
<1> DEFINE below(word) == Cardinality(Below(V, word))
           N == Cardinality(V)
           T == { n \in 0..N : \A word \in V : below(word) <= n =>
                    \A s \in A : collect[word][s] = Collected(t, limit, word, s) }
<1>7. N \in Nat
  BY <1>2, FS_CardinalityType
<1>8. ASSUME NEW word \in V, NEW c \in Ordered
      PROVE  below(Append(word, c)) < below(word) /\ below(Append(word, c)) \in Nat
  BY <1>1, FewerBelow
<1>a. \A word \in V : below(word) \in 1..N
  <2>1. ASSUME NEW word \in V PROVE below(word) \in 1..N
    <3>1. IsPrefix(word, word)
      BY <1>2, PrefixIs, LenProperties
    <3>2. word \in Below(V, word) /\ Below(V, word) \subseteq V
      BY <3>1 DEF Below
    <3>3. /\ IsFiniteSet(Below(V, word)) /\ below(word) <= N
          /\ IsFiniteSet(Below(V, word) \ {word})
          /\ Cardinality(Below(V, word) \ {word}) = below(word) - 1
      BY <1>2, <3>2, FS_Subset, FS_RemoveElement
    <3>4. below(word) \in Nat /\ Cardinality(Below(V, word) \ {word}) \in Nat
      BY <3>3, FS_CardinalityType
    <3>5. QED
      BY <1>7, <3>3, <3>4
  <2>2. QED
    BY <2>1
<1> HIDE DEF below, N
<1>9. 0 \in T
  <2>1. \A word \in V : ~(below(word) <= 0)
    BY <1>7, <1>a
  <2>2. QED
    BY <1>7, <2>1
<1>10. ASSUME NEW n \in 0..(N - 1), n \in T PROVE n + 1 \in T
  <2>1. n + 1 \in 0..N
    BY <1>7
  <2>2. ASSUME NEW word \in V, below(word) <= n + 1, NEW s \in A
        PROVE  collect[word][s] = Collected(t, limit, word, s)
    <3>1. ASSUME NEW c \in Ordered, Append(word, c) \in V, NEW x \in A
          PROVE  collect[Append(word, c)][x] = Collected(t, limit, Append(word, c), x)
      <4>1. below(Append(word, c)) <= n
        BY <1>7, <1>8, <1>a, <2>2, <3>1
      <4>2. QED
        BY <1>10, <3>1, <4>1
    <3>2. CollectsBelow(collect, t, limit, word)
      BY <1>1, <3>1 DEF CollectsBelow
    <3>3. Visited(collect, t, limit, word, s) = Collected(t, limit, word, s)
      BY <1>1, <1>2, <3>2, VisitedIs
    <3>4. QED
      BY <1>6, <3>3
  <2>3. QED
    BY <2>1, <2>2
<1> HIDE DEF T
<1>11. 0..N \subseteq T
  BY <1>7, <1>9, <1>10, Induct
<1>12. N \in T /\ below(start) <= N
  BY <1>2, <1>7, <1>a, <1>11
<1>13. QED
  BY <1>2, <1>3, <1>12 DEF T

-----------------------------------------------------------------------------
(* The terms of an index, and how they are found again.                    *)

(* Finite sets: an image, and a union.                                     *)
LEMMA FiniteImage ==
    ASSUME NEW S, IsFiniteSet(S), NEW f, NEW T, \A x \in T : \E s \in S : x = f[s]
    PROVE  IsFiniteSet(T)
<1>1. PICK g : g = [s \in S |-> f[s]]
  OBVIOUS
<1>2. PICK U : U = { f[s] : s \in S }
  OBVIOUS
<1>3. g \in Surjection(S, U)
  BY <1>1, <1>2, Fun_IsSurj
<1>4. IsFiniteSet(U)
  BY <1>3, FS_Surjection
<1>5. T \subseteq U
  BY <1>2
<1>6. QED
  BY <1>4, <1>5, FS_Subset

LEMMA FiniteUnion ==
    ASSUME NEW N \in Nat, NEW f, \A k \in 1..N : IsFiniteSet(f[k]),
           NEW T, \A x \in T : \E k \in 1..N : x \in f[k]
    PROVE  IsFiniteSet(T)
<1>1. PICK P : P = { f[k] : k \in 1..N }
  OBVIOUS
<1>2. IsFiniteSet(1..N)
  BY FS_Interval
<1>3. \A p \in P : \E k \in 1..N : p = f[k]
  BY <1>1
<1>4. IsFiniteSet(P)
  BY <1>2, <1>3, FiniteImage
<1>5. \A p \in P : IsFiniteSet(p)
  BY <1>3
<1>6. IsFiniteSet(UNION P)
  BY <1>4, <1>5, FS_UNION
<1>7. T \subseteq UNION P
  BY <1>1
<1>8. QED
  BY <1>6, <1>7, FS_Subset

(* The terms of a line: finitely many, of characters whose order is known  *)
(* once in lower case, and each found by searching for it.                 *)
TermsOf(line) == Range(Tokenize(line)) \cup Identifiers(line)

LEMMA TokensOfLine ==
    ASSUME NEW S, NEW line \in Seq(S)
    PROVE  /\ IsFiniteSet(Range(Tokenize(line)))
           /\ \A t \in Range(Tokenize(line)) :
                /\ t \in Seq(Lower \cup Digits) /\ ToLower(t) \in Seq(Ordered)
                /\ Range(Tokenize(t)) \subseteq Range(Tokenize(line))
<1>1. PICK tokens : tokens = Tokenize(line)
  OBVIOUS
<1>2. tokens \in Seq(Range(tokens))
  BY <1>1, TokensAre
<1>3. Len(tokens) \in Nat /\ DOMAIN tokens = 1..Len(tokens)
  BY <1>2, LenProperties
<1>4. IsFiniteSet(1..Len(tokens))
  BY <1>3, FS_Interval
<1>5. \A x \in Range(tokens) : \E k \in 1..Len(tokens) : x = tokens[k]
  BY <1>3 DEF Range
<1>6. IsFiniteSet(Range(tokens))
  BY <1>4, <1>5, FiniteImage
<1>7. ASSUME NEW t \in Range(tokens)
      PROVE  /\ t \in Seq(Lower \cup Digits) /\ ToLower(t) \in Seq(Ordered)
             /\ Range(Tokenize(t)) \subseteq Range(tokens)
  <2>1. t \in Seq(Lower \cup Digits) /\ ToLower(t) = t /\ Range(Tokenize(t)) = {t}
    BY <1>1, TokenOfItself
  <2>2. Lower \cup Digits \subseteq Ordered
    BY CodeAssumption DEF Ordered
  <2>3. t \in Seq(Ordered)
    BY <2>1, <2>2, SeqMonotonic
  <2>4. QED
    BY <2>1, <2>3
<1>8. QED
  BY <1>1, <1>6, <1>7

LEMMA IdentifiersOfLine ==
    ASSUME NEW S, NEW line \in Seq(S)
    PROVE  /\ IsFiniteSet(Identifiers(line))
           /\ \A t \in Identifiers(line) :
                /\ t \in Seq(S) /\ ToLower(t) \in Seq(Ordered)
                /\ Range(Tokenize(t)) \subseteq Range(Tokenize(line))
<1>1. PICK n : n = Len(line)
  OBVIOUS
<1>2. n \in Nat /\ DOMAIN line = 1..n
  BY <1>1, LenProperties
<1>3. PICK places : places = (1..n) \X (1..n)
  OBVIOUS
<1>4. IsFiniteSet(places)
  <2>1. IsFiniteSet(1..n)
    BY <1>2, FS_Interval
  <2>2. QED
    BY <1>3, <2>1, FS_Product
<1>5. ASSUME NEW t \in Identifiers(line)
      PROVE  \E s \in places : /\ t = Part(line, s) /\ s \in IdentifierRuns(line) /\ s[1] <= s[2]
                               /\ \A i \in s[1]..s[2] : line[i] \in Word /\ line[i] \notin Foreign
  BY <1>2, <1>3 DEF Identifiers, IdentifierRuns, Stretches
<1>6. IsFiniteSet(Identifiers(line))
  <2>1. PICK f : f = [s \in places |-> Part(line, s)]
    OBVIOUS
  <2>2. \A t \in Identifiers(line) : \E s \in places : t = f[s]
    BY <1>5, <2>1
  <2>3. QED
    BY <1>4, <2>2, FiniteImage
<1>7. ASSUME NEW t \in Identifiers(line)
      PROVE  /\ t \in Seq(S) /\ ToLower(t) \in Seq(Ordered)
             /\ Range(Tokenize(t)) \subseteq Range(Tokenize(line))
  <2>1. PICK s \in places : /\ t = Part(line, s) /\ s \in IdentifierRuns(line) /\ s[1] <= s[2]
                            /\ \A i \in s[1]..s[2] : line[i] \in Word /\ line[i] \notin Foreign
    BY <1>5
  <2>2. PICK a \in 1..n, b \in 1..n : s = <<a, b>> /\ a <= b
    BY <1>3, <2>1
  <2>3. \A i \in a..b : line[i] \in Word /\ line[i] \notin Foreign
    BY <2>1, <2>2
  <2>4. /\ t \in Seq(S) /\ Len(t) = b - a + 1
        /\ \A i \in 1..(b - a + 1) : t[i] = line[a + i - 1]
    BY <1>1, <2>1, <2>2, PartHas
  <2>5. Len(t) \in Nat /\ DOMAIN t = 1..Len(t)
    BY <2>4, LenProperties
  <2>6. ASSUME NEW i \in 1..Len(t)
        PROVE  (IF t[i] \in Upper THEN LowerOf[t[i]] ELSE t[i]) \in Ordered
    <3>1. a + i - 1 \in a..b /\ i \in 1..(b - a + 1)
      BY <2>4, <2>5
    <3>2. t[i] \in Upper \cup Lower \cup Digits \cup {Underscore}
      BY <2>3, <2>4, <3>1 DEF Word, Alphanumeric
    <3>3. QED
      BY <3>2, AlphabetAssumption, CodeAssumption DEF Ordered
  <2>7. ToLower(t) \in [1..Len(t) -> Ordered]
    BY <2>5, <2>6 DEF ToLower
  <2>8. ToLower(t) \in Seq(Ordered)
    BY <2>5, <2>7, SeqIs
  <2>9. ASSUME NEW u \in Range(Tokenize(t)) PROVE u \in Range(Tokenize(line))
    <3>1. PICK q \in TokenStretches(t) : u = ToLower(Part(t, q))
      BY <2>4, <2>9, TokensAre
    <3>2. PICK r \in TokenStretches(line) : Part(line, r) = Part(t, q)
      BY <2>1, <3>1, IdentifierTokensFound
    <3>3. QED
      BY <3>1, <3>2, TokensAre
  <2>10. QED
    BY <2>4, <2>8, <2>9
<1>8. QED
  BY <1>6, <1>7

(* Every term of a finished index is one of a line of a document.          *)
LEMMA TermsComeFromLines ==
    ASSUME IndexFinished, NEW t \in Terms(index)
    PROVE  \E i \in 1..Len(stored) : \E n \in 1..Len(stored[i].content) :
              /\ stored[i].content[n] \in Seq(Characters)
              /\ t \in TermsOf(stored[i].content[n])
<1>1. stored \in Collections /\ DOMAIN stored = 1..Len(stored)
  BY StoredRows DEF IndexFinished
<1>2. ASSUME NEW i \in 1..Len(stored)
      PROVE  /\ DOMAIN stored[i].content = 1..Len(stored[i].content)
             /\ \A n \in 1..Len(stored[i].content) : stored[i].content[n] \in Seq(Characters)
  <2>1. stored[i].content \in Seq(Seq(Characters))
    BY <1>1, OccurrencesOf
  <2>2. QED
    BY <2>1, LenProperties, ElementOfSeq
<1>3. CASE t \in DOMAIN index.postings
  <2>1. Matching({t}) # {}
    BY <1>3 DEF IndexFinished
  <2>2. PICK i \in 1..Len(stored) : LinesOf(stored[i], {t}) # {}
    BY <1>1, <2>1 DEF Matching
  <2>3. PICK o : o \in ToSet(Occurrences(stored[i])) /\ o.token \in {t}
    BY <2>2 DEF LinesOf
  <2>4. ToSet(Occurrences(stored[i])) = OccurrencesIn(stored[i].content)
    BY <1>1, OccurrencesOf DEF ToSet, Range
  <2>5. PICK n \in DOMAIN stored[i].content :
            o \in { [line |-> n, token |-> u] : u \in Range(Tokenize(stored[i].content[n])) }
    BY <2>3, <2>4 DEF OccurrencesIn
  <2>6. t \in Range(Tokenize(stored[i].content[n]))
    BY <2>3, <2>5
  <2>7. QED
    BY <1>2, <2>5, <2>6 DEF TermsOf
<1>4. CASE t \in index.identifiers
  <2>1. PICK i \in 1..Len(stored) :
            \E n \in DOMAIN stored[i].content : t \in Identifiers(stored[i].content[n])
    BY <1>4 DEF IndexFinished
  <2>2. QED
    BY <1>2, <2>1 DEF TermsOf
<1>5. QED
  BY <1>3, <1>4 DEF Terms

(* They are finitely many, and have their order once in lower case.        *)
LEMMA TermsAreFinite ==
    ASSUME IndexFinished
    PROVE  IsFiniteSet(Terms(index)) /\ \A t \in Terms(index) : ToLower(t) \in Seq(Ordered)
<1>1. stored \in Collections
  BY DEF IndexFinished
<1>2. Len(stored) \in Nat /\ \A i \in 1..Len(stored) : stored[i].content \in Seq(Seq(Characters))
  BY <1>1, StoredRows, OccurrencesOf
<1>3. \A i \in 1..Len(stored) :
        /\ Len(stored[i].content) \in Nat
        /\ \A n \in 1..Len(stored[i].content) : stored[i].content[n] \in Seq(Characters)
  BY <1>2, LenProperties, ElementOfSeq
<1>4. ASSUME NEW line \in Seq(Characters)
      PROVE  IsFiniteSet(TermsOf(line)) /\ \A t \in TermsOf(line) : ToLower(t) \in Seq(Ordered)
  <2>1. /\ IsFiniteSet(Range(Tokenize(line))) /\ IsFiniteSet(Identifiers(line))
        /\ \A t \in Range(Tokenize(line)) : ToLower(t) \in Seq(Ordered)
        /\ \A t \in Identifiers(line) : ToLower(t) \in Seq(Ordered)
    BY TokensOfLine, IdentifiersOfLine
  <2>2. QED
    BY <2>1, FS_Union DEF TermsOf
<1> DEFINE those(i) == UNION { TermsOf(stored[i].content[n]) : n \in 1..Len(stored[i].content) }
<1>5. PICK all : all = [i \in 1..Len(stored) |-> those(i)]
  OBVIOUS
<1>6. ASSUME NEW i \in 1..Len(stored) PROVE IsFiniteSet(all[i])
  <2>1. PICK N, f : /\ N = Len(stored[i].content)
                    /\ f = [n \in 1..N |-> TermsOf(stored[i].content[n])]
    OBVIOUS
  <2>2. N \in Nat /\ \A n \in 1..N : IsFiniteSet(f[n])
    BY <1>3, <1>4, <2>1
  <2>3. \A x \in all[i] : \E n \in 1..N : x \in f[n]
    BY <1>5, <2>1
  <2>4. QED
    BY <2>2, <2>3, FiniteUnion
<1>7. \A t \in Terms(index) : \E i \in 1..Len(stored) : t \in all[i]
  BY <1>5, TermsComeFromLines
<1>8. IsFiniteSet(Terms(index))
  BY <1>2, <1>6, <1>7, FiniteUnion
<1>9. QED
  BY <1>4, <1>8, TermsComeFromLines

(* A trie that spells the terms leads to their words.                      *)
LEMMA TrieLeads ==
    ASSUME IndexFinished, NEW t, Spells(t, Terms(index))
    PROVE  Leads(t)
<1>1. PICK D, added : D = DOMAIN t.shown /\ added = Terms(index)
  OBVIOUS
<1>2. /\ t.nodes = {<<>>} \cup UNION { Prefixes(ToLower(a)) : a \in added }
      /\ D = { ToLower(a) : a \in added }
  BY <1>1 DEF Spells
<1>3. IsFiniteSet(added) /\ \A a \in added : ToLower(a) \in Seq(Ordered)
  BY <1>1, TermsAreFinite
<1>4. IsFiniteSet(D)
  <2>1. PICK f : f = [a \in added |-> ToLower(a)]
    OBVIOUS
  <2>2. \A w \in D : \E a \in added : w = f[a]
    BY <1>2, <2>1
  <2>3. QED
    BY <1>3, <2>2, FiniteImage
<1>5. UNION { Prefixes(ToLower(a)) : a \in added } = UNION { Prefixes(w) : w \in D }
  BY <1>2
<1>6. QED
  BY <1>1, <1>2, <1>3, <1>4, <1>5 DEF Leads

(* suggest_terms shows the first words with the prefix.                    *)
LEMMA SuggestTermsIs ==
    ASSUME NEW t, Leads(t), NEW S, NEW prefix \in Seq(S), NEW limit \in Nat \ {0}
    PROVE  SuggestTerms(t, prefix, limit) =
             CutTo(limit, Showing(t.shown, Below(DOMAIN t.shown, ToLower(prefix))))
<1>1. PICK p, D : p = ToLower(prefix) /\ D = DOMAIN t.shown
  OBVIOUS
<1>2. PICK A, x : A = Below(D, p) /\ x = Showing(t.shown, A)
  OBVIOUS
<1>3. <<>> \in Seq(Range(t.shown)) /\ Len(<<>>) = 0
  BY EmptySeq
<1>4. CASE p \in t.nodes
  <2>1. p \in Seq(Ordered) /\ limit \in Nat
    BY <1>4, NodesAre
  <2>2. SuggestTerms(t, prefix, limit) = Collected(t, limit, p, <<>>)
    BY <1>1, <1>4, <2>1, CollectTermsIs DEF SuggestTerms
  <2>3. Collected(t, limit, p, <<>>) = CutTo(limit, <<>> \o x) /\ x \in Seq(Range(t.shown))
    <3>1. x \in Seq(Range(t.shown))
      BY <1>1, <1>2, <1>3, <2>1, CollectedIs
    <3>2. ~(Len(<<>>) >= limit)
      BY <1>3
    <3>3. QED
      BY <1>1, <1>2, <3>1, <3>2 DEF Collected
  <2>4. <<>> \o x = x
    BY <2>3, ConcatEmptySeq
  <2>5. QED
    BY <1>1, <1>2, <2>2, <2>3, <2>4
<1>5. CASE p \notin t.nodes
  <2>1. A = {}
    <3> SUFFICES ASSUME NEW w \in A PROVE FALSE
      OBVIOUS
    <3>1. w \in D /\ IsPrefix(p, w) /\ w \in Seq(Ordered)
      BY <1>1, <1>2 DEF Below, Leads
    <3>2. PICK X : X = Ordered \cup Range(p)
      OBVIOUS
    <3>3. p \in Seq(X)
      <4>1. Len(prefix) \in Nat /\ DOMAIN prefix = 1..Len(prefix)
        BY LenProperties
      <4>2. DOMAIN p = 1..Len(prefix) /\ p = [i \in 1..Len(prefix) |-> p[i]]
        BY <1>1, <4>1 DEF ToLower
      <4>3. p \in [1..Len(prefix) -> X]
        BY <3>2, <4>2 DEF Range
      <4>4. QED
        BY <4>1, <4>3, SeqIs
    <3>4. w \in Seq(X)
      BY <3>1, <3>2, SeqMonotonic
    <3>5. p \in Prefixes(w)
      BY <3>1, <3>3, <3>4, PrefixesAre
    <3>6. QED
      BY <1>1, <1>5, <3>1, <3>5 DEF Leads
  <2>2. x = <<>>
    BY <1>2, <2>1, ShowingFew
  <2>3. CutTo(limit, <<>>) = <<>>
    <3>1. limit \in Nat /\ Len(<<>>) <= limit
      BY <1>3
    <3>2. QED
      BY <1>3, <3>1, CutIs
  <2>4. QED
    BY <1>1, <1>2, <1>5, <2>2, <2>3 DEF SuggestTerms
<1>6. QED
  BY <1>4, <1>5

-----------------------------------------------------------------------------
(* Suggestions.                                                            *)

(* The suggestions for one prefix and limit.                               *)
LEMMA SuggestExact ==
    ASSUME IndexFinished, NEW t, Spells(t, Terms(index)),
           NEW S, NEW prefix \in Seq(S), NEW limit \in Nat \ {0}, NEW words, NEW shown,
           words = Sorted(WordsWith(prefix), InAlphabet(WordsWith(prefix))),
           shown = SuggestTerms(t, prefix, limit)
    PROVE  /\ [k \in DOMAIN shown |-> ToLower(shown[k])] = CutTo(limit, words)
           /\ \A term \in ToSet(shown) :
                /\ term \in Terms(index)
                /\ term = ToLower(term) =>
                     \A u \in Terms(index) : ToLower(u) = term => u = term
<1>1. PICK D, A, added : /\ D = DOMAIN t.shown /\ A = Below(D, ToLower(prefix))
                         /\ added = Terms(index)
  OBVIOUS
<1>2. /\ D = { ToLower(a) : a \in added }
      /\ \A w \in D : /\ t.shown[w] \in added /\ ToLower(t.shown[w]) = w
                      /\ t.shown[w] = w => \A a \in added : ToLower(a) = w => a = w
  BY <1>1 DEF Spells
<1>3. Leads(t)
  BY TrieLeads
<1>4. D \subseteq Seq(Ordered) /\ IsFiniteSet(D)
  BY <1>1, <1>3 DEF Leads
<1>5. A \subseteq D /\ A \subseteq Seq(Ordered) /\ IsFiniteSet(A)
  <2>1. A \subseteq D
    BY <1>1 DEF Below
  <2>2. QED
    BY <1>4, <2>1, FS_Subset
<1>6. WordsWith(prefix) = A
  BY <1>1, <1>2 DEF WordsWith, Below
<1>7. words = Alphabet(A)
  BY <1>6 DEF Alphabet
<1>8. PICK N, x : N = Cardinality(A) /\ x = Showing(t.shown, A)
  OBVIOUS
<1>9. N \in Nat /\ words \in [1..N -> A]
  BY <1>5, <1>7, <1>8, AlphabetIs DEF InTurn
<1>10. words \in Seq(A) /\ Len(words) = N
  BY <1>9, SeqIs
<1>11. /\ x \in Seq(Range(t.shown)) /\ Len(x) = N
       /\ \A k \in 1..N : words[k] \in A /\ x[k] = t.shown[words[k]]
  BY <1>1, <1>5, <1>7, <1>8, ShowingIs
<1>12. shown = CutTo(limit, x) /\ limit \in Nat
  BY <1>1, <1>3, <1>8, SuggestTermsIs
<1>13. PICK cut, m : cut = CutTo(limit, words) /\ m = IF limit <= N THEN limit ELSE N
  OBVIOUS
<1>14. cut \in Seq(A) /\ Len(cut) = m /\ \A k \in 1..m : cut[k] = words[k]
  BY <1>10, <1>12, <1>13, CutIs
<1>15. shown \in Seq(Range(t.shown)) /\ Len(shown) = m /\ \A k \in 1..m : shown[k] = x[k]
  <2>1. PICK R : R = Range(t.shown)
    OBVIOUS
  <2>2. x \in Seq(R)
    BY <1>11, <2>1
  <2>3. /\ CutTo(limit, x) \in Seq(R)
        /\ Len(CutTo(limit, x)) = IF limit <= Len(x) THEN limit ELSE Len(x)
        /\ \A k \in 1..Len(CutTo(limit, x)) : CutTo(limit, x)[k] = x[k]
    BY ONLY <1>12, <2>2, CutIs
  <2>4. QED
    BY ONLY <1>11, <1>12, <1>13, <2>1, <2>3
<1>16. DOMAIN cut = 1..m /\ DOMAIN shown = 1..m
  BY <1>14, <1>15, LenProperties
<1>17. ASSUME NEW k \in 1..m
       PROVE  cut[k] \in D /\ shown[k] = t.shown[cut[k]] /\ ToLower(shown[k]) = cut[k]
  <2>1. k \in 1..N
    BY <1>9, <1>12, <1>13
  <2>2. cut[k] = words[k] /\ shown[k] = x[k]
    BY <1>14, <1>15
  <2>3. words[k] \in D /\ x[k] = t.shown[words[k]]
    BY <1>5, <1>11, <2>1
  <2>4. QED
    BY <1>2, <2>2, <2>3
<1>18. [k \in DOMAIN shown |-> ToLower(shown[k])] = cut
  <2>1. [k \in 1..m |-> ToLower(shown[k])] = [k \in 1..m |-> cut[k]]
    BY <1>17
  <2>2. cut = [k \in 1..m |-> cut[k]]
    BY <1>14, <1>16, LenProperties
  <2>3. QED
    BY <1>16, <2>1, <2>2
<1>19. ASSUME NEW term \in ToSet(shown)
       PROVE  /\ term \in added
              /\ term = ToLower(term) => \A u \in added : ToLower(u) = term => u = term
  <2>1. PICK k \in 1..m : term = shown[k]
    BY <1>16 DEF ToSet
  <2>2. PICK w \in D : term = t.shown[w] /\ ToLower(term) = w
    BY <1>17, <2>1
  <2>3. QED
    BY <1>2, <2>2
<1>20. QED
  BY <1>1, <1>13, <1>18, <1>19

(* What is suggested is found, if it has a token.                          *)
LEMMA TermsAreFound ==
    ASSUME IndexFinished, NEW term \in Terms(index), Tokenize(term) # <<>>,
           NEW limit \in Nat \ {0}
    PROVE  SearchIndex(index, term, limit) # <<>>
<1>1. stored \in Collections /\ DOMAIN stored = 1..Len(stored)
  BY StoredRows DEF IndexFinished
<1>2. PICK i \in 1..Len(stored) : \E n \in 1..Len(stored[i].content) :
        /\ stored[i].content[n] \in Seq(Characters)
        /\ term \in TermsOf(stored[i].content[n])
  BY TermsComeFromLines
<1>3. PICK n \in 1..Len(stored[i].content), line \in Seq(Characters) :
        line = stored[i].content[n] /\ term \in TermsOf(line)
  BY <1>2
<1>4. Range(Tokenize(term)) \subseteq Range(Tokenize(line)) /\ \E X : term \in Seq(X)
  BY <1>3, TokensOfLine, IdentifiersOfLine DEF TermsOf
<1>5. PICK X : term \in Seq(X)
  BY <1>4
<1>6. PICK tokens : tokens = Tokenize(term)
  OBVIOUS
<1>7. tokens \in Seq(Range(tokens)) /\ tokens # <<>>
  BY <1>5, <1>6, TokensAre
<1>8. 1 \in DOMAIN tokens
  BY <1>7, EmptySeq, LenProperties
<1>9. PICK u : u = tokens[1] /\ u \in Range(tokens)
  BY <1>8 DEF Range
<1>10. i \in Hits(term)
  <2>1. PICK o : o = [line |-> n, token |-> u]
    OBVIOUS
  <2>2. u \in Range(Tokenize(line))
    BY <1>4, <1>6, <1>9
  <2>3. n \in DOMAIN stored[i].content
    BY <1>1, OccurrencesOf, LenProperties
  <2>4. o \in OccurrencesIn(stored[i].content)
    <3>1. u \in Range(Tokenize(stored[i].content[n]))
      BY <1>3, <2>2
    <3>2. o \in { [line |-> n, token |-> t] : t \in Range(Tokenize(stored[i].content[n])) }
      BY <2>1, <3>1
    <3>3. QED
      BY <2>3, <3>2 DEF OccurrencesIn
  <2>5. o \in ToSet(Occurrences(stored[i])) /\ o.token \in Range(tokens)
    BY <1>1, <1>9, <2>1, <2>4, OccurrencesOf DEF ToSet, Range
  <2>6. LinesOf(stored[i], Range(tokens)) # {}
    BY <2>5 DEF LinesOf
  <2>7. QED
    BY <1>1, <1>6, <2>6 DEF Hits, Matching
<1>11. PICK places, results : /\ results = SearchIndex(index, term, limit)
                              /\ Ranks(places, term) /\ Returns(results, places, term, limit)
  <2>1. limit \in Nat
    OBVIOUS
  <2>2. QED
    BY <1>5, <2>1, SearchFinds
<1>12. PICK c : c = Cardinality(Hits(term)) /\ c \in Nat /\ \E k \in 1..c : places[k] = i
  BY <1>10, <1>11 DEF Ranks
<1>13. Len(results) = IF limit <= c THEN limit ELSE c
  <2>1. Len(results) = Min({limit, c})
    BY <1>11, <1>12 DEF Returns
  <2>2. QED
    BY <1>12, <2>1, SmallerIs
<1>14. Len(results) # 0
  BY <1>12, <1>13
<1>15. Len(<<>>) = 0
  BY EmptySeq
<1>16. QED
  BY <1>11, <1>14, <1>15

(* Nothing is left to insert once the trie answers.                        *)
SuggestionsInv ==
    /\ IndexInv /\ SpellingsInv
    /\ stage = "ready" => terms = {}

LEMMA SuggestionsNext == SuggestionsInv /\ [Next]_vars => SuggestionsInv'
<1> SUFFICES ASSUME SuggestionsInv, [Next]_vars PROVE SuggestionsInv'
  OBVIOUS
<1>1. IndexInv' /\ SpellingsInv'
  BY IndexNext, SpellingsNext DEF SuggestionsInv
<1>2. (stage = "ready" => terms = {})'
  BY DEF SuggestionsInv, Next, AddNext, CountNext, CollectTermsOfIndex, InsertTerm,
         Built, Answering, vars
<1>3. QED
  BY <1>1, <1>2 DEF SuggestionsInv

LEMMA SuggestionsInit == Init => SuggestionsInv
<1>1. Init => IndexInv
  BY IndexInit
<1>2. Init => SpellingsInv
  BY DEF Init, SpellingsInv, SpellingsExact, Added, Spells, EmptyTrie
<1>3. QED
  BY <1>1, <1>2 DEF SuggestionsInv, Init

LEMMA SuggestionsReady ==
    ASSUME SuggestionsInv, stage = "ready"
    PROVE  IndexFinished /\ Spells(trie, Terms(index))
<1>1. IndexFinished
  BY FinishedIndex DEF SuggestionsInv
<1>2. Added = Terms(index)
  BY DEF SuggestionsInv, Added
<1>3. QED
  BY <1>1, <1>2 DEF SuggestionsInv, SpellingsInv, SpellingsExact

(* AutocompleteIndex.suggest (autocomplete_index.py:42-69): whatever the   *)
(* documents and the order of insertion, the suggestions for a prefix are  *)
(* the first of its words in alphabetical order, as many as the limit      *)
(* allows, each in a spelling the documents have.                          *)
THEOREM SuggestionsStayExact == Spec => []SuggestionsExact
<1>1. SuggestionsInv => SuggestionsExact
  <2> SUFFICES ASSUME SuggestionsInv, stage = "ready" PROVE SuggestionsExact
    BY DEF SuggestionsExact
  <2>1. IndexFinished /\ Spells(trie, Terms(index))
    BY SuggestionsReady
  <2>2. \A prefix \in Queries, limit \in Limits :
           prefix \in Seq(Characters) /\ limit \in Nat \ {0}
    BY RequestsAssumption
  <2>3. QED
    BY <2>1, <2>2, SuggestExact DEF SuggestionsExact
<1>2. QED
  BY <1>1, SuggestionsInit, SuggestionsNext, PTL DEF Spec

(* SearchEngine.suggest and search_state (search_engine.py:98-111): a      *)
(* suggestion that has a token is found by a search for it, whether it is  *)
(* a token of the index or an identifier of a line.                        *)
THEOREM SuggestionsStayFound == Spec => []SuggestionsFind
<1>1. SuggestionsInv => SuggestionsFind
  <2> SUFFICES ASSUME SuggestionsInv, stage = "ready",
                      NEW prefix \in Queries, NEW limit \in Limits,
                      NEW term \in ToSet(SuggestTerms(trie, prefix, limit)),
                      Tokenize(term) # <<>>
               PROVE  SearchIndex(index, term, limit) # <<>>
    BY DEF SuggestionsFind
  <2>1. IndexFinished /\ Spells(trie, Terms(index))
    BY SuggestionsReady
  <2>2. prefix \in Seq(Characters) /\ limit \in Nat \ {0}
    BY RequestsAssumption
  <2>3. term \in Terms(index)
    BY <2>1, <2>2, SuggestExact
  <2>4. QED
    BY <2>1, <2>2, <2>3, TermsAreFound
<1>2. QED
  BY <1>1, SuggestionsInit, SuggestionsNext, PTL DEF Spec
=============================================================================
