-------------------------- MODULE RuntimeStateProofs --------------------------
(***************************************************************************)
(* What the construction of the index and of the trie guarantees for any   *)
(* documents and any order of insertion.                                   *)
(***************************************************************************)
EXTENDS RuntimeState, TokenizerProofs

-----------------------------------------------------------------------------
(* The postings. *)

Entries ==
    { [id |-> d.id, length |-> Len(TokensByLine(d.content)), lines |-> Len(d.content)] :
        d \in Range(stored) }

PostingsInv ==
    /\ stored \in Collections
    /\ DOMAIN index = {"documents", "postings", "identifiers"}
    /\ index.documents \in Seq(Entries)
    /\ Len(index.documents) <= Len(stored)
    /\ counted \in Nat
    /\ PostingsExact

(* The documents of a repository are a list of rows with keys of their own. *)
LEMMA StoredRows ==
    ASSUME stored \in Collections
    PROVE  /\ Len(stored) \in Nat /\ DOMAIN stored = 1..Len(stored)
           /\ \A i, j \in 1..Len(stored) : stored[i].id = stored[j].id => i = j
<1>1. stored \in Seq(Range(stored)) /\ IsInjective([i \in DOMAIN stored |-> stored[i].id])
  BY CollectionsAssumption
<1>2. Len(stored) \in Nat /\ DOMAIN stored = 1..Len(stored)
  BY <1>1, LenProperties
<1>3. QED
  BY <1>1, <1>2 DEF IsInjective

LEMMA PlacesGrow ==
    ASSUME NEW occurrences, NEW n \in Nat, NEW token
    PROVE  /\ occurrences[n + 1].token # token =>
                PlacesIn(occurrences, n + 1, token) = PlacesIn(occurrences, n, token)
           /\ occurrences[n + 1].token = token =>
                PlacesIn(occurrences, n + 1, token) = PlacesIn(occurrences, n, token) \cup {n + 1}
           /\ Cardinality(PlacesIn(occurrences, n, token) \cup {n + 1})
                = Cardinality(PlacesIn(occurrences, n, token)) + 1
<1>1. 1..(n + 1) = 1..n \cup {n + 1} /\ n + 1 \notin 1..n
  OBVIOUS
<1> SUFFICES ASSUME NEW places, places = PlacesIn(occurrences, n, token)
             PROVE  /\ occurrences[n + 1].token # token =>
                         PlacesIn(occurrences, n + 1, token) = places
                    /\ occurrences[n + 1].token = token =>
                         PlacesIn(occurrences, n + 1, token) = places \cup {n + 1}
                    /\ Cardinality(places \cup {n + 1}) = Cardinality(places) + 1
  OBVIOUS
<1>2. places \subseteq 1..n
  BY DEF PlacesIn
<1>3. IsFiniteSet(places)
  BY <1>2, FS_Interval, FS_Subset
<1>4. Cardinality(places \cup {n + 1}) = Cardinality(places) + 1
  BY <1>1, <1>2, <1>3, FS_AddElement
<1>5. QED
  BY <1>1, <1>4 DEF PlacesIn

(* What counting one token changes. *)
OneMore(new, postings, id, o) ==
    /\ DOMAIN new = DOMAIN postings \cup {o.token}
    /\ \A token \in DOMAIN postings : token # o.token => new[token] = postings[token]
    /\ o.token \notin DOMAIN postings => DOMAIN new[o.token] = {id}
    /\ o.token \in DOMAIN postings =>
         /\ DOMAIN new[o.token] = DOMAIN postings[o.token] \cup {id}
         /\ \A other \in DOMAIN postings[o.token] :
              other # id => new[o.token][other] = postings[o.token][other]
    /\ o.token \in DOMAIN postings /\ id \in DOMAIN postings[o.token] =>
         new[o.token][id] = [tf    |-> postings[o.token][id].tf + 1,
                             lines |-> postings[o.token][id].lines \cup {o.line}]
    /\ ~(o.token \in DOMAIN postings /\ id \in DOMAIN postings[o.token]) =>
         new[o.token][id] = [tf |-> 1, lines |-> {o.line}]

LEMMA CountedChanges ==
    ASSUME NEW postings, NEW id, NEW o
    PROVE  OneMore(Counted(postings, id, o), postings, id, o)
<1> SUFFICES ASSUME NEW new, new = Counted(postings, id, o) PROVE OneMore(new, postings, id, o)
  OBVIOUS
<1> DEFINE documents == At(postings, o.token, <<>>)
           posting == At(documents, id, NoOccurrence)
           listed == [tf |-> posting.tf + 1, lines |-> posting.lines \cup {o.line}]
           row == With(documents, id, listed)
<1>1. new = With(postings, o.token, row)
  BY DEF Counted
<1>2. /\ DOMAIN row = DOMAIN documents \cup {id} /\ row[id] = listed
      /\ \A other \in DOMAIN documents : other # id => row[other] = documents[other]
  <2> HIDE DEF documents, listed
  <2>1. QED
    BY DEF With
<1>3. /\ DOMAIN new = DOMAIN postings \cup {o.token} /\ new[o.token] = row
      /\ \A token \in DOMAIN postings : token # o.token => new[token] = postings[token]
  <2> HIDE DEF row
  <2>1. QED
    BY <1>1 DEF With
<1>4. CASE o.token \notin DOMAIN postings
  <2>1. documents = <<>> /\ DOMAIN documents = {}
    BY <1>4 DEF At
  <2>2. listed = [tf |-> 1, lines |-> {o.line}]
    <3> HIDE DEF documents
    <3>1. QED
      BY <2>1 DEF At, NoOccurrence
  <2>3. QED
    BY <1>2, <1>3, <1>4, <2>1, <2>2 DEF OneMore
<1>5. CASE o.token \in DOMAIN postings
  <2>1. documents = postings[o.token]
    BY <1>5 DEF At
  <2>2. id \in DOMAIN documents => posting = documents[id]
    BY DEF At
  <2>3. id \notin DOMAIN documents => listed = [tf |-> 1, lines |-> {o.line}]
    BY DEF At, NoOccurrence
  <2>4. QED
    BY <1>2, <1>3, <1>5, <2>1, <2>2, <2>3 DEF OneMore
<1>6. QED
  BY <1>4, <1>5

(* The next document enters with nothing counted. *)
LEMMA AddingKeepsPostings == PostingsInv /\ AddNext => PostingsInv'
<1> SUFFICES ASSUME PostingsInv, AddNext PROVE PostingsInv'
  OBVIOUS
<1> SUFFICES ASSUME NEW n, n = Len(index.documents), NEW row, row = stored[n + 1] PROVE PostingsInv'
  OBVIOUS
<1>1. /\ stored \in Collections /\ n \in Nat /\ n < Len(stored) /\ n + 1 \in 1..Len(stored)
      /\ index.documents \in Seq(Entries) /\ DOMAIN index.documents = 1..n
      /\ Len(stored) \in Nat /\ DOMAIN stored = 1..Len(stored)
  BY StoredRows, LenProperties DEF PostingsInv, AddNext
<1>2. /\ stored' = stored /\ stage = "index" /\ stage' = "index" /\ counted' = 0
      /\ index' = Registered(index, row)
  BY DEF AddNext
<1>3. /\ DOMAIN index' = {"documents", "postings", "identifiers"}
      /\ index'.postings = index.postings
      /\ index'.documents =
           Append(index.documents, [id     |-> row.id,
                                    length |-> Len(TokensByLine(row.content)),
                                    lines  |-> Len(row.content)])
  BY <1>2 DEF Registered, PostingsInv
<1>4. row \in Range(stored)
  BY <1>1 DEF Range
<1>5. /\ index'.documents \in Seq(Entries) /\ Len(index'.documents) = n + 1
      /\ DOMAIN index'.documents = 1..(n + 1)
  <2>1. [id |-> row.id, length |-> Len(TokensByLine(row.content)), lines |-> Len(row.content)]
          \in Entries
    BY <1>4 DEF Entries
  <2>2. index'.documents \in Seq(Entries) /\ Len(index'.documents) = n + 1
    BY <1>1, <1>3, <2>1, AppendProperties
  <2>3. QED
    BY <2>2, LenProperties
<1>6. ASSUME NEW i \in 1..n
      PROVE  CountedOf(i)' = CountedOf(i) /\ \A token : PlacesOf(i, token)' = PlacesOf(i, token)
  <2>1. CountedOf(i)' = Len(Occurrences(stored[i]))
    BY <1>1, <1>2, <1>5 DEF CountedOf
  <2>2. CountedOf(i) = Len(Occurrences(stored[i]))
    <3>1. CASE i = n
      <4>1. index.documents # <<>>
        BY <1>1, EmptySeq, <3>1
      <4>2. QED
        BY <3>1, <4>1 DEF AddNext, AllCounted, LastAdded, CountedOf
    <3>2. CASE i # n
      BY <3>2 DEF CountedOf
    <3>3. QED
      BY <3>1, <3>2
  <2>3. QED
    BY <1>2, <2>1, <2>2 DEF PlacesOf, PlacesIn
<1>7. CountedOf(n + 1)' = 0 /\ \A token : PlacesOf(n + 1, token)' = {}
  BY <1>1, <1>2, <1>5 DEF CountedOf, PlacesOf, PlacesIn
<1>8. \A i : Occurrences(stored[i])' = Occurrences(stored[i])
  BY <1>2
<1>9. ASSUME NEW token \in DOMAIN index.postings PROVE PostingExact(token)'
  <2>1. PostingExact(token)
    BY DEF PostingsInv, PostingsExact
  <2>2. { j \in 1..(n + 1) : PlacesOf(j, token)' # {} } = { j \in 1..n : PlacesOf(j, token) # {} }
    <3>1. 1..(n + 1) = 1..n \cup {n + 1}
      BY <1>1
    <3>2. QED
      BY <1>6, <1>7, <3>1
  <2>3. ASSUME NEW i \in 1..(n + 1), PlacesOf(i, token)' # {}
        PROVE  i \in 1..n /\ PlacesOf(i, token)' = PlacesOf(i, token)
    BY <1>1, <1>6, <1>7, <2>3
  <2>4. /\ DOMAIN index'.postings[token] =
             { stored[i].id : i \in { j \in 1..n : PlacesOf(j, token) # {} } }
    BY <1>1, <1>3, <2>1 DEF PostingExact
  <2>5. ASSUME NEW i \in 1..(n + 1), PlacesOf(i, token)' # {}
        PROVE  index'.postings[token][stored[i].id] =
                 [tf    |-> Cardinality(PlacesOf(i, token)'),
                  lines |-> { Occurrences(stored[i])[k].line : k \in PlacesOf(i, token)' }]
    <3>1. i \in 1..n /\ PlacesOf(i, token)' = PlacesOf(i, token) /\ PlacesOf(i, token) # {}
      BY <2>3, <2>5
    <3>2. index.postings[token][stored[i].id] =
            [tf    |-> Cardinality(PlacesOf(i, token)),
             lines |-> { Occurrences(stored[i])[k].line : k \in PlacesOf(i, token) }]
      BY <1>1, <2>1, <3>1 DEF PostingExact
    <3>3. index'.postings[token] = index.postings[token]
      BY <1>3
    <3>4. QED
      BY ONLY <3>1, <3>2, <3>3
  <2>6. stored' = stored /\ DOMAIN index'.documents = 1..(n + 1)
    BY <1>2, <1>5
  <2>7. QED
    BY ONLY <2>2, <2>4, <2>5, <2>6 DEF PostingExact
<1>10. ASSUME NEW i \in 1..(n + 1) PROVE AllListed(i)'
  <2>1. CASE i \in 1..n
    <3>1. AllListed(i)
      BY <1>1, <2>1 DEF PostingsInv, PostingsExact
    <3>2. QED
      BY <1>3, <1>6, <1>8, <2>1, <3>1 DEF AllListed
  <2>2. CASE i = n + 1
    BY <1>7, <2>2 DEF AllListed
  <2>3. QED
    BY <1>1, <2>1, <2>2
<1>11. PostingsExact'
  BY <1>2, <1>3, <1>5, <1>9, <1>10 DEF PostingsExact
<1>12. Entries' = Entries /\ Len(stored)' = Len(stored) /\ n + 1 <= Len(stored)
  BY <1>1, <1>2 DEF Entries
<1>13. QED
  BY <1>1, <1>2, <1>3, <1>5, <1>11, <1>12 DEF PostingsInv

(* Counting a token changes one posting, the one the token belongs to. *)
LEMMA CountingKeepsPostings == PostingsInv /\ CountNext => PostingsInv'
<1> SUFFICES ASSUME PostingsInv, CountNext PROVE PostingsInv'
  OBVIOUS
<1> SUFFICES ASSUME NEW n, n = Len(index.documents), NEW id, id = stored[n].id,
                    NEW occ, occ = Occurrences(stored[n]), NEW o, o = occ[counted + 1],
                    NEW postings, postings = index.postings
             PROVE  PostingsInv'
  OBVIOUS
<1>1. /\ stored \in Collections /\ n \in 1..Len(stored) /\ n \in Nat /\ counted \in Nat
      /\ index.documents \in Seq(Entries) /\ DOMAIN index.documents = 1..n
      /\ \A i, j \in 1..n : stored[i].id = stored[j].id => i = j
  <2>1. /\ index.documents \in Seq(Entries) /\ index.documents # <<>> /\ n <= Len(stored)
        /\ stored \in Collections /\ counted \in Nat
    BY DEF PostingsInv, CountNext, AllCounted
  <2>2. /\ Len(stored) \in Nat /\ n \in Nat /\ n # 0 /\ DOMAIN index.documents = 1..n
        /\ \A i, j \in 1..Len(stored) : stored[i].id = stored[j].id => i = j
    BY <2>1, StoredRows, LenProperties, EmptySeq
  <2>3. \A i \in 1..n : i \in 1..Len(stored)
    BY <2>1, <2>2
  <2>4. QED
    BY <2>1, <2>2, <2>3
<1>2. /\ stored' = stored /\ stage = "index" /\ stage' = "index" /\ counted' = counted + 1
      /\ DOMAIN index' = {"documents", "postings", "identifiers"}
      /\ index'.documents = index.documents /\ index'.postings = Counted(postings, id, o)
  BY DEF CountNext, LastAdded, PostingsInv
<1> SUFFICES ASSUME NEW new, new = index'.postings PROVE PostingsInv'
  OBVIOUS
<1>3. OneMore(new, postings, id, o)
  BY <1>2, CountedChanges
<1>4. /\ \A i : Occurrences(stored[i])' = Occurrences(stored[i])
      /\ \A i : (stored[i].id)' = stored[i].id
      /\ DOMAIN index'.documents = 1..n
  BY <1>1, <1>2
<1>5. CountedOf(n) = counted /\ CountedOf(n)' = counted + 1
  BY <1>2 DEF CountedOf
<1>6. ASSUME NEW i \in 1..n, i # n
      PROVE  CountedOf(i)' = CountedOf(i) /\ \A token : PlacesOf(i, token)' = PlacesOf(i, token)
  <2>1. CountedOf(i) = Len(Occurrences(stored[i]))
    BY <1>6 DEF CountedOf
  <2>2. CountedOf(i)' = Len(Occurrences(stored[i]))
    BY <1>2, <1>4, <1>6 DEF CountedOf
  <2>3. QED
    BY <1>4, <2>1, <2>2 DEF PlacesOf
<1>7. \A token : PlacesOf(n, token) = PlacesIn(occ, counted, token)
  BY <1>5 DEF PlacesOf
<1>8. \A token : PlacesOf(n, token)' = PlacesIn(occ, counted + 1, token)
  BY <1>4, <1>5 DEF PlacesOf
<1>9. ASSUME NEW token, token # o.token PROVE \A i \in 1..n : PlacesOf(i, token)' = PlacesOf(i, token)
  <2>1. occ[counted + 1].token # token /\ counted \in Nat
    BY <1>1, <1>9
  <2>2. PlacesIn(occ, counted + 1, token) = PlacesIn(occ, counted, token)
    BY ONLY <2>1, PlacesGrow
  <2>3. QED
    BY <1>6, <1>7, <1>8, <2>2
<1>10. PlacesOf(n, o.token)' = PlacesOf(n, o.token) \cup {counted + 1}
  <2>1. occ[counted + 1].token = o.token /\ counted \in Nat
    BY <1>1
  <2>2. 1..(counted + 1) = 1..counted \cup {counted + 1}
    BY <1>1
  <2>3. PlacesIn(occ, counted + 1, o.token) = PlacesIn(occ, counted, o.token) \cup {counted + 1}
    BY <2>1, <2>2 DEF PlacesIn
  <2>4. QED
    BY <1>7, <1>8, <2>3
<1>11. /\ \A token \in DOMAIN postings : PostingExact(token)
       /\ \A i \in 1..n : AllListed(i)
  BY <1>1 DEF PostingsInv, PostingsExact
<1>12. ASSUME NEW token,
              DOMAIN new[token] = { stored[i].id : i \in { j \in 1..n : PlacesOf(j, token)' # {} } },
              \A i \in 1..n : PlacesOf(i, token)' # {} => new[token][stored[i].id] =
                 [tf    |-> Cardinality(PlacesOf(i, token)'),
                  lines |-> { Occurrences(stored[i])[k].line : k \in PlacesOf(i, token)' }]
       PROVE  PostingExact(token)'
  <2>1. stored' = stored /\ index'.postings = new /\ DOMAIN index'.documents = 1..n
    BY <1>2, <1>4
  <2>2. QED
    BY ONLY <1>12, <2>1 DEF PostingExact
<1>13. ASSUME NEW token \in DOMAIN postings, token # o.token PROVE PostingExact(token)'
  <2>1. ASSUME NEW i \in 1..n PROVE PlacesOf(i, token)' = PlacesOf(i, token)
    BY <1>9, <1>13
  <2>2. new[token] = postings[token] /\ PostingExact(token)
    BY <1>3, <1>11, <1>13 DEF OneMore
  <2>3. { j \in 1..n : PlacesOf(j, token)' # {} } = { j \in 1..n : PlacesOf(j, token) # {} }
    BY <2>1
  <2>4. DOMAIN new[token] = { stored[i].id : i \in { j \in 1..n : PlacesOf(j, token)' # {} } }
    BY <1>1, <2>2, <2>3 DEF PostingExact
  <2>5. ASSUME NEW i \in 1..n, PlacesOf(i, token)' # {}
        PROVE  new[token][stored[i].id] =
                 [tf    |-> Cardinality(PlacesOf(i, token)'),
                  lines |-> { Occurrences(stored[i])[k].line : k \in PlacesOf(i, token)' }]
    BY <1>1, <2>1, <2>2, <2>5 DEF PostingExact
  <2>6. QED
    BY <1>12, <2>4, <2>5
<1>14. PostingExact(o.token)'
  <2> SUFFICES ASSUME NEW token, token = o.token PROVE PostingExact(token)'
    OBVIOUS
  <2>1. ASSUME NEW i \in 1..n, PlacesOf(i, token) # {} PROVE token \in DOMAIN postings
    BY <1>11, <2>1 DEF AllListed, PlacesOf, PlacesIn
  <2>2. ASSUME token \in DOMAIN postings
        PROVE  /\ DOMAIN postings[token] =
                    { stored[i].id : i \in { j \in 1..n : PlacesOf(j, token) # {} } }
               /\ \A i \in 1..n : PlacesOf(i, token) # {} => postings[token][stored[i].id] =
                    [tf    |-> Cardinality(PlacesOf(i, token)),
                     lines |-> { Occurrences(stored[i])[k].line : k \in PlacesOf(i, token) }]
    <3>1. PostingExact(token)
      BY <1>11, <2>2
    <3>2. QED
      BY <1>1, <3>1 DEF PostingExact
  <2>3. /\ PlacesOf(n, token)' = PlacesOf(n, token) \cup {counted + 1}
        /\ PlacesOf(n, token)' # {} /\ n \in 1..n
        /\ \A i \in 1..n : i # n => PlacesOf(i, token)' = PlacesOf(i, token)
    BY <1>1, <1>6, <1>10
  <2>4. DOMAIN new[token] = { stored[i].id : i \in { j \in 1..n : PlacesOf(j, token)' # {} } }
    <3>1. { j \in 1..n : PlacesOf(j, token)' # {} } =
            { j \in 1..n : PlacesOf(j, token) # {} } \cup {n}
      <4>1. ASSUME NEW j \in 1..n
            PROVE  PlacesOf(j, token)' # {} <=> PlacesOf(j, token) # {} \/ j = n
        BY <2>3
      <4>2. QED
        BY ONLY <2>3, <4>1
    <3>2. CASE token \in DOMAIN postings
      <4>1. DOMAIN new[token] = DOMAIN postings[token] \cup {id}
        BY <1>3, <3>2 DEF OneMore
      <4>2. DOMAIN postings[token] =
              { stored[i].id : i \in { j \in 1..n : PlacesOf(j, token) # {} } }
        BY <2>2, <3>2
      <4>3. { stored[i].id : i \in { j \in 1..n : PlacesOf(j, token) # {} } \cup {n} } =
              { stored[i].id : i \in { j \in 1..n : PlacesOf(j, token) # {} } } \cup {id}
        OBVIOUS
      <4>4. QED
        BY ONLY <3>1, <4>1, <4>2, <4>3
    <3>3. CASE token \notin DOMAIN postings
      <4>1. DOMAIN new[token] = {id}
        BY <1>3, <3>3 DEF OneMore
      <4>2. { j \in 1..n : PlacesOf(j, token) # {} } = {}
        BY <2>1, <3>3
      <4>3. QED
        BY <3>1, <4>1, <4>2
    <3>4. QED
      BY <3>2, <3>3
  <2>5. ASSUME NEW i \in 1..n, PlacesOf(i, token)' # {}
        PROVE  new[token][stored[i].id] =
                 [tf    |-> Cardinality(PlacesOf(i, token)'),
                  lines |-> { Occurrences(stored[i])[k].line : k \in PlacesOf(i, token)' }]
    <3>1. CASE i # n
      <4>1. /\ PlacesOf(i, token) # {} /\ PlacesOf(i, token)' = PlacesOf(i, token)
            /\ token \in DOMAIN postings
        BY <2>1, <2>3, <2>5, <3>1
      <4>2. stored[i].id \in DOMAIN postings[token] /\ stored[i].id # id
        <5>1. stored[i].id # stored[n].id
          BY <1>1, <2>3, <3>1
        <5>2. i \in { j \in 1..n : PlacesOf(j, token) # {} }
          BY <4>1
        <5>3. QED
          BY <2>2, <4>1, <5>1, <5>2
      <4>3. new[token][stored[i].id] = postings[token][stored[i].id]
        BY <1>3, <4>1, <4>2 DEF OneMore
      <4>4. postings[token][stored[i].id] =
              [tf    |-> Cardinality(PlacesOf(i, token)),
               lines |-> { Occurrences(stored[i])[k].line : k \in PlacesOf(i, token) }]
        BY <2>2, <4>1
      <4>5. PICK places : places = PlacesOf(i, token)
        OBVIOUS
      <4>6. PlacesOf(i, token)' = places
        BY <4>1, <4>5
      <4>7. QED
        BY ONLY <4>3, <4>4, <4>5, <4>6
    <3>2. CASE i = n
      <4> DEFINE Wanted(all) == [tf |-> Cardinality(all), lines |-> { occ[k].line : k \in all }]
      <4>a. PICK places : places = PlacesOf(n, token)
        OBVIOUS
      <4>b. PICK more : more = places \cup {counted + 1}
        OBVIOUS
      <4>1. Cardinality(more) = Cardinality(places) + 1
        BY <1>1, <1>7, <4>a, <4>b, PlacesGrow
      <4>2. { occ[k].line : k \in more } = { occ[k].line : k \in places } \cup {o.line}
        BY <4>b
      <4>3. ASSUME places # {} PROVE new[token][id] = Wanted(more)
        <5>1. /\ token \in DOMAIN postings /\ id \in DOMAIN postings[token]
              /\ postings[token][id] =
                   [tf |-> Cardinality(places), lines |-> { occ[k].line : k \in places }]
          <6>1. token \in DOMAIN postings /\ n \in { j \in 1..n : PlacesOf(j, token) # {} }
            BY <2>1, <2>3, <4>3, <4>a
          <6>2. stored[n].id \in DOMAIN postings[token]
            BY <2>2, <6>1
          <6>3. QED
            <7>1. postings[token][stored[n].id] =
                    [tf    |-> Cardinality(PlacesOf(n, token)),
                     lines |-> { Occurrences(stored[n])[k].line : k \in PlacesOf(n, token) }]
              BY <2>2, <2>3, <4>3, <4>a, <6>1
            <7>2. { Occurrences(stored[n])[k].line : k \in PlacesOf(n, token) }
                    = { occ[k].line : k \in places }
              BY <4>a
            <7>3. QED
              BY <4>a, <6>1, <6>2, <7>1, <7>2
        <5>2. new[token][id] = [tf    |-> postings[token][id].tf + 1,
                                lines |-> postings[token][id].lines \cup {o.line}]
          BY <1>3, <5>1 DEF OneMore
        <5>3. QED
          <6>1. /\ postings[token][id].tf = Cardinality(places)
                /\ postings[token][id].lines = { occ[k].line : k \in places }
            BY ONLY <5>1
          <6>2. QED
            <7>1. /\ postings[token][id].tf + 1 = Cardinality(more)
                  /\ postings[token][id].lines \cup {o.line} = { occ[k].line : k \in more }
              BY <4>1, <4>2, <6>1
            <7>2. QED
              BY <5>2, <7>1
      <4>4. ASSUME places = {} PROVE new[token][id] = Wanted(more)
        <5>1. ~(token \in DOMAIN postings /\ id \in DOMAIN postings[token])
          <6> SUFFICES ASSUME token \in DOMAIN postings, id \in DOMAIN postings[token] PROVE FALSE
            OBVIOUS
          <6>1. PICK i1 \in 1..n : PlacesOf(i1, token) # {} /\ stored[i1].id = id
            BY <2>2
          <6>2. i1 = n
            BY <1>1, <2>3, <6>1
          <6>3. QED
            BY <4>4, <4>a, <6>1, <6>2
        <5>2. new[token][id] = [tf |-> 1, lines |-> {o.line}]
          BY <1>3, <5>1 DEF OneMore
        <5>3. Cardinality(places) = 0
          BY <4>4, FS_EmptySet
        <5>4. Cardinality(more) = 1 /\ { occ[k].line : k \in more } = {o.line}
          <6>1. Cardinality(more) = 1
            BY ONLY <4>1, <5>3
          <6>2. QED
            BY ONLY <4>2, <4>4, <6>1
        <5>5. QED
          BY <5>2, <5>4
      <4>5. new[token][id] = Wanted(more)
        BY <4>3, <4>4
      <4>6. PlacesOf(i, token)' = more /\ stored[i].id = id /\ Occurrences(stored[i]) = occ
        BY <2>3, <3>2, <4>a, <4>b
      <4>7. QED
        BY ONLY <4>5, <4>6
    <3>3. QED
      BY <3>1, <3>2
  <2>6. QED
    BY ONLY <1>12, <2>4, <2>5
<1>15. ASSUME NEW i \in 1..n PROVE AllListed(i)'
  <2>1. AllListed(i)
    BY <1>11
  <2>2. CASE i = n
    <3>1. \A k \in 1..(counted + 1) : k \in 1..counted \/ k = counted + 1
      BY <1>1
    <3>2. \A k \in 1..counted : occ[k].token \in DOMAIN postings
      BY <1>5, <2>1, <2>2 DEF AllListed
    <3>3. QED
      BY <1>2, <1>3, <1>4, <1>5, <2>2, <3>1, <3>2 DEF AllListed, OneMore
  <2>3. CASE i # n
    <3>1. CountedOf(i)' = CountedOf(i)
      BY <1>6, <2>3
    <3>2. \A token \in DOMAIN postings : token \in DOMAIN index'.postings
      BY <1>3 DEF OneMore
    <3>3. QED
      BY <1>4, <2>1, <3>1, <3>2 DEF AllListed
  <2>4. QED
    BY <2>2, <2>3
<1>16. PostingsExact'
  <2>1. ASSUME NEW token \in DOMAIN index'.postings PROVE PostingExact(token)'
    <3>1. DOMAIN index'.postings = DOMAIN postings \cup {o.token}
      BY <1>3 DEF OneMore
    <3>2. token \in DOMAIN postings \/ token = o.token
      BY <2>1, <3>1
    <3>3. QED
      BY <1>13, <1>14, <3>2
  <2>2. QED
    BY <1>1, <1>2, <1>15, <2>1 DEF PostingsExact
<1>17. Entries' = Entries /\ Len(stored)' = Len(stored) /\ counted + 1 \in Nat
  BY <1>1, <1>2 DEF Entries
<1>18. QED
  BY <1>1, <1>2, <1>16, <1>17 DEF PostingsInv

(* Nothing after the last token touches the index. *)
LEMMA LaterKeepsPostings ==
    ASSUME PostingsInv, UNCHANGED <<stored, index, counted>>,
           stage' # "index" => stage # "index" \/ (AllCounted /\ Len(index.documents) = Len(stored))
    PROVE  PostingsInv'
<1>1. /\ stored \in Collections /\ index.documents \in Seq(Entries)
      /\ DOMAIN index.documents = 1..Len(index.documents) /\ Len(index.documents) \in Nat
  BY LenProperties DEF PostingsInv
<1>2. /\ \A i : CountedOf(i)' = CountedOf(i)
      /\ \A token : PostingExact(token)' = PostingExact(token)
      /\ \A i : AllListed(i)' = AllListed(i)
      /\ Entries' = Entries
  BY DEF CountedOf, PostingExact, AllListed, PlacesOf, Entries
<1>3. ASSUME AllCounted, NEW i \in DOMAIN index.documents
      PROVE  CountedOf(i) = Len(Occurrences(stored[i]))
  <2>1. index.documents # <<>>
    BY <1>1, EmptySeq
  <2>2. QED
    BY <1>3, <2>1 DEF AllCounted, LastAdded, CountedOf
<1>4. stage' # "index" =>
        /\ Len(index.documents) = Len(stored)
        /\ \A i \in DOMAIN index.documents : CountedOf(i) = Len(Occurrences(stored[i]))
  BY <1>3 DEF PostingsInv, PostingsExact
<1>5. PostingsExact'
  BY <1>2, <1>4 DEF PostingsInv, PostingsExact
<1>6. QED
  BY <1>1, <1>2, <1>5 DEF PostingsInv

LEMMA PostingsNext == PostingsInv /\ [Next]_vars => PostingsInv'
<1> SUFFICES ASSUME PostingsInv, [Next]_vars PROVE PostingsInv'
  OBVIOUS
<1>1. CASE AddNext
  BY <1>1, AddingKeepsPostings
<1>2. CASE CountNext
  BY <1>2, CountingKeepsPostings
<1>3. CASE CollectTermsOfIndex
  BY <1>3, LaterKeepsPostings DEF CollectTermsOfIndex
<1>4. CASE (\E t \in terms : InsertTerm(t)) \/ Built \/ Answering \/ UNCHANGED vars
  <2>1. /\ UNCHANGED <<stored, index, counted>>
        /\ stage' # "index" =>
             stage # "index" \/ (AllCounted /\ Len(index.documents) = Len(stored))
    BY <1>4 DEF InsertTerm, Built, Answering, vars
  <2>2. QED
    BY <2>1, LaterKeepsPostings
<1>5. QED
  BY <1>1, <1>2, <1>3, <1>4 DEF Next

(* InvertedIndex.add_document (inverted_index.py:22-79): whatever documents *)
(* there are and in whatever order they are added, the index says of every  *)
(* token in which of them it is, how often and on which lines, and says so  *)
(* of all of them when build_runtime_state hands it on.                     *)
THEOREM PostingsStayExact == Spec => []PostingsExact
<1>1. ASSUME Init PROVE PostingsInv
  <2>1. /\ index.documents = <<>> /\ Len(index.documents) = 0 /\ DOMAIN index.documents = {}
        /\ index.documents \in Seq(Entries) /\ DOMAIN index.postings = {}
        /\ DOMAIN index = {"documents", "postings", "identifiers"}
    BY <1>1, EmptySeq DEF Init, EmptyIndex
  <2>2. stored \in Collections /\ counted \in Nat /\ stage = "index" /\ Len(stored) \in Nat
    BY <1>1, StoredRows DEF Init
  <2>3. PostingsExact
    BY <2>1, <2>2 DEF PostingsExact
  <2>4. QED
    BY <2>1, <2>2, <2>3 DEF PostingsInv
<1>2. PostingsInv => PostingsExact
  BY DEF PostingsInv
<1>3. QED
  BY <1>1, <1>2, PostingsNext, PTL DEF Spec

-----------------------------------------------------------------------------
(* The trie. *)

SpellingsInv ==
    /\ stage = "index" => trie = EmptyTrie
    /\ stage # "index" => terms \subseteq Terms(index)
    /\ SpellingsExact

(* What one insertion shows under each word. *)
LEMMA InsertShows ==
    ASSUME NEW t, NEW term, NEW word, word = ToLower(term)
    PROVE  /\ Insert(t, term).nodes = t.nodes \cup Prefixes(word)
           /\ DOMAIN Insert(t, term).shown = DOMAIN t.shown \cup {word}
           /\ Insert(t, term).shown[word] = Preferred(t, word, term)
           /\ \A w \in DOMAIN t.shown : w # word => Insert(t, term).shown[w] = t.shown[w]
BY DEF Insert

(* The rule of the spelling, whatever was inserted before: the first of    *)
(* those with capitals, or the word itself.                                *)
LEMMA InsertSpells ==
    ASSUME NEW t, NEW added, Spells(t, added), NEW term
    PROVE  Spells(Insert(t, term), added \cup {term})
<1> DEFINE u == Insert(t, term)
           all == added \cup {term}
<1> SUFFICES ASSUME NEW word, word = ToLower(term) PROVE Spells(u, all)
  OBVIOUS
<1>1. /\ u.nodes = t.nodes \cup Prefixes(word)
      /\ DOMAIN u.shown = DOMAIN t.shown \cup {word}
      /\ u.shown[word] = Preferred(t, word, term)
      /\ \A w \in DOMAIN t.shown : w # word => u.shown[w] = t.shown[w]
  BY InsertShows
<1> HIDE DEF u
<1>2. u.nodes = {<<>>} \cup UNION { Prefixes(ToLower(a)) : a \in all }
  BY <1>1 DEF Spells
<1>3. DOMAIN u.shown = { ToLower(a) : a \in all }
  BY <1>1 DEF Spells
<1>4. ASSUME NEW w \in DOMAIN u.shown, w # word
      PROVE  /\ u.shown[w] \in all /\ ToLower(u.shown[w]) = w
             /\ u.shown[w] = w => \A a \in all : ToLower(a) = w => a = w
  <2>1. w \in DOMAIN t.shown /\ u.shown[w] = t.shown[w]
    BY <1>1, <1>4
  <2>2. QED
    BY <1>4, <2>1 DEF Spells
<1>5. /\ u.shown[word] \in all /\ ToLower(u.shown[word]) = word
      /\ u.shown[word] = word => \A a \in all : ToLower(a) = word => a = word
  <2>1. CASE word \notin DOMAIN t.shown
    <3>1. u.shown[word] = term
      BY <1>1, <2>1 DEF Preferred
    <3>2. \A a \in added : ToLower(a) # word
      BY <2>1 DEF Spells
    <3>3. QED
      BY <3>1, <3>2
  <2>2. CASE word \in DOMAIN t.shown
    <3>1. /\ t.shown[word] \in added /\ ToLower(t.shown[word]) = word
          /\ t.shown[word] = word => \A a \in added : ToLower(a) = word => a = word
      BY <2>2 DEF Spells
    <3>2. CASE t.shown[word] = word /\ term # word
      BY <1>1, <2>2, <3>2 DEF Preferred
    <3>3. CASE ~(t.shown[word] = word /\ term # word)
      BY <1>1, <2>2, <3>1, <3>3 DEF Preferred
    <3>4. QED
      BY <3>2, <3>3
  <2>3. QED
    BY <2>1, <2>2
<1>6. QED
  BY <1>2, <1>3, <1>4, <1>5 DEF Spells

LEMMA SpellingsNext == SpellingsInv /\ [Next]_vars => SpellingsInv'
<1> SUFFICES ASSUME SpellingsInv, [Next]_vars PROVE SpellingsInv'
  OBVIOUS
<1>1. Spells(EmptyTrie, {})
  BY DEF Spells, EmptyTrie
<1>2. CASE UNCHANGED vars \/ Answering
  BY <1>2 DEF vars, Answering, SpellingsInv, SpellingsExact, Added, Spells
<1>3. CASE AddNext \/ CountNext
  BY <1>1, <1>3 DEF AddNext, CountNext, SpellingsInv, SpellingsExact, Added
<1>4. CASE CollectTermsOfIndex
  <2>1. trie' = EmptyTrie /\ stage' # "index" /\ terms' = Terms(index)'
    BY <1>4 DEF CollectTermsOfIndex, SpellingsInv
  <2>2. Added' = {}
    BY <2>1 DEF Added
  <2>3. QED
    BY <1>1, <2>1, <2>2 DEF SpellingsInv, SpellingsExact, Spells
<1>5. ASSUME NEW t \in terms, InsertTerm(t) PROVE SpellingsInv'
  <2>1. /\ stage = "trie" /\ stage' = "trie" /\ index' = index
        /\ trie' = Insert(trie, t) /\ terms' = terms \ {t}
        /\ t \in Terms(index) /\ terms \subseteq Terms(index)
    BY <1>5 DEF InsertTerm, SpellingsInv
  <2>2. Terms(index)' = Terms(index)
    BY <2>1
  <2>3. Added' = Added \cup {t}
    BY <2>1, <2>2 DEF Added
  <2>4. Spells(Insert(trie, t), Added \cup {t})
    BY InsertSpells DEF SpellingsInv, SpellingsExact
  <2>5. Spells(trie, Added)'
    BY <2>1, <2>3, <2>4 DEF Spells
  <2>6. QED
    BY <2>1, <2>2, <2>5 DEF SpellingsInv, SpellingsExact
<1>6. CASE Built
  BY <1>6 DEF Built, SpellingsInv, SpellingsExact, Added, Spells
<1>7. QED
  BY <1>2, <1>3, <1>4, <1>5, <1>6 DEF Next

(* AutocompleteIndex.build and insert (autocomplete_index.py:16-40): the   *)
(* order in which the set of terms is iterated decides only between        *)
(* spellings with capitals, at every moment of the construction.           *)
THEOREM SpellingsStayExact == Spec => []SpellingsExact
<1>1. Init => SpellingsInv
  BY DEF Init, SpellingsInv, SpellingsExact, Added, Spells, EmptyTrie
<1>2. SpellingsInv => SpellingsExact
  BY DEF SpellingsInv
<1>3. QED
  BY <1>1, <1>2, SpellingsNext, PTL DEF Spec

(* What the index holds beside the postings, and what it holds of any.     *)
IndexInv ==
    /\ PostingsInv
    /\ \A i \in DOMAIN index.documents : index.documents[i] =
          [id     |-> stored[i].id,
           length |-> Len(Occurrences(stored[i])),
           lines  |-> Len(stored[i].content)]
    /\ \A token \in DOMAIN index.postings : DOMAIN index.postings[token] # {}
    /\ \A word \in index.identifiers :
          \E i \in DOMAIN index.documents : \E n \in DOMAIN stored[i].content :
              word \in Identifiers(stored[i].content[n])

LEMMA AddingKeepsIndex == IndexInv /\ AddNext => IndexInv'
<1> SUFFICES ASSUME IndexInv, AddNext PROVE IndexInv'
  OBVIOUS
<1>1. PICK n, row : n = Len(index.documents) /\ row = stored[n + 1]
  OBVIOUS
<1>2. PICK new : new = [id     |-> row.id,
                        length |-> Len(TokensByLine(row.content)),
                        lines  |-> Len(row.content)]
  OBVIOUS
<1>3. /\ stored' = stored /\ index' = Registered(index, row)
      /\ DOMAIN index = {"documents", "postings", "identifiers"}
      /\ index.documents \in Seq(Entries) /\ DOMAIN index.documents = 1..n /\ n \in Nat
  BY <1>1, LenProperties DEF AddNext, IndexInv, PostingsInv
<1>4. /\ index'.postings = index.postings
      /\ index'.documents = Append(index.documents, new)
      /\ index'.identifiers = index.identifiers \cup
           UNION { Identifiers(row.content[k]) : k \in DOMAIN row.content }
  BY <1>2, <1>3 DEF Registered
<1>5. /\ DOMAIN index'.documents = 1..(n + 1) /\ index'.documents[n + 1] = new
      /\ \A i \in 1..n : index'.documents[i] = index.documents[i]
  <2>1. PICK old : old = index.documents
    OBVIOUS
  <2>2. old \in Seq(Entries \cup {new}) /\ new \in Entries \cup {new} /\ Len(old) = n
    <3>1. old \in Seq(Entries) /\ Entries \subseteq Entries \cup {new}
      BY <1>3, <2>1
    <3>2. QED
      BY <1>1, <2>1, <3>1, SeqMonotonic
  <2>3. /\ Append(old, new) \in Seq(Entries \cup {new}) /\ Len(Append(old, new)) = n + 1
        /\ Append(old, new)[n + 1] = new /\ \A i \in 1..n : Append(old, new)[i] = old[i]
    BY <2>2, AppendProperties
  <2>4. DOMAIN Append(old, new) = 1..(n + 1)
    BY <2>3, LenProperties
  <2>5. QED
    BY <1>4, <2>1, <2>3, <2>4
<1>6. \A i : Occurrences(stored[i])' = Occurrences(stored[i]) /\ (stored[i])' = stored[i]
  BY <1>3
<1>7. ASSUME NEW i \in 1..(n + 1)
      PROVE  index'.documents[i] = [id     |-> stored[i].id,
                                    length |-> Len(Occurrences(stored[i])),
                                    lines  |-> Len(stored[i].content)]
  <2>1. CASE i = n + 1
    BY <1>1, <1>2, <1>5, <2>1 DEF Occurrences
  <2>2. CASE i # n + 1
    <3>1. i \in 1..n
      BY <1>3, <2>2
    <3>2. QED
      BY <1>3, <1>5, <3>1 DEF IndexInv
  <2>3. QED
    BY <2>1, <2>2
<1>8. ASSUME NEW word \in index'.identifiers
      PROVE  \E i \in 1..(n + 1) : \E k \in DOMAIN stored[i].content :
                word \in Identifiers(stored[i].content[k])
  <2>1. CASE word \in index.identifiers
    <3>1. PICK i \in 1..n : \E k \in DOMAIN stored[i].content :
            word \in Identifiers(stored[i].content[k])
      BY <1>3, <2>1 DEF IndexInv
    <3>2. i \in 1..(n + 1)
      BY <1>3
    <3>3. QED
      BY <3>1, <3>2
  <2>2. CASE word \notin index.identifiers
    <3>1. PICK k \in DOMAIN row.content : word \in Identifiers(row.content[k])
      BY <1>4, <2>2
    <3>2. n + 1 \in 1..(n + 1)
      BY <1>3
    <3>3. QED
      BY <1>1, <3>1, <3>2
  <2>3. QED
    BY <2>1, <2>2
<1>9. PostingsInv'
  BY AddingKeepsPostings DEF IndexInv
<1>10. \A token \in DOMAIN index'.postings : DOMAIN index'.postings[token] # {}
  BY <1>4 DEF IndexInv
<1>11. \A i \in DOMAIN index'.documents : index'.documents[i] =
          [id     |-> stored'[i].id,
           length |-> Len(Occurrences(stored[i])'),
           lines  |-> Len(stored'[i].content)]
  BY <1>3, <1>5, <1>6, <1>7
<1>12. \A word \in index'.identifiers :
          \E i \in DOMAIN index'.documents : \E k \in DOMAIN stored'[i].content :
              word \in Identifiers(stored'[i].content[k])
  BY <1>3, <1>5, <1>8
<1>13. QED
  BY <1>9, <1>10, <1>11, <1>12 DEF IndexInv

LEMMA CountingKeepsIndex == IndexInv /\ CountNext => IndexInv'
<1> SUFFICES ASSUME IndexInv, CountNext PROVE IndexInv'
  OBVIOUS
<1>1. PICK o, postings : o = Occurrences(LastAdded)[counted + 1] /\ postings = index.postings
  OBVIOUS
<1>2. /\ stored' = stored /\ index'.documents = index.documents
      /\ index'.identifiers = index.identifiers
      /\ index'.postings = Counted(postings, LastAdded.id, o)
  BY <1>1 DEF CountNext, IndexInv, PostingsInv
<1>3. OneMore(index'.postings, postings, LastAdded.id, o)
  BY <1>2, CountedChanges
<1>4. ASSUME NEW token \in DOMAIN index'.postings PROVE DOMAIN index'.postings[token] # {}
  BY <1>1, <1>3 DEF OneMore, IndexInv
<1>5. \A i : Occurrences(stored[i])' = Occurrences(stored[i]) /\ (stored[i])' = stored[i]
  BY <1>2
<1>6. PostingsInv'
  BY CountingKeepsPostings DEF IndexInv
<1>7. \A i \in DOMAIN index'.documents : index'.documents[i] =
          [id     |-> stored'[i].id,
           length |-> Len(Occurrences(stored[i])'),
           lines  |-> Len(stored'[i].content)]
  BY <1>2, <1>5 DEF IndexInv
<1>8. \A word \in index'.identifiers :
          \E i \in DOMAIN index'.documents : \E k \in DOMAIN stored'[i].content :
              word \in Identifiers(stored'[i].content[k])
  BY <1>2 DEF IndexInv
<1>9. QED
  BY <1>4, <1>6, <1>7, <1>8 DEF IndexInv

LEMMA IndexInit == Init => IndexInv
<1> SUFFICES ASSUME Init PROVE IndexInv
  OBVIOUS
<1>1. /\ index.documents = <<>> /\ Len(index.documents) = 0 /\ DOMAIN index.documents = {}
      /\ index.documents \in Seq(Entries) /\ DOMAIN index.postings = {}
      /\ DOMAIN index = {"documents", "postings", "identifiers"} /\ index.identifiers = {}
  BY EmptySeq DEF Init, EmptyIndex
<1>2. stored \in Collections /\ counted \in Nat /\ stage = "index" /\ Len(stored) \in Nat
  BY StoredRows DEF Init
<1>3. PostingsExact
  BY <1>1, <1>2 DEF PostingsExact
<1>4. QED
  BY <1>1, <1>2, <1>3 DEF IndexInv, PostingsInv

LEMMA IndexNext == IndexInv /\ [Next]_vars => IndexInv'
<1> SUFFICES ASSUME IndexInv, [Next]_vars PROVE IndexInv'
  OBVIOUS
<1>1. CASE AddNext
  BY <1>1, AddingKeepsIndex
<1>2. CASE CountNext
  BY <1>2, CountingKeepsIndex
<1>3. CASE CollectTermsOfIndex \/ (\E t \in terms : InsertTerm(t)) \/ Built \/ Answering \/ UNCHANGED vars
  <2>1. stored' = stored /\ index' = index
    BY <1>3 DEF CollectTermsOfIndex, InsertTerm, Built, Answering, vars
  <2>2. PostingsInv'
    BY PostingsNext DEF IndexInv
  <2>3. \A i : Occurrences(stored[i])' = Occurrences(stored[i])
    BY <2>1
  <2>4. QED
    BY <2>1, <2>2, <2>3 DEF IndexInv
<1>4. QED
  BY <1>1, <1>2, <1>3 DEF Next

(* What a finished index says of the documents. *)
IndexFinished ==
    /\ stored \in Collections
    /\ Len(index.documents) = Len(stored) /\ DOMAIN index.documents = 1..Len(stored)
    /\ \A i \in 1..Len(stored) : index.documents[i] =
          [id     |-> stored[i].id,
           length |-> Len(Occurrences(stored[i])),
           lines  |-> Len(stored[i].content)]
    /\ \A token : token \in DOMAIN index.postings <=> Matching({token}) # {}
    /\ \A token \in DOMAIN index.postings :
          /\ DOMAIN index.postings[token] = { stored[i].id : i \in Matching({token}) }
          /\ \A i \in Matching({token}) : index.postings[token][stored[i].id] =
                [tf |-> CountOf(stored[i], token), lines |-> LinesOf(stored[i], {token})]
    /\ \A word \in index.identifiers :
          \E i \in 1..Len(stored) : \E n \in DOMAIN stored[i].content :
              word \in Identifiers(stored[i].content[n])

(* The occurrences of a document are a sequence, one of each token of each *)
(* line or more.                                                           *)
LEMMA OccurrencesOf ==
    ASSUME stored \in Collections, NEW i \in 1..Len(stored)
    PROVE  /\ stored[i].content \in Seq(Seq(Characters))
           /\ Occurrences(stored[i]) \in Seq(Range(Occurrences(stored[i])))
           /\ DOMAIN Occurrences(stored[i]) = 1..Len(Occurrences(stored[i]))
           /\ Len(Occurrences(stored[i])) \in Nat
           /\ Range(Occurrences(stored[i])) = OccurrencesIn(stored[i].content)
<1>1. stored[i].content \in Seq(Seq(Characters))
  <2>1. i \in DOMAIN stored
    BY StoredRows
  <2>2. QED
    BY <2>1, CollectionsAssumption
<1>2. PICK content, occurrences :
        content = stored[i].content /\ occurrences = TokensByLine(content)
  OBVIOUS
<1>3. /\ occurrences \in Seq(Range(occurrences))
      /\ Range(occurrences) = OccurrencesIn(content)
  BY <1>1, <1>2, OccurrencesAre
<1>4. DOMAIN occurrences = 1..Len(occurrences) /\ Len(occurrences) \in Nat
  BY <1>3, LenProperties
<1>5. Occurrences(stored[i]) = occurrences
  BY <1>2 DEF Occurrences
<1>6. QED
  BY <1>1, <1>2, <1>3, <1>4, <1>5

(* Once all are counted, the places of a token are all there are. *)
LEMMA PlacesAreAll ==
    ASSUME stored \in Collections, NEW i \in 1..Len(stored), NEW token,
           CountedOf(i) = Len(Occurrences(stored[i]))
    PROVE  /\ PlacesOf(i, token) # {} <=> LinesOf(stored[i], {token}) # {}
           /\ CountOf(stored[i], token) = Cardinality(PlacesOf(i, token))
           /\ LinesOf(stored[i], {token}) =
                { Occurrences(stored[i])[k].line : k \in PlacesOf(i, token) }
<1>1. PICK occ : occ = Occurrences(stored[i])
  OBVIOUS
<1>2. DOMAIN occ = 1..Len(occ)
  BY <1>1, OccurrencesOf
<1>3. PICK places : places = { k \in 1..Len(occ) : occ[k].token = token }
  OBVIOUS
<1>4. PlacesOf(i, token) = places
  BY <1>1, <1>3 DEF PlacesOf, PlacesIn
<1>5. CountOf(stored[i], token) = Cardinality(places)
  BY <1>1, <1>2, <1>3 DEF CountOf
<1>6. LinesOf(stored[i], {token}) = { occ[k].line : k \in places }
  <2>1. LinesOf(stored[i], {token}) = { o.line : o \in { o \in ToSet(occ) : o.token \in {token} } }
    BY <1>1 DEF LinesOf
  <2>2. ToSet(occ) = { occ[k] : k \in 1..Len(occ) }
    BY <1>2 DEF ToSet
  <2>3. { o \in ToSet(occ) : o.token \in {token} } = { occ[k] : k \in places }
    BY <1>3, <2>2
  <2>4. { o.line : o \in { occ[k] : k \in places } } = { occ[k].line : k \in places }
    OBVIOUS
  <2>5. QED
    BY ONLY <2>1, <2>3, <2>4
<1>7. QED
  BY <1>1, <1>4, <1>5, <1>6

LEMMA FinishedIndex ==
    ASSUME IndexInv, stage # "index"
    PROVE  IndexFinished
<1>1. /\ stored \in Collections /\ Len(index.documents) = Len(stored)
      /\ DOMAIN index.documents = 1..Len(stored)
      /\ \A i \in 1..Len(stored) : CountedOf(i) = Len(Occurrences(stored[i]))
  BY LenProperties DEF IndexInv, PostingsInv, PostingsExact
<1>2. \A i \in 1..Len(stored) : \A token :
          PlacesOf(i, token) # {} <=> LinesOf(stored[i], {token}) # {}
  BY <1>1, PlacesAreAll
<1>3. \A token : Matching({token}) = { i \in 1..Len(stored) : PlacesOf(i, token) # {} }
  BY <1>1, <1>2, StoredRows DEF Matching
<1>4. ASSUME NEW token, Matching({token}) # {} PROVE token \in DOMAIN index.postings
  <2>1. PICK i \in 1..Len(stored) : PlacesOf(i, token) # {}
    BY <1>3, <1>4
  <2>2. AllListed(i)
    BY <1>1 DEF IndexInv, PostingsInv, PostingsExact
  <2>3. QED
    BY <2>1, <2>2 DEF AllListed, PlacesOf, PlacesIn
<1>5. ASSUME NEW token \in DOMAIN index.postings
      PROVE  /\ Matching({token}) # {}
             /\ DOMAIN index.postings[token] = { stored[i].id : i \in Matching({token}) }
             /\ \A i \in Matching({token}) : index.postings[token][stored[i].id] =
                   [tf |-> CountOf(stored[i], token), lines |-> LinesOf(stored[i], {token})]
  <2>1. PostingExact(token) /\ DOMAIN index.postings[token] # {}
    BY DEF IndexInv, PostingsInv, PostingsExact
  <2>2. DOMAIN index.postings[token] = { stored[i].id : i \in Matching({token}) }
    BY <1>1, <1>3, <2>1 DEF PostingExact
  <2>3. ASSUME NEW i \in Matching({token})
        PROVE  index.postings[token][stored[i].id] =
                   [tf |-> CountOf(stored[i], token), lines |-> LinesOf(stored[i], {token})]
    <3>1. i \in 1..Len(stored) /\ PlacesOf(i, token) # {}
      BY <1>3, <2>3
    <3>2. index.postings[token][stored[i].id] =
            [tf    |-> Cardinality(PlacesOf(i, token)),
             lines |-> { Occurrences(stored[i])[k].line : k \in PlacesOf(i, token) }]
      <4>1. i \in DOMAIN index.documents
        BY <1>1, <3>1
      <4>2. PostingExact(token)
        BY <2>1
      <4>3. QED
        BY ONLY <3>1, <4>1, <4>2 DEF PostingExact
    <3>3. /\ CountOf(stored[i], token) = Cardinality(PlacesOf(i, token))
          /\ LinesOf(stored[i], {token}) =
                { Occurrences(stored[i])[k].line : k \in PlacesOf(i, token) }
      BY <1>1, <3>1, PlacesAreAll
    <3>4. QED
      BY ONLY <3>2, <3>3
  <2>4. QED
    BY <2>1, <2>2, <2>3
<1>6. QED
  BY <1>1, <1>4, <1>5 DEF IndexFinished, IndexInv
=============================================================================
