---------------------------- MODULE CrawlerProofs ----------------------------
(***************************************************************************)
(* Proofs about Crawler, for any file tree, any filters and any number of  *)
(* changes.  The argument: a file waits in a directory not listed yet,     *)
(* then in the listing, then it is looked at, then it is settled, and is   *)
(* never any of these again; what the crawl knows of the file it looks at  *)
(* held of a state in the file's history.                                  *)
(***************************************************************************)
EXTENDS Crawler, TLAPS

(* What the filters let through: no part of the absolute path is ignored.  *)
Kept(f) == root \cap IgnoredDirectories = {} /\ Wanted(f)

(* What the crawl relies on after each answer of the file system. *)
Looking(f) == pc \in {"size", "read", "stat"} /\ current = f

Waiting(f) ==
    \/ pc = "start"
    \/ Directory[f] \in todo
    \/ f \in listed

SmallOnce(f) == \E v \in past[f] \cap FileStates : v.size <= MaxFileSize
TextOnce(f) == \E v \in past[f] \cap FileStates : v.text = text /\ text # NotText

HistoryOK == \A f \in Files : tree[f] \in past[f]

RootOK ==
    /\ root \in BadRoots => pc \in {"start", "failed"}
    /\ pc = "start" => listed = {}

LookingOK ==
    /\ pc \in {"size", "read", "stat"} =>
        /\ current \in Files /\ Kept(current)
        /\ past[current] \cap FileStates # {}
    /\ pc \in {"read", "stat"} => SmallOnce(current)
    /\ pc = "stat" => TextOnce(current)

(* The stages of a file exclude each other. *)
StagesOK ==
    \A f \in Files :
        /\ Looking(f) => ~Waiting(f)
        /\ f \in listed => Directory[f] \notin todo
        /\ Waiting(f) \/ Looking(f) => \A s \in sources : s.file # f

(* A settled file that stayed as it was is recorded as it should be. *)
Exact(f, v) ==
    { s \in sources : s.file = f } =
        IF v \in FileStates /\ Kept(f) /\ v.size <= MaxFileSize /\ v.text # NotText
        THEN {[file |-> f, size |-> v.size, text |-> v.text]} ELSE {}

SettledOK ==
    \A f \in Files, v \in NameStates :
        pc # "failed" /\ ~Waiting(f) /\ ~Looking(f) /\ past[f] = {v} => Exact(f, v)

EndOK == pc = "done" => todo = {} /\ listed = {}

CrawlInv ==
    /\ TypeOK /\ HistoryOK /\ RootOK /\ LookingOK /\ StagesOK /\ SettledOK /\ EndOK
    /\ RecordedExisted /\ RaisesOnlyForCause

-----------------------------------------------------------------------------
LEMMA InitInv == Init => CrawlInv
BY CrawlerAssumption
   DEF Init, CrawlInv, TypeOK, HistoryOK, RootOK, LookingOK, StagesOK, SettledOK, EndOK,
       RecordedExisted, RaisesOnlyForCause, Looking, Waiting

(* A present file has a size and a text. *)
LEMMA StateFields ==
    ASSUME NEW v \in FileStates
    PROVE  v.size \in Nat /\ v.text \in Texts /\ v \notin {Absent, Denied}
BY CrawlerAssumption DEF Texts

(* Every step of the crawl leaves the file system and its history alone. *)
LEMMA BeginInv == ASSUME CrawlInv, Begin PROVE CrawlInv'
<1> USE DEF Begin, Environment
<1>1. TypeOK'
  BY DEF CrawlInv, TypeOK
<1>2. \A s \in sources : FALSE
  BY DEF CrawlInv, TypeOK, StagesOK, Waiting
<1>3. listed = {} /\ listed' = {} /\ sources' = sources
  BY DEF CrawlInv, RootOK
<1>4. pc' \in {"next", "failed"} /\ (pc' = "next" => root \notin BadRoots)
  BY DEF CrawlInv
<1>5. HistoryOK' /\ RootOK' /\ LookingOK' /\ EndOK'
  BY <1>3, <1>4 DEF CrawlInv, HistoryOK, RootOK, LookingOK, EndOK
<1>6. StagesOK' /\ SettledOK'
  BY <1>2, <1>3, <1>4 DEF StagesOK, SettledOK, Looking, Waiting
<1>7. RecordedExisted'
  BY <1>2 DEF RecordedExisted
<1>8. RaisesOnlyForCause'
  BY <1>4 DEF RaisesOnlyForCause
<1>9. QED
  BY <1>1, <1>5, <1>6, <1>7, <1>8 DEF CrawlInv

LEMMA ListInv == ASSUME CrawlInv, NEW d \in todo, List(d) PROVE CrawlInv'
<1> USE DEF List, Environment
<1>1. TypeOK'
  BY DEF CrawlInv, TypeOK
<1>2. HistoryOK' /\ RootOK' /\ LookingOK' /\ EndOK'
  BY DEF CrawlInv, HistoryOK, RootOK, LookingOK, EndOK, SmallOnce, TextOnce, Kept, Wanted
<1>3. \A f \in Files : /\ Waiting(f)' => Waiting(f)
                       /\ ~Looking(f)' /\ ~Looking(f)
  BY DEF Waiting, Looking
<1>4. StagesOK'
  BY <1>3 DEF CrawlInv, StagesOK
<1>5. SettledOK'
  <2> SUFFICES ASSUME NEW f \in Files, NEW v \in NameStates,
                      ~Waiting(f)', past[f] = {v}
               PROVE  Exact(f, v)'
    BY DEF SettledOK
  <2>1. CASE ~Waiting(f)
    BY <1>3, <2>1 DEF CrawlInv, SettledOK, Exact, Kept, Wanted
  <2>2. CASE Waiting(f)
    <3>1. v = Absent
      BY <2>2 DEF Waiting, CrawlInv, HistoryOK
    <3>2. \A s \in sources : s.file # f
      BY <2>2 DEF CrawlInv, StagesOK
    <3>3. QED
      BY <3>1, <3>2, CrawlerAssumption DEF Exact
  <2>3. QED
    BY <2>1, <2>2
<1>6. RecordedExisted' /\ RaisesOnlyForCause'
  BY DEF CrawlInv, RecordedExisted, RaisesOnlyForCause, Kept, Wanted
<1>7. QED
  BY <1>1, <1>2, <1>4, <1>5, <1>6 DEF CrawlInv

LEMMA VisitInv == ASSUME CrawlInv, NEW f \in listed, Visit(f) PROVE CrawlInv'
<1> USE DEF Visit, Environment
<1>0. /\ f \in Files /\ pc = "next" /\ Waiting(f) /\ sources' = sources
      /\ Directory[f] \notin todo
  BY DEF CrawlInv, TypeOK, Waiting, StagesOK
<1>1. TypeOK'
  BY <1>0 DEF CrawlInv, TypeOK
<1>2. HistoryOK' /\ RootOK' /\ EndOK'
  BY DEF CrawlInv, HistoryOK, RootOK, EndOK
<1>3. Considered(f) <=> tree[f] \in FileStates /\ Kept(f)
  BY DEF Considered, IsFile, IsIgnoredPath, HasSupportedExtension, Kept, Wanted
<1>4. LookingOK'
  BY <1>0, <1>3 DEF CrawlInv, LookingOK, HistoryOK, Kept, Wanted
<1>5. \A g \in Files : /\ Waiting(g)' <=> Waiting(g) /\ g # f
                       /\ Looking(g)' <=> g = f /\ Considered(f)
                       /\ ~Looking(g)
  BY <1>0, CrawlerAssumption DEF Waiting, Looking, Considered, IsFile
<1>6. StagesOK'
  BY <1>0, <1>5 DEF CrawlInv, StagesOK
<1>7. SettledOK'
  <2> SUFFICES ASSUME NEW g \in Files, NEW v \in NameStates,
                      pc' # "failed", ~Waiting(g)', ~Looking(g)', past[g] = {v}
               PROVE  Exact(g, v)'
    BY DEF SettledOK
  <2>1. CASE g # f
    BY <1>0, <1>5, <2>1 DEF CrawlInv, SettledOK, Exact, Kept, Wanted
  <2>2. CASE g = f
    <3>1. v = tree[f] /\ ~(v \in FileStates /\ Kept(f))
      BY <1>0, <1>3, <1>5, <2>2 DEF CrawlInv, HistoryOK
    <3>2. \A s \in sources : s.file # f
      BY <1>0 DEF CrawlInv, StagesOK
    <3>3. QED
      BY <1>0, <2>2, <3>1, <3>2 DEF Exact, Kept, Wanted
  <2>3. QED
    BY <2>1, <2>2
<1>8. pc' = "failed" => Denied \in past[f]
  BY <1>0 DEF CrawlInv, HistoryOK
<1>9. RecordedExisted' /\ RaisesOnlyForCause'
  BY <1>0, <1>8 DEF CrawlInv, RecordedExisted, RaisesOnlyForCause
<1>10. QED
  BY <1>1, <1>2, <1>4, <1>6, <1>7, <1>9 DEF CrawlInv

(* A step that drops the file looked at, or goes on looking at it: nothing *)
(* is recorded, so only that file needs an argument.                       *)
LEMMA LookInv ==
    ASSUME CrawlInv, pc \in {"size", "read"}, Environment,
           UNCHANGED <<todo, listed, current, sources>>,
           pc' \in {"next", "read", "stat"}, TypeOK', LookingOK',
           ASSUME pc' = "next", NEW v \in FileStates, past[current] = {v}
           PROVE  v.size > MaxFileSize \/ v.text = NotText
    PROVE  CrawlInv'
<1> USE DEF Environment
<1>1. /\ current \in Files /\ ~Waiting(current) /\ past[current] \cap FileStates # {}
      /\ \A s \in sources : s.file # current
      /\ root \notin BadRoots
  BY DEF CrawlInv, LookingOK, StagesOK, RootOK, Looking
<1>2. HistoryOK' /\ RootOK' /\ EndOK'
  BY <1>1 DEF CrawlInv, HistoryOK, RootOK, EndOK
<1>3. \A f \in Files : /\ Waiting(f)' <=> Waiting(f)
                       /\ Looking(f) <=> f = current
                       /\ Looking(f)' <=> f = current /\ pc' # "next"
  BY DEF Waiting, Looking
<1>4. StagesOK'
  BY <1>3 DEF CrawlInv, StagesOK
<1>5. SettledOK'
  <2> SUFFICES ASSUME NEW f \in Files, NEW v \in NameStates,
                      ~Waiting(f)', ~Looking(f)', past[f] = {v}
               PROVE  Exact(f, v)'
    BY DEF SettledOK
  <2>1. CASE f # current
    BY <1>3, <2>1 DEF CrawlInv, SettledOK, Exact, Kept, Wanted
  <2>2. CASE f = current
    <3>1. v \in FileStates /\ pc' = "next"
      BY <1>1, <1>3, <2>2
    <3>2. v.size \in Nat /\ MaxFileSize \in Nat
      BY <3>1, StateFields, CrawlerAssumption
    <3>3. ~(v.size <= MaxFileSize /\ v.text # NotText)
      BY <2>2, <3>1, <3>2
    <3>4. QED
      BY <1>1, <2>2, <3>3 DEF Exact
  <2>3. QED
    BY <2>1, <2>2
<1>6. RecordedExisted' /\ RaisesOnlyForCause'
  BY DEF CrawlInv, RecordedExisted, RaisesOnlyForCause, Kept, Wanted
<1>7. QED
  BY <1>2, <1>4, <1>5, <1>6 DEF CrawlInv

(* A wanted file that was there is gone or refused: the crawl raises. *)
LEMMA RaiseInv ==
    ASSUME CrawlInv, pc \in {"size", "stat"}, ~IsFile(current), pc' = "failed",
           Environment, UNCHANGED <<todo, listed, current, text, sources>>
    PROVE  CrawlInv'
<1> USE DEF Environment
<1>1. /\ current \in Files /\ Kept(current)
      /\ tree[current] \in past[current] /\ tree[current] \in {Absent, Denied}
      /\ past[current] # {Absent}
  BY CrawlerAssumption DEF CrawlInv, LookingOK, HistoryOK, TypeOK, IsFile, NameStates
<1>2. TypeOK' /\ HistoryOK' /\ RootOK' /\ LookingOK' /\ EndOK'
  BY DEF CrawlInv, TypeOK, HistoryOK, RootOK, LookingOK, EndOK
<1>3. StagesOK' /\ SettledOK'
  BY DEF CrawlInv, StagesOK, SettledOK, Waiting, Looking
<1>4. RecordedExisted' /\ RaisesOnlyForCause'
  BY <1>1 DEF CrawlInv, RecordedExisted, RaisesOnlyForCause, Kept, Wanted
<1>5. QED
  BY <1>2, <1>3, <1>4 DEF CrawlInv

LEMMA CheckSizeInv == ASSUME CrawlInv, CheckSize PROVE CrawlInv'
<1>1. /\ current \in Files /\ Kept(current) /\ past[current] \cap FileStates # {}
      /\ tree[current] \in past[current] /\ tree[current] \in NameStates
  BY DEF CheckSize, CrawlInv, LookingOK, HistoryOK, TypeOK
<1>2. CASE ~IsFile(current)
  BY <1>2, RaiseInv DEF CheckSize
<1>3. CASE tree[current] \in FileStates
  <2>1. tree[current] \in FileStates /\ tree[current].size \in Nat /\ MaxFileSize \in Nat
    BY <1>1, <1>3, StateFields, CrawlerAssumption
  <2>2. pc' = IF tree[current].size <= MaxFileSize THEN "read" ELSE "next"
    BY <1>3 DEF CheckSize, IsFile
  <2>3. TypeOK'
    BY <2>2 DEF CheckSize, Environment, CrawlInv, TypeOK
  <2>4. LookingOK'
    BY <1>1, <1>3, <2>2 DEF CheckSize, Environment, LookingOK, SmallOnce, Kept, Wanted
  <2>5. ASSUME pc' = "next", NEW v \in FileStates, past[current] = {v}
        PROVE  v.size > MaxFileSize \/ v.text = NotText
    BY <1>1, <2>1, <2>2, <2>5
  <2>6. QED
    BY <2>2, <2>3, <2>4, <2>5, LookInv DEF CheckSize
<1>4. QED
  BY <1>2, <1>3 DEF IsFile

LEMMA ReadInv == ASSUME CrawlInv, Read PROVE CrawlInv'
<1>1. /\ current \in Files /\ Kept(current) /\ past[current] \cap FileStates # {}
      /\ SmallOnce(current)
      /\ tree[current] \in past[current] /\ tree[current] \in NameStates
  BY DEF Read, CrawlInv, LookingOK, HistoryOK, TypeOK
<1>2. /\ pc' \in {"next", "stat"}
      /\ pc' = "stat" => Readable(current) /\ text' = tree[current].text
      /\ pc' = "next" => ~Readable(current) /\ text' = text
  BY DEF Read
<1>3. Readable(current) => tree[current] \in FileStates /\ tree[current].text \in Texts
  BY <1>1, StateFields DEF Readable, IsFile
<1>4. TypeOK'
  BY <1>2, <1>3 DEF Read, Environment, CrawlInv, TypeOK
<1>5. LookingOK'
  BY <1>1, <1>2 DEF Read, Environment, LookingOK, SmallOnce, TextOnce, Kept, Wanted, Readable,
                        IsFile
<1>6. ASSUME pc' = "next", NEW v \in FileStates, past[current] = {v}
      PROVE  v.size > MaxFileSize \/ v.text = NotText
  BY <1>1, <1>2, <1>6, StateFields DEF Readable, IsFile
<1>7. QED
  BY <1>2, <1>4, <1>5, <1>6, LookInv DEF Read

LEMMA StatInv == ASSUME CrawlInv, Stat PROVE CrawlInv'
<1>1. CASE ~IsFile(current)
  BY <1>1, RaiseInv DEF Stat
<1>2. CASE tree[current] \in FileStates
  <2> DEFINE new == [file |-> current, size |-> tree[current].size, text |-> text]
  <2>1. /\ pc = "stat" /\ pc' = "next" /\ sources' = sources \cup {new}
        /\ UNCHANGED <<root, tree, past, changes, todo, listed, current, text>>
    BY <1>2 DEF Stat, Environment, IsFile
  <2>2. /\ current \in Files /\ Kept(current) /\ SmallOnce(current) /\ TextOnce(current)
        /\ ~Waiting(current) /\ root \notin BadRoots
        /\ \A s \in sources : s.file # current
    BY <2>1 DEF CrawlInv, LookingOK, StagesOK, RootOK, Looking
  <2>3. /\ tree[current] \in past[current] /\ tree[current] \in FileStates
        /\ past[current] \subseteq NameStates
    BY <1>2, <2>2 DEF CrawlInv, HistoryOK, TypeOK
  <2>4. new \in [file : Files, size : Nat, text : Texts]
    BY <2>2, <2>3, StateFields DEF TextOnce
  <2>5. TypeOK'
    BY <2>1, <2>4 DEF CrawlInv, TypeOK
  <2>6. HistoryOK' /\ RootOK' /\ LookingOK' /\ EndOK'
    BY <2>1, <2>2 DEF CrawlInv, HistoryOK, RootOK, LookingOK, EndOK
  <2>7. \A f \in Files : /\ Waiting(f)' <=> Waiting(f)
                         /\ ~Looking(f)'
                         /\ Looking(f) <=> f = current
    BY <2>1 DEF Waiting, Looking
  <2>8. StagesOK'
    BY <2>1, <2>2, <2>7 DEF CrawlInv, StagesOK
  <2>9. SettledOK'
    <3> SUFFICES ASSUME NEW f \in Files, NEW v \in NameStates,
                        ~Waiting(f)', past[f] = {v}
                 PROVE  Exact(f, v)'
      BY <2>1 DEF SettledOK
    <3>1. CASE f # current
      <4>1. Exact(f, v)
        BY <2>1, <2>7, <3>1 DEF CrawlInv, SettledOK
      <4>2. { s \in sources' : s.file = f } = { s \in sources : s.file = f }
        BY <2>1, <3>1
      <4>3. QED
        BY <2>1, <4>1, <4>2 DEF Exact, Kept, Wanted
    <3>2. CASE f = current
      <4>1. v = tree[current] /\ v.size <= MaxFileSize /\ v.text = text /\ text # NotText
        BY <2>2, <2>3, <3>2 DEF SmallOnce, TextOnce
      <4>2. { s \in sources' : s.file = f } = {new}
        BY <2>1, <2>2, <3>2
      <4>3. QED
        BY <1>2, <2>1, <2>2, <3>2, <4>1, <4>2 DEF Exact, Kept, Wanted
    <3>3. QED
      BY <3>1, <3>2
  <2>10. RecordedExisted'
    <3>1. /\ \E v \in past[current] \cap FileStates : v.text = new.text /\ v.text # NotText
          /\ \E v \in past[current] \cap FileStates : v.size = new.size
          /\ \E v \in past[current] \cap FileStates : v.size <= MaxFileSize
      BY <1>2, <2>2, <2>3 DEF SmallOnce, TextOnce
    <3>2. QED
      BY <2>1, <2>2, <3>1 DEF CrawlInv, RecordedExisted
  <2>11. RaisesOnlyForCause'
    BY <2>1 DEF RaisesOnlyForCause
  <2>12. QED
    BY <2>5, <2>6, <2>8, <2>9, <2>10, <2>11 DEF CrawlInv
<1>3. QED
  BY <1>1, <1>2 DEF IsFile

LEMMA ReturnInv == ASSUME CrawlInv, Return PROVE CrawlInv'
<1> USE DEF Return, Environment
<1>1. TypeOK' /\ HistoryOK' /\ RootOK' /\ LookingOK' /\ EndOK'
  BY DEF CrawlInv, TypeOK, HistoryOK, RootOK, LookingOK, EndOK
<1>2. StagesOK' /\ SettledOK'
  BY DEF CrawlInv, StagesOK, SettledOK, Waiting, Looking, Exact, Kept, Wanted
<1>3. RecordedExisted' /\ RaisesOnlyForCause'
  BY DEF CrawlInv, RecordedExisted, RaisesOnlyForCause
<1>4. QED
  BY <1>1, <1>2, <1>3 DEF CrawlInv

(* A change only adds to the history, and a file that changed has more     *)
(* than one state in it.                                                   *)
LEMMA ChangeInv == ASSUME CrawlInv, NEW f \in Files, Change(f) PROVE CrawlInv'
<1>1. PICK v \in NameStates \ {tree[f]} :
        /\ tree' = [tree EXCEPT ![f] = v]
        /\ past' = [past EXCEPT ![f] = @ \cup {v}]
  BY DEF Change
<1>2. /\ pc \notin {"done", "failed"}
      /\ changes < MaxChanges /\ changes' = changes + 1
      /\ UNCHANGED <<root, pc, todo, listed, current, text, sources>>
  BY DEF Change, crawlVars
<1>3. /\ past \in [Files -> SUBSET NameStates]
      /\ tree \in [Files -> NameStates]
      /\ changes \in 0..MaxChanges /\ MaxChanges \in Nat
  BY CrawlerAssumption DEF CrawlInv, TypeOK
<1>4. TypeOK'
  BY <1>1, <1>2, <1>3 DEF CrawlInv, TypeOK
<1>5. HistoryOK'
  BY <1>1, <1>3 DEF CrawlInv, HistoryOK
<1>6. \A g \in Files : past[g] \subseteq past'[g]
  BY <1>1, <1>3
<1>7. \A g \in Files : \A u : past'[g] = {u} => past[g] = {u}
  <2> SUFFICES ASSUME NEW g \in Files, NEW u, past'[g] = {u} PROVE past[g] = {u}
    OBVIOUS
  <2>1. tree[g] \in past[g]
    BY DEF CrawlInv, HistoryOK
  <2>2. QED
    BY <1>1, <1>3, <1>6, <2>1
<1>8. LookingOK'
  BY <1>2, <1>6 DEF CrawlInv, LookingOK, SmallOnce, TextOnce, Kept, Wanted
<1>9. RootOK' /\ EndOK' /\ StagesOK'
  BY <1>2 DEF CrawlInv, RootOK, EndOK, StagesOK, Waiting, Looking
<1>10. SettledOK'
  BY <1>2, <1>7 DEF CrawlInv, SettledOK, Waiting, Looking, Exact, Kept, Wanted
<1>11. RecordedExisted'
  <2>1. \A s \in sources : s.file \in Files
    BY DEF CrawlInv, TypeOK
  <2>2. QED
    BY <1>2, <1>6, <2>1 DEF CrawlInv, RecordedExisted
<1>12. RaisesOnlyForCause'
  BY <1>2 DEF RaisesOnlyForCause
<1>13. QED
  BY <1>4, <1>5, <1>8, <1>9, <1>10, <1>11, <1>12 DEF CrawlInv

LEMMA NextInv == CrawlInv /\ [Next]_vars => CrawlInv'
<1>1. CrawlInv /\ Next /\ ~Ended => CrawlInv'
  BY BeginInv, ListInv, VisitInv, CheckSizeInv, ReadInv, StatInv, ReturnInv, ChangeInv
     DEF Next, Crawl
<1>2. CrawlInv /\ UNCHANGED vars => CrawlInv'
  BY DEF vars, crawlVars, CrawlInv, TypeOK, HistoryOK, RootOK, LookingOK, StagesOK, SettledOK,
         EndOK, RecordedExisted, RaisesOnlyForCause, SmallOnce, TextOnce, Waiting,
         Looking, Exact, Kept, Wanted
<1>3. QED
  BY <1>1, <1>2 DEF Ended

LEMMA CrawlInvariant == Spec => []CrawlInv
BY InitInv, NextInv, PTL DEF Spec

-----------------------------------------------------------------------------
(* A finished crawl is exact for every file that stayed as it was          *)
(* (repository_crawler.py:56-86), provided that no root is below a         *)
(* directory with an ignored name: below one, nothing is recorded.         *)
THEOREM UnchangedFilesStayExact ==
    ASSUME \A r \in Roots : r \cap IgnoredDirectories = {}
    PROVE  Spec => []UnchangedFilesExact
<1>1. CrawlInv => UnchangedFilesExact
  <2> SUFFICES ASSUME CrawlInv, pc = "done",
                      NEW f \in Files, NEW v \in NameStates, past[f] = {v}
               PROVE  { s \in sources : s.file = f } =
                        IF v \in FileStates /\ Wanted(f) /\ v.size <= MaxFileSize
                           /\ v.text # NotText
                        THEN {[file |-> f, size |-> v.size, text |-> v.text]} ELSE {}
    BY DEF UnchangedFilesExact
  <2>1. ~Waiting(f) /\ ~Looking(f)
    BY DEF Waiting, Looking, CrawlInv, EndOK
  <2>2. Exact(f, v)
    BY <2>1 DEF CrawlInv, SettledOK
  <2>3. root \cap IgnoredDirectories = {}
    BY DEF CrawlInv, RootOK, TypeOK
  <2>4. QED
    BY <2>2, <2>3 DEF Exact, Kept
<1>2. QED
  BY <1>1, CrawlInvariant, PTL

(* What is recorded of a file was true of it at some moment of the crawl,  *)
(* and it is recorded once (repository_crawler.py:68-84).                  *)
THEOREM RecordedHasExisted == Spec => []RecordedExisted
<1>1. CrawlInv => RecordedExisted
  BY DEF CrawlInv
<1>2. QED
  BY <1>1, CrawlInvariant, PTL

(* Only a wanted file that disappears, or a name that may not be asked     *)
(* about, makes a crawl raise (repository_crawler.py:59-68 filters before  *)
(* it asks for the size, and is_file() comes before the filters).          *)
THEOREM RaisesForCause == Spec => []RaisesOnlyForCause
<1>1. CrawlInv => RaisesOnlyForCause
  BY DEF CrawlInv
<1>2. QED
  BY <1>1, CrawlInvariant, PTL

(* Every reachable state of a crawl is well typed. *)
THEOREM CrawlTypeCorrect == Spec => []TypeOK
<1>1. CrawlInv => TypeOK
  BY DEF CrawlInv
<1>2. QED
  BY <1>1, CrawlInvariant, PTL
=============================================================================
