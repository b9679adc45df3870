------------------------ MODULE SearchServiceProofs ------------------------
(***************************************************************************)
(* Proofs about SearchService, for any number of threads, requests,        *)
(* repositories and versions.  The argument: a generation is written into  *)
(* the history when it is published and that place is never written again, *)
(* so what a thread captured, and what it later puts in the cache, agrees  *)
(* with the history for good.                                              *)
(***************************************************************************)
EXTENDS SearchService, TLAPS

(* The history holds generation g, at or before the latest version. *)
Recorded(g) ==
    /\ g.version <= latest[g.path].version
    /\ published[g.path][g.version] = g.docs

LatestRecorded ==
    \A p \in Paths : latest[p].version > 0 =>
        /\ latest[p].docs \in Collections
        /\ published[p][latest[p].version] = latest[p].docs

ServedRecorded == served # Null => Recorded(served)

(* What a thread at stage s, with call c, holds. *)
ThreadOK(s, c) ==
    /\ s \in {"capture", "get", "rank", "rank_only", "set", "respond"} => c.req \in Requests
    /\ s \in {"get", "rank", "rank_only", "set", "respond"} => c.state # Null
    /\ s \in {"set", "respond"} => c.answer # Null
    /\ s = "capture" => c.answer = Null
    /\ s \in {"capture", "suggest"} => served # Null
    /\ c.state # Null => Recorded(c.state)
    /\ c.answer # Null =>
          /\ c.state # Null
          /\ c.answer.docs = c.state.docs
          /\ KeyOf[c.answer.req] = KeyOf[c.req]

ThreadsOK == \A t \in Threads : ThreadOK(pc[t], call[t])

(* A coherent entry lies at or before the latest version of its repository. *)
EntryOK(k, e) ==
    e \notin {Null, Corrupt} =>
        /\ k[2] <= latest[k[1]].version
        /\ e.docs = published[k[1]][k[2]]
        /\ KeyOf[e.req] = k[3]

CacheOK == \A k \in CacheKeys : EntryOK(k, cache[k])

GenerationsInv == TypeOK /\ LatestRecorded /\ ServedRecorded

SearchInv ==
    /\ GenerationsInv
    /\ SearchTypeOK
    /\ ThreadsOK
    /\ CacheOK

-----------------------------------------------------------------------------
LEMMA SearchInitInv == SearchInit => SearchInv
BY MaxVersionAssumption
   DEF SearchInit, Init, SearchInv, SearchTypeOK, TypeOK, LatestRecorded, ServedRecorded,
       ThreadsOK, ThreadOK, CacheOK, EntryOK, GenerationsInv, Versions, CacheKeys, Results,
       Served, Stage, Call, NoCall

(* A step that changes one thread's stage and call only. *)
LEMMA ThreadStepInv ==
    ASSUME SearchInv, UNCHANGED <<genVars, published, cache>>,
           NEW t \in Threads, NEW s \in Stage, NEW c \in Call,
           pc' = [pc EXCEPT ![t] = s], call' = [call EXCEPT ![t] = c],
           ThreadOK(s, c)
    PROVE  SearchInv'
<1>1. GenerationsInv'
  BY DEF SearchInv, GenerationsInv, TypeOK, LatestRecorded, ServedRecorded, Recorded, genVars
<1>2. SearchTypeOK'
  BY <1>1 DEF SearchInv, GenerationsInv, SearchTypeOK, genVars
<1>3. ThreadsOK'
  <2>1. \A x \in Stage, y \in Call : ThreadOK(x, y)' <=> ThreadOK(x, y)
    BY DEF ThreadOK, Recorded, genVars
  <2>2. pc \in [Threads -> Stage] /\ call \in [Threads -> Call]
    BY DEF SearchInv, SearchTypeOK
  <2>3. QED
    BY <2>1, <2>2 DEF SearchInv, ThreadsOK
<1>4. CacheOK'
  BY DEF SearchInv, CacheOK, EntryOK, genVars
<1>5. QED
  BY <1>1, <1>2, <1>3, <1>4 DEF SearchInv

(* A step that changes the entry under one key only. *)
LEMMA EntryStepInv ==
    ASSUME SearchInv, UNCHANGED <<genVars, published, pc, call>>,
           NEW k \in CacheKeys, NEW e \in Results \cup {Null, Corrupt},
           cache' = [cache EXCEPT ![k] = e], EntryOK(k, e)
    PROVE  SearchInv'
<1>1. GenerationsInv'
  BY DEF SearchInv, GenerationsInv, TypeOK, LatestRecorded, ServedRecorded, Recorded, genVars
<1>2. SearchTypeOK'
  BY <1>1 DEF SearchInv, GenerationsInv, SearchTypeOK, genVars
<1>3. ThreadsOK'
  BY DEF SearchInv, ThreadsOK, ThreadOK, Recorded, genVars
<1>4. CacheOK'
  BY DEF SearchInv, SearchTypeOK, CacheOK, EntryOK, genVars
<1>5. QED
  BY <1>1, <1>2, <1>3, <1>4 DEF SearchInv

(* A write to the cache moves the thread and the entry together: first the *)
(* entry is coherent, then both parts are preserved.                       *)
LEMMA CacheSetInv ==
    ASSUME SearchInv, NEW t \in Threads, CacheSet(t)
    PROVE  SearchInv'
<1> DEFINE k == CacheKey(call[t].state, call[t].req)
<1>1. /\ pc \in [Threads -> Stage] /\ call \in [Threads -> Call]
      /\ cache \in [CacheKeys -> Results \cup {Null, Corrupt}]
      /\ ThreadOK(pc[t], call[t]) /\ pc[t] = "set"
  BY DEF SearchInv, SearchTypeOK, ThreadsOK, CacheSet
<1>2. /\ call[t].state \in Served /\ call[t].req \in Requests
      /\ call[t].answer \in Results /\ Recorded(call[t].state)
      /\ call[t].answer.docs = call[t].state.docs
      /\ KeyOf[call[t].answer.req] = KeyOf[call[t].req]
  BY <1>1 DEF ThreadOK, Call
<1>3. /\ k \in CacheKeys /\ k[1] = call[t].state.path
      /\ k[2] = call[t].state.version /\ k[3] = KeyOf[call[t].req]
  BY <1>2, KeyAssumption DEF CacheKey, CacheKeys, Served
<1>4. EntryOK(k, call[t].answer)
  BY <1>2, <1>3 DEF EntryOK, Recorded
<1>5. GenerationsInv'
  BY DEF CacheSet, SearchInv, GenerationsInv, TypeOK, LatestRecorded, ServedRecorded, Recorded,
         genVars
<1>6. SearchTypeOK'
  <2>1. pc' \in [Threads -> Stage]
    BY <1>1 DEF CacheSet, Advance, Stage
  <2>2. cache' \in [CacheKeys -> Results \cup {Null, Corrupt}]
    BY <1>1, <1>2, <1>3 DEF CacheSet
  <2>3. QED
    BY <1>5, <2>1, <2>2 DEF CacheSet, SearchInv, GenerationsInv, SearchTypeOK, genVars
<1>7. ThreadsOK'
  BY <1>1 DEF CacheSet, Advance, SearchInv, ThreadsOK, ThreadOK, Recorded, genVars
<1>8. CacheOK'
  BY <1>1, <1>3, <1>4 DEF CacheSet, SearchInv, CacheOK, EntryOK, genVars
<1>9. QED
  BY <1>5, <1>6, <1>7, <1>8 DEF SearchInv

-----------------------------------------------------------------------------
(* The steps of a thread, each an instance of ThreadStepInv or EntryStepInv. *)
LEMMA AnswerInv ==
    ASSUME SearchInv, NEW t \in Threads, Answer(t)
    PROVE  SearchInv'
<1> USE DEF Advance
<1>1. /\ pc[t] \in Stage /\ call[t] \in Call /\ ThreadOK(pc[t], call[t])
      /\ pc \in [Threads -> Stage] /\ call \in [Threads -> Call]
      /\ cache \in [CacheKeys -> Results \cup {Null, Corrupt}]
      /\ served \in Served \cup {Null}
  BY DEF SearchInv, SearchTypeOK, TypeOK, ThreadsOK, Served, Versions
<1>2. CASE Suggest(t)
  <2>1. "idle" \in Stage /\ ThreadOK("idle", call[t])
    BY <1>1 DEF ThreadOK, Stage
  <2>2. call' = [call EXCEPT ![t] = call[t]]
    BY <1>1, <1>2 DEF Suggest
  <2>3. QED
    BY <1>1, <1>2, <2>1, <2>2, ThreadStepInv DEF Suggest
<1>3. CASE Capture(t)
  <2> DEFINE c == [call[t] EXCEPT !.state = served]
  <2>1. c \in Call /\ "get" \in Stage
    BY <1>1 DEF Call, Stage
  <2>2. ThreadOK("get", c)
    BY <1>1, <1>3 DEF Capture, ThreadOK, SearchInv, GenerationsInv, ServedRecorded, Call
  <2>3. call' = [call EXCEPT ![t] = c]
    BY <1>1, <1>3 DEF Capture, Call
  <2>4. QED
    BY <1>3, <2>1, <2>2, <2>3, ThreadStepInv DEF Capture
<1>4. CASE CacheHit(t)
  <2> DEFINE c == [call[t] EXCEPT !.answer = Entry(t)]
             k == CacheKey(call[t].state, call[t].req)
  <2>1. /\ call[t].state \in Served /\ call[t].req \in Requests
        /\ Recorded(call[t].state)
    BY <1>1, <1>4 DEF CacheHit, ThreadOK, Call
  <2>2. /\ k \in CacheKeys /\ k[1] = call[t].state.path
        /\ k[2] = call[t].state.version /\ k[3] = KeyOf[call[t].req]
    BY <2>1, KeyAssumption DEF CacheKey, CacheKeys, Served
  <2>3. /\ Entry(t) \in Results /\ Entry(t) # Null
        /\ Entry(t).docs = call[t].state.docs
        /\ KeyOf[Entry(t).req] = KeyOf[call[t].req]
    BY <1>1, <1>4, <2>1, <2>2 DEF CacheHit, Entry, SearchInv, CacheOK, EntryOK, Recorded
  <2>4. c \in Call /\ "respond" \in Stage
    BY <1>1, <2>3 DEF Call, Stage
  <2>5. ThreadOK("respond", c)
    BY <1>1, <2>1, <2>3, NullsAssumption, <1>4 DEF ThreadOK, Served, CacheHit
  <2>6. call' = [call EXCEPT ![t] = c]
    BY <1>1, <1>4 DEF CacheHit, Call
  <2>7. QED
    BY <1>4, <2>4, <2>5, <2>6, ThreadStepInv DEF CacheHit
<1>5. CASE CacheMiss(t)
  <2>1. "rank" \in Stage /\ ThreadOK("rank", call[t])
    BY <1>1, <1>5 DEF ThreadOK, Stage, CacheMiss
  <2>2. call' = [call EXCEPT ![t] = call[t]]
    BY <1>1, <1>5 DEF CacheMiss
  <2>3. QED
    BY <1>1, <1>5, <2>1, <2>2, ThreadStepInv DEF CacheMiss
<1>6. CASE CacheGetFails(t)
  <2>1. "rank_only" \in Stage /\ ThreadOK("rank_only", call[t])
    BY <1>1, <1>6 DEF ThreadOK, Stage, CacheGetFails
  <2>2. call' = [call EXCEPT ![t] = call[t]]
    BY <1>1, <1>6 DEF CacheGetFails
  <2>3. QED
    BY <1>1, <1>6, <2>1, <2>2, ThreadStepInv DEF CacheGetFails
<1>7. CASE Rank(t)
  <2> DEFINE c == [call[t] EXCEPT !.answer = Ranked(t)]
             s == IF pc[t] = "rank" THEN "set" ELSE "respond"
  <2>1. call[t].state \in Served /\ call[t].req \in Requests
    BY <1>1, <1>7 DEF Rank, ThreadOK, Call
  <2>2. Ranked(t) \in Results /\ Ranked(t) # Null
    BY <2>1, NullsAssumption DEF Ranked, Results, Served
  <2>3. c \in Call /\ s \in Stage
    BY <1>1, <2>2 DEF Call, Stage
  <2>4. ThreadOK(s, c)
    BY <1>1, <1>7, <2>1, <2>2 DEF Rank, Ranked, ThreadOK, Call
  <2>5. call' = [call EXCEPT ![t] = c]
    BY <1>1, <1>7 DEF Rank, Call
  <2>6. QED
    BY <1>7, <2>3, <2>4, <2>5, ThreadStepInv DEF Rank
<1>8. CASE CacheSetFails(t)
  <2>1. "respond" \in Stage /\ ThreadOK("respond", call[t])
    BY <1>1, <1>8 DEF ThreadOK, Stage, CacheSetFails
  <2>2. call' = [call EXCEPT ![t] = call[t]]
    BY <1>1, <1>8 DEF CacheSetFails
  <2>3. QED
    BY <1>1, <1>8, <2>1, <2>2, ThreadStepInv DEF CacheSetFails
<1>9. CASE Respond(t)
  <2>1. "idle" \in Stage /\ NoCall \in Call /\ ThreadOK("idle", NoCall)
    BY DEF ThreadOK, Stage, Call, NoCall
  <2>2. QED
    BY <1>9, <2>1, ThreadStepInv DEF Respond
<1>10. CASE CacheSet(t)
  <2>1. SearchInv' BY <1>1, <1>10, CacheSetInv
  <2>2. QED BY <2>1
<1>11. CASE CacheDecodeFails(t)
  <2>1. "rank_only" \in Stage /\ ThreadOK("rank_only", call[t])
    BY <1>1, <1>11 DEF ThreadOK, Stage, CacheDecodeFails
  <2>2. call' = [call EXCEPT ![t] = call[t]]
    BY <1>1, <1>11 DEF CacheDecodeFails
  <2>3. QED
    BY <1>1, <1>11, <2>1, <2>2, ThreadStepInv DEF CacheDecodeFails
<1>12. QED
  BY <1>2, <1>3, <1>4, <1>5, <1>6, <1>7, <1>8, <1>9, <1>10, <1>11 DEF Answer

(* An admitted request: the runtime state is there. *)
LEMMA AdmitInv ==
    ASSUME SearchInv, NEW t \in Threads,
           (\E r \in Requests : Search(t, r)) \/ Autocomplete(t)
    PROVE  SearchInv'
<1>1. /\ call \in [Threads -> Call] /\ ThreadOK(pc[t], call[t])
  BY DEF SearchInv, SearchTypeOK, ThreadsOK
<1>2. ASSUME NEW r \in Requests, Search(t, r) PROVE SearchInv'
  <2> DEFINE c == [NoCall EXCEPT !.req = r]
  <2>1. c \in Call /\ "capture" \in Stage
    BY DEF Call, NoCall, Stage
  <2>2. ThreadOK("capture", c)
    BY <1>2 DEF ThreadOK, NoCall, Search, IsReady
  <2>3. QED
    BY <1>2, <2>1, <2>2, ThreadStepInv DEF Search, Advance
<1>3. ASSUME Autocomplete(t) PROVE SearchInv'
  <2>1. "suggest" \in Stage /\ ThreadOK("suggest", call[t]) /\ call[t] \in Call
    BY <1>1, <1>3 DEF ThreadOK, Stage, Autocomplete, IsReady
  <2>2. call' = [call EXCEPT ![t] = call[t]]
    BY <1>1, <1>3 DEF Autocomplete
  <2>3. QED
    BY <1>3, <2>1, <2>2, ThreadStepInv DEF Autocomplete, Advance
<1>4. QED
  BY <1>2, <1>3

(* Redis drops or garbles an entry. *)
LEMMA RedisInv ==
    ASSUME SearchInv, NEW k \in CacheKeys, Expire(k) \/ Garble(k)
    PROVE  SearchInv'
<1>1. EntryOK(k, Null) /\ EntryOK(k, Corrupt)
  BY DEF EntryOK
<1>2. QED
  BY <1>1, EntryStepInv DEF Expire, Garble

(* What is recorded stays recorded when the next version is published. *)
LEMMA PublishInv ==
    ASSUME SearchInv, NEW p \in Paths, NEW d \in Collections, PublishGeneration(p, d)
    PROVE  SearchInv'
<1> DEFINE v == latest[p].version + 1
<1>1. /\ v \in Versions /\ d \in Collections
      /\ latest \in [Paths -> [version : 0..MaxVersion, docs : Collections \cup {Empty}]]
      /\ published \in [Paths -> [Versions -> Collections \cup {Empty}]]
  BY MaxVersionAssumption
     DEF SearchInv, SearchTypeOK, TypeOK, PublishGeneration, Publish, Versions
<1>2. /\ latest' = [latest EXCEPT ![p] = [version |-> v, docs |-> d]]
      /\ published' = [published EXCEPT ![p][v] = d]
      /\ UNCHANGED <<served, cache, pc, call>>
  BY <1>1 DEF PublishGeneration, Publish, searchVars
<1>3. /\ latest' \in [Paths -> [version : 0..MaxVersion, docs : Collections \cup {Empty}]]
      /\ published' \in [Paths -> [Versions -> Collections \cup {Empty}]]
      /\ active' \in Paths \cup {Null}
  BY <1>1, <1>2, MaxVersionAssumption DEF Versions, PublishGeneration, Publish
<1>4. \A q \in Paths, u \in Versions : u <= latest[q].version =>
          /\ u <= latest'[q].version
          /\ published'[q][u] = published[q][u]
  BY <1>1, <1>2, MaxVersionAssumption DEF Versions
<1>5. \A g \in Served : Recorded(g) => Recorded(g)'
  BY <1>4 DEF Recorded, Served
<1>6. SearchTypeOK'
  BY <1>2, <1>3 DEF SearchInv, SearchTypeOK, TypeOK
<1>7. LatestRecorded'
  <2> SUFFICES ASSUME NEW q \in Paths, latest'[q].version > 0
               PROVE  /\ latest'[q].docs \in Collections
                      /\ published'[q][latest'[q].version] = latest'[q].docs
    BY DEF LatestRecorded
  <2>1. CASE q = p
    BY <1>1, <1>2, <2>1
  <2>2. CASE q # p
    <3>1. latest'[q] = latest[q] /\ published'[q] = published[q]
      BY <1>1, <1>2, <2>2
    <3>2. QED
      BY <3>1 DEF SearchInv, GenerationsInv, LatestRecorded
  <2>3. QED
    BY <2>1, <2>2
<1>8. ServedRecorded'
  <2>1. served # Null => served \in Served
    BY DEF SearchInv, SearchTypeOK, TypeOK, Served, Versions
  <2>2. QED
    BY <1>2, <1>5, <2>1 DEF SearchInv, GenerationsInv, ServedRecorded, Recorded
<1>9. ThreadsOK'
  <2> SUFFICES ASSUME NEW t \in Threads PROVE ThreadOK(pc[t], call[t])'
    BY DEF ThreadsOK
  <2>1. ThreadOK(pc[t], call[t])
    BY DEF SearchInv, ThreadsOK
  <2>2. call[t].state # Null => call[t].state \in Served
    BY DEF SearchInv, SearchTypeOK, Call
  <2>3. call[t].state # Null => Recorded(call[t].state)'
    BY <1>2, <1>5, <2>1, <2>2 DEF ThreadOK, Recorded
  <2>4. QED
    BY <1>2, <2>1, <2>3 DEF ThreadOK, Recorded
<1>10. CacheOK'
  <2> SUFFICES ASSUME NEW k \in CacheKeys PROVE EntryOK(k, cache[k])'
    BY DEF CacheOK
  <2>1. EntryOK(k, cache[k])
    BY DEF SearchInv, CacheOK
  <2>2. k[1] \in Paths /\ k[2] \in Versions
    BY DEF CacheKeys
  <2>3. QED
    BY <1>2, <1>4, <2>1, <2>2 DEF EntryOK
<1>11. QED
  BY <1>6, <1>7, <1>8, <1>9, <1>10 DEF SearchInv, SearchTypeOK, GenerationsInv

LEMMA ServeInv ==
    ASSUME SearchInv, NEW p \in Paths, ServeGeneration(p)
    PROVE  SearchInv'
<1>1. /\ latest \in [Paths -> [version : 0..MaxVersion, docs : Collections \cup {Empty}]]
      /\ latest[p].version > 0 /\ latest[p].docs \in Collections
      /\ served' = Generation(p)
      /\ UNCHANGED <<latest, active, published, cache, pc, call>>
  BY DEF SearchInv, SearchTypeOK, TypeOK, GenerationsInv, LatestRecorded, ServeGeneration,
         Serve, searchVars
<1>2. Generation(p) \in Served
  BY <1>1, MaxVersionAssumption DEF Generation, Served, Versions
<1>3. TypeOK' /\ SearchTypeOK'
  BY <1>1, <1>2 DEF SearchInv, SearchTypeOK, TypeOK, Served, Versions
<1>4. LatestRecorded' /\ CacheOK'
  BY <1>1 DEF SearchInv, GenerationsInv, LatestRecorded, CacheOK, EntryOK
<1>5. Recorded(Generation(p))
  BY <1>1 DEF Recorded, Generation, SearchInv, GenerationsInv, LatestRecorded
<1>6. ServedRecorded'
  BY <1>1, <1>5 DEF ServedRecorded, Recorded
<1>7. served' # Null
  BY <1>1, <1>2, NullsAssumption DEF Served, Versions
<1>8. ThreadsOK'
  BY <1>1, <1>7 DEF SearchInv, ThreadsOK, ThreadOK, Recorded
<1>9. QED
  BY <1>3, <1>4, <1>6, <1>8 DEF SearchInv, GenerationsInv

LEMMA CrashInv == SearchInv /\ Crash => SearchInv'
<1> SUFFICES ASSUME SearchInv, Crash PROVE SearchInv'
  OBVIOUS
<1>1. /\ UNCHANGED <<latest, active, published, cache>> /\ served' = Null
      /\ pc' = [t \in Threads |-> "idle"] /\ call' = [t \in Threads |-> NoCall]
  BY DEF Crash, Lose
<1>2. TypeOK' /\ SearchTypeOK'
  BY <1>1 DEF SearchInv, SearchTypeOK, TypeOK, Stage, Call, NoCall
<1>3. LatestRecorded' /\ ServedRecorded' /\ CacheOK'
  BY <1>1 DEF SearchInv, GenerationsInv, LatestRecorded, ServedRecorded, CacheOK, EntryOK
<1>4. ThreadsOK'
  BY <1>1 DEF ThreadsOK, ThreadOK, NoCall
<1>5. QED
  BY <1>2, <1>3, <1>4 DEF SearchInv, GenerationsInv

LEMMA SearchNextInv == SearchInv /\ [SearchNext]_vars => SearchInv'
<1>1. SearchInv /\ SearchNext => SearchInv'
  BY AnswerInv, AdmitInv, RedisInv, PublishInv, ServeInv, CrashInv DEF SearchNext
<1>2. SearchInv /\ UNCHANGED vars => SearchInv'
  BY DEF vars, genVars, searchVars, SearchInv, GenerationsInv, SearchTypeOK, TypeOK,
         LatestRecorded, ServedRecorded, Recorded, ThreadsOK, ThreadOK, CacheOK, EntryOK
<1>3. QED
  BY <1>1, <1>2

LEMMA SearchInvariant == SearchSpec => []SearchInv
BY SearchInitInv, SearchNextInv, PTL DEF SearchSpec

-----------------------------------------------------------------------------
(* The cache only ever holds results of the documents its version label    *)
(* was published with, for requests with its key (search_service.py:69-75  *)
(* writes under the captured state's identity).                            *)
THEOREM CacheStaysCoherent == SearchSpec => []CacheIsCoherent
<1>1. SearchInv => CacheIsCoherent
  BY DEF SearchInv, CacheOK, EntryOK, CacheIsCoherent
<1>2. QED
  BY <1>1, SearchInvariant, PTL

(* A search is answered from the generation it captured, through the cache *)
(* or not (search_service.py:26-84).                                       *)
THEOREM AnswersStayCaptured == SearchSpec => []AnswersTheCaptured
<1>1. SearchInv => AnswersTheCaptured
  BY DEF SearchInv, ThreadsOK, ThreadOK, AnswersTheCaptured
<1>2. QED
  BY <1>1, SearchInvariant, PTL

(* The readiness check of the routes stays true until the state is read    *)
(* again (routes.py:53-58 and 87-96).                                      *)
THEOREM AdmittedStayReady == SearchSpec => []AdmittedFindsState
<1>1. SearchInv => AdmittedFindsState
  BY DEF SearchInv, ThreadsOK, ThreadOK, AdmittedFindsState
<1>2. QED
  BY <1>1, SearchInvariant, PTL

(* Every reachable state of searching, the cache and what indexing has     *)
(* published is well typed.                                                *)
THEOREM SearchTypeCorrect == SearchSpec => []SearchTypeOK
<1>1. SearchInv => SearchTypeOK
  BY DEF SearchInv
<1>2. QED
  BY <1>1, SearchInvariant, PTL

(* What is served is at most as new as the database's record, and the      *)
(* newest number is served with the documents recorded under it            *)
(* (indexing_service.py:108-182).                                          *)
THEOREM ServedStaysPublished == SearchSpec => []ServedIsPublished
<1>1. SearchInv => ServedIsPublished
  <2> SUFFICES ASSUME SearchInv, served # Null PROVE ServedIsPublished
    BY DEF ServedIsPublished
  <2>1. served \in Served /\ Recorded(served)
    BY DEF SearchInv, GenerationsInv, SearchTypeOK, TypeOK, ServedRecorded, Served, Versions
  <2>2. served.version > 0
    BY <2>1 DEF Served, Versions
  <2>3. served.path \in Paths
    BY <2>1 DEF Served
  <2>4. served.version = latest[served.path].version =>
            published[served.path][latest[served.path].version] = latest[served.path].docs
    BY <2>2, <2>3 DEF SearchInv, GenerationsInv, LatestRecorded
  <2>5. QED
    BY <2>1, <2>4 DEF ServedIsPublished, Recorded
<1>2. QED
  BY <1>1, SearchInvariant, PTL
=============================================================================
