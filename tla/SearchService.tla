--------------------------- MODULE SearchService ---------------------------
(***************************************************************************)
(* GET /search and GET /autocomplete: api/routes.py over                   *)
(* services/search_service.py and services/redis_search_cache.py.          *)
(* Threads of the server's pool handle requests while indexing publishes   *)
(* generations and switches the runtime state under them (Generations);    *)
(* Redis is a separate process that answers, fails, expires entries and    *)
(* survives a crash of the server.  A result is the pair of the documents  *)
(* that were ranked and the request they were ranked for: what ranking     *)
(* computes from the two is the ranker's business.                         *)
(***************************************************************************)
EXTENDS Generations

CONSTANTS
    Threads,   \* threads that handle searches
    Requests,  \* (query, limit) pairs
    Keys,      \* what the cache key keeps of a request: sorted tokens, limit
    KeyOf,     \* KeyOf[r]: the part of r the cache key keeps
    Corrupt    \* a cached payload that does not decode

ASSUME KeyAssumption == KeyOf \in [Requests -> Keys]
ASSUME NullsAssumption ==
    /\ Empty \notin Collections
    /\ Null \notin [path : Paths, version : 1..MaxVersion, docs : Collections]
    /\ Null \notin [docs : Collections, req : Requests]
    /\ Corrupt \notin [docs : Collections, req : Requests]
    /\ Corrupt # Null

VARIABLES
    published,  \* history: the documents each version of a repository had
    cache,      \* Redis: the entry under each key
    pc,         \* where each thread's request is
    call        \* each thread's request, captured runtime state and answer

searchVars == <<cache, pc, call>>
vars == <<genVars, published, searchVars>>

Versions == 1..MaxVersion
CacheKeys == Paths \X Versions \X Keys
Results == [docs : Collections, req : Requests]
Served == [path : Paths, version : Versions, docs : Collections]
Stage == {"idle", "capture", "get", "rank", "rank_only", "set", "respond", "suggest"}
Call == [req : Requests \cup {Null}, state : Served \cup {Null},
         answer : Results \cup {Null}]

NoCall == [req |-> Null, state |-> Null, answer |-> Null]

SearchTypeOK ==
    /\ TypeOK
    /\ published \in [Paths -> [Versions -> Collections \cup {Empty}]]
    /\ cache \in [CacheKeys -> Results \cup {Null, Corrupt}]
    /\ pc \in [Threads -> Stage]
    /\ call \in [Threads -> Call]

SearchInit ==
    /\ Init
    /\ published = [p \in Paths |-> [v \in Versions |-> Empty]]
    /\ cache = [k \in CacheKeys |-> Null]
    /\ pc = [t \in Threads |-> "idle"]
    /\ call = [t \in Threads |-> NoCall]

Advance(t, stage) == pc' = [pc EXCEPT ![t] = stage]

-----------------------------------------------------------------------------
(* Routes: is_ready() reads the runtime state once; a server that is not   *)
(* ready answers 409 and changes nothing.  A published collection has      *)
(* documents, so that a generation that is served is ready.                *)

ReadyUnchecked == TRUE
IsReady == served # Null

Search(t, r) ==
    /\ pc[t] = "idle" /\ IsReady
    /\ Advance(t, "capture")
    /\ call' = [call EXCEPT ![t] = [NoCall EXCEPT !.req = r]]
    /\ UNCHANGED <<genVars, published, cache>>

Autocomplete(t) ==
    /\ pc[t] = "idle" /\ IsReady
    /\ Advance(t, "suggest")
    /\ UNCHANGED <<genVars, published, cache, call>>

(* SearchEngine.suggest reads the runtime state again and answers. *)
Suggest(t) ==
    /\ pc[t] = "suggest"
    /\ Advance(t, "idle")
    /\ UNCHANGED <<genVars, published, cache, call>>

-----------------------------------------------------------------------------
(* SearchService.search. *)

(* current_runtime_state(): one reference, read once. *)
Capture(t) ==
    /\ pc[t] = "capture"
    /\ call' = [call EXCEPT ![t].state = served]
    /\ Advance(t, "get")
    /\ UNCHANGED <<genVars, published, cache>>

(* SearchCacheKeyBuilder.build *)
CacheKeyWithoutVersion(state, r) == <<state.path, 1, KeyOf[r]>>
CacheKey(state, r) == <<state.path, state.version, KeyOf[r]>>

Entry(t) == cache[CacheKey(call[t].state, call[t].req)]

CacheHit(t) ==
    /\ pc[t] = "get"
    /\ Entry(t) \notin {Null, Corrupt}
    /\ call' = [call EXCEPT ![t].answer = Entry(t)]
    /\ Advance(t, "respond")
    /\ UNCHANGED <<genVars, published, cache>>

CacheMiss(t) ==
    /\ pc[t] = "get"
    /\ Entry(t) = Null
    /\ Advance(t, "rank")
    /\ UNCHANGED <<genVars, published, cache, call>>

(* A RedisError, a timeout included: the search is answered directly and   *)
(* nothing is written back.                                                *)
CacheGetFails(t) ==
    /\ pc[t] = "get"
    /\ Advance(t, "rank_only")
    /\ UNCHANGED <<genVars, published, cache, call>>

(* An entry that does not decode is treated alike, and stays.  (An empty   *)
(* JSON object or string would decode, to no results; the code writes      *)
(* lists only.)                                                            *)
CacheDecodeFails(t) ==
    /\ pc[t] = "get"
    /\ Entry(t) = Corrupt
    /\ Advance(t, "rank_only")
    /\ UNCHANGED <<genVars, published, cache, call>>

(* search_state ranks the captured state, whatever is served by now. *)
RankedServed(t) == [docs |-> served.docs, req |-> call[t].req]
Ranked(t) == [docs |-> call[t].state.docs, req |-> call[t].req]

Rank(t) ==
    /\ pc[t] \in {"rank", "rank_only"}
    /\ call' = [call EXCEPT ![t].answer = Ranked(t)]
    /\ Advance(t, IF pc[t] = "rank" THEN "set" ELSE "respond")
    /\ UNCHANGED <<genVars, published, cache>>

(* The write is applied, and acknowledged or not; or it is not applied.    *)
(* Either way the results are returned.                                    *)
CacheSet(t) ==
    /\ pc[t] = "set"
    /\ cache' = [cache EXCEPT ![CacheKey(call[t].state, call[t].req)] = call[t].answer]
    /\ Advance(t, "respond")
    /\ UNCHANGED <<genVars, published, call>>

CacheSetRetries(t) ==
    /\ pc[t] = "set"
    /\ Advance(t, "get")
    /\ UNCHANGED <<genVars, published, cache, call>>

CacheSetFails(t) ==
    /\ pc[t] = "set"
    /\ Advance(t, "respond")
    /\ UNCHANGED <<genVars, published, cache, call>>

Respond(t) ==
    /\ pc[t] = "respond"
    /\ Advance(t, "idle")
    /\ call' = [call EXCEPT ![t] = NoCall]
    /\ UNCHANGED <<genVars, published, cache>>

-----------------------------------------------------------------------------
(* Redis: an entry expires or is evicted, or holds a payload this version  *)
(* of the code cannot decode.                                              *)

Expire(k) ==
    /\ cache[k] # Null
    /\ cache' = [cache EXCEPT ![k] = Null]
    /\ UNCHANGED <<genVars, published, pc, call>>

Garble(k) ==
    /\ cache[k] \notin {Null, Corrupt}
    /\ cache' = [cache EXCEPT ![k] = Corrupt]
    /\ UNCHANGED <<genVars, published, pc, call>>

-----------------------------------------------------------------------------
(* Indexing, and the process. *)

PublishGeneration(p, d) ==
    /\ Publish(p, d)
    /\ published' = [published EXCEPT ![p][latest[p].version + 1] = d]
    /\ UNCHANGED searchVars

ServeGeneration(p) ==
    /\ Serve(p)
    /\ UNCHANGED <<published, searchVars>>

(* The process dies with its threads; a later ServeGeneration is the       *)
(* restart's hydration.                                                    *)
Crash ==
    /\ Lose
    /\ pc' = [t \in Threads |-> "idle"]
    /\ call' = [t \in Threads |-> NoCall]
    /\ UNCHANGED <<published, cache>>

Answer(t) ==
    \/ Suggest(t)
    \/ Capture(t) \/ CacheHit(t) \/ CacheMiss(t)
    \/ CacheGetFails(t) \/ CacheDecodeFails(t)
    \/ Rank(t) \/ CacheSet(t) \/ CacheSetFails(t) \/ Respond(t)

SearchNext ==
    \/ \E t \in Threads : Autocomplete(t) \/ Answer(t)
    \/ \E t \in Threads, r \in Requests : Search(t, r)
    \/ \E k \in CacheKeys : Expire(k) \/ Garble(k)
    \/ \E p \in Paths : ServeGeneration(p) \/ \E d \in Collections : PublishGeneration(p, d)
    \/ Crash

SearchSpec == SearchInit /\ [][SearchNext]_vars

(* A handler thread keeps running: Redis calls end within the configured   *)
(* socket timeouts, and ranking terminates.                                *)
FairSearchSpec == SearchSpec /\ \A t \in Threads : WF_vars(Answer(t))

-----------------------------------------------------------------------------
(* An entry of the cache holds results of the very documents its version   *)
(* label was published with, for a request with its key: also when the     *)
(* entry was written late, by a thread that captured an older generation,  *)
(* and when the server crashed and restarted in between.                   *)
CacheIsCoherent ==
    \A k \in CacheKeys : cache[k] \notin {Null, Corrupt} =>
        /\ cache[k].docs = published[k[1]][k[2]]
        /\ KeyOf[cache[k].req] = k[3]

(* An answer comes from the generation the thread captured, whoever put it *)
(* in the cache and whatever was published or activated meanwhile, and is  *)
(* one for a request with the same key.                                    *)
AnswersTheCaptured ==
    \A t \in Threads : call[t].answer # Null =>
        /\ call[t].answer.docs = call[t].state.docs
        /\ KeyOf[call[t].answer.req] = KeyOf[call[t].req]

(* A request that passed the route's readiness check still finds a runtime *)
(* state when it reads it again, however the state was switched between:   *)
(* search() never takes its branch without repository identity, and        *)
(* autocomplete never walks an empty trie.                                 *)
AdmittedFindsState ==
    \A t \in Threads : pc[t] \in {"capture", "suggest"} => served # Null

(* Every admitted search is answered, whatever Redis does.                 *)
SearchesAreAnswered == \A t \in Threads : pc[t] # "idle" ~> pc[t] = "idle"
=============================================================================
