# Repository search engine: models and proofs

This directory models the backend of the repository search engine
(`src/backend/app`) in TLA+, checks the models with TLC on small instances and
proves the most important invariants with TLAPS for every value of the
constants. Paths below are relative to `src/backend/app` unless they start
with `src/`.

## 1. The system

A FastAPI process answers four routes with synchronous handlers, so every
request runs on a thread of the server's pool and requests interleave. The
process keeps one piece of shared state, the *runtime search state*, in memory;
PostgreSQL keeps repositories, documents and indexing runs; Redis keeps cached
search results. `POST /index` crawls a directory, synchronizes the documents
table, publishes a new index version and switches the runtime state.
`GET /search` and `GET /autocomplete` read the runtime state.

| component | source | state it keeps | operations | what makes it correct |
| --- | --- | --- | --- | --- |
| Indexing service | `services/indexing_service.py` | none of its own; one session per transaction, locals of each request | `index_repository`, `_start_indexing`, `_record_indexing_failure`, `hydrate_active_repository` | each commit publishes one whole numbered collection; a failure changes nothing but the attempt's own record; the process serves what the database says |
| Document store | `stores/document_store.py` | `documents` rows | `synchronize`, `list_by_repository` | rows become the crawled snapshot; kept files keep their ids |
| Repository store, run store | `stores/repository_store.py`, `stores/indexing_run_store.py` | `repositories`, `indexing_runs` rows | `get_or_create`, `mark_indexing`, `mark_ready`, `set_active`, `mark_indexing_failed`; `create`, `mark_succeeded`, `mark_failed` | at most one active repository; status tells whether a version exists; runs are settled once |
| Schema, sessions | `database/records.py`, `database/connection.py` | constraints, transactions | unique path, unique (repository, file), one active row | the constraints are never what a well-behaved run meets |
| Runtime state | `services/search_engine.py`, `services/runtime_search_state.py`, `runtime.py`, `main.py` | `_runtime_state`, one reference | `current_runtime_state`, `activate_runtime_state`, `is_ready`, `suggest`, hydration in `lifespan` | what is served was published, under its number |
| Search service, cache | `services/search_service.py`, `services/redis_search_cache.py`, `services/search_cache_key.py`, `services/search_cache_serialization.py` | Redis entries with a time to live | `search`, `get`, `set`, `build` | a cached answer is an answer of the generation it is given for; Redis failing never fails a search |
| Routes | `api/routes.py`, `schemas/search.py` | none | `/health`, `/index`, `/search`, `/autocomplete` | an admitted request finds a runtime state |
| Crawler | `services/repository_crawler.py` | none; reads a changing file tree | `crawl` | every supported file once, with the content and size it has |
| Tokenizer, inverted index, ranker | `services/code_tokenizer.py`, `inverted_index.py`, `bm25_ranker.py` | postings and frequencies, immutable once built | `tokenize*`, `add_document`, `search` | postings agree with documents; order of results is a function of the query |
| Autocomplete | `services/autocomplete_index.py` | a trie, immutable once built | `insert`, `suggest` | suggestions are exactly the matching terms |
| Configuration, summaries, migrations, benchmark | `config.py`, `models/*_summary.py`, `src/backend/migrations`, `src/backend/scripts` | constants, counters, schema scripts, a client | | not modelled, see section 8 |

How they interact. A route calls one service. The indexing service opens up to
three transactions per request (start, work, and on failure record) and touches
the runtime state only after the second one has committed. A search reads the
runtime reference once in the route (`is_ready`) and once in the service, then
talks to Redis under the captured generation's repository id and version. The
version number is therefore the contract between the two halves: indexing must
never publish two collections under one number, and the cache relies on it.

What is hard here. Handlers of one process interleave at every statement; the
database runs at READ COMMITTED, so a value loaded in one statement is old in
the next; the ORM writes only columns that differ from what it loaded; the
switch of the runtime state is outside every transaction; the process can die
between any two steps and PostgreSQL and Redis survive it; a commit can be
applied and its answer lost; and Redis can fail or answer at any time.
`PROJECT.json` lists each of these hazards at its line.

## 2. Modules

| module | models | builds on |
| --- | --- | --- |
| `Generations` | the abstract promise of indexing to searching: publish, serve, lose | |
| `DocumentStore` | a repository's document rows and what `synchronize` derives from them | |
| `IndexingService` | indexing requests, the tables, locks, runtime state, failures, crash and restart | extends `DocumentStore`; instantiates `Generations` as its specification |
| `SearchService` | search and autocomplete requests with the Redis cache | extends `Generations` |
| `CodeTokenizer` | which tokens and identifiers a text has | |
| `InvertedIndex` | documents, postings and identifiers of an index | extends `CodeTokenizer` |
| `BM25Ranker` | the results of a query, best first, and what the cache key keeps of it | extends `InvertedIndex` |
| `AutocompleteIndex` | the trie and its suggestions | extends `CodeTokenizer` |
| `RuntimeState` | building a runtime state from stored documents | extends `BM25Ranker` and `AutocompleteIndex` |
| `Crawler` | one crawl of a file tree that changes meanwhile | |
| `MCIndexingService`, `MCSearchService`, `MCRuntimeState`, `MCCrawler` | the instances TLC checks | |
| `MCSharedEntry` | an instance of `SearchService` whose requests are queries and whose collections are documents | extends `SearchService` and `BM25Ranker` |
| `IndexingServiceProofs` | type correctness of `IndexingService`; ids of documents; activation; settling of runs and statuses | extends `IndexingService` |
| `PublicationProofs` | the refinement to `Generations`, version labels, restarts, availability | extends `IndexingServiceProofs` |
| `SearchServiceProofs` | cache coherence and what searches see | |
| `CrawlerProofs` | what a crawl records, and when it raises | |
| `TokenizerProofs` | which tokens and identifiers a text has, and in which order | extends `CodeTokenizer` |
| `RuntimeStateProofs` | the postings and the spellings of the trie | extends `RuntimeState` and `TokenizerProofs` |
| `SearchProofs` | what a search returns, and what queries under one cache key share | extends `RuntimeStateProofs` |
| `SuggestionProofs` | what autocompletion shows, and that it can be found | extends `SearchProofs` |

Indexing and searching meet only in the runtime reference and the version
number, so they are not multiplied into one model: `IndexingService` is shown to
implement `Generations`, and `SearchService` runs on top of `Generations`. That
composition carries the results over for workloads where the implementation
holds, which are those that do not index one repository twice at the same time
(section 4 shows what happens otherwise).

### IndexingService

| variable | code |
| --- | --- |
| `repos`, `docs`, `runs` | committed rows of `repositories`, `documents`, `indexing_runs`; `nextDoc` is the id sequence of documents |
| `locks`, `job[w].wrote` | rows the open transaction of worker `w` has written, locked until it ends |
| `job[w]` | locals and identity map of the request: `path`, `run`, the repository row as loaded (`seen`), the crawl (`files`), the selected rows (`existing`), statements left in the flush (`todo`), and the session's own view of what it wrote (`view`) |
| `pc[w]` | the statement the request is at |
| `runtime` | `SearchEngine._runtime_state`, `Null` for the empty state |
| `up`, `requests`, `faults`, `crashes` | whether the process runs; counters that bound the environment |

| action | code |
| --- | --- |
| `Begin`, `StartRun`, `StartConflict` | `_start_indexing`: look up by canonical path, insert or `mark_indexing`, create the run, commit; a concurrent insert raises before the `try` block |
| `Crawl`, `CrawlFails` | `crawler.crawl`, and the refusal of an empty crawl |
| `LoadRepository` | `get_by_id` of repository and run in the new session; the row stays in the identity map, so later steps use it as loaded |
| `SelectExisting`, `UpdateRow`, `InsertRow`, `DeleteRow`, `UpdateStale`, `InsertDuplicate` | `synchronize` and its flush, statement by statement in the unit of work's order: updates by id, then inserts, then deletes by id |
| `ListDocuments` | `list_by_repository` in the same session: committed rows under the session's own writes |
| `MarkReady`, `SetActive`, `Commit`, `CommitLost` | `mark_ready`, the bulk update and flush of `set_active`, `mark_succeeded` and the commit |
| `ActivateRuntime` | `activate_runtime_state` after the session closed |
| `StatementFails`, `DeadlockAbort`, `LoadFailed`, `RecordFailure`, `RecordFails` | an exception in the `try` block rolls back and enters `_record_indexing_failure`, which loads the row, decides the status and commits, or fails itself |
| `Crash`, `Restart` | the process dies and loses every open transaction; `lifespan` hydrates the active repository if it is `ready` |

Abstractions. A content stands for everything `_matches_source` compares; the
attributes are written together. New documents are inserted in crawl order, and
`rglob` visits a directory in the order the file system lists it, so inserts come
in any order. Building the candidate state is part of the step that lists the
documents: it computes from them and touches nothing shared. `RuntimeState`
models that computation. An exception while
building it is one of the outcomes of `StatementFails`. Statements that take a
repository row's lock and commit with nothing in between that waits (`StartRun`,
`RecordFailure`) are one step; their earlier `SELECT` is a step of its own,
because the row may change in between. PostgreSQL, its row locks, unique-index
waits and deadlock detector, and SQLAlchemy's flush are external: they are
modelled from the guarantees the services rely on.

`ListDocuments` reads the committed rows again although `synchronize` selected
them before: the session keeps weak references and the locals of `synchronize`
are gone, so rows it did not change are loaded afresh; the repository row stays,
because the service still refers to it.

### SearchService

`served`, `latest` and `active` come from `Generations`; `cache` is Redis;
`pc[t]` and `call[t]` are a thread's position and its captured state and
answer; `published` is a history variable, written by `PublishGeneration` alone
and read by no action. A result is the pair of the documents ranked and the
request they were ranked for. `KeyOf` stands for what
`SearchCacheKeyBuilder.build` keeps of a request (sorted tokens and limit), so
two requests may share a key; `MCSharedEntry` takes the real one from
`BM25Ranker`. `CacheGetFails` covers Redis errors and timeouts,
`CacheDecodeFails` payloads that do not decode: the code answers directly and
does not write back. An empty JSON object or string would decode to no results
instead; the code never writes one, and nobody else is assumed to write.
`IsReady` is `served # Null`, while `is_ready()` is `total_documents() > 0`: the
two agree as long as no published collection is empty, which
`IndexedHasDocuments` says of the workloads that `Generations` covers. Where
requests for one repository overlap, an empty one can be published (`emptied`).
A write may be applied and unacknowledged, which is `CacheSet` (the caller
continues the same way), or not applied, which is `CacheSetFails`.

### CodeTokenizer, InvertedIndex, BM25Ranker, AutocompleteIndex, RuntimeState

A text is a sequence of lines, a line a sequence of characters, and a character
belongs to a class: capitals, small letters, digits, the underscore, letters
outside ASCII, anything else. These are the classes the regular expressions tell
apart. `Tokenize` cuts a line into the longest alphanumeric stretches without a
`Boundary`, drops single characters and lowers the rest; `Identifiers` are the
whole words of ASCII identifier characters that no digit starts, because `\b`
refuses to begin or end next to another word character.

| definition | code |
| --- | --- |
| `Registered`, `Counted`, `AddDocument` | `add_document`: the document and its identifiers, then one posting per document and token, one count per occurrence, line numbers as a set |
| `GetPostings` | the inner dict of a token, in the order documents were added |
| `Matches`, `AddToken`, `AddPosting` | the three dicts of `search`, as one sequence of results in the order of their first match |
| `Sorted` | `sorted` by a key: the k-th element of a set has k - 1 before it |
| `Total`, `TotalTokens` | the sum of `_average_document_length` |
| `ScoreTerm` | `_inverse_document_frequency` and `_score_term` |
| `BestFirst`, `CutTo`, `Snippets`, `WithSnippets`, `SearchIndex` | the stable sort, the limit, `_build_snippets` |
| `RequestKey` | the payload `SearchCacheKeyBuilder.build` hashes |
| `Insert`, `Preferred` | `AutocompleteIndex.insert`; a node is the word that leads to it |
| `CollectTerms`, `SuggestTerms` | `suggest` and its depth-first walk: `collect[word][suggestions]` is the list after `collect_terms` has visited a node |

`RuntimeState` is the loop of `build_runtime_state`: `AddNext` registers one
stored document, `CountNext` is the loop of `add_document` over its tokens, one
token a step, `CollectTermsOfIndex` takes the union of the two vocabularies,
`InsertTerm` inserts any remaining term, because Python iterates the set in an
order that changes from process to process.

Abstractions. Scores are integers: the formula of the code, with `k1` and `b`
put in, brought over one denominator and scaled by a hundred thousand, with the
logarithm as a table (`Idf`). Sums of integers do not depend on their order,
those of floats do in the last bit; so ties in the model are ties of the
formula. A snippet is its line number: the cut at 160 characters is layout. Matched
tokens are a set; the code sorts them. The order of stored documents is that of
the query (`ORDER BY relative_path`), and ids are in no particular order.

### Crawler

`tree` is the file system now, `past[f]` the states a file has had since the crawl
began (a history variable, read by no action), `todo` the directories not listed
yet, `listed` the names of the current listing not visited yet. `Visit`,
`CheckSize`, `Read` and `Stat` are the moments at which the code asks the file
system (`is_file`, `stat`, `read_text`, `stat`), and `Change` may happen between
any two of them. A name is a file with a size and a text, `Absent`, or `Denied`:
an entry of a directory that can be listed and not searched, for which
`is_file()` and `stat()` raise `PermissionError` (Python 3.12, the version of
`src/backend/Dockerfile`). `is_file()` comes before the filters, so that such an
entry ends a crawl also where it would be ignored. How `rglob` walks is external: a directory at a time, in any
order, each listed once. A file that cannot be decoded and one that cannot be
opened are one state (`NotText`), since `_read_text_file` returns `None` for both.
Symbolic links and directories that come and go are left out.

`IndexingService` uses a crawl as one step that returns any snapshot or fails.
`RecordedExisted` is what that needs: every file at most once, with contents it
had; different files may be from different moments, and in `IndexingService`
nothing says otherwise.

## 3. Passing runs

| run | instance | what it shows |
| --- | --- | --- |
| `serial` | one worker, two repositories, two files, two contents, three requests, one failing statement anywhere | between requests a restart would serve exactly what is served; a non-empty index is served while a repository is active (`LastVersionAvailable`); the documents listed are those crawled |
| `disjoint` | two workers on a repository each, two files, three requests, one fault of any kind, one crash | the service implements `Generations` (`ImplementsPromise`); a `failed` repository has no version; an indexed one has documents; what is served under the recorded number is what is recorded (`LabelIdentifiesDocuments`) |
| `overlap` | two workers on any of two repositories, two files, two contents, three requests | at most one repository is active; ready and active repositories are indexed; a file that keeps its row keeps its id, through waits, stale updates, duplicate inserts and deadlocks |
| `settle` | two workers, both on a repository with two files and one also on a second repository, three requests, fairness | every request ends, also out of a deadlock between two activations or two flushes; one that is rolled back ends as a failed run (`RolledBackIsRecorded`); no `indexing` status or `running` run is left over; a settled run stays as it is |
| `search` | two threads, two requests that share a key, one repository, two collections, two versions, crashes, unreliable cache, fairness | entries hold results of the version in their key; answers come from the captured generation; admitted requests find a state and are answered; the promise itself (`ServedIsPublished`) |
| `runtime` | 55 lists of two or three documents with ids in either order, over lines that meet every rule of the tokenizer; six queries, three limits | postings are those of the tokens counted so far, at every moment, and nothing is left to count when the terms are collected (`PostingsExact`); every word has a spelling of its own, with capitals if one was inserted (`SpellingsExact`); results are the best of exactly the matching documents, with score, lines and snippets (`SearchIsExact`); queries under one key get the same scores (`SharedKeyAgrees`); suggestions are the first matching words in a spelling that exists (`SuggestionsExact`) and lead to results (`SuggestionsFind`) |
| `crawl` | three files (one wanted, one of an unsupported kind, one two levels below an ignored directory), every initial tree, a root and two bad ones, three changes at any moment, fairness | files that stay as they are are recorded exactly (`UnchangedFilesExact`); what is recorded existed (`RecordedExisted`); only a wanted file that vanishes or a name that is refused raises (`RaisesOnlyForCause`); a crawl ends (`CrawlEnds`) |

Bounds. Two workers are the smallest number that races, and three requests let
one worker overtake the other with a whole request or leave a version behind
before the race starts. Two files give a flush order, an update next to a
delete, and a deadlock between two flushes; two contents give an update. One
fault of any kind at every step, combined with one crash at every step, covers
each single failure followed by a restart; the failures of the code do not
depend on their number. Two versions are enough for an entry to outlive its
generation, and two requests with one key for an entry to be shared. One
repository is enough for `search`, because entries of different repositories
have different keys, which `CacheStaysCoherent` proves for any number of them.
Three documents and repeated words give every frequency up to the number of documents, ties and
a limit that cuts; the lines of `MCRuntimeState` are chosen so that each rule
(camel case, acronyms, digits, underscores, letters outside ASCII, single
letters, an empty line) decides a token or an identifier. `MaxSnippetLines` is 1 there, so that
the bound is met. Three changes let a file vanish, come back and grow during
one crawl. Failures in `settle` are those that overlap brings
(empty crawls, stale rows, duplicate inserts, deadlocks); that a failing statement
leaves nothing over either is proved (`RunningStaysUnderWay`,
`IndexingStaysUnderWay`). One worker is enough in `serial` for availability, which
section 6 proves for any number of workers on repositories of their own.
`Begin` is bounded by `MaxRequests`, `Fault` by `MaxFaults`, `Crash` by
`MaxCrashes`, `Publish` by `MaxVersion`, `Change` by `MaxChanges`. `Finished` is a stuttering step for
the end of the bounded workload, so that TLC's deadlock check finds requests that
wait for each other; `Answering` and `Ended` are the same for a finished
build and crawl. Symmetry is used only in runs without liveness, and in `disjoint`
only for files.

Each property has a mutant in `PROJECT.json`: a changed definition (a guard
dropped, a version not incremented, a cache key without version) that the run
must refute.

## 4. Where the code departs from its documentation

Five runs are expected to end in a counterexample. Each checks what the
repository's documents or tests say.

- `interrupted` (`LastVersionAvailable`). A repository is indexed, a second
  request for it commits `indexing`, the process dies, the restart finds an
  active repository whose status is not `ready` and serves nothing.
  `src/README.md:78`: "If re-indexing fails after a previous successful index
  exists, the last successful repository version remains available."
- `emptied` (`LastVersionAvailable`). A repository with two files is indexed. Of
  two further requests one crawls the first file alone and one the second, both
  select both rows, and each deletes the row of the file it did not find. Both
  succeed; the second to commit lists no document and switches to an empty index.
  `/search` answers 409 "No repository has been indexed yet" (`api/routes.py:53`)
  although the crawls were not empty, which `test_api.py:154` has refused, and
  against the same sentence of `src/README.md:78`.
- `reused_label` (`LabelIdentifiesDocuments`). Two requests for one repository
  load version 0, and each publishes its documents as version 1.
  `src/README.md:90`: "Including the repository's `index_version` in each key
  prevents stale results from being reused after re-indexing."
- `activation_order` (`RestartChangesNothing`). A commits, B commits and
  switches, A switches: the process serves A while B is active, until it
  restarts. `src/README.md:67` says the index is "rebuilt in memory from the
  active repository when the application starts".
- `shared_entry` (`AnswersTheRequest`). Two documents tie for the two words of a
  query and the limit is 1. One thread searches for the words in camel case,
  another for them in the other order; both have one key, and the second is answered with the
  document the first one would see. `test_search_cache_key.py:4` calls such
  queries equivalent (`camel_case_key == reordered_key`). `SharedKeyAgrees` is
  what does hold: the same scores at every rank, and the same documents if the
  limit cuts nothing off.

`RestartChangesNothing` holds where requests do not overlap (`serial`),
`LabelIdentifiesDocuments` where those for one repository do not (`disjoint`), and
`LastVersionAvailable` where in addition nothing crashes and no commit loses its
acknowledgement; section 6 proves each under such conditions. Two more properties
need a condition of their kind. `FailedHasNoVersion` is checked in `disjoint`: a
request that fails may have loaded version 0 before another one for the same
repository committed version 1, and then writes `failed` over `ready`.
`UnchangedFilesExact` is checked in `crawl` for a root whose path has no ignored
name: `_is_ignored_path` tests the parts of the absolute path
(`repository_crawler.py:89`), so that below a directory called `build` or `venv`
no file is recorded.

## 5. Fairness

`FairSpec` assumes weak fairness of `Work(w)` for each worker: a thread that can
take its next step eventually takes it. The handlers have no wait of their own
other than database locks; a lock wait ends because the holder is itself a
fair worker, or because PostgreSQL aborts one transaction of a cycle
(`DeadlockAbort`, enabled exactly when a worker waits for itself through
others). Nothing is assumed of arrivals, faults, crashes or restarts.
`FairSearchSpec` assumes weak fairness of `Answer(t)`: Redis calls return or
raise within the socket timeouts of `config.py`, and ranking terminates. Nothing is
assumed of Redis succeeding. `Crawler`'s `FairSpec` assumes weak fairness of the
crawl, which waits for nobody; nothing is assumed of the changes.

## 6. What is proved

TLAPS checks these for any workers, repositories, files, contents, bounds and
kinds of faults, from the assumptions stated in the modules: the targets of a
worker are repositories, `Null` is none of the values it stands beside, the
bounds are natural numbers, the alphabet's classes are disjoint, documents have
ids of their own and are finite sequences of finite lines of `Characters`, limits are positive (the routes refuse
others), the inverse document frequencies are positive (the argument of the
logarithm is above 1), and the characters lower-case terms are made of have
distinct code points. A hypothesis in the second column restricts the workload or
the faults.

| theorem | under | module |
| --- | --- | --- |
| `TypeCorrect` | | `IndexingServiceProofs` |
| `SingleActiveHolds`, `ReadyIsIndexedHolds`, `ActiveIsIndexedHolds` | | `IndexingServiceProofs` |
| `StableIdsHold` | | `IndexingServiceProofs` |
| `SettledStaysFinal` | no lost acknowledgement of a commit | `IndexingServiceProofs` |
| `RunningStaysUnderWay`, `IndexingStaysUnderWay` | no crash; only the start or a statement of the `try` block fails | `IndexingServiceProofs` |
| `ImplementsPromiseHolds`, `LabelIdentifiesHolds`, `ListsTheCrawlHolds`, `FailedHasNoVersionHolds`, `IndexedHasDocumentsHolds` | no two workers index one repository | `PublicationProofs` |
| `RestartChangesNothingHolds` | one worker; no crash; only the start or a statement fails | `PublicationProofs` |
| `LastVersionStaysAvailable` | no two workers index one repository; no crash, no lost acknowledgement | `PublicationProofs` |
| `CacheStaysCoherent`, `AnswersStayCaptured`, `AdmittedStayReady`, `ServedStaysPublished`, `SearchTypeCorrect` | | `SearchServiceProofs` |
| `UnchangedFilesStayExact` | no part of a root's path is an ignored name | `CrawlerProofs` |
| `RecordedHasExisted`, `RaisesForCause`, `CrawlTypeCorrect` | | `CrawlerProofs` |
| `PostingsStayExact`, `SpellingsStayExact` | | `RuntimeStateProofs` |
| `TokensPartition`, `TokensAreTheirOwn`, `IdentifierTokensFound` | | `TokenizerProofs` |
| `SearchesStayExact`, `SharedKeysAgree` | | `SearchProofs` |
| `SuggestionsStayExact`, `SuggestionsStayFound` | | `SuggestionProofs` |

The hypotheses are the ones the code needs. Two requests for one repository
publish two collections under one number (`reused_label`), let a failure
overwrite a success and delete each other's rows
(`emptied`); two
requests for two repositories can switch in the wrong order
(`activation_order`); a crash leaves `indexing` and `running` behind
(`interrupted`); so does a failure of the transaction that records a failure
(fault kind `record`); and after a commit whose acknowledgement is lost
(`lostAck`) the request records `failed` over `succeeded` and does not switch
the runtime state.

**Type correctness** is inductive as it stands; the lemmas group the actions by
what they change (rows, jobs, environment).

**Activation.** `SingleActive` alone is not inductive: two requests at their
commit could each hold a different set of rows. `ActivationInv` adds, for each
worker, that the row of its own repository is locked from `mark_ready` on; that
at `commit` every active row is among its locks; that locks of different workers
are disjoint and no two workers are both at `commit`; and that a version loaded
as positive is still positive. A request enters `commit` only when no other
worker holds any existing row, and holds its own when it gets there, so the
second one cannot follow before the first has ended; a repository inserted
meanwhile is inactive. `ReadyIsIndexed` follows because `mark_indexing_failed`
writes `ready` only for a version it loaded as positive, and rows never lose
their last version (`RowsGrow`). Most actions touch no row, and one lemma
(`QuietStepInv`) covers them all.

**Ids of documents.** `DocumentInv` says that rows written by two open
transactions of one repository are disjoint, because a written row stays locked,
and that a row a transaction wrote has the id of the committed row it replaces,
if there is one. A selected row that is not written yet may be stale, and that is
exactly where `UpdateStale` and `InsertDuplicate` abort. At its commit a request
therefore writes rows that keep their id, writes rows that were not there, or
removes some.

**Settling.** `RunInv` numbers the runs by the requests, so a request's run row
is its own, and ties the row's status to the stage of its request; an ended run
then belongs to nobody. `RunningIsUnderWay` is that relation read backwards.
`IndexingIsUnderWay` is harder, because a request writes a status only where it
differs from what it loaded: a request that loaded `ready` leaves an `indexing`
written by another one alone. `IndexingInv` says that whenever a repository is
`indexing` some request for it has either not read the row yet or has read
`indexing`, so that one that will write remains, however many leave without.

**Publication.** With disjoint targets, only one request at a time works on a
repository. `PublicationInv` describes it stage by stage (`Attends`): the
status and version it loaded are those stored; the selected rows are the rows
of the table; the session's view is the crawl with the statements of the flush
that are left taken out; and from `ListDocuments` on it is the crawl. The
version recorded is less than the number of requests, which bounds the version
the refinement allows. Each step then maps to a step of `Generations`: `Commit`
and `CommitLost` to a publication of the next version (`WorkRefines`),
`ActivateRuntime` and the hydration of `Restart` to an activation of what is
recorded last, `Crash` to a loss, all others to stuttering. `Labelled`, for the
version labels, adds that a served state is never numbered above the record of
its repository and is the record where the numbers agree.

**Restart and availability.** `SerialInv` says, for a single worker, where the
runtime state lags behind the tables: between the commit and the switch, and
nowhere else. Otherwise what is served is what is stored for the active
repository (`SwitchesToActive`). `AvailableInv` holds for any number of workers
with repositories of their own: while a repository is active, a non-empty index is
served or some request is about to switch to what it committed. That this has
documents (`SwitchesToDocuments`) follows from `PublicationInv`: what a request
switches to is what is stored for its repository, which has a version.

**Cache.** `SearchInv` adds to coherence that what is served, and what any
thread captured, are collections recorded in the history under their number;
that a recorded version is never written again because `Publish` numbers it
above all earlier ones; and that threads past the readiness check exist only
while something is served. A late write then stores results of exactly the
documents its label names.

`ServedIsPublished` follows from the same invariant.

**Crawl.** `CrawlInv` says where each file is: in a directory not listed yet, in
the listing, being looked at, or settled, and that these exclude each other, so
that a file is recorded once; that what the crawl has learnt of the file it
looks at (it is wanted, it was there, it was small, it had this text) holds of
states in the file's history, which only grows; and that a settled file whose
history is a single state is recorded exactly as it should be. A change leaves
the last part true because a file that changes has two states in its history.
The files, filters, directories, roots and the number of changes are arbitrary.
`Kept` is what the code's filters let through, the root's path included; it is what
a reader wants (`Wanted`) exactly if the root's path has no ignored name.

**Tokenizer.** Stretches of a text are maximal, so two that meet are one
(`RunsApart`), and every letter or digit is in one (`RunsCover`: the first place
reached backwards and the last reached forwards without a boundary, which exist
because a set of natural numbers has a least element). That gives
`TokensPartition`. `TokensAreTheirOwn` (a token is not cut again, and lowering
it changes nothing) is what `get_postings` and `RequestKey` rely on, which
lower or tokenize again what was a token already. `IdentifierTokensFound` says
that identifiers and tokens are cut at places that agree, although the one
pattern counts underscores as part of a word and the other does not: a boundary
looks two characters ahead, and inside an identifier these belong to it
(`BoundaryInside`). It is why searching for a suggested identifier looks for
tokens the index has counted.

The sequences follow from the stretches: `Sorted` lists a finite set in
its order, each element once (`SortedIs`), so the tokens are those of the stretches
(`TokensAre`), and `FlattenSeq` joins the lines' tokens
(`FlattenIs`, `OccurrencesAre`). The library's induction theorems take an operator and
cannot be used with these provers; `Induct` states induction for a set of numbers
instead, from the least number outside it, and all recursive functions of the model are
reasoned about with it (`Iterates`).

**Postings.** `PostingsExact` speaks of every moment of the construction, also
in the middle of a document, and is nearly inductive: `PostingsInv` adds that
the index's documents are the first ones of the list. Counting a token adds one
place to one document's places for one token (`PlacesGrow`) and one to one
posting (`CountedChanges`). A document's own places decide whether its posting
is there already, because no two documents share an id. Nothing about the
tokenizer is used, so the theorem holds for any way of cutting texts.

**Spellings.** `Spells` is what a trie that holds a set of terms is; one
insertion into such a trie spells one term more (`InsertSpells`). The invariant
adds only that the remaining terms are terms of the index.

**Search.** Everything asked of a finished index follows from
`PostingsExact`, so no invariant beyond `IndexInv` is needed; what is left
is what the definitions compute. `GetPostings` lists each document that has the
token once (`PostingsListed`). The loops over postings and tokens are recursive
functions on numbers, so what they compute is shown by induction on the number
of turns. `Represents` is its loop invariant: the results found so far are those
of a set of documents, each once, with the score, tokens and lines these
have had so far. One posting adds to one document (`AddPostingRepresents`), one
token to all that have it (`AddTokenRepresents`), and the whole query gives each
document the sum of its term scores (`MatchesFind`). `Sorted` by a strict total
order on a finite set takes each element once, none after a greater one, which makes
`BestFirst` a ranking (`RankingIs`); its first places are what the property asks for,
because what is cut scores at most what is kept (`FindsTheBest`, for one query). A score is positive only
because the documents that match have tokens, so the average length is not zero.

**Shared key.** Two queries with one bag of tokens are each other's tokens in
another order (`SameBag`), and a sum of integers does not depend on the order
of its terms (`TotalReordered`, by moving the last term to its place). The
scores of all documents are then the same, and two rankings of the same
documents by the same scores agree at every rank (`NoBetterRank`): otherwise
there would be k documents that score more than the k-th. Which of the documents with
equal scores is at a rank is left open, and that is what `shared_entry` shows to differ.

**Suggestions.** `Precedes` is shown to be a strict total order on words
(`OrderAt`: two words differ first at one place, or one is a prefix), so the
words of a finite set have one alphabetical order (`OneOrder`), and the order of
two sets, the words of one all before those of the other, is the one after the
other (`OrderJoins`). Below a node are the word itself and then, child by child,
the words below the children (`ReachedIs`), which is the order the walk takes
(`VisitedIs`). `CollectTermsIs` shows that the recursive definition of the walk has a value,
and one value, by induction on the number of nodes below a node, because every
child has fewer (`FewerBelow`); that is also why `collect_terms` ends. The
limit is no obstacle, because what is cut once stays cut (`CutJoins`). A suggestion is
then found: it is a token of a line or an identifier of one, its tokens are
tokens of the line (`IdentifierTokensFound`), `PostingsExact` has a posting for
each, and a search whose query has a document that matches returns one.
`SuggestionsInv` adds to the two earlier invariants that nothing remains to be
inserted when the trie answers.

## 7. What is only model-checked

- Liveness: `RequestsFinish`, `RolledBackIsRecorded`, `SearchesAreAnswered`,
  `CrawlEnds`. TLAPS cannot
  reason about fairness here.
- What `FoldLeft` computes in `AddDocument`, which only `shared_entry` uses;
  `RuntimeState` counts the same tokens one a step.
- The properties of section 4, where they do not hold.

## 8. What is not modelled

- Floating-point rounding of scores, and the limit of Python's call stack, which
  `collect_terms` meets below a prefix of an identifier of about a thousand
  characters.
- Columns of a document row written one by one by two overlapping updates: a
  content is one value. The ORM writes the columns that differ from what was
  loaded, so a size or line count can stay beside another request's content; no
  search depends on either, and the next synchronization compares every column.
- Symbolic links, and directories that are removed during a crawl.
- Cache entries that decode and that the code did not write.
- `SearchEngine.index_repository`, `load_documents` and `reset`, and
  `RepositoryStore.mark_failed`: no route or service calls them.
- Request validation, response and JSON layout, logging, summaries,
  configuration, migrations: no state that another part depends on.
- Several server processes over one database: the deployment runs one.
- The benchmark script: its command line times an engine of its own;
  `run_cache_benchmark`, which writes to a Redis its caller passes, is called
  by tests only.

## 9. Plan

Done, in this order: `Generations`, `DocumentStore`, `IndexingService`, the
refinement, `SearchService`, type correctness, activation and cache proofs;
then the tokenizer, index, ranker and trie with `RuntimeState`, their
composition with the cache, and `Crawler` with its proofs.

Then the proofs: ids of documents, settling of runs and statuses, the
refinement and what else holds for disjoint targets, restarts and availability,
the tokenizer, the postings and the trie's spellings. `CountNext` became a step
of its own, and the trie's walk a recursive function, to make the latter
possible.

Last: what the folds, the sorting and the walk of the trie compute, and with it
the four invariants of a finished runtime state. Sums and loops over sequences
became recursive functions on numbers, sorting an operator of its own (`Sorted`),
and the walk a function of the node and of the suggestions so far, to make that
possible. Every invariant and action property of the passing runs now has a theorem.
Left are the liveness properties.
