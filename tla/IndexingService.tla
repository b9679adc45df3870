-------------------------- MODULE IndexingService --------------------------
(***************************************************************************)
(* services/indexing_service.py over the three stores and the runtime      *)
(* state of search_engine.py.  A worker is a thread of the server's pool   *)
(* that handles POST /index; the workers share the database (PostgreSQL at *)
(* READ COMMITTED, one session per transaction) and the process's runtime  *)
(* state.  A step is one statement, one commit, or one piece of work done  *)
(* outside the database; what a transaction writes stays in its worker's   *)
(* job until it commits, and the rows it wrote stay locked until it ends.  *)
(***************************************************************************)
EXTENDS DocumentStore

CONSTANTS
    Workers,      \* threads that handle index requests
    Paths,        \* canonical repository paths
    Targets,      \* Targets[w]: the repositories the clients of w ask for
    FaultKinds,   \* which failures the environment may inject
    MaxRequests,  \* bound on index requests
    MaxFaults,    \* bound on injected failures
    MaxCrashes    \* bound on crashes of the process

ASSUME TargetsAssumption == Targets \in [Workers -> SUBSET Paths]
ASSUME NullPathAssumption == Null \notin Paths
ASSUME BoundsAssumption ==
    MaxRequests \in Nat /\ MaxFaults \in Nat /\ MaxCrashes \in Nat

VARIABLES
    repos,     \* repositories table, committed rows by canonical path
    docs,      \* documents table, committed rows by repository and file
    nextDoc,   \* the document id sequence, per repository
    runs,      \* indexing_runs table, committed rows by run id
    requests,  \* index requests accepted so far; a request's number is its run id
    runtime,   \* SearchEngine._runtime_state: the generation that is served
    up,        \* the process is running
    pc,        \* where each worker's request is
    job,       \* each worker's local variables and session
    locks,     \* repositories rows each worker's transaction has written
    faults,    \* failures injected so far
    crashes    \* crashes so far

vars == <<repos, docs, nextDoc, runs, requests, runtime, up, pc, job, locks,
          faults, crashes>>
tables == <<repos, docs, nextDoc, runs>>
environment == <<requests, up, faults, crashes>>

RunIds == 1..MaxRequests
Repo == [status : {"absent", "indexing", "ready", "failed"},
         active : BOOLEAN, version : Nat]
Run == [path : Paths \cup {Null}, status : {"unused", "running", "succeeded", "failed"}]
Generation == [path : Paths, version : Nat, docs : Table]
ASSUME NullGenerationAssumption == Null \notin Generation
Job == [path : Paths \cup {Null}, run : Nat, seen : Repo, files : Snapshot,
        existing : Table, todo : SUBSET Files, wrote : SUBSET Files, view : Table]
Stage == {"idle", "start", "crawl", "load", "sync", "flush", "ready", "activate",
          "commit", "switch", "failing", "record"}

NoRepo == [status |-> "absent", active |-> FALSE, version |-> 0]
NoJob == [path |-> Null, run |-> 0, seen |-> NoRepo, files |-> NoRows,
          existing |-> NoRows, todo |-> {}, wrote |-> {}, view |-> NoRows]

TypeOK ==
    /\ repos \in [Paths -> Repo]
    /\ docs \in [Paths -> Table]
    /\ nextDoc \in [Paths -> Nat]
    /\ runs \in [RunIds -> Run]
    /\ requests \in 0..MaxRequests
    /\ runtime \in Generation \cup {Null}
    /\ up \in BOOLEAN
    /\ pc \in [Workers -> Stage]
    /\ job \in [Workers -> Job]
    /\ locks \in [Workers -> SUBSET Paths]
    /\ faults \in 0..MaxFaults
    /\ crashes \in 0..MaxCrashes
    /\ \A w \in Workers : pc[w] # "idle" => job[w].path \in Paths /\ job[w].run \in RunIds

Init ==
    /\ repos = [p \in Paths |-> NoRepo]
    /\ docs = [p \in Paths |-> NoRows]
    /\ nextDoc = [p \in Paths |-> 0]
    /\ runs = [r \in RunIds |-> [path |-> Null, status |-> "unused"]]
    /\ requests = 0
    /\ runtime = Null
    /\ up = TRUE
    /\ pc = [w \in Workers |-> "idle"]
    /\ job = [w \in Workers |-> NoJob]
    /\ locks = [w \in Workers |-> {}]
    /\ faults = 0
    /\ crashes = 0

-----------------------------------------------------------------------------
(* Row locks: a transaction waits for the rows another one has written. *)

Existing == {p \in Paths : repos[p].status # "absent"}
RepoHolders(w, p) == {o \in Workers \ {w} : p \in locks[o]}
RepoFree(w, p) == RepoHolders(w, p) = {}
DocHolders(w, f) ==
    {o \in Workers \ {w} : job[o].path = job[w].path /\ f \in job[o].wrote}
DocFree(w, f) == DocHolders(w, f) = {}

(* The rows a worker's flush may be at, and the workers its next statement *)
(* may wait for: which of several inserts is next is the crawl's order.    *)
AtRow(w, f) ==
    pc[w] = "flush" /\ InTurn(f, job[w].existing, job[w].files, job[w].todo)

WaitsFor(w) ==
    CASE pc[w] = "flush" -> UNION {DocHolders(w, f) : f \in {g \in Files : AtRow(w, g)}}
      [] pc[w] = "ready" -> RepoHolders(w, job[w].path)
      [] pc[w] = "activate" -> UNION {RepoHolders(w, p) : p \in Existing}
      [] OTHER -> {}

(* w waits, through others, for itself. *)
Deadlocked(w) ==
    \A R \in SUBSET Workers :
        (WaitsFor(w) \subseteq R /\ \A x \in R : WaitsFor(x) \subseteq R) => w \in R

(* Ways a request moves on: a worker's request ends, or its transaction is *)
(* rolled back and _record_indexing_failure is entered.                    *)
Advance(w, stage) == pc' = [pc EXCEPT ![w] = stage]
Finish(w) == Advance(w, "idle") /\ job' = [job EXCEPT ![w] = NoJob]
RolledBack(w) ==
    [NoJob EXCEPT !.path = job[w].path, !.run = job[w].run]
Abort(w) ==
    /\ Advance(w, "failing")
    /\ job' = [job EXCEPT ![w] = RolledBack(w)]
    /\ locks' = [locks EXCEPT ![w] = {}]

Fault(kind) ==
    /\ kind \in FaultKinds
    /\ faults < MaxFaults
    /\ faults' = faults + 1
    /\ UNCHANGED <<requests, up, crashes>>

-----------------------------------------------------------------------------
(* _start_indexing: a transaction of its own. *)

(* A request arrives; the repository is looked up by canonical path. *)
Begin(w, p) ==
    /\ up /\ pc[w] = "idle"
    /\ p \in Targets[w]
    /\ requests < MaxRequests
    /\ requests' = requests + 1
    /\ Advance(w, "start")
    /\ job' = [job EXCEPT ![w] =
                  [NoJob EXCEPT !.path = p, !.run = requests + 1, !.seen = repos[p]]]
    /\ UNCHANGED <<tables, runtime, up, locks, faults, crashes>>

(* mark_indexing writes the status only when the loaded row has another. *)
Started(seen, row) ==
    IF seen.status = "absent" THEN [NoRepo EXCEPT !.status = "indexing"]
    ELSE IF seen.status = "indexing" THEN row
    ELSE [row EXCEPT !.status = "indexing"]

MayStart(w) ==
    LET seen == job[w].seen IN
    /\ pc[w] = "start"
    /\ seen.status = "absent" => repos[job[w].path].status = "absent"
    /\ seen.status \notin {"absent", "indexing"} => RepoFree(w, job[w].path)

(* get_or_create, mark_indexing, a new run row, commit. *)
StartTables(w) ==
    /\ MayStart(w)
    /\ repos' = [repos EXCEPT ![job[w].path] = Started(job[w].seen, @)]
    /\ runs' = [runs EXCEPT ![job[w].run] = [path |-> job[w].path, status |-> "running"]]
    /\ UNCHANGED <<docs, nextDoc, runtime, locks>>

StartRun(w) ==
    /\ StartTables(w)
    /\ Advance(w, "crawl")
    /\ UNCHANGED <<job, environment>>

(* Another request inserted the row after the lookup: unique violation,    *)
(* raised outside the try block, so nothing is recorded.                   *)
StartConflict(w) ==
    /\ pc[w] = "start"
    /\ job[w].seen.status = "absent"
    /\ repos[job[w].path].status # "absent"
    /\ Finish(w)
    /\ UNCHANGED <<tables, runtime, locks, environment>>

(* The database fails the transaction, or commits it and loses the answer. *)
StartFails(w) ==
    /\ pc[w] = "start"
    /\ Fault("start")
    /\ Finish(w)
    /\ UNCHANGED <<tables, runtime, locks>>

StartLost(w) ==
    /\ Fault("lostAck")
    /\ StartTables(w)
    /\ Finish(w)

-----------------------------------------------------------------------------
(* The body of index_repository's try block, up to the commit. *)

CrawlUnchecked(w) ==
    /\ pc[w] = "crawl"
    /\ \E s \in Snapshot : job' = [job EXCEPT ![w].files = s]
    /\ Advance(w, "load")
    /\ UNCHANGED <<tables, runtime, locks, environment>>

Crawl(w) ==
    /\ pc[w] = "crawl"
    /\ \E s \in Snapshot :
          /\ Present(s) # {}
          /\ job' = [job EXCEPT ![w].files = s]
    /\ Advance(w, "load")
    /\ UNCHANGED <<tables, runtime, locks, environment>>

(* The path is gone, is not a directory, or holds no supported file. *)
CrawlFails(w) ==
    /\ pc[w] = "crawl"
    /\ Abort(w)
    /\ UNCHANGED <<tables, runtime, environment>>

(* get_by_id of the repository and the run in the new session. *)
LoadRepository(w) ==
    /\ pc[w] = "load"
    /\ job' = [job EXCEPT ![w].seen = repos[job[w].path]]
    /\ Advance(w, "sync")
    /\ UNCHANGED <<tables, runtime, locks, environment>>

(* synchronize: select the rows, then flush the differences row by row. *)
SelectExisting(w) ==
    LET existing == docs[job[w].path] IN
    /\ pc[w] = "sync"
    /\ job' = [job EXCEPT ![w].existing = existing,
                          ![w].todo = Differences(existing, job[w].files)]
    /\ Advance(w, "flush")
    /\ UNCHANGED <<tables, runtime, locks, environment>>

Wrote(w, f, row) ==
    job' = [job EXCEPT ![w].todo = @ \ {f}, ![w].wrote = @ \cup {f}, ![w].view[f] = row]

UpdateRowReplaces(w, f) ==
    LET p == job[w].path IN
    /\ AtRow(w, f) /\ DocFree(w, f)
    /\ f \in Updates(job[w].existing, job[w].files)
    /\ StillThere(docs[p], job[w].existing, f)
    /\ nextDoc' = [nextDoc EXCEPT ![p] = @ + 1]
    /\ Wrote(w, f, Inserted(nextDoc[p] + 1, job[w].files, f))
    /\ UNCHANGED <<repos, docs, runs, runtime, pc, locks, environment>>

UpdateRow(w, f) ==
    /\ AtRow(w, f) /\ DocFree(w, f)
    /\ f \in Updates(job[w].existing, job[w].files)
    /\ StillThere(docs[job[w].path], job[w].existing, f)
    /\ Wrote(w, f, Updated(job[w].existing, job[w].files, f))
    /\ UNCHANGED <<tables, runtime, pc, locks, environment>>

(* An UPDATE that matches no row raises StaleDataError. *)
UpdateStale(w, f) ==
    /\ AtRow(w, f) /\ DocFree(w, f)
    /\ f \in Updates(job[w].existing, job[w].files)
    /\ ~StillThere(docs[job[w].path], job[w].existing, f)
    /\ Abort(w)
    /\ UNCHANGED <<tables, runtime, environment>>

InsertRow(w, f) ==
    LET p == job[w].path IN
    /\ AtRow(w, f) /\ DocFree(w, f)
    /\ f \in Inserts(job[w].existing, job[w].files)
    /\ docs[p][f] = Null
    /\ nextDoc' = [nextDoc EXCEPT ![p] = @ + 1]
    /\ Wrote(w, f, Inserted(nextDoc[p] + 1, job[w].files, f))
    /\ UNCHANGED <<repos, docs, runs, runtime, pc, locks, environment>>

(* (repository, relative path) is unique. *)
InsertDuplicate(w, f) ==
    /\ AtRow(w, f) /\ DocFree(w, f)
    /\ f \in Inserts(job[w].existing, job[w].files)
    /\ docs[job[w].path][f] # Null
    /\ Abort(w)
    /\ UNCHANGED <<tables, runtime, environment>>

(* A DELETE that matches no row only logs a warning. *)
DeleteRow(w, f) ==
    /\ AtRow(w, f) /\ DocFree(w, f)
    /\ f \in Deletes(job[w].existing, job[w].files)
    /\ IF StillThere(docs[job[w].path], job[w].existing, f)
       THEN Wrote(w, f, Null)
       ELSE job' = [job EXCEPT ![w].todo = @ \ {f}]
    /\ UNCHANGED <<tables, runtime, pc, locks, environment>>

(* What the session of w reads: the committed rows under its own writes. *)
Visible(w) ==
    [f \in Files |-> IF f \in job[w].wrote THEN job[w].view[f] ELSE docs[job[w].path][f]]

(* list_by_repository: these rows become the candidate runtime state. *)
ListDocuments(w) ==
    /\ pc[w] = "flush" /\ job[w].todo = {}
    /\ job' = [job EXCEPT ![w].view = Visible(w), ![w].existing = NoRows]
    /\ Advance(w, "ready")
    /\ UNCHANGED <<tables, runtime, locks, environment>>

(* mark_ready computes the version from the loaded row and writes it. *)
MarkReady(w) ==
    /\ pc[w] = "ready"
    /\ RepoFree(w, job[w].path)
    /\ locks' = [locks EXCEPT ![w] = @ \cup {job[w].path}]
    /\ Advance(w, "activate")
    /\ UNCHANGED <<tables, runtime, job, environment>>

(* set_active writes every repositories row, then its own; mark_succeeded. *)
SetActive(w) ==
    /\ pc[w] = "activate"
    /\ \A p \in Existing : RepoFree(w, p)
    /\ locks' = [locks EXCEPT ![w] = Existing]
    /\ Advance(w, "commit")
    /\ UNCHANGED <<tables, runtime, job, environment>>

-----------------------------------------------------------------------------
(* The commit, and what follows it. *)

NewVersionUnchanged(w) == job[w].seen.version
NewVersion(w) == job[w].seen.version + 1

(* Only the columns the session changed are written. *)
ReadyStatusForgotten(seen, row) == row.status
ReadyStatus(seen, row) == IF seen.status = "ready" THEN row.status ELSE "ready"

CommittedReposKeepOthers(w) ==
    [repos EXCEPT ![job[w].path] =
        [status |-> ReadyStatus(job[w].seen, @), active |-> TRUE, version |-> NewVersion(w)]]

CommittedRepos(w) ==
    [p \in Paths |->
        IF p = job[w].path
        THEN [status |-> ReadyStatus(job[w].seen, repos[p]),
              active |-> TRUE, version |-> NewVersion(w)]
        ELSE IF p \in locks[w] THEN [repos[p] EXCEPT !.active = FALSE]
        ELSE repos[p]]

CommitTables(w) ==
    /\ pc[w] = "commit"
    /\ repos' = CommittedRepos(w)
    /\ docs' = [docs EXCEPT ![job[w].path] = Visible(w)]
    /\ runs' = [runs EXCEPT ![job[w].run].status = "succeeded"]
    /\ UNCHANGED <<nextDoc, runtime>>

Commit(w) ==
    /\ CommitTables(w)
    /\ locks' = [locks EXCEPT ![w] = {}]
    /\ job' = [job EXCEPT ![w].wrote = {}]
    /\ Advance(w, "switch")
    /\ UNCHANGED environment

(* The commit is applied but its answer is lost: the session raises. *)
CommitLost(w) ==
    /\ Fault("lostAck")
    /\ CommitTables(w)
    /\ Abort(w)

(* The generation this request built, in terms of what its session listed. *)
Candidate(w) == [path |-> job[w].path, version |-> NewVersion(w), docs |-> job[w].view]

(* activate_runtime_state, outside any transaction; the request succeeds. *)
ActivateRuntimeForgotten(w) ==
    /\ pc[w] = "switch"
    /\ Finish(w)
    /\ UNCHANGED <<tables, runtime, locks, environment>>

ActivateRuntime(w) ==
    /\ pc[w] = "switch"
    /\ runtime' = Candidate(w)
    /\ Finish(w)
    /\ UNCHANGED <<tables, locks, environment>>

-----------------------------------------------------------------------------
(* Failures inside the try block, and _record_indexing_failure. *)

InTransaction == {"load", "sync", "flush", "ready", "activate", "commit"}

(* The database, or building the candidate state, raises. *)
StatementFails(w) ==
    /\ pc[w] \in InTransaction
    /\ Fault("statement")
    /\ Abort(w)
    /\ UNCHANGED <<tables, runtime>>

(* PostgreSQL aborts a transaction that is part of a deadlock. *)
DeadlockAbort(w) ==
    /\ Deadlocked(w)
    /\ Abort(w)
    /\ UNCHANGED <<tables, runtime, environment>>

LoadFailed(w) ==
    /\ pc[w] = "failing"
    /\ job' = [job EXCEPT ![w].seen = repos[job[w].path]]
    /\ Advance(w, "record")
    /\ UNCHANGED <<tables, runtime, locks, environment>>

(* mark_indexing_failed: the status a failed attempt leaves. *)
FallbackStatusAlwaysFailed(seen) == "failed"
FallbackStatusAlwaysReady(seen) == "ready"
FallbackStatusUnknown(seen) == IF seen.version > 0 THEN "ready" ELSE "error"
FallbackStatus(seen) == IF seen.version > 0 THEN "ready" ELSE "failed"

(* The run row after mark_failed. *)
FailedRunForgotten(w) == runs
FailedRunOfRepository(w) ==
    [r \in RunIds |-> IF runs[r].path = job[w].path
                     THEN [runs[r] EXCEPT !.status = "failed"] ELSE runs[r]]
FailedRun(w) == [runs EXCEPT ![job[w].run].status = "failed"]

RecordFailureRetries(w) ==
    /\ pc[w] = "record"
    /\ job' = [job EXCEPT ![w].seen = NoRepo]
    /\ Advance(w, "crawl")
    /\ UNCHANGED <<tables, runtime, locks, environment>>

RecordFailure(w) ==
    LET p == job[w].path
        seen == job[w].seen
        changed == FallbackStatus(seen) # seen.status
    IN
    /\ pc[w] = "record"
    /\ changed => RepoFree(w, p)
    /\ repos' = IF changed THEN [repos EXCEPT ![p].status = FallbackStatus(seen)] ELSE repos
    /\ runs' = FailedRun(w)
    /\ Finish(w)
    /\ UNCHANGED <<docs, nextDoc, runtime, locks, environment>>

(* The database is still unavailable: the failure is not recorded. *)
RecordFails(w) ==
    /\ pc[w] \in {"failing", "record"}
    /\ Fault("record")
    /\ Finish(w)
    /\ UNCHANGED <<tables, runtime, locks>>

-----------------------------------------------------------------------------
(* The process. *)

(* The process dies between any two steps; the database rolls back. *)
Crash ==
    /\ up /\ crashes < MaxCrashes
    /\ up' = FALSE
    /\ crashes' = crashes + 1
    /\ runtime' = Null
    /\ pc' = [w \in Workers |-> "idle"]
    /\ job' = [w \in Workers |-> NoJob]
    /\ locks' = [w \in Workers |-> {}]
    /\ UNCHANGED <<tables, requests, faults>>

(* hydrate_active_repository: what a start of the process would serve. *)
Hydratable(p) == repos[p].active /\ repos[p].status = "ready"
Stored(p) == [path |-> p, version |-> repos[p].version, docs |-> docs[p]]
Hydrated ==
    IF \E p \in Paths : Hydratable(p)
    THEN Stored(CHOOSE p \in Paths : Hydratable(p))
    ELSE Null

Restart ==
    /\ ~up
    /\ up' = TRUE
    /\ runtime' = Hydrated
    /\ UNCHANGED <<tables, requests, pc, job, locks, faults, crashes>>

Idle == \A w \in Workers : pc[w] = "idle"

(* SearchEngine.is_ready: otherwise /search and /autocomplete answer 409.  *)
IsReady == runtime # Null /\ Present(runtime.docs) # {}

(* Every request of the bounded workload has been answered. *)
Finished == up /\ Idle /\ requests = MaxRequests /\ UNCHANGED vars

-----------------------------------------------------------------------------
FlushRow(w, f) ==
    UpdateRow(w, f) \/ UpdateStale(w, f) \/ InsertRow(w, f) \/ InsertDuplicate(w, f)
    \/ DeleteRow(w, f)

Work(w) ==
    \/ StartRun(w) \/ StartConflict(w)
    \/ Crawl(w) \/ CrawlFails(w)
    \/ LoadRepository(w) \/ SelectExisting(w)
    \/ \E f \in Files : FlushRow(w, f)
    \/ ListDocuments(w) \/ MarkReady(w) \/ SetActive(w)
    \/ Commit(w) \/ ActivateRuntime(w)
    \/ DeadlockAbort(w)
    \/ LoadFailed(w) \/ RecordFailure(w)

Faulty(w) ==
    StartFails(w) \/ StartLost(w) \/ StatementFails(w) \/ CommitLost(w) \/ RecordFails(w)

Next ==
    \/ \E w \in Workers, p \in Paths : Begin(w, p)
    \/ \E w \in Workers : Work(w) \/ Faulty(w)
    \/ Crash \/ Restart
    \/ Finished

Spec == Init /\ [][Next]_vars

(* A thread that can take its next step does: nothing in the process       *)
(* suspends a request for ever, and PostgreSQL breaks deadlocks.           *)
FairSpec == Spec /\ \A w \in Workers : WF_vars(Work(w))

-----------------------------------------------------------------------------
(* The abstract promise, read off the tables and the runtime state. *)
ActivePath ==
    IF \E p \in Paths : repos[p].active
    THEN CHOOSE p \in Paths : repos[p].active
    ELSE Null

Promise ==
    INSTANCE Generations WITH
        Collections <- Snapshot \ {NoRows},
        Empty <- NoRows,
        MaxVersion <- MaxRequests,
        latest <- [p \in Paths |-> [version |-> repos[p].version,
                                   docs |-> ContentOf(docs[p])]],
        active <- ActivePath,
        served <- IF runtime = Null THEN Null
                  ELSE [runtime EXCEPT !.docs = ContentOf(runtime.docs)]

(* Requests that do not index one repository concurrently implement the    *)
(* promise whatever fails: each commit publishes one numbered collection,  *)
(* the runtime only ever switches to a repository's last publication, and  *)
(* a crash loses the served generation and nothing else.                   *)
ImplementsPromise == Promise!Spec

(* No two repositories are active (connection.py's sessions never make     *)
(* the partial unique index uq_repositories_single_active raise): the row  *)
(* locks of set_active's bulk update serialise activations, including      *)
(* against repositories inserted while an activation is under way.         *)
SingleActive ==
    \A p, q \in Paths : repos[p].active /\ repos[q].active => p = q

(* A status of "ready", which makes a restart hydrate the repository, is   *)
(* never given to one that was not indexed: mark_indexing_failed decides   *)
(* from a version it read in an earlier step.                              *)
ReadyIsIndexed ==
    \A p \in Paths : repos[p].status = "ready" => repos[p].version > 0

(* Activation is all or nothing: an active repository has an index.        *)
ActiveIsIndexed ==
    \A p \in Paths : repos[p].active => repos[p].version > 0

(* A file that keeps its row across a commit keeps its document id, which  *)
(* search results carry (search_result.py): a concurrent delete and insert *)
(* never replaces a row that another transaction is updating.              *)
StableIds ==
    [][\A p \in Paths, f \in Files :
          docs[p][f] # Null /\ docs'[p][f] # Null => docs'[p][f].id = docs[p][f].id]_docs

(* No repository is left "indexing" once nobody is indexing it, although   *)
(* each request writes the status only when it differs from the one it     *)
(* loaded.                                                                 *)
IndexingIsUnderWay ==
    \A p \in Paths : repos[p].status = "indexing" =>
        \E w \in Workers : pc[w] # "idle" /\ job[w].path = p

(* A run recorded as running belongs to a request in progress: every way   *)
(* out of index_repository settles its run.                                *)
RunningIsUnderWay ==
    \A r \in RunIds : runs[r].status = "running" =>
        \E w \in Workers : pc[w] # "idle" /\ job[w].run = r

(* A settled run never changes again.                                      *)
SettledIsFinal ==
    [][\A r \in RunIds :
          runs[r].status \in {"succeeded", "failed"} => runs'[r] = runs[r]]_runs

(* The candidate state a request builds holds the documents it crawled.    *)
ListsTheCrawl ==
    \A w \in Workers :
        pc[w] \in {"ready", "activate", "commit", "switch"} =>
            ContentOf(job[w].view) = job[w].files

(* Between requests, a restart serves what is being served.                *)
RestartChangesNothing == up /\ Idle => runtime = Hydrated

(* Once a repository was indexed and activated, documents can be searched: *)
(* a failed or interrupted attempt leaves the last successful version, and *)
(* what a successful one activates is not empty.                           *)
LastVersionAvailable ==
    up /\ Idle /\ ActivePath # Null => IsReady

(* "failed" means that no version of the repository exists.                *)
FailedHasNoVersion ==
    \A p \in Paths : repos[p].status = "failed" => repos[p].version = 0

(* The version label of the served state identifies its documents.         *)
LabelIdentifiesDocuments ==
    runtime # Null /\ runtime.version = repos[runtime.path].version =>
        ContentOf(runtime.docs) = ContentOf(docs[runtime.path])

(* A published repository has documents: NoIndexableFilesError refuses the *)
(* request otherwise.                                                      *)
IndexedHasDocuments ==
    \A p \in Paths : repos[p].version > 0 => Present(docs[p]) # {}

(* Every request is answered, and every run it started is settled, when    *)
(* nothing fails: lock waits end because a cycle of them is broken.        *)
RequestsFinish == \A w \in Workers : pc[w] # "idle" ~> pc[w] = "idle"

(* A request whose transaction is rolled back, by a deadlock between two   *)
(* flushes as by any other error, ends as a failed run, unless recording   *)
(* that fails too.                                                         *)
RolledBackIsRecorded ==
    \A r \in RunIds :
        (\E w \in Workers : pc[w] = "failing" /\ job[w].run = r)
            ~> runs[r].status = "failed"
=============================================================================
