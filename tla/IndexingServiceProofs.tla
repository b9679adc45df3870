----------------------- MODULE IndexingServiceProofs -----------------------
(***************************************************************************)
(* Proofs about IndexingService, for any number of workers, repositories,  *)
(* files, requests, faults and crashes: types, the ids of documents,       *)
(* activation, and how runs and repositories are settled.                  *)
(***************************************************************************)
EXTENDS IndexingService, TLAPS

-----------------------------------------------------------------------------
(* The row operations keep tables well typed. *)

LEMMA RowsTyped ==
    ASSUME NEW existing \in Table, NEW files \in Snapshot
    PROVE  /\ NoRows \in Table /\ NoRows \in Snapshot
           /\ \A f \in Inserts(existing, files), id \in Nat : Inserted(id, files, f) \in Row
           /\ \A f \in Updates(existing, files) : Updated(existing, files, f) \in Row
           /\ Differences(existing, files) \subseteq Files
BY DEF NoRows, Table, Snapshot, Row, Inserts, Updates, Deletes, Differences, Present, Inserted,
       Updated

LEMMA JobsTyped ==
    ASSUME TypeOK
    PROVE  /\ NoRepo \in Repo /\ NoJob \in Job
           /\ \A w \in Workers : pc[w] # "idle" => RolledBack(w) \in Job
           /\ \A w \in Workers : pc[w] # "idle" => Visible(w) \in Table
<1>1. NoRows \in Table /\ NoRows \in Snapshot
  BY DEF NoRows, Table, Snapshot
<1>2. NoRepo \in Repo
  BY DEF NoRepo, Repo
<1>3. NoJob \in Job
  BY <1>1, <1>2 DEF NoJob, Job
<1>4. ASSUME NEW w \in Workers, pc[w] # "idle"
      PROVE  RolledBack(w) \in Job
  BY <1>3, <1>4 DEF RolledBack, TypeOK, Job
<1>5. ASSUME NEW w \in Workers, pc[w] # "idle"
      PROVE  Visible(w) \in Table
  <2>1. job[w].view \in Table /\ docs[job[w].path] \in Table
    BY <1>5 DEF TypeOK, Job
  <2>2. QED
    BY <2>1 DEF Visible, Table
<1>6. QED
  BY <1>2, <1>3, <1>4, <1>5

(* Ways a request moves on. *)
LEMMA AbortTyped ==
    ASSUME TypeOK, NEW w \in Workers, pc[w] # "idle", Abort(w)
    PROVE  /\ pc' \in [Workers -> Stage]
           /\ job' \in [Workers -> Job]
           /\ locks' \in [Workers -> SUBSET Paths]
           /\ \A x \in Workers : pc'[x] # "idle" => job'[x].path \in Paths /\ job'[x].run \in RunIds
<1>1. RolledBack(w) \in Job /\ RolledBack(w).path = job[w].path /\ RolledBack(w).run = job[w].run
  BY JobsTyped DEF RolledBack, NoJob
<1>2. QED
  BY <1>1 DEF Abort, Advance, TypeOK, Stage

LEMMA FinishTyped ==
    ASSUME TypeOK, NEW w \in Workers, Finish(w)
    PROVE  /\ pc' \in [Workers -> Stage]
           /\ job' \in [Workers -> Job]
           /\ \A x \in Workers : pc'[x] # "idle" => job'[x].path \in Paths /\ job'[x].run \in RunIds
BY JobsTyped DEF Finish, Advance, TypeOK, Stage

(* A request that keeps its repository and run moves to another stage. *)
LEMMA AdvanceTyped ==
    ASSUME TypeOK, NEW w \in Workers, pc[w] # "idle", NEW s \in Stage, Advance(w, s),
           NEW j \in Job, j.path = job[w].path, j.run = job[w].run,
           job' = [job EXCEPT ![w] = j]
    PROVE  /\ pc' \in [Workers -> Stage]
           /\ job' \in [Workers -> Job]
           /\ \A x \in Workers : pc'[x] # "idle" => job'[x].path \in Paths /\ job'[x].run \in RunIds
BY DEF Advance, TypeOK

LEMMA SameJobTyped ==
    ASSUME TypeOK, NEW w \in Workers, pc[w] # "idle", NEW s \in Stage, Advance(w, s),
           UNCHANGED job
    PROVE  /\ pc' \in [Workers -> Stage]
           /\ job' \in [Workers -> Job]
           /\ \A x \in Workers : pc'[x] # "idle" => job'[x].path \in Paths /\ job'[x].run \in RunIds
BY DEF Advance, TypeOK

LEMMA FaultTyped ==
    ASSUME TypeOK, NEW kind, Fault(kind)
    PROVE  requests' \in 0..MaxRequests /\ up' \in BOOLEAN /\ faults' \in 0..MaxFaults
           /\ crashes' \in 0..MaxCrashes
BY BoundsAssumption DEF Fault, TypeOK

LEMMA EnvironmentTyped ==
    ASSUME TypeOK, UNCHANGED environment
    PROVE  requests' \in 0..MaxRequests /\ up' \in BOOLEAN /\ faults' \in 0..MaxFaults
           /\ crashes' \in 0..MaxCrashes
BY DEF environment, TypeOK

LEMMA TablesTyped ==
    ASSUME TypeOK, UNCHANGED tables
    PROVE  /\ repos' \in [Paths -> Repo] /\ docs' \in [Paths -> Table]
           /\ nextDoc' \in [Paths -> Nat] /\ runs' \in [RunIds -> Run]
BY DEF tables, TypeOK

(* What starting, committing and recording a failure write. *)
LEMMA StartTyped ==
    ASSUME TypeOK, NEW w \in Workers, StartTables(w)
    PROVE  /\ repos' \in [Paths -> Repo] /\ docs' \in [Paths -> Table]
           /\ nextDoc' \in [Paths -> Nat] /\ runs' \in [RunIds -> Run]
<1>1. pc[w] = "start" /\ job[w].path \in Paths /\ job[w].run \in RunIds
  BY DEF StartTables, MayStart, TypeOK
<1>2. Started(job[w].seen, repos[job[w].path]) \in Repo
  <2>1. repos[job[w].path] \in Repo /\ NoRepo \in Repo
    BY <1>1, JobsTyped DEF TypeOK
  <2>2. \A row \in Repo : [row EXCEPT !.status = "indexing"] \in Repo
    BY DEF Repo
  <2>3. QED
    BY <2>1, <2>2 DEF Started
<1>3. repos' \in [Paths -> Repo]
  BY <1>1, <1>2 DEF StartTables, TypeOK
<1>4. runs' \in [RunIds -> Run]
  BY <1>1 DEF StartTables, TypeOK, Run
<1>5. QED
  BY <1>3, <1>4 DEF StartTables, TypeOK

LEMMA CommitTyped ==
    ASSUME TypeOK, NEW w \in Workers, CommitTables(w)
    PROVE  /\ repos' \in [Paths -> Repo] /\ docs' \in [Paths -> Table]
           /\ nextDoc' \in [Paths -> Nat] /\ runs' \in [RunIds -> Run]
<1>1. pc[w] = "commit" /\ job[w].path \in Paths /\ job[w].run \in RunIds /\ job[w].seen \in Repo
  BY DEF CommitTables, TypeOK, Job
<1>2. CommittedRepos(w) \in [Paths -> Repo]
  <2> SUFFICES ASSUME NEW p \in Paths PROVE CommittedRepos(w)[p] \in Repo
    BY DEF CommittedRepos
  <2>1. repos[p] \in Repo /\ NewVersion(w) \in Nat
    BY <1>1 DEF TypeOK, NewVersion, Repo
  <2>2. ReadyStatus(job[w].seen, repos[p]) \in {"absent", "indexing", "ready", "failed"}
    BY <2>1 DEF ReadyStatus, Repo
  <2>3. CASE p = job[w].path
    BY <2>1, <2>2, <2>3 DEF CommittedRepos, Repo
  <2>4. CASE p # job[w].path
    BY <2>1, <2>4 DEF CommittedRepos, Repo
  <2>5. QED
    BY <2>3, <2>4
<1>3. docs' \in [Paths -> Table]
  BY <1>1, JobsTyped DEF CommitTables, TypeOK
<1>4. runs' \in [RunIds -> Run]
  BY <1>1 DEF CommitTables, TypeOK, Run
<1>5. QED
  BY <1>2, <1>3, <1>4 DEF CommitTables, TypeOK

LEMMA RecordTyped ==
    ASSUME TypeOK, NEW w \in Workers, RecordFailure(w)
    PROVE  /\ repos' \in [Paths -> Repo] /\ docs' \in [Paths -> Table]
           /\ nextDoc' \in [Paths -> Nat] /\ runs' \in [RunIds -> Run]
<1>1. pc[w] = "record" /\ job[w].path \in Paths /\ job[w].run \in RunIds /\ job[w].seen \in Repo
  BY DEF RecordFailure, TypeOK, Job
<1>2. FallbackStatus(job[w].seen) \in {"ready", "failed"}
  BY DEF FallbackStatus
<1>3. repos' \in [Paths -> Repo]
  BY <1>1, <1>2 DEF RecordFailure, TypeOK, Repo
<1>4. runs' \in [RunIds -> Run]
  BY <1>1 DEF RecordFailure, FailedRun, TypeOK, Run
<1>5. QED
  BY <1>3, <1>4 DEF RecordFailure, TypeOK

-----------------------------------------------------------------------------
(* What a step of one worker leaves alone. *)

(* Only a request in progress waits for a lock, and only where it may. *)
LEMMA WaitersStages ==
    ASSUME NEW w \in Workers, Deadlocked(w)
    PROVE  pc[w] \in {"flush", "ready", "activate"}
<1>1. pc[w] \notin {"flush", "ready", "activate"} => WaitsFor(w) = {}
  BY DEF WaitsFor
<1>2. WaitsFor(w) # {}
  BY DEF Deadlocked
<1>3. QED
  BY <1>1, <1>2

(* The job after a rollback, and after the end of a request. *)
LEMMA JobEnds ==
    ASSUME TypeOK, NEW w \in Workers
    PROVE  /\ Abort(w) => /\ pc'[w] = "failing" /\ locks'[w] = {}
                          /\ job'[w].path = job[w].path /\ job'[w].run = job[w].run
                          /\ job'[w].wrote = {}
           /\ Finish(w) => pc'[w] = "idle" /\ job'[w].wrote = {}
<1>1. /\ RolledBack(w).path = job[w].path /\ RolledBack(w).run = job[w].run
      /\ RolledBack(w).wrote = {} /\ NoJob.wrote = {}
  BY DEF RolledBack, NoJob
<1>2. QED
  BY <1>1 DEF Abort, Finish, Advance, TypeOK

LEMMA StepFrame ==
    ASSUME TypeOK, NEW w \in Workers, Work(w) \/ Faulty(w)
    PROVE  /\ pc[w] # "idle"
           /\ \A o \in Workers : o # w => /\ pc'[o] = pc[o] /\ job'[o] = job[o]
                                          /\ locks'[o] = locks[o]
           /\ UNCHANGED <<requests, up, crashes>>
<1> USE DEF TypeOK, Advance, Finish, Abort, environment
<1>1. CASE StartRun(w) \/ StartConflict(w) \/ Crawl(w) \/ CrawlFails(w) \/ LoadRepository(w)
           \/ SelectExisting(w)
  BY <1>1 DEF StartRun, StartTables, MayStart, StartConflict, Crawl, CrawlFails, LoadRepository,
              SelectExisting
<1>2. CASE \E f \in Files : FlushRow(w, f)
  BY <1>2 DEF FlushRow, UpdateRow, UpdateStale, InsertRow, InsertDuplicate, DeleteRow, AtRow, Wrote
<1>3. CASE ListDocuments(w) \/ MarkReady(w) \/ SetActive(w) \/ Commit(w) \/ ActivateRuntime(w)
  BY <1>3 DEF ListDocuments, MarkReady, SetActive, Commit, CommitTables, ActivateRuntime
<1>4. CASE DeadlockAbort(w)
  BY <1>4, WaitersStages DEF DeadlockAbort
<1>5. CASE LoadFailed(w) \/ RecordFailure(w)
  BY <1>5 DEF LoadFailed, RecordFailure
<1>6. CASE Faulty(w)
  BY <1>6 DEF Faulty, StartFails, StartLost, StartTables, MayStart, StatementFails, InTransaction,
              CommitLost, CommitTables, RecordFails, Fault
<1>7. QED
  BY <1>1, <1>2, <1>3, <1>4, <1>5, <1>6 DEF Work

-----------------------------------------------------------------------------
(* Every step keeps the types. *)

LEMMA InitTyped == Init => TypeOK
BY RowsTyped, BoundsAssumption
   DEF Init, TypeOK, NoRepo, NoJob, NoRows, Repo, Run, Job, Stage, Table, Snapshot, RunIds

(* The steps of a request that change its own job only. *)
LEMMA JobStepTyped ==
    ASSUME TypeOK, NEW w \in Workers, pc[w] # "idle",
           NEW j \in Job, j.path = job[w].path, j.run = job[w].run,
           NEW s \in Stage, pc' = [pc EXCEPT ![w] = s], job' = [job EXCEPT ![w] = j],
           UNCHANGED <<repos, docs, runs, runtime, locks, environment>>,
           nextDoc' \in [Paths -> Nat]
    PROVE  TypeOK'
BY EnvironmentTyped, AdvanceTyped DEF TypeOK, Advance

LEMMA WroteTyped ==
    ASSUME TypeOK, NEW w \in Workers, pc[w] = "flush", NEW f \in Files,
           NEW row \in Row \cup {Null}, Wrote(w, f, row),
           UNCHANGED <<repos, docs, runs, runtime, pc, locks, environment>>,
           nextDoc' \in [Paths -> Nat]
    PROVE  TypeOK'
<1> DEFINE j == [job[w] EXCEPT !.todo = @ \ {f}, !.wrote = @ \cup {f}, !.view[f] = row]
<1>1. job[w] \in Job
  BY DEF TypeOK
<1>2. j \in Job /\ j.path = job[w].path /\ j.run = job[w].run
  BY <1>1 DEF Job, Table
<1>3. job' = [job EXCEPT ![w] = j]
  BY DEF Wrote
<1>4. pc' = [pc EXCEPT ![w] = "flush"]
  BY DEF TypeOK
<1>5. QED
  BY <1>2, <1>3, <1>4, JobStepTyped DEF Stage

LEMMA WorkTyped ==
    ASSUME TypeOK, NEW w \in Workers, Work(w)
    PROVE  TypeOK'
<1>1. job[w] \in Job /\ pc[w] \in Stage
  BY DEF TypeOK
<1>2. CASE StartRun(w)
  BY <1>2, StartTyped, SameJobTyped, EnvironmentTyped
     DEF StartRun, StartTables, MayStart, TypeOK, Stage
<1>3. CASE StartConflict(w)
  BY <1>3, FinishTyped, TablesTyped, EnvironmentTyped DEF StartConflict, TypeOK
<1>4. CASE Crawl(w)
  <2>1. PICK files \in Snapshot : job' = [job EXCEPT ![w].files = files]
    BY <1>4 DEF Crawl
  <2> DEFINE j == [job[w] EXCEPT !.files = files]
  <2>2. j \in Job /\ j.path = job[w].path /\ j.run = job[w].run
    BY <1>1 DEF Job
  <2>3. job' = [job EXCEPT ![w] = j]
    BY <2>1
  <2>4. QED
    BY <1>4, <2>2, <2>3, JobStepTyped DEF Crawl, Advance, tables, Stage, TypeOK
<1>5. CASE CrawlFails(w)
  BY <1>5, AbortTyped, TablesTyped, EnvironmentTyped DEF CrawlFails, TypeOK
<1>6. CASE LoadRepository(w)
  <2> DEFINE j == [job[w] EXCEPT !.seen = repos[job[w].path]]
  <2>1. j \in Job /\ j.path = job[w].path /\ j.run = job[w].run
    BY <1>1, <1>6 DEF Job, LoadRepository, TypeOK
  <2>2. QED
    BY <1>6, <2>1, JobStepTyped DEF LoadRepository, Advance, tables, Stage, TypeOK
<1>7. CASE SelectExisting(w)
  <2> DEFINE existing == docs[job[w].path]
             j == [job[w] EXCEPT !.existing = existing,
                                 !.todo = Differences(existing, job[w].files)]
  <2>1. existing \in Table /\ job[w].files \in Snapshot
    BY <1>1, <1>7 DEF SelectExisting, TypeOK, Job
  <2>2. Differences(existing, job[w].files) \subseteq Files
    BY <2>1, RowsTyped
  <2>3. j \in Job /\ j.path = job[w].path /\ j.run = job[w].run
    BY <1>1, <2>1, <2>2 DEF Job
  <2>4. QED
    BY <1>7, <2>3, JobStepTyped DEF SelectExisting, Advance, tables, Stage, TypeOK
<1>8. CASE \E f \in Files : FlushRow(w, f)
  <2>1. PICK f \in Files : FlushRow(w, f)
    BY <1>8
  <2>2. /\ pc[w] = "flush" /\ job[w].existing \in Table /\ job[w].files \in Snapshot
        /\ job[w].path \in Paths
    BY <1>1, <2>1 DEF FlushRow, UpdateRow, UpdateStale, InsertRow, InsertDuplicate, DeleteRow,
                      AtRow, Job, TypeOK
  <2>3. CASE UpdateRow(w, f)
    <3>1. Updated(job[w].existing, job[w].files, f) \in Row
      BY <2>2, <2>3, RowsTyped DEF UpdateRow
    <3>2. QED
      BY <2>2, <2>3, <3>1, WroteTyped DEF UpdateRow, tables, TypeOK
  <2>4. CASE UpdateStale(w, f)
    BY <2>2, <2>4, AbortTyped, TablesTyped, EnvironmentTyped DEF UpdateStale, TypeOK
  <2>5. CASE InsertRow(w, f)
    <3>1. nextDoc[job[w].path] + 1 \in Nat /\ nextDoc' \in [Paths -> Nat]
      BY <2>2, <2>5 DEF InsertRow, TypeOK
    <3>2. Inserted(nextDoc[job[w].path] + 1, job[w].files, f) \in Row
      BY <2>2, <2>5, <3>1, RowsTyped DEF InsertRow
    <3>3. QED
      BY <2>2, <2>5, <3>1, <3>2, WroteTyped DEF InsertRow
  <2>6. CASE InsertDuplicate(w, f)
    BY <2>2, <2>6, AbortTyped, TablesTyped, EnvironmentTyped DEF InsertDuplicate, TypeOK
  <2>7. CASE DeleteRow(w, f)
    <3> DEFINE j == [job[w] EXCEPT !.todo = @ \ {f}]
    <3>1. CASE Wrote(w, f, Null)
      BY <2>2, <2>7, <3>1, WroteTyped DEF DeleteRow, tables, TypeOK
    <3>2. CASE job' = [job EXCEPT ![w].todo = @ \ {f}]
      <4>1. j \in Job /\ j.path = job[w].path /\ j.run = job[w].run
        BY <1>1 DEF Job
      <4>2. job' = [job EXCEPT ![w] = j] /\ pc' = [pc EXCEPT ![w] = "flush"]
        BY <2>2, <2>7, <3>2 DEF DeleteRow, TypeOK
      <4>3. QED
        BY <2>2, <2>7, <4>1, <4>2, JobStepTyped DEF DeleteRow, tables, Stage, TypeOK
    <3>3. QED
      BY <2>7, <3>1, <3>2 DEF DeleteRow
  <2>8. QED
    BY <2>1, <2>3, <2>4, <2>5, <2>6, <2>7 DEF FlushRow
<1>9. CASE ListDocuments(w)
  <2> DEFINE j == [job[w] EXCEPT !.view = Visible(w), !.existing = NoRows]
  <2>1. Visible(w) \in Table /\ NoRows \in Table
    BY <1>9, JobsTyped DEF ListDocuments, NoRows, Table
  <2>2. j \in Job /\ j.path = job[w].path /\ j.run = job[w].run
    BY <1>1, <2>1 DEF Job
  <2>3. QED
    BY <1>9, <2>2, JobStepTyped DEF ListDocuments, Advance, tables, Stage, TypeOK
<1>10. CASE MarkReady(w)
  BY <1>10, SameJobTyped, TablesTyped, EnvironmentTyped DEF MarkReady, TypeOK, Stage
<1>11. CASE SetActive(w)
  BY <1>11, SameJobTyped, TablesTyped, EnvironmentTyped DEF SetActive, Existing, TypeOK, Stage
<1>12. CASE Commit(w)
  <2> DEFINE j == [job[w] EXCEPT !.wrote = {}]
  <2>1. j \in Job /\ j.path = job[w].path /\ j.run = job[w].run
    BY <1>1 DEF Job
  <2>2. job' = [job EXCEPT ![w] = j] /\ pc[w] # "idle" /\ "switch" \in Stage
    BY <1>12 DEF Commit, CommitTables, Stage
  <2>3. locks' \in [Workers -> SUBSET Paths] /\ runtime' = runtime
    BY <1>12 DEF Commit, CommitTables, TypeOK
  <2>4. QED
    BY <1>12, <2>1, <2>2, <2>3, CommitTyped, AdvanceTyped, EnvironmentTyped DEF Commit, TypeOK
<1>13. CASE ActivateRuntime(w)
  <2>1. Candidate(w) \in Generation
    BY <1>1, <1>13 DEF ActivateRuntime, Candidate, NewVersion, Generation, Job, Repo, TypeOK
  <2>2. QED
    BY <1>13, <2>1, FinishTyped, TablesTyped, EnvironmentTyped DEF ActivateRuntime, TypeOK
<1>14. CASE DeadlockAbort(w)
  <2>1. pc[w] # "idle"
    BY <1>14, WaitersStages DEF DeadlockAbort
  <2>2. QED
    BY <1>14, <2>1, AbortTyped, TablesTyped, EnvironmentTyped DEF DeadlockAbort, TypeOK
<1>15. CASE LoadFailed(w)
  <2> DEFINE j == [job[w] EXCEPT !.seen = repos[job[w].path]]
  <2>1. j \in Job /\ j.path = job[w].path /\ j.run = job[w].run
    BY <1>1, <1>15 DEF Job, LoadFailed, TypeOK
  <2>2. QED
    BY <1>15, <2>1, JobStepTyped DEF LoadFailed, Advance, tables, Stage, TypeOK
<1>16. CASE RecordFailure(w)
  BY <1>16, RecordTyped, FinishTyped, EnvironmentTyped DEF RecordFailure, TypeOK
<1>17. QED
  BY <1>2, <1>3, <1>4, <1>5, <1>6, <1>7, <1>8, <1>9, <1>10, <1>11, <1>12, <1>13, <1>14, <1>15,
     <1>16 DEF Work

LEMMA FaultyTyped ==
    ASSUME TypeOK, NEW w \in Workers, Faulty(w)
    PROVE  TypeOK'
<1>1. CASE StartFails(w)
  BY <1>1, FaultTyped, FinishTyped, TablesTyped DEF StartFails, TypeOK
<1>2. CASE StartLost(w)
  BY <1>2, FaultTyped, FinishTyped, StartTyped DEF StartLost, StartTables, TypeOK
<1>3. CASE StatementFails(w)
  BY <1>3, FaultTyped, AbortTyped, TablesTyped DEF StatementFails, InTransaction, TypeOK
<1>4. CASE CommitLost(w)
  BY <1>4, FaultTyped, AbortTyped, CommitTyped DEF CommitLost, CommitTables, TypeOK
<1>5. CASE RecordFails(w)
  BY <1>5, FaultTyped, FinishTyped, TablesTyped DEF RecordFails, TypeOK
<1>6. QED
  BY <1>1, <1>2, <1>3, <1>4, <1>5 DEF Faulty

LEMMA BeginTyped ==
    ASSUME TypeOK, NEW w \in Workers, NEW p \in Paths, Begin(w, p)
    PROVE  TypeOK'
<1> DEFINE j == [NoJob EXCEPT !.path = p, !.run = requests + 1, !.seen = repos[p]]
<1>1. requests + 1 \in RunIds /\ requests + 1 \in 0..MaxRequests /\ requests + 1 \in Nat
  BY BoundsAssumption DEF Begin, TypeOK, RunIds
<1>2. j \in Job /\ j.path = p /\ j.run = requests + 1
  BY <1>1, JobsTyped DEF NoJob, Job, TypeOK
<1>3. pc' \in [Workers -> Stage] /\ job' \in [Workers -> Job]
  BY <1>2 DEF Begin, Advance, TypeOK, Stage
<1>4. \A x \in Workers : pc'[x] # "idle" => job'[x].path \in Paths /\ job'[x].run \in RunIds
  BY <1>1, <1>2 DEF Begin, Advance, TypeOK
<1>5. QED
  BY <1>1, <1>3, <1>4, TablesTyped DEF Begin, TypeOK

LEMMA ProcessTyped == TypeOK /\ (Crash \/ Restart) => TypeOK'
<1>1. TypeOK /\ Crash => TypeOK'
  <2> SUFFICES ASSUME TypeOK, Crash PROVE TypeOK'
    OBVIOUS
  <2>1. pc' \in [Workers -> Stage] /\ job' \in [Workers -> Job]
    BY JobsTyped DEF Crash, Stage
  <2>2. /\ crashes' \in 0..MaxCrashes /\ up' = FALSE /\ runtime' = Null
        /\ UNCHANGED <<tables, requests, faults>>
    <3>1. crashes \in 0..MaxCrashes /\ crashes < MaxCrashes /\ crashes' = crashes + 1
      BY DEF Crash, TypeOK
    <3>2. crashes' \in 0..MaxCrashes
      BY <3>1, BoundsAssumption
    <3>3. QED
      BY <3>2 DEF Crash
  <2>3. locks' \in [Workers -> SUBSET Paths] /\ \A w \in Workers : pc'[w] = "idle"
    BY DEF Crash
  <2>4. QED
    BY <2>1, <2>2, <2>3, TablesTyped DEF Crash, TypeOK
<1>2. TypeOK /\ Restart => Hydrated \in Generation \cup {Null}
  <2> SUFFICES ASSUME TypeOK, NEW p \in Paths PROVE Stored(p) \in Generation
    BY DEF Hydrated, Hydratable
  <2>1. QED
    BY DEF Stored, Generation, TypeOK, Repo
<1>3. TypeOK /\ Restart => TypeOK'
  BY <1>2 DEF Restart, tables, TypeOK
<1>4. QED
  BY <1>1, <1>3

LEMMA NextTyped == TypeOK /\ [Next]_vars => TypeOK'
<1>1. TypeOK /\ Next => TypeOK'
  <2>1. TypeOK /\ Finished => TypeOK'
    BY DEF Finished, vars, tables, TypeOK
  <2>2. QED
    BY <2>1, WorkTyped, FaultyTyped, BeginTyped, ProcessTyped DEF Next
<1>2. TypeOK /\ UNCHANGED vars => TypeOK'
  BY DEF vars, TypeOK
<1>3. QED
  BY <1>1, <1>2

(* Every reachable state is well typed: the statuses stay within the check *)
(* constraints of records.py, and a request in progress has a repository   *)
(* and a run.                                                              *)
THEOREM TypeCorrect == Spec => []TypeOK
BY InitTyped, NextTyped, PTL DEF Spec

-----------------------------------------------------------------------------
(* A document that is there before and after a commit keeps its id: the    *)
(* rows a transaction wrote stay locked until it ends, so what it read of  *)
(* such a row (an id for an update, nothing for an insert) is what the     *)
(* table still holds when it commits.                                      *)

(* No document row has been written by two open transactions.              *)
WritesExclusive ==
    \A w, o \in Workers :
        w # o /\ job[w].path = job[o].path => job[w].wrote \cap job[o].wrote = {}

(* A written row keeps the id of the committed row it replaces. *)
KeepsIds(table, view, wrote) ==
    \A f \in wrote : table[f] # Null /\ view[f] # Null => view[f].id = table[f].id

WrittenKeepIds ==
    \A w \in Workers : pc[w] # "idle" => KeepsIds(docs[job[w].path], job[w].view, job[w].wrote)

DocumentInv == TypeOK /\ WritesExclusive /\ WrittenKeepIds

-----------------------------------------------------------------------------
LEMMA DocumentInit == Init => DocumentInv
<1> SUFFICES ASSUME Init PROVE DocumentInv
  OBVIOUS
<1>1. TypeOK
  BY InitTyped
<1>2. WritesExclusive /\ WrittenKeepIds
  BY DEF Init, NoJob, WritesExclusive, WrittenKeepIds
<1>3. QED
  BY <1>1, <1>2 DEF DocumentInv

(* A step of w that commits no document and holds the rows it held, fewer, *)
(* or one more that nobody holds.                                          *)
LEMMA DocumentStep ==
    ASSUME DocumentInv, TypeOK', NEW w \in Workers, UNCHANGED docs,
           \A o \in Workers : o # w => pc'[o] = pc[o] /\ job'[o] = job[o],
           \/ job'[w].wrote = {}
           \/ /\ pc[w] # "idle" /\ job'[w].path = job[w].path
              /\ \A f \in job'[w].wrote : f \in job[w].wrote \/ DocFree(w, f)
              /\ KeepsIds(docs[job[w].path], job'[w].view, job'[w].wrote)
    PROVE  DocumentInv'
<1>1. WritesExclusive'
  <2> SUFFICES ASSUME NEW o \in Workers, o # w, job'[w].path = job'[o].path
               PROVE  job'[w].wrote \cap job'[o].wrote = {}
    BY DEF WritesExclusive, DocumentInv
  <2>1. job'[o] = job[o]
    OBVIOUS
  <2>2. QED
    BY <2>1 DEF DocumentInv, WritesExclusive, DocFree, DocHolders
<1>2. WrittenKeepIds'
  BY DEF DocumentInv, WrittenKeepIds, KeepsIds
<1>3. QED
  BY <1>1, <1>2 DEF DocumentInv

(* A step that keeps the rows a worker wrote and what it wrote to them. *)
LEMMA SameRowsStep ==
    ASSUME DocumentInv, TypeOK', NEW w \in Workers, pc[w] # "idle", UNCHANGED docs,
           \A o \in Workers : o # w => pc'[o] = pc[o] /\ job'[o] = job[o],
           job'[w].path = job[w].path, job'[w].wrote = job[w].wrote,
           \A f \in job[w].wrote : job'[w].view[f] = job[w].view[f]
    PROVE  DocumentInv'
<1>1. KeepsIds(docs[job[w].path], job'[w].view, job'[w].wrote)
  BY DEF DocumentInv, WrittenKeepIds, KeepsIds
<1>2. QED
  BY <1>1, DocumentStep

(* Rolling back and finishing release the rows. *)
LEMMA AbortDocuments ==
    ASSUME DocumentInv, TypeOK', NEW w \in Workers, Abort(w) \/ Finish(w), UNCHANGED docs,
           \A o \in Workers : o # w => pc'[o] = pc[o] /\ job'[o] = job[o]
    PROVE  DocumentInv'
<1>1. job'[w].wrote = {}
  BY JobEnds DEF DocumentInv
<1>2. QED
  BY <1>1, DocumentStep

(* The commit: an id changes in no row, and the rows of other open         *)
(* transactions do not change at all.                                      *)
LEMMA CommitKeepsIds ==
    ASSUME DocumentInv, NEW w \in Workers, CommitTables(w)
    PROVE  /\ \A p \in Paths, f \in Files :
                docs[p][f] # Null /\ docs'[p][f] # Null => docs'[p][f].id = docs[p][f].id
           /\ \A o \in Workers, f \in Files :
                o # w /\ pc[o] # "idle" /\ f \in job[o].wrote =>
                    docs'[job[o].path][f] = docs[job[o].path][f]
<1> DEFINE p == job[w].path
<1>1. /\ pc[w] = "commit" /\ p \in Paths /\ docs \in [Paths -> Table]
      /\ docs' = [docs EXCEPT ![p] = Visible(w)]
  BY DEF CommitTables, DocumentInv, TypeOK
<1>2. /\ \A q \in Paths : q # p => docs'[q] = docs[q]
      /\ docs'[p] = Visible(w)
      /\ \A f \in Files : docs'[p][f] = IF f \in job[w].wrote THEN job[w].view[f] ELSE docs[p][f]
  BY <1>1 DEF Visible
<1>3. KeepsIds(docs[p], job[w].view, job[w].wrote)
  BY <1>1 DEF DocumentInv, WrittenKeepIds
<1>4. \A q \in Paths, f \in Files :
        docs[q][f] # Null /\ docs'[q][f] # Null => docs'[q][f].id = docs[q][f].id
  BY <1>2, <1>3 DEF KeepsIds
<1>5. ASSUME NEW o \in Workers, NEW f \in Files, o # w, pc[o] # "idle", f \in job[o].wrote
      PROVE  docs'[job[o].path][f] = docs[job[o].path][f]
  <2>1. job[o].path \in Paths
    BY <1>5 DEF DocumentInv, TypeOK
  <2>2. job[o].path = p => f \notin job[w].wrote
    BY <1>5 DEF DocumentInv, WritesExclusive
  <2>3. QED
    BY <1>2, <2>1, <2>2
<1>6. QED
  BY <1>4, <1>5

LEMMA CommitDocuments ==
    ASSUME DocumentInv, TypeOK', NEW w \in Workers, Commit(w) \/ CommitLost(w),
           \A o \in Workers : o # w => pc'[o] = pc[o] /\ job'[o] = job[o]
    PROVE  DocumentInv'
<1>1. CommitTables(w) /\ job'[w].wrote = {}
  BY JobEnds DEF Commit, CommitLost, DocumentInv, TypeOK, Job
<1>2. WritesExclusive'
  BY <1>1 DEF DocumentInv, WritesExclusive
<1>3. WrittenKeepIds'
  <2> SUFFICES ASSUME NEW o \in Workers, o # w, pc[o] # "idle", NEW f \in job[o].wrote,
                      docs'[job[o].path][f] # Null, job[o].view[f] # Null
               PROVE  job[o].view[f].id = docs'[job[o].path][f].id
    BY <1>1 DEF WrittenKeepIds, KeepsIds
  <2>1. f \in Files
    BY DEF DocumentInv, TypeOK, Job
  <2>2. docs'[job[o].path][f] = docs[job[o].path][f]
    BY <1>1, <2>1, CommitKeepsIds
  <2>3. QED
    BY <2>2 DEF DocumentInv, WrittenKeepIds, KeepsIds
<1>4. QED
  BY <1>2, <1>3 DEF DocumentInv

(* One row of the flush: an update and a delete address the committed row  *)
(* by its id, an insert finds none.                                        *)
LEMMA FlushDocuments ==
    ASSUME DocumentInv, TypeOK', NEW w \in Workers, NEW f \in Files, FlushRow(w, f),
           \A o \in Workers : o # w => pc'[o] = pc[o] /\ job'[o] = job[o]
    PROVE  DocumentInv'
<1> DEFINE p == job[w].path
<1>1. /\ pc[w] = "flush" /\ DocFree(w, f) /\ UNCHANGED docs
      /\ job \in [Workers -> Job] /\ job[w] \in Job
  BY DEF FlushRow, UpdateRow, UpdateStale, InsertRow, InsertDuplicate, DeleteRow, AtRow, tables,
         DocumentInv, TypeOK
<1>2. KeepsIds(docs[p], job[w].view, job[w].wrote)
  BY <1>1 DEF DocumentInv, WrittenKeepIds
<1>3. CASE Abort(w)
  BY <1>1, <1>3, AbortDocuments
<1>4. ASSUME NEW row, Wrote(w, f, row),
             docs[p][f] # Null /\ row # Null => row.id = docs[p][f].id
      PROVE  DocumentInv'
  <2>1. /\ job'[w].path = p /\ job'[w].wrote = job[w].wrote \cup {f}
        /\ job'[w].view = [job[w].view EXCEPT ![f] = row]
        /\ job[w].view \in Table
    BY <1>1, <1>4 DEF Wrote, Job
  <2>2. KeepsIds(docs[p], job'[w].view, job'[w].wrote)
    <3> SUFFICES ASSUME NEW g \in job[w].wrote \cup {f},
                        docs[p][g] # Null, job'[w].view[g] # Null
                 PROVE  job'[w].view[g].id = docs[p][g].id
      BY <2>1 DEF KeepsIds
    <3>1. CASE g = f
      BY <1>4, <2>1, <3>1 DEF Table
    <3>2. CASE g # f
      BY <1>2, <2>1, <3>2 DEF KeepsIds, Table
    <3>3. QED
      BY <3>1, <3>2
  <2>3. QED
    BY <1>1, <2>1, <2>2, DocumentStep
<1>5. CASE UpdateRow(w, f)
  <2>1. /\ Wrote(w, f, Updated(job[w].existing, job[w].files, f))
        /\ docs[p][f].id = job[w].existing[f].id
    BY <1>5 DEF UpdateRow, StillThere
  <2>2. QED
    BY <1>4, <2>1 DEF Updated
<1>6. CASE InsertRow(w, f)
  BY <1>4, <1>6 DEF InsertRow
<1>7. CASE DeleteRow(w, f)
  <2>1. CASE Wrote(w, f, Null)
    BY <1>4, <2>1
  <2>2. CASE job' = [job EXCEPT ![w].todo = @ \ {f}]
    <3>1. /\ job'[w].path = p /\ job'[w].wrote = job[w].wrote /\ job'[w].view = job[w].view
      BY <1>1, <2>2 DEF Job
    <3>2. QED
      BY <1>1, <3>1, SameRowsStep
  <2>3. QED
    BY <1>7, <2>1, <2>2 DEF DeleteRow
<1>8. QED
  BY <1>3, <1>5, <1>6, <1>7 DEF FlushRow, UpdateStale, InsertDuplicate

LEMMA WorkDocuments ==
    ASSUME DocumentInv, TypeOK', NEW w \in Workers, Work(w) \/ Faulty(w)
    PROVE  DocumentInv'
<1>1. /\ pc[w] # "idle"
      /\ \A o \in Workers : o # w => pc'[o] = pc[o] /\ job'[o] = job[o]
      /\ job \in [Workers -> Job] /\ job[w] \in Job
  BY StepFrame DEF DocumentInv, TypeOK
<1>2. CASE StartRun(w) \/ Crawl(w) \/ LoadRepository(w) \/ SelectExisting(w) \/ MarkReady(w)
           \/ SetActive(w) \/ LoadFailed(w)
  <2>1. /\ job'[w].path = job[w].path /\ job'[w].wrote = job[w].wrote
        /\ job'[w].view = job[w].view
    BY <1>1, <1>2 DEF StartRun, Crawl, LoadRepository, SelectExisting, MarkReady, SetActive,
                      LoadFailed, Job
  <2>2. UNCHANGED docs
    BY <1>2 DEF StartRun, StartTables, Crawl, LoadRepository, SelectExisting, MarkReady, SetActive,
                LoadFailed, tables
  <2>3. QED
    BY <1>1, <2>1, <2>2, SameRowsStep
<1>3. CASE StartConflict(w) \/ CrawlFails(w) \/ DeadlockAbort(w) \/ ActivateRuntime(w)
           \/ RecordFailure(w)
  BY <1>1, <1>3, AbortDocuments
     DEF StartConflict, CrawlFails, DeadlockAbort, ActivateRuntime, RecordFailure, tables
<1>4. CASE StartFails(w) \/ StartLost(w) \/ StatementFails(w) \/ RecordFails(w)
  BY <1>1, <1>4, AbortDocuments
     DEF StartFails, StartLost, StartTables, StatementFails, RecordFails, tables
<1>5. CASE \E f \in Files : FlushRow(w, f)
  BY <1>1, <1>5, FlushDocuments
<1>6. CASE ListDocuments(w)
  <2>1. /\ job'[w].path = job[w].path /\ job'[w].wrote = job[w].wrote
        /\ job'[w].view = Visible(w) /\ UNCHANGED docs
    BY <1>1, <1>6 DEF ListDocuments, tables, Job
  <2>2. \A f \in job[w].wrote : Visible(w)[f] = job[w].view[f]
    BY <1>1 DEF Visible, Job
  <2>3. QED
    BY <1>1, <2>1, <2>2, SameRowsStep
<1>7. CASE Commit(w) \/ CommitLost(w)
  BY <1>1, <1>7, CommitDocuments
<1>8. QED
  BY <1>2, <1>3, <1>4, <1>5, <1>6, <1>7 DEF Work, Faulty

LEMMA DocumentNext == DocumentInv /\ [Next]_vars => DocumentInv'
<1> SUFFICES ASSUME DocumentInv, [Next]_vars PROVE DocumentInv'
  OBVIOUS
<1>1. TypeOK'
  BY NextTyped DEF DocumentInv
<1>2. CASE UNCHANGED vars
  BY <1>1, <1>2 DEF vars, DocumentInv, WritesExclusive, WrittenKeepIds, KeepsIds
<1>3. ASSUME NEW w \in Workers, NEW p \in Paths, Begin(w, p) PROVE DocumentInv'
  <2>1. /\ job'[w].wrote = {} /\ UNCHANGED docs
        /\ \A o \in Workers : o # w => pc'[o] = pc[o] /\ job'[o] = job[o]
    BY <1>3 DEF Begin, Advance, NoJob, tables, DocumentInv, TypeOK
  <2>2. QED
    BY <1>1, <2>1, DocumentStep
<1>4. CASE Crash
  BY <1>1, <1>4 DEF Crash, NoJob, DocumentInv, WritesExclusive, WrittenKeepIds
<1>5. CASE Restart
  BY <1>1, <1>5 DEF Restart, tables, DocumentInv, WritesExclusive, WrittenKeepIds, KeepsIds
<1>6. QED
  BY <1>1, <1>2, <1>3, <1>4, <1>5, WorkDocuments DEF Next, Finished

LEMMA DocumentInvariant == Spec => []DocumentInv
BY DocumentInit, DocumentNext, PTL DEF Spec

-----------------------------------------------------------------------------
(* Only a commit writes the documents table. *)
LEMMA OnlyCommitsWrite ==
    ASSUME DocumentInv, Next, docs' # docs
    PROVE  \E w \in Workers : CommitTables(w)
<1>1. PICK w \in Workers : Work(w) \/ Faulty(w)
  BY DEF Next, Begin, Crash, Restart, Finished, vars, tables
<1>2. ~(\E f \in Files : FlushRow(w, f))
  BY DEF FlushRow, UpdateRow, UpdateStale, InsertRow, InsertDuplicate, DeleteRow, tables
<1>3. Commit(w) \/ CommitLost(w)
  BY <1>1, <1>2
     DEF Work, Faulty, StartRun, StartTables, StartConflict, Crawl, CrawlFails, LoadRepository,
         SelectExisting, ListDocuments, MarkReady, SetActive, ActivateRuntime, DeadlockAbort,
         LoadFailed, RecordFailure, StartFails, StartLost, StatementFails, RecordFails, tables
<1>4. QED
  BY <1>3 DEF Commit, CommitLost

(* No interleaving of synchronizations (document_store.py:29-112) replaces *)
(* a document by another with the same path: an update goes to the row it  *)
(* was computed from, and a path that has a row takes no insert.           *)
THEOREM StableIdsHold == Spec => StableIds
<1>1. DocumentInv /\ [Next]_vars =>
        [\A p \in Paths, f \in Files :
            docs[p][f] # Null /\ docs'[p][f] # Null => docs'[p][f].id = docs[p][f].id]_docs
  BY OnlyCommitsWrite, CommitKeepsIds DEF vars
<1>2. QED
  BY <1>1, DocumentInvariant, PTL DEF Spec, StableIds

-----------------------------------------------------------------------------
(* At most one repository is active, and what is active or ready has been  *)
(* indexed: for any number of workers, repositories, faults and crashes.   *)
(*                                                                         *)
(* The argument for SingleActive is about row locks.  A request enters     *)
(* set_active holding the row of its own repository (mark_ready wrote it), *)
(* and leaves it holding every row there is; so no other request can       *)
(* complete set_active before the first one's transaction ends, and every  *)
(* row that is active when it commits is one it has written.  Repositories *)
(* inserted in between are inactive.                                       *)

(* Stages at which the request's repository row has been committed. *)
StartedStages == {"crawl", "load", "sync", "flush", "ready", "activate", "commit", "switch",
                  "failing", "record"}

WorkerOK(s, path, seen, held) ==
    /\ s \in StartedStages => path \in Existing
    /\ s = "start" /\ seen.status # "absent" => path \in Existing
    /\ held \subseteq Existing
    /\ s \in {"activate", "commit"} => path \in held
    /\ s \notin {"activate", "commit"} => held = {}
    /\ s = "commit" => \A p \in Paths : repos[p].active => p \in held
    /\ s # "idle" /\ seen.version > 0 => repos[path].version > 0

WorkersOK == \A w \in Workers : WorkerOK(pc[w], job[w].path, job[w].seen, locks[w])

Exclusive ==
    \A w, o \in Workers : w # o =>
        /\ locks[w] \cap locks[o] = {}
        /\ ~(pc[w] = "commit" /\ pc[o] = "commit")

RowOK(row) ==
    /\ row.status = "absent" => ~row.active /\ row.version = 0
    /\ row.active \/ row.status = "ready" => row.version > 0

RowsOK == \A p \in Paths : RowOK(repos[p])

ActivationInv == TypeOK /\ WorkersOK /\ Exclusive /\ RowsOK /\ SingleActive

(* Rows are never removed and never lose their last version. *)
RowsGrow ==
    \A p \in Paths : /\ p \in Existing => p \in Existing'
                     /\ repos[p].version > 0 => repos'[p].version > 0

-----------------------------------------------------------------------------
LEMMA ActivationInit == Init => ActivationInv
<1> SUFFICES ASSUME Init PROVE ActivationInv
  OBVIOUS
<1>1. TypeOK
  BY InitTyped
<1>2. WorkersOK
  BY DEF Init, WorkersOK, WorkerOK, StartedStages
<1>3. Exclusive /\ RowsOK /\ SingleActive
  BY DEF Init, Exclusive, RowsOK, RowOK, SingleActive, NoRepo
<1>4. QED
  BY <1>1, <1>2, <1>3 DEF ActivationInv

(* A step of one worker, seen through what the invariant depends on. *)
LEMMA StepInv ==
    ASSUME ActivationInv, TypeOK', NEW w \in Workers,
           \A o \in Workers : o # w => /\ pc'[o] = pc[o] /\ job'[o] = job[o]
                                       /\ locks'[o] = locks[o],
           WorkerOK(pc[w], job[w].path, job[w].seen, locks[w])',
           \A o \in Workers : o # w => locks'[w] \cap locks[o] = {},
           pc'[w] = "commit" => \A o \in Workers : o # w => pc[o] # "commit",
           RowsGrow, RowsOK', SingleActive',
           \/ \A o \in Workers : o # w => pc[o] # "commit"
           \/ \A p \in Paths : repos'[p].active => repos[p].active
    PROVE  ActivationInv'
<1>1. WorkersOK'
  <2> SUFFICES ASSUME NEW o \in Workers, o # w
               PROVE  WorkerOK(pc[o], job[o].path, job[o].seen, locks[o])'
    BY DEF WorkersOK
  <2>1. WorkerOK(pc[o], job[o].path, job[o].seen, locks[o])
    BY DEF ActivationInv, WorkersOK
  <2>2. pc[o] # "idle" => job[o].path \in Paths
    BY DEF ActivationInv, TypeOK
  <2>3. locks[o] \subseteq Paths
    BY DEF ActivationInv, TypeOK
  <2>4. QED
    BY <2>1, <2>2, <2>3 DEF WorkerOK, RowsGrow, StartedStages
<1>2. Exclusive'
  BY DEF ActivationInv, Exclusive
<1>3. QED
  BY <1>1, <1>2 DEF ActivationInv

(* The same for a step that leaves the repositories table alone. *)
LEMMA QuietStepInv ==
    ASSUME ActivationInv, TypeOK', NEW w \in Workers, UNCHANGED repos,
           \A o \in Workers : o # w => /\ pc'[o] = pc[o] /\ job'[o] = job[o]
                                       /\ locks'[o] = locks[o],
           WorkerOK(pc'[w], job'[w].path, job'[w].seen, locks'[w]),
           \A o \in Workers : o # w => locks'[w] \cap locks[o] = {},
           pc'[w] = "commit" => \A o \in Workers : o # w => pc[o] # "commit"
    PROVE  ActivationInv'
<1>1. WorkerOK(pc[w], job[w].path, job[w].seen, locks[w])'
  BY DEF WorkerOK, Existing
<1>2. RowsGrow /\ RowsOK' /\ SingleActive'
  BY DEF ActivationInv, RowsGrow, Existing, RowsOK, RowOK, SingleActive
<1>3. \A p \in Paths : repos'[p].active => repos[p].active
  OBVIOUS
<1>4. QED
  BY <1>1, <1>2, <1>3, StepInv

(* Rolling back, and finishing, release the worker's row locks. *)
LEMMA AbortInv ==
    ASSUME ActivationInv, TypeOK', NEW w \in Workers, pc[w] \in StartedStages,
           UNCHANGED repos, Abort(w)
    PROVE  ActivationInv'
<1>1. /\ pc'[w] = "failing" /\ job'[w] = RolledBack(w) /\ locks'[w] = {}
      /\ \A o \in Workers : o # w => /\ pc'[o] = pc[o] /\ job'[o] = job[o]
                                     /\ locks'[o] = locks[o]
  BY DEF Abort, Advance, ActivationInv, TypeOK
<1>2. RolledBack(w).path = job[w].path /\ RolledBack(w).seen = NoRepo
  BY DEF RolledBack, NoJob
<1>3. WorkerOK("failing", job[w].path, NoRepo, {})
  BY DEF ActivationInv, WorkersOK, WorkerOK, StartedStages, NoRepo
<1>4. QED
  BY <1>1, <1>2, <1>3, QuietStepInv

LEMMA FinishInv ==
    ASSUME ActivationInv, TypeOK', NEW w \in Workers, pc[w] \notin {"activate", "commit"},
           UNCHANGED <<repos, locks>>, Finish(w)
    PROVE  ActivationInv'
<1>1. /\ pc'[w] = "idle" /\ job'[w] = NoJob /\ locks'[w] = {}
      /\ \A o \in Workers : o # w => /\ pc'[o] = pc[o] /\ job'[o] = job[o]
                                     /\ locks'[o] = locks[o]
  BY DEF Finish, Advance, ActivationInv, TypeOK, WorkersOK, WorkerOK
<1>2. WorkerOK("idle", NoJob.path, NoJob.seen, {})
  BY DEF WorkerOK, StartedStages
<1>3. QED
  BY <1>1, <1>2, QuietStepInv

(* A step that keeps the repository, and the row as it was loaded or loads *)
(* it again, before any row is locked.                                     *)
LEMMA LocalStepInv ==
    ASSUME ActivationInv, TypeOK', NEW w \in Workers, UNCHANGED <<repos, locks>>,
           pc[w] \in StartedStages \ {"activate", "commit"},
           pc'[w] \in StartedStages \ {"activate", "commit"},
           job'[w].path = job[w].path,
           job'[w].seen = job[w].seen \/ job'[w].seen = repos[job[w].path],
           \A o \in Workers : o # w => pc'[o] = pc[o] /\ job'[o] = job[o]
    PROVE  ActivationInv'
<1>1. WorkerOK(pc'[w], job'[w].path, job'[w].seen, locks'[w])
  BY DEF ActivationInv, WorkersOK, WorkerOK, StartedStages
<1>2. \A o \in Workers : o # w => locks'[w] \cap locks[o] = {}
  BY DEF ActivationInv, Exclusive
<1>3. QED
  BY <1>1, <1>2, QuietStepInv

LEMMA BeginInv ==
    ASSUME ActivationInv, TypeOK', NEW w \in Workers, NEW p \in Paths, Begin(w, p)
    PROVE  ActivationInv'
<1>1. /\ pc[w] = "idle" /\ pc'[w] = "start" /\ job'[w].path = p /\ job'[w].seen = repos[p]
      /\ UNCHANGED <<repos, locks>>
      /\ \A o \in Workers : o # w => pc'[o] = pc[o] /\ job'[o] = job[o]
  BY DEF Begin, Advance, tables, ActivationInv, TypeOK, NoJob
<1>2. locks[w] = {}
  BY <1>1 DEF ActivationInv, WorkersOK, WorkerOK
<1>3. WorkerOK("start", p, repos[p], {})
  BY DEF WorkerOK, StartedStages, Existing
<1>4. QED
  BY <1>1, <1>2, <1>3, QuietStepInv

-----------------------------------------------------------------------------
(* The steps that write the repositories table. *)

LEMMA StartRows ==
    ASSUME ActivationInv, NEW w \in Workers, StartTables(w)
    PROVE  /\ pc[w] = "start" /\ job[w].path \in Existing'
           /\ RowsGrow /\ RowsOK' /\ SingleActive'
           /\ \A p \in Paths : repos'[p].active => repos[p].active
           /\ UNCHANGED locks
           /\ locks[w] = {}
<1> DEFINE p == job[w].path
           row == Started(job[w].seen, repos[p])
<1>1. /\ pc[w] = "start" /\ p \in Paths
      /\ repos' = [repos EXCEPT ![p] = row] /\ UNCHANGED locks
      /\ repos \in [Paths -> Repo]
      /\ job[w].seen.status = "absent" => repos[p].status = "absent"
  BY DEF StartTables, MayStart, ActivationInv, TypeOK
<1>2. /\ WorkerOK("start", p, job[w].seen, locks[w])
      /\ RowOK(repos[p])
  BY <1>1 DEF ActivationInv, WorkersOK, RowsOK
<1>3. repos[p] \in Repo
  BY <1>1
<1>4. /\ row.status # "absent"
      /\ row.active => repos[p].active
      /\ repos[p].version > 0 => row.version > 0
      /\ RowOK(row)
  <2>1. CASE job[w].seen.status = "absent"
    BY <1>1, <1>2, <2>1 DEF Started, NoRepo, RowOK
  <2>2. CASE job[w].seen.status = "indexing"
    BY <1>2, <2>2 DEF Started, RowOK, WorkerOK, Existing
  <2>3. CASE job[w].seen.status \notin {"absent", "indexing"}
    <3>1. row = [repos[p] EXCEPT !.status = "indexing"]
      BY <2>3 DEF Started
    <3>2. row.status = "indexing" /\ row.active = repos[p].active
          /\ row.version = repos[p].version
      BY <1>3, <3>1 DEF Repo
    <3>3. QED
      BY <1>2, <3>2 DEF RowOK
  <2>4. QED
    BY <2>1, <2>2, <2>3
<1>5. \A q \in Paths : repos'[q] = IF q = p THEN row ELSE repos[q]
  BY <1>1
<1>6. RowsGrow /\ RowsOK' /\ p \in Existing'
  BY <1>1, <1>4, <1>5 DEF RowsGrow, RowsOK, Existing, ActivationInv
<1>7. \A q \in Paths : repos'[q].active => repos[q].active
  BY <1>4, <1>5
<1>8. SingleActive'
  BY <1>7 DEF SingleActive, ActivationInv
<1>9. locks[w] = {}
  BY <1>2 DEF WorkerOK
<1>10. QED
  BY <1>1, <1>6, <1>7, <1>8, <1>9

LEMMA StartInv ==
    ASSUME ActivationInv, TypeOK', NEW w \in Workers, StartRun(w) \/ StartLost(w)
    PROVE  ActivationInv'
<1>1. StartTables(w) /\ pc' = [pc EXCEPT ![w] = IF StartRun(w) THEN "crawl" ELSE "idle"]
  BY DEF StartRun, StartLost, Finish, Advance
<1>2. \/ pc'[w] = "crawl" /\ job' = job
      \/ pc'[w] = "idle" /\ job' = [job EXCEPT ![w] = NoJob]
  BY DEF StartRun, StartLost, Finish, Advance, ActivationInv, TypeOK
<1>3. \A o \in Workers : o # w => pc'[o] = pc[o] /\ job'[o] = job[o]
  BY <1>1, <1>2 DEF ActivationInv, TypeOK
<1>4. /\ pc[w] = "start" /\ job[w].path \in Existing' /\ RowsGrow /\ RowsOK' /\ SingleActive'
      /\ \A p \in Paths : repos'[p].active => repos[p].active
      /\ UNCHANGED locks /\ locks[w] = {}
  BY <1>1, StartRows
<1>5. WorkerOK(pc[w], job[w].path, job[w].seen, locks[w]) /\ job[w].path \in Paths
  BY <1>4 DEF ActivationInv, WorkersOK, TypeOK
<1>6. WorkerOK(pc[w], job[w].path, job[w].seen, locks[w])'
  <2>1. CASE pc'[w] = "crawl" /\ job' = job
    BY <1>4, <1>5, <2>1 DEF WorkerOK, RowsGrow
  <2>2. CASE pc'[w] = "idle"
    BY <1>4, <2>2 DEF WorkerOK, StartedStages
  <2>3. QED
    BY <1>2, <2>1, <2>2
<1>7. QED
  BY <1>2, <1>3, <1>4, <1>6, StepInv

LEMMA RecordInv ==
    ASSUME ActivationInv, TypeOK', NEW w \in Workers, RecordFailure(w)
    PROVE  ActivationInv'
<1> DEFINE p == job[w].path
           status == FallbackStatus(job[w].seen)
<1>1. /\ pc[w] = "record" /\ p \in Paths /\ UNCHANGED locks /\ Finish(w)
      /\ repos' = repos \/ repos' = [repos EXCEPT ![p].status = status]
      /\ repos \in [Paths -> Repo] /\ job[w].seen \in Repo
  BY DEF RecordFailure, ActivationInv, TypeOK, Job
<1>2. WorkerOK("record", p, job[w].seen, locks[w]) /\ RowOK(repos[p])
  BY <1>1 DEF ActivationInv, WorkersOK, RowsOK
<1>3. status \in {"ready", "failed"} /\ (status = "ready" => repos[p].version > 0)
  BY <1>1, <1>2 DEF FallbackStatus, WorkerOK
<1>4. CASE repos' = repos
  BY <1>1, <1>4, FinishInv
<1>5. CASE repos' = [repos EXCEPT ![p].status = status]
  <2>1. /\ \A q \in Paths : /\ repos'[q].active = repos[q].active
                            /\ repos'[q].version = repos[q].version
                            /\ q # p => repos'[q] = repos[q]
        /\ repos'[p].status = status
    BY <1>1, <1>5 DEF Repo
  <2>2. p \in Existing
    BY <1>2 DEF WorkerOK, StartedStages
  <2>3. RowsGrow /\ RowsOK' /\ SingleActive'
    BY <1>3, <2>1, <2>2 DEF RowsGrow, RowsOK, RowOK, SingleActive, Existing, ActivationInv
  <2>4. /\ pc'[w] = "idle" /\ locks'[w] = {}
        /\ \A o \in Workers : o # w => /\ pc'[o] = pc[o] /\ job'[o] = job[o]
                                       /\ locks'[o] = locks[o]
    BY <1>1, <1>2 DEF Finish, Advance, ActivationInv, TypeOK, WorkerOK
  <2>5. WorkerOK(pc[w], job[w].path, job[w].seen, locks[w])'
    BY <2>4 DEF WorkerOK, StartedStages
  <2>6. QED
    BY <2>1, <2>3, <2>4, <2>5, StepInv
<1>6. QED
  BY <1>1, <1>4, <1>5

(* The commit: every row that was active is one this transaction wrote.    *)
LEMMA CommitRows ==
    ASSUME ActivationInv, NEW w \in Workers, CommitTables(w)
    PROVE  /\ pc[w] = "commit" /\ job[w].path \in Paths
           /\ RowsGrow /\ RowsOK' /\ SingleActive'
           /\ repos'[job[w].path].version > 0
           /\ \A o \in Workers : o # w => pc[o] # "commit"
<1> DEFINE p == job[w].path
<1>1. /\ pc[w] = "commit" /\ p \in Paths /\ repos' = CommittedRepos(w)
      /\ repos \in [Paths -> Repo] /\ job[w].seen \in Repo
  BY DEF CommitTables, ActivationInv, TypeOK, Job
<1>2. WorkerOK("commit", p, job[w].seen, locks[w])
  BY <1>1 DEF ActivationInv, WorkersOK
<1>3. NewVersion(w) \in Nat /\ NewVersion(w) > 0
  BY <1>1 DEF NewVersion, Repo
<1>4. /\ repos'[p].active /\ repos'[p].version = NewVersion(w)
      /\ repos'[p].status = ReadyStatus(job[w].seen, repos[p])
  BY <1>1 DEF CommittedRepos
<1>5. ReadyStatus(job[w].seen, repos[p]) # "absent"
  BY <1>2 DEF ReadyStatus, WorkerOK, StartedStages, Existing
<1>6. ASSUME NEW q \in Paths, q # p
      PROVE  /\ ~repos'[q].active
             /\ repos'[q].version = repos[q].version /\ repos'[q].status = repos[q].status
  <2>1. repos[q] \in Repo
    BY <1>1
  <2>2. CASE q \in locks[w]
    BY <1>1, <1>6, <2>1, <2>2 DEF CommittedRepos, Repo
  <2>3. CASE q \notin locks[w]
    BY <1>1, <1>2, <1>6, <2>3 DEF CommittedRepos, WorkerOK
  <2>4. QED
    BY <2>2, <2>3
<1>7. RowsOK'
  BY <1>3, <1>4, <1>5, <1>6 DEF RowsOK, RowOK, ActivationInv
<1>8. RowsGrow
  BY <1>3, <1>4, <1>5, <1>6 DEF RowsGrow, Existing
<1>9. SingleActive'
  BY <1>6 DEF SingleActive
<1>10. \A o \in Workers : o # w => pc[o] # "commit"
  BY <1>1 DEF ActivationInv, Exclusive
<1>11. QED
  BY <1>1, <1>3, <1>4, <1>7, <1>8, <1>9, <1>10

LEMMA CommitInv ==
    ASSUME ActivationInv, TypeOK', NEW w \in Workers, Commit(w) \/ CommitLost(w)
    PROVE  ActivationInv'
<1>1. CommitTables(w) /\ locks' = [locks EXCEPT ![w] = {}]
  BY DEF Commit, CommitLost, Abort
<1>2. /\ pc'[w] \in {"switch", "failing"} /\ job'[w].path = job[w].path
      /\ locks'[w] = {}
      /\ \A o \in Workers : o # w => /\ pc'[o] = pc[o] /\ job'[o] = job[o]
                                     /\ locks'[o] = locks[o]
  <2>1. CASE Commit(w)
    BY <1>1, <2>1 DEF Commit, Advance, ActivationInv, TypeOK, Job
  <2>2. CASE CommitLost(w)
    BY <1>1, <2>2 DEF CommitLost, Abort, Advance, RolledBack, NoJob, ActivationInv, TypeOK
  <2>3. QED
    BY <2>1, <2>2
<1>3. /\ pc[w] = "commit" /\ job[w].path \in Paths /\ RowsGrow /\ RowsOK' /\ SingleActive'
      /\ repos'[job[w].path].version > 0
      /\ \A o \in Workers : o # w => pc[o] # "commit"
  BY <1>1, CommitRows
<1>4. job[w].path \in Existing
  BY <1>3 DEF ActivationInv, WorkersOK, WorkerOK, StartedStages
<1>5. WorkerOK(pc[w], job[w].path, job[w].seen, locks[w])'
  BY <1>2, <1>3, <1>4 DEF WorkerOK, RowsGrow
<1>6. QED
  BY <1>2, <1>3, <1>5, StepInv

-----------------------------------------------------------------------------
(* The steps that lock rows. *)

LEMMA MarkReadyInv ==
    ASSUME ActivationInv, TypeOK', NEW w \in Workers, MarkReady(w)
    PROVE  ActivationInv'
<1> DEFINE p == job[w].path
<1>1. /\ pc[w] = "ready" /\ pc'[w] = "activate" /\ UNCHANGED <<repos, job>>
      /\ locks'[w] = locks[w] \cup {p}
      /\ \A o \in Workers : o # w => pc'[o] = pc[o] /\ locks'[o] = locks[o]
      /\ \A o \in Workers : o # w => p \notin locks[o]
  BY DEF MarkReady, Advance, tables, RepoFree, RepoHolders, ActivationInv, TypeOK
<1>2. WorkerOK("ready", p, job[w].seen, locks[w])
  BY <1>1 DEF ActivationInv, WorkersOK
<1>3. WorkerOK("activate", p, job[w].seen, locks[w] \cup {p})
  BY <1>2 DEF WorkerOK, StartedStages
<1>4. \A o \in Workers : o # w => locks'[w] \cap locks[o] = {}
  BY <1>1, <1>2 DEF WorkerOK
<1>5. WorkerOK(pc'[w], job'[w].path, job'[w].seen, locks'[w])
  BY <1>1, <1>3
<1>6. \A o \in Workers : o # w => job'[o] = job[o]
  BY <1>1
<1>7. QED
  BY <1>1, <1>4, <1>5, <1>6, QuietStepInv

LEMMA SetActiveInv ==
    ASSUME ActivationInv, TypeOK', NEW w \in Workers, SetActive(w)
    PROVE  ActivationInv'
<1>1. /\ pc[w] = "activate" /\ pc'[w] = "commit" /\ UNCHANGED <<repos, job>>
      /\ locks'[w] = Existing
      /\ \A o \in Workers : o # w => pc'[o] = pc[o] /\ locks'[o] = locks[o]
      /\ \A o \in Workers : o # w => Existing \cap locks[o] = {}
  BY DEF SetActive, Advance, tables, RepoFree, RepoHolders, ActivationInv, TypeOK
<1>2. WorkerOK("activate", job[w].path, job[w].seen, locks[w])
  BY <1>1 DEF ActivationInv, WorkersOK
<1>3. \A p \in Paths : repos[p].active => p \in Existing
  BY DEF ActivationInv, RowsOK, RowOK, Existing
<1>4. WorkerOK("commit", job[w].path, job[w].seen, Existing)
  BY <1>2, <1>3 DEF WorkerOK, StartedStages
<1>5. ASSUME NEW o \in Workers, o # w PROVE pc[o] # "commit"
  <2>1. WorkerOK(pc[o], job[o].path, job[o].seen, locks[o])
    BY DEF ActivationInv, WorkersOK
  <2>2. QED
    BY <1>1, <1>5, <2>1 DEF WorkerOK
<1>6. WorkerOK(pc'[w], job'[w].path, job'[w].seen, locks'[w])
  BY <1>1, <1>4
<1>7. \A o \in Workers : o # w => locks'[w] \cap locks[o] = {} /\ job'[o] = job[o]
  BY <1>1
<1>8. QED
  BY <1>1, <1>5, <1>6, <1>7, QuietStepInv

-----------------------------------------------------------------------------
(* A row of the flush changes the worker's own job only, or aborts. *)
LEMMA FlushInv ==
    ASSUME ActivationInv, TypeOK', NEW w \in Workers, NEW f \in Files, FlushRow(w, f)
    PROVE  ActivationInv'
<1>1. pc[w] = "flush" /\ UNCHANGED repos
  BY DEF FlushRow, UpdateRow, UpdateStale, InsertRow, InsertDuplicate, DeleteRow, AtRow, tables
<1>2. CASE Abort(w)
  BY <1>1, <1>2, AbortInv DEF StartedStages
<1>3. CASE ~Abort(w)
  <2>1. /\ UNCHANGED <<pc, locks>>
        /\ \/ \E row : Wrote(w, f, row)
           \/ job' = [job EXCEPT ![w].todo = @ \ {f}]
    BY <1>3 DEF FlushRow, UpdateRow, UpdateStale, InsertRow, InsertDuplicate, DeleteRow
  <2>2. job[w] \in Job /\ job \in [Workers -> Job]
    BY DEF ActivationInv, TypeOK
  <2>3. /\ job'[w].path = job[w].path /\ job'[w].seen = job[w].seen
        /\ \A o \in Workers : o # w => job'[o] = job[o]
    BY <2>1, <2>2 DEF Wrote, Job
  <2>4. QED
    BY <1>1, <2>1, <2>3, LocalStepInv DEF StartedStages
<1>4. QED
  BY <1>2, <1>3

LEMMA WorkInv ==
    ASSUME ActivationInv, TypeOK', NEW w \in Workers, Work(w)
    PROVE  ActivationInv'
<1>1. job \in [Workers -> Job] /\ pc \in [Workers -> Stage] /\ job[w] \in Job
  BY DEF ActivationInv, TypeOK
<1>2. CASE StartRun(w)
  BY <1>2, StartInv
<1>3. CASE StartConflict(w)
  BY <1>3, FinishInv DEF StartConflict, tables
<1>4. CASE Crawl(w)
  <2>1. job'[w].path = job[w].path /\ job'[w].seen = job[w].seen
    BY <1>1, <1>4 DEF Crawl, Job
  <2>2. QED
    BY <1>1, <1>4, <2>1, LocalStepInv DEF Crawl, Advance, tables, StartedStages
<1>5. CASE CrawlFails(w)
  BY <1>5, AbortInv DEF CrawlFails, tables, StartedStages
<1>6. CASE LoadRepository(w)
  <2>1. job'[w].path = job[w].path /\ job'[w].seen = repos[job[w].path]
    BY <1>1, <1>6 DEF LoadRepository, Job
  <2>2. QED
    BY <1>1, <1>6, <2>1, LocalStepInv DEF LoadRepository, Advance, tables, StartedStages
<1>7. CASE SelectExisting(w)
  <2>1. job'[w].path = job[w].path /\ job'[w].seen = job[w].seen
    BY <1>1, <1>7 DEF SelectExisting, Job
  <2>2. QED
    BY <1>1, <1>7, <2>1, LocalStepInv DEF SelectExisting, Advance, tables, StartedStages
<1>8. CASE \E f \in Files : FlushRow(w, f)
  BY <1>8, FlushInv
<1>9. CASE ListDocuments(w)
  <2>1. job'[w].path = job[w].path /\ job'[w].seen = job[w].seen
    BY <1>1, <1>9 DEF ListDocuments, Job
  <2>2. QED
    BY <1>1, <1>9, <2>1, LocalStepInv DEF ListDocuments, Advance, tables, StartedStages
<1>10. CASE MarkReady(w)
  BY <1>10, MarkReadyInv
<1>11. CASE SetActive(w)
  BY <1>11, SetActiveInv
<1>12. CASE Commit(w)
  BY <1>12, CommitInv
<1>13. CASE ActivateRuntime(w)
  BY <1>13, FinishInv DEF ActivateRuntime, tables
<1>14. CASE DeadlockAbort(w)
  <2>1. pc[w] \in {"flush", "ready", "activate"}
    BY <1>14, WaitersStages DEF DeadlockAbort
  <2>2. QED
    BY <1>14, <2>1, AbortInv DEF DeadlockAbort, tables, StartedStages
<1>15. CASE LoadFailed(w)
  <2>1. job'[w].path = job[w].path /\ job'[w].seen = repos[job[w].path]
    BY <1>1, <1>15 DEF LoadFailed, Job
  <2>2. QED
    BY <1>1, <1>15, <2>1, LocalStepInv DEF LoadFailed, Advance, tables, StartedStages
<1>16. CASE RecordFailure(w)
  BY <1>16, RecordInv
<1>17. QED
  BY <1>2, <1>3, <1>4, <1>5, <1>6, <1>7, <1>8, <1>9, <1>10, <1>11, <1>12, <1>13, <1>14, <1>15,
     <1>16 DEF Work

LEMMA FaultyInv ==
    ASSUME ActivationInv, TypeOK', NEW w \in Workers, Faulty(w)
    PROVE  ActivationInv'
<1>1. CASE StartFails(w)
  BY <1>1, FinishInv DEF StartFails, tables
<1>2. CASE StartLost(w)
  BY <1>2, StartInv
<1>3. CASE StatementFails(w)
  BY <1>3, AbortInv DEF StatementFails, InTransaction, StartedStages, tables
<1>4. CASE CommitLost(w)
  BY <1>4, CommitInv
<1>5. CASE RecordFails(w)
  BY <1>5, FinishInv DEF RecordFails, tables
<1>6. QED
  BY <1>1, <1>2, <1>3, <1>4, <1>5 DEF Faulty

LEMMA ProcessInv == ActivationInv /\ TypeOK' /\ (Crash \/ Restart) => ActivationInv'
<1> SUFFICES ASSUME ActivationInv, TypeOK', Crash \/ Restart PROVE ActivationInv'
  OBVIOUS
<1>1. UNCHANGED repos
  BY DEF Crash, Restart, tables
<1>2. RowsOK' /\ SingleActive'
  BY <1>1 DEF ActivationInv, RowsOK, RowOK, SingleActive
<1>3. CASE Crash
  <2>1. WorkersOK' /\ Exclusive'
    BY <1>3 DEF Crash, WorkersOK, WorkerOK, Exclusive, StartedStages
  <2>2. QED
    BY <1>2, <2>1 DEF ActivationInv
<1>4. CASE Restart
  <2>1. WorkersOK' /\ Exclusive'
    BY <1>1, <1>4 DEF Restart, ActivationInv, WorkersOK, WorkerOK, Exclusive, Existing
  <2>2. QED
    BY <1>2, <2>1 DEF ActivationInv
<1>5. QED
  BY <1>3, <1>4

LEMMA ActivationNext == ActivationInv /\ [Next]_vars => ActivationInv'
<1> SUFFICES ASSUME ActivationInv, [Next]_vars PROVE ActivationInv'
  OBVIOUS
<1>1. TypeOK'
  BY NextTyped DEF ActivationInv
<1>2. CASE UNCHANGED vars
  BY <1>1, <1>2 DEF vars, ActivationInv, WorkersOK, WorkerOK, Exclusive, RowsOK, RowOK,
                    SingleActive, Existing
<1>3. CASE Next
  BY <1>1, <1>2, <1>3, BeginInv, WorkInv, FaultyInv, ProcessInv DEF Next, Finished
<1>4. QED
  BY <1>2, <1>3

LEMMA ActivationInvariant == Spec => []ActivationInv
BY ActivationInit, ActivationNext, PTL DEF Spec

-----------------------------------------------------------------------------
(* The partial unique index on is_active (records.py:33-38) is never what  *)
(* keeps a second repository from being active: set_active's row locks do. *)
THEOREM SingleActiveHolds == Spec => []SingleActive
<1>1. ActivationInv => SingleActive
  BY DEF ActivationInv
<1>2. QED
  BY <1>1, ActivationInvariant, PTL

(* mark_indexing_failed (repository_store.py:126-137) restores "ready"     *)
(* only for a repository that has a version, although it decides from a    *)
(* row it read in an earlier step.                                         *)
THEOREM ReadyIsIndexedHolds == Spec => []ReadyIsIndexed
<1>1. ActivationInv => ReadyIsIndexed
  BY DEF ActivationInv, RowsOK, RowOK, ReadyIsIndexed
<1>2. QED
  BY <1>1, ActivationInvariant, PTL

(* No failure or crash leaves a repository active without a version.       *)
THEOREM ActiveIsIndexedHolds == Spec => []ActiveIsIndexed
<1>1. ActivationInv => ActiveIsIndexed
  BY DEF ActivationInv, RowsOK, RowOK, ActiveIsIndexed
<1>2. QED
  BY <1>1, ActivationInvariant, PTL

-----------------------------------------------------------------------------
(* How runs and repositories are settled: a settled run never changes      *)
(* while no commit loses its answer, and nothing stays "running" or        *)
(* "indexing" without a request while the process lives and every          *)
(* transaction of its own (the start, the record of a failure) commits.    *)
(*                                                                         *)
(* Runs: a request's run row is its own, because runs are numbered by the  *)
(* requests; each stage knows the status of its row.                       *)
(* Repositories: a request that finds a status other than "indexing"       *)
(* writes nothing when it fails or commits a status that is already there, *)
(* so it does not suffice that somebody is at work: some request must be   *)
(* about to write.  That request is one that has not read the row yet or   *)
(* has read "indexing".                                                    *)

(* The code between the start's commit and the request's own commit. *)
UnsettledStages ==
    {"crawl", "load", "sync", "flush", "ready", "activate", "commit", "failing", "record"}

RunStage(s, status) ==
    /\ s = "start" => status = "unused"
    /\ s \in UnsettledStages => status = "running"
    /\ s = "switch" => status = "succeeded"

(* Every request in progress has a run row of its own, numbered by it. *)
RunsNumbered ==
    /\ \A w \in Workers : pc[w] # "idle" => job[w].run <= requests
    /\ \A w, o \in Workers :
          w # o /\ pc[w] # "idle" /\ pc[o] # "idle" => job[w].run # job[o].run
    /\ \A r \in RunIds : r > requests => runs[r].status = "unused"

RunsStaged == \A w \in Workers : pc[w] # "idle" => RunStage(pc[w], runs[job[w].run].status)

RunInv == TypeOK /\ RunsNumbered /\ RunsStaged

-----------------------------------------------------------------------------
LEMMA RunInit == Init => RunInv
<1> SUFFICES ASSUME Init PROVE RunInv
  OBVIOUS
<1>1. TypeOK
  BY InitTyped
<1>2. RunsNumbered /\ RunsStaged
  BY DEF Init, RunsNumbered, RunsStaged
<1>3. QED
  BY <1>1, <1>2 DEF RunInv

(* What a request in progress may do to the runs table and to itself. *)
RunStep(w) ==
    /\ \A r \in RunIds : r # job[w].run => runs'[r] = runs[r]
    /\ pc[w] = "switch" => UNCHANGED runs
    /\ pc'[w] # "idle" => /\ job'[w].run = job[w].run
                          /\ RunStage(pc'[w], runs'[job[w].run].status)

(* The request's run is settled, or not started, when the request ends. *)
LeavesSettled(w) == pc'[w] = "idle" => runs'[job[w].run].status # "running"

LEMMA RunStepKeeps ==
    ASSUME RunInv, TypeOK', NEW w \in Workers, pc[w] # "idle", RunStep(w), UNCHANGED requests,
           \A o \in Workers : o # w => pc'[o] = pc[o] /\ job'[o] = job[o]
    PROVE  RunInv'
<1>1. job[w].run \in RunIds /\ job[w].run <= requests /\ job[w].run \in Nat /\ requests \in Nat
  BY BoundsAssumption DEF RunInv, TypeOK, RunsNumbered, RunIds
<1>2. \A r \in RunIds : r > requests => runs'[r].status = "unused"
  <2> SUFFICES ASSUME NEW r \in RunIds, r > requests PROVE r # job[w].run
    BY DEF RunInv, RunsNumbered, RunStep
  <2>1. QED
    BY <1>1 DEF RunIds
<1>3. RunsNumbered'
  <2>1. \A x \in Workers : pc'[x] # "idle" => pc[x] # "idle" /\ job'[x].run = job[x].run
    BY DEF RunStep
  <2>2. QED
    BY <1>2, <2>1 DEF RunInv, RunsNumbered
<1>4. RunsStaged'
  <2> SUFFICES ASSUME NEW o \in Workers, pc'[o] # "idle"
               PROVE  RunStage(pc'[o], runs'[job'[o].run].status)
    BY DEF RunsStaged, RunStage
  <2>1. CASE o = w
    BY <2>1 DEF RunStep
  <2>2. CASE o # w
    <3>1. job[o].run \in RunIds /\ job[o].run # job[w].run
      BY <2>2 DEF RunInv, TypeOK, RunsNumbered
    <3>2. runs'[job[o].run] = runs[job[o].run]
      BY <3>1 DEF RunStep
    <3>3. QED
      BY <2>2, <3>2 DEF RunInv, RunsStaged
  <2>3. QED
    BY <2>1, <2>2
<1>5. QED
  BY <1>3, <1>4 DEF RunInv

-----------------------------------------------------------------------------
(* The steps of a request. *)

LEMMA AbortRuns ==
    ASSUME RunInv, NEW w \in Workers, pc[w] \in UnsettledStages, Abort(w), UNCHANGED runs
    PROVE  RunStep(w) /\ LeavesSettled(w)
<1>1. pc'[w] = "failing" /\ job'[w].run = job[w].run
  BY JobEnds DEF RunInv
<1>2. RunStage(pc[w], runs[job[w].run].status)
  BY DEF RunInv, RunsStaged, UnsettledStages
<1>3. QED
  BY <1>1, <1>2 DEF RunStep, LeavesSettled, RunStage, UnsettledStages

LEMMA FinishRuns ==
    ASSUME RunInv, NEW w \in Workers, Finish(w), UNCHANGED runs, pc[w] # "idle"
    PROVE  /\ RunStep(w)
           /\ pc[w] \in {"start", "switch"} => LeavesSettled(w)
<1>1. pc'[w] = "idle"
  BY JobEnds DEF RunInv
<1>2. RunStage(pc[w], runs[job[w].run].status)
  BY DEF RunInv, RunsStaged
<1>3. QED
  BY <1>1, <1>2 DEF RunStep, LeavesSettled, RunStage

(* A step within the unsettled stages leaves the run running. *)
LEMMA UnsettledRuns ==
    ASSUME RunInv, NEW w \in Workers, UNCHANGED runs, job'[w].run = job[w].run,
           pc[w] \in UnsettledStages, pc'[w] \in UnsettledStages
    PROVE  RunStep(w) /\ LeavesSettled(w)
<1>1. RunStage(pc[w], runs[job[w].run].status)
  BY DEF RunInv, RunsStaged, UnsettledStages
<1>2. QED
  BY <1>1 DEF RunStep, LeavesSettled, RunStage, UnsettledStages

LEMMA StartRuns ==
    ASSUME RunInv, NEW w \in Workers, StartRun(w) \/ StartLost(w)
    PROVE  RunStep(w) /\ (StartRun(w) => LeavesSettled(w))
<1>1. /\ pc[w] = "start" /\ job[w].run \in RunIds /\ runs \in [RunIds -> Run]
      /\ runs' = [runs EXCEPT ![job[w].run] = [path |-> job[w].path, status |-> "running"]]
  BY DEF StartRun, StartLost, StartTables, MayStart, RunInv, TypeOK
<1>2. /\ runs'[job[w].run].status = "running"
      /\ \A r \in RunIds : r # job[w].run => runs'[r] = runs[r]
  BY <1>1
<1>3. CASE StartRun(w)
  BY <1>1, <1>2, <1>3
     DEF StartRun, Advance, RunStep, LeavesSettled, RunStage, UnsettledStages, RunInv, TypeOK
<1>4. CASE StartLost(w)
  <2>1. pc'[w] = "idle"
    BY <1>4, JobEnds DEF StartLost, RunInv
  <2>2. ~StartRun(w)
    BY <2>1 DEF StartRun, Advance, RunInv, TypeOK
  <2>3. QED
    BY <1>1, <1>2, <2>1, <2>2 DEF RunStep
<1>5. QED
  BY <1>3, <1>4

LEMMA CommitRuns ==
    ASSUME RunInv, NEW w \in Workers, Commit(w)
    PROVE  RunStep(w) /\ LeavesSettled(w)
<1>1. /\ pc[w] = "commit" /\ job[w].run \in RunIds /\ runs \in [RunIds -> Run]
      /\ runs' = [runs EXCEPT ![job[w].run].status = "succeeded"]
      /\ pc'[w] = "switch" /\ job \in [Workers -> Job]
      /\ job' = [job EXCEPT ![w].wrote = {}]
  BY DEF Commit, CommitTables, Advance, RunInv, TypeOK
<1>2. /\ runs'[job[w].run].status = "succeeded"
      /\ \A r \in RunIds : r # job[w].run => runs'[r] = runs[r]
  BY <1>1 DEF Run
<1>3. job'[w].run = job[w].run
  BY <1>1 DEF Job
<1>4. QED
  BY <1>1, <1>2, <1>3 DEF RunStep, LeavesSettled, RunStage, UnsettledStages

LEMMA RecordRuns ==
    ASSUME RunInv, NEW w \in Workers, RecordFailure(w)
    PROVE  RunStep(w) /\ LeavesSettled(w)
<1>1. /\ pc[w] = "record" /\ job[w].run \in RunIds /\ runs \in [RunIds -> Run]
      /\ runs' = [runs EXCEPT ![job[w].run].status = "failed"]
      /\ pc'[w] = "idle"
  BY JobEnds DEF RecordFailure, FailedRun, RunInv, TypeOK
<1>2. /\ runs'[job[w].run].status = "failed"
      /\ \A r \in RunIds : r # job[w].run => runs'[r] = runs[r]
  BY <1>1 DEF Run
<1>3. QED
  BY <1>1, <1>2 DEF RunStep, LeavesSettled

LEMMA FlushRuns ==
    ASSUME RunInv, NEW w \in Workers, NEW f \in Files, FlushRow(w, f)
    PROVE  RunStep(w) /\ LeavesSettled(w)
<1>1. /\ pc[w] = "flush" /\ UNCHANGED runs /\ job[w] \in Job /\ job \in [Workers -> Job]
  BY DEF FlushRow, UpdateRow, UpdateStale, InsertRow, InsertDuplicate, DeleteRow, AtRow, tables,
         RunInv, TypeOK
<1>2. CASE Abort(w)
  BY <1>1, <1>2, AbortRuns DEF UnsettledStages
<1>3. CASE ~Abort(w)
  <2>1. /\ UNCHANGED pc
        /\ \/ \E row : Wrote(w, f, row)
           \/ job' = [job EXCEPT ![w].todo = @ \ {f}]
    BY <1>3 DEF FlushRow, UpdateRow, UpdateStale, InsertRow, InsertDuplicate, DeleteRow
  <2>2. job'[w].run = job[w].run
    BY <1>1, <2>1 DEF Wrote, Job
  <2>3. QED
    BY <1>1, <2>1, <2>2, UnsettledRuns DEF UnsettledStages
<1>4. QED
  BY <1>2, <1>3

LEMMA WorkRuns ==
    ASSUME RunInv, NEW w \in Workers, Work(w)
    PROVE  RunStep(w) /\ LeavesSettled(w)
<1>1. job \in [Workers -> Job] /\ job[w] \in Job /\ pc \in [Workers -> Stage]
  BY DEF RunInv, TypeOK
<1>2. CASE StartRun(w)
  BY <1>2, StartRuns
<1>3. CASE StartConflict(w) \/ ActivateRuntime(w)
  BY <1>3, FinishRuns DEF StartConflict, ActivateRuntime, tables
<1>4. CASE Crawl(w) \/ LoadRepository(w) \/ SelectExisting(w) \/ ListDocuments(w)
           \/ MarkReady(w) \/ SetActive(w) \/ LoadFailed(w)
  <2>1. /\ job'[w].run = job[w].run
        /\ pc[w] \in UnsettledStages /\ pc'[w] \in UnsettledStages
    BY <1>1, <1>4 DEF Crawl, LoadRepository, SelectExisting, ListDocuments, MarkReady, SetActive,
                      LoadFailed, Advance, UnsettledStages, Job
  <2>2. UNCHANGED runs
    BY <1>4 DEF Crawl, LoadRepository, SelectExisting, ListDocuments, MarkReady, SetActive,
                LoadFailed, tables
  <2>3. QED
    BY <2>1, <2>2, UnsettledRuns
<1>5. CASE CrawlFails(w)
  BY <1>5, AbortRuns DEF CrawlFails, UnsettledStages, tables
<1>6. CASE DeadlockAbort(w)
  BY <1>6, AbortRuns, WaitersStages DEF DeadlockAbort, UnsettledStages, tables
<1>7. CASE \E f \in Files : FlushRow(w, f)
  BY <1>7, FlushRuns
<1>8. CASE Commit(w)
  BY <1>8, CommitRuns
<1>9. CASE RecordFailure(w)
  BY <1>9, RecordRuns
<1>10. QED
  BY <1>2, <1>3, <1>4, <1>5, <1>6, <1>7, <1>8, <1>9 DEF Work

LEMMA FaultyRuns ==
    ASSUME RunInv, NEW w \in Workers, Faulty(w), "lostAck" \notin FaultKinds
    PROVE  /\ RunStep(w)
           /\ FaultKinds \subseteq {"start", "statement"} => LeavesSettled(w)
<1>1. CASE StartFails(w)
  BY <1>1, FinishRuns DEF StartFails, tables
<1>2. CASE StartLost(w) \/ CommitLost(w)
  BY <1>2 DEF StartLost, CommitLost, Fault
<1>3. CASE StatementFails(w)
  BY <1>3, AbortRuns DEF StatementFails, InTransaction, UnsettledStages, tables
<1>4. CASE RecordFails(w)
  <2>1. "record" \in FaultKinds
    BY <1>4 DEF RecordFails, Fault
  <2>2. QED
    BY <1>4, <2>1, FinishRuns DEF RecordFails, tables
<1>5. QED
  BY <1>1, <1>2, <1>3, <1>4 DEF Faulty

(* A request takes the next number, whose row nobody has written.          *)
LEMMA BeginRuns ==
    ASSUME RunInv, TypeOK', NEW w \in Workers, NEW p \in Paths, Begin(w, p)
    PROVE  RunInv'
<1>1. /\ requests \in Nat /\ requests' = requests + 1 /\ requests < MaxRequests
      /\ UNCHANGED runs /\ pc'[w] = "start" /\ job'[w].run = requests + 1
      /\ \A o \in Workers : o # w => pc'[o] = pc[o] /\ job'[o] = job[o]
  BY BoundsAssumption DEF Begin, Advance, NoJob, tables, RunInv, TypeOK
<1>2. \A o \in Workers : pc[o] # "idle" => job[o].run \in Nat /\ job[o].run <= requests
  BY DEF RunInv, TypeOK, RunsNumbered, RunIds
<1>3. RunsNumbered'
  <2>1. \A x \in Workers : pc'[x] # "idle" => job'[x].run <= requests'
    BY <1>1, <1>2
  <2>2. \A x, o \in Workers :
          x # o /\ pc'[x] # "idle" /\ pc'[o] # "idle" => job'[x].run # job'[o].run
    <3>1. \A o \in Workers : o # w /\ pc'[o] # "idle" => job'[o].run # job'[w].run
      BY <1>1, <1>2
    <3>2. QED
      BY <1>1, <3>1 DEF RunInv, RunsNumbered
  <2>3. \A r \in RunIds : r > requests' => runs'[r].status = "unused"
    BY <1>1 DEF RunInv, RunsNumbered, RunIds
  <2>4. QED
    BY <2>1, <2>2, <2>3 DEF RunsNumbered
<1>4. RunsStaged'
  <2>1. requests + 1 \in RunIds /\ requests + 1 > requests
    BY <1>1, BoundsAssumption DEF RunIds
  <2>2. runs'[job'[w].run].status = "unused"
    BY <1>1, <2>1 DEF RunInv, RunsNumbered
  <2>3. QED
    BY <1>1, <2>2 DEF RunInv, RunsStaged, RunStage, UnsettledStages
<1>5. QED
  BY <1>3, <1>4 DEF RunInv

LEMMA RunNext == RunInv /\ [Next]_vars /\ "lostAck" \notin FaultKinds => RunInv'
<1> SUFFICES ASSUME RunInv, [Next]_vars, "lostAck" \notin FaultKinds PROVE RunInv'
  OBVIOUS
<1>1. TypeOK'
  BY NextTyped DEF RunInv
<1>2. CASE UNCHANGED vars
  BY <1>1, <1>2 DEF vars, RunInv, RunsNumbered, RunsStaged, RunStage
<1>3. ASSUME NEW w \in Workers, Work(w) \/ Faulty(w) PROVE RunInv'
  BY <1>1, <1>3, WorkRuns, FaultyRuns, StepFrame, RunStepKeeps DEF RunInv
<1>4. CASE Crash
  BY <1>1, <1>4 DEF Crash, tables, RunInv, RunsNumbered, RunsStaged
<1>5. CASE Restart
  BY <1>1, <1>5 DEF Restart, tables, RunInv, RunsNumbered, RunsStaged, RunStage
<1>6. QED
  BY <1>1, <1>2, <1>3, <1>4, <1>5, BeginRuns DEF Next, Finished

LEMMA RunInvariant ==
    ASSUME "lostAck" \notin FaultKinds
    PROVE  Spec => []RunInv
BY RunInit, RunNext, PTL DEF Spec

(* Only a request in progress touches its run, before it settles it.       *)
LEMMA SettledStep ==
    ASSUME RunInv, [Next]_vars, "lostAck" \notin FaultKinds,
           NEW r \in RunIds, runs[r].status \in {"succeeded", "failed"}
    PROVE  runs'[r] = runs[r]
<1>1. ASSUME NEW w \in Workers, Work(w) \/ Faulty(w) PROVE runs'[r] = runs[r]
  <2>1. RunStep(w) /\ pc[w] # "idle" /\ pc[w] \in Stage
    BY <1>1, WorkRuns, FaultyRuns, StepFrame DEF RunInv, TypeOK
  <2>2. CASE r = job[w].run
    <3>1. pc[w] = "switch"
      BY <2>1, <2>2 DEF RunInv, RunsStaged, RunStage, UnsettledStages, Stage
    <3>2. QED
      BY <2>1, <3>1 DEF RunStep
  <2>3. CASE r # job[w].run
    BY <2>1, <2>3 DEF RunStep
  <2>4. QED
    BY <2>2, <2>3
<1>2. QED
  BY <1>1 DEF Next, Begin, Crash, Restart, Finished, tables, vars

(* index_repository marks a run succeeded or failed once                   *)
(* (indexing_service.py:162-171, 216-241), provided that a commit whose    *)
(* answer arrives as an error was not applied: otherwise the failure is    *)
(* recorded over the success.                                              *)
THEOREM SettledStaysFinal ==
    ASSUME "lostAck" \notin FaultKinds
    PROVE  Spec => SettledIsFinal
<1>1. RunInv /\ [Next]_vars =>
        [\A r \in RunIds :
            runs[r].status \in {"succeeded", "failed"} => runs'[r] = runs[r]]_runs
  BY SettledStep
<1>2. QED
  BY <1>1, RunInvariant, PTL DEF Spec, SettledIsFinal

-----------------------------------------------------------------------------
(* Nothing runs or indexes unattended.                                     *)

Lives == MaxCrashes = 0 /\ FaultKinds \subseteq {"start", "statement"}

RunningInv == RunInv /\ RunningIsUnderWay

LEMMA NoCrash == ASSUME RunInv, Lives PROVE ~Crash
BY DEF RunInv, TypeOK, Lives, Crash

LEMMA RunningNext == Lives /\ RunningInv /\ [Next]_vars => RunningInv'
<1> SUFFICES ASSUME Lives, RunningInv, [Next]_vars PROVE RunningInv'
  OBVIOUS
<1>1. RunInv' /\ "lostAck" \notin FaultKinds
  BY RunNext DEF RunningInv, Lives
<1>2. CASE UNCHANGED vars
  BY <1>1, <1>2 DEF vars, RunningInv, RunningIsUnderWay
<1>3. ASSUME NEW w \in Workers, Work(w) \/ Faulty(w) PROVE RunningInv'
  <2>1. /\ RunStep(w) /\ LeavesSettled(w) /\ pc[w] # "idle"
        /\ \A o \in Workers : o # w => pc'[o] = pc[o] /\ job'[o] = job[o]
    BY <1>1, <1>3, WorkRuns, FaultyRuns, StepFrame DEF RunningInv, RunInv, Lives
  <2> SUFFICES ASSUME NEW r \in RunIds, runs'[r].status = "running"
               PROVE  \E o \in Workers : pc'[o] # "idle" /\ job'[o].run = r
    BY <1>1 DEF RunningInv, RunningIsUnderWay
  <2>2. CASE r = job[w].run
    BY <2>1, <2>2 DEF RunStep, LeavesSettled
  <2>3. CASE r # job[w].run
    <3>1. PICK o \in Workers : pc[o] # "idle" /\ job[o].run = r
      BY <2>1, <2>3 DEF RunStep, RunningInv, RunningIsUnderWay
    <3>2. QED
      BY <2>1, <2>3, <3>1
  <2>4. QED
    BY <2>2, <2>3
<1>4. ASSUME NEW w \in Workers, NEW p \in Paths, Begin(w, p) PROVE RunningInv'
  <2>1. /\ UNCHANGED runs /\ pc[w] = "idle"
        /\ \A o \in Workers : o # w => pc'[o] = pc[o] /\ job'[o] = job[o]
    BY <1>4 DEF Begin, Advance, tables, RunningInv, RunInv, TypeOK
  <2>2. RunningIsUnderWay'
    BY <2>1 DEF RunningInv, RunningIsUnderWay
  <2>3. QED
    BY <1>1, <2>2 DEF RunningInv
<1>5. CASE Restart
  BY <1>1, <1>5 DEF Restart, tables, RunningInv, RunningIsUnderWay
<1>6. QED
  BY <1>2, <1>3, <1>4, <1>5, NoCrash DEF Next, Finished, RunningInv

(* Every way out of index_repository settles the run it started, unless    *)
(* the process dies or the transaction that records the failure fails: a   *)
(* run recorded as running belongs to a request in progress.               *)
THEOREM RunningStaysUnderWay ==
    ASSUME MaxCrashes = 0, FaultKinds \subseteq {"start", "statement"}
    PROVE  Spec => []RunningIsUnderWay
<1>1. Lives
  BY DEF Lives
<1>2. Init => RunningInv
  BY RunInit DEF Init, RunningInv, RunningIsUnderWay
<1>3. RunningInv /\ [Next]_vars => RunningInv'
  BY <1>1, RunningNext
<1>4. RunningInv => RunningIsUnderWay
  BY DEF RunningInv
<1>5. QED
  BY <1>2, <1>3, <1>4, PTL DEF Spec

-----------------------------------------------------------------------------
(* Some request will write another status over "indexing": it has yet to   *)
(* read the row, or it has read "indexing".                                *)
WillRead == {"crawl", "load", "failing"}
HasRead == {"sync", "flush", "ready", "activate", "commit", "record"}

Settles(s, status) == s \in WillRead \/ (s \in HasRead /\ status = "indexing")

IndexingIsSettled ==
    \A p \in Paths : repos[p].status = "indexing" =>
        \E w \in Workers : job[w].path = p /\ Settles(pc[w], job[w].seen.status)

IndexingInv == TypeOK /\ IndexingIsSettled

(* What a request in progress may do to the status of repositories: leave  *)
(* its own "indexing" only while it or another request settles it.         *)
IndexingStep(w) ==
    /\ \A p \in Paths : p # job[w].path => repos'[p].status = repos[p].status
    /\ repos'[job[w].path].status = "indexing" =>
          \/ job'[w].path = job[w].path /\ Settles(pc'[w], job'[w].seen.status)
          \/ /\ repos[job[w].path].status = "indexing"
             /\ ~Settles(pc[w], job[w].seen.status)

LEMMA IndexingStepKeeps ==
    ASSUME IndexingInv, TypeOK', NEW w \in Workers, pc[w] # "idle", IndexingStep(w),
           \A o \in Workers : o # w => pc'[o] = pc[o] /\ job'[o] = job[o]
    PROVE  IndexingInv'
<1> SUFFICES ASSUME NEW p \in Paths, repos'[p].status = "indexing"
             PROVE  \E o \in Workers : job'[o].path = p /\ Settles(pc'[o], job'[o].seen.status)
  BY DEF IndexingInv, IndexingIsSettled, Settles
<1>1. CASE job'[w].path = p /\ Settles(pc'[w], job'[w].seen.status)
  BY <1>1
<1>2. CASE repos[p].status = "indexing" /\ (p = job[w].path => ~Settles(pc[w], job[w].seen.status))
  <2>1. PICK o \in Workers : job[o].path = p /\ Settles(pc[o], job[o].seen.status)
    BY <1>2 DEF IndexingInv, IndexingIsSettled
  <2>2. o # w
    BY <1>2, <2>1
  <2>3. QED
    BY <2>1, <2>2
<1>3. QED
  BY <1>1, <1>2 DEF IndexingStep

(* Rolling back leads to the record of the failure, which reads the row.   *)
LEMMA AbortIndexing ==
    ASSUME IndexingInv, NEW w \in Workers, UNCHANGED repos, Abort(w)
    PROVE  IndexingStep(w)
BY JobEnds DEF IndexingInv, IndexingStep, Settles, WillRead

(* A request that has not read the row, or has settled it, ends.           *)
LEMMA FinishIndexing ==
    ASSUME NEW w \in Workers, UNCHANGED repos, pc[w] \in {"start", "switch"}
    PROVE  IndexingStep(w)
BY DEF IndexingStep, Settles, WillRead, HasRead

(* Reading the row, and working on with what was read. *)
LEMMA ReadIndexing ==
    ASSUME NEW w \in Workers, UNCHANGED repos, job'[w].path = job[w].path,
           \/ pc'[w] \in WillRead
           \/ pc'[w] \in HasRead /\ job'[w].seen = repos[job[w].path]
           \/ pc[w] \in HasRead /\ pc'[w] \in HasRead /\ job'[w].seen = job[w].seen
    PROVE  IndexingStep(w)
BY DEF IndexingStep, Settles, WillRead, HasRead

LEMMA WriteIndexing ==
    ASSUME IndexingInv, NEW w \in Workers, StartRun(w) \/ Commit(w) \/ RecordFailure(w)
    PROVE  IndexingStep(w)
<1>1. repos \in [Paths -> Repo] /\ pc \in [Workers -> Stage] /\ job \in [Workers -> Job]
  BY DEF IndexingInv, TypeOK
<1>2. CASE StartRun(w)
  <2>1. pc'[w] = "crawl" /\ job' = job
    BY <1>1, <1>2 DEF StartRun, Advance
  <2>2. \A p \in Paths : p # job[w].path => repos'[p] = repos[p]
    BY <1>1, <1>2 DEF StartRun, StartTables
  <2>3. QED
    BY <2>1, <2>2 DEF IndexingStep, Settles, WillRead
<1>3. CASE Commit(w)
  <2>1. /\ pc[w] = "commit" /\ job[w].path \in Paths /\ repos' = CommittedRepos(w)
    BY <1>3 DEF Commit, CommitTables, IndexingInv, TypeOK
  <2>2. \A p \in Paths : p # job[w].path => repos'[p].status = repos[p].status
    BY <1>1, <2>1 DEF CommittedRepos, Repo
  <2>3. repos'[job[w].path].status = ReadyStatus(job[w].seen, repos[job[w].path])
    BY <2>1 DEF CommittedRepos
  <2>4. QED
    BY <2>1, <2>2, <2>3 DEF IndexingStep, ReadyStatus, Settles, WillRead, HasRead
<1>4. CASE RecordFailure(w)
  <2> DEFINE p == job[w].path
             status == FallbackStatus(job[w].seen)
  <2>1. /\ pc[w] = "record" /\ p \in Paths
        /\ repos' = IF status # job[w].seen.status
                    THEN [repos EXCEPT ![p].status = status] ELSE repos
    BY <1>4 DEF RecordFailure, IndexingInv, TypeOK
  <2>2. status # "indexing"
    BY DEF FallbackStatus
  <2>3. CASE status # job[w].seen.status
    <3>1. repos'[p].status = status /\ \A q \in Paths : q # p => repos'[q] = repos[q]
      BY <1>1, <2>1, <2>3 DEF Repo
    <3>2. QED
      BY <2>2, <3>1 DEF IndexingStep
  <2>4. CASE status = job[w].seen.status
    <3>1. UNCHANGED repos /\ ~Settles(pc[w], job[w].seen.status)
      BY <2>1, <2>2, <2>4 DEF Settles, WillRead
    <3>2. QED
      BY <3>1 DEF IndexingStep
  <2>5. QED
    BY <2>3, <2>4
<1>5. QED
  BY <1>2, <1>3, <1>4

LEMMA WorkIndexing ==
    ASSUME IndexingInv, NEW w \in Workers, Work(w)
    PROVE  IndexingStep(w)
<1>1. job \in [Workers -> Job] /\ job[w] \in Job /\ pc \in [Workers -> Stage]
  BY DEF IndexingInv, TypeOK
<1>2. CASE StartRun(w) \/ Commit(w) \/ RecordFailure(w)
  BY <1>2, WriteIndexing
<1>3. CASE StartConflict(w) \/ ActivateRuntime(w)
  BY <1>3, FinishIndexing DEF StartConflict, ActivateRuntime, tables
<1>4. CASE Crawl(w) \/ LoadRepository(w) \/ LoadFailed(w)
  <2>1. /\ job'[w].path = job[w].path /\ UNCHANGED repos
        /\ \/ pc'[w] \in WillRead
           \/ pc'[w] \in HasRead /\ job'[w].seen = repos[job[w].path]
    BY <1>1, <1>4
       DEF Crawl, LoadRepository, LoadFailed, Advance, WillRead, HasRead, Job, tables
  <2>2. QED
    BY <2>1, ReadIndexing
<1>5. CASE SelectExisting(w) \/ ListDocuments(w) \/ MarkReady(w) \/ SetActive(w)
  <2>1. /\ job'[w].path = job[w].path /\ job'[w].seen = job[w].seen /\ UNCHANGED repos
        /\ pc[w] \in HasRead /\ pc'[w] \in HasRead
    BY <1>1, <1>5
       DEF SelectExisting, ListDocuments, MarkReady, SetActive, Advance, HasRead, Job, tables
  <2>2. QED
    BY <2>1, ReadIndexing
<1>6. CASE CrawlFails(w) \/ DeadlockAbort(w)
  BY <1>6, AbortIndexing DEF CrawlFails, DeadlockAbort, tables
<1>7. ASSUME NEW f \in Files, FlushRow(w, f) PROVE IndexingStep(w)
  <2>1. pc[w] = "flush" /\ UNCHANGED repos
    BY <1>7 DEF FlushRow, UpdateRow, UpdateStale, InsertRow, InsertDuplicate, DeleteRow, AtRow,
                tables
  <2>2. CASE Abort(w)
    BY <2>1, <2>2, AbortIndexing
  <2>3. CASE ~Abort(w)
    <3>1. /\ UNCHANGED pc
          /\ \/ \E row : Wrote(w, f, row)
             \/ job' = [job EXCEPT ![w].todo = @ \ {f}]
      BY <1>7, <2>3
         DEF FlushRow, UpdateRow, UpdateStale, InsertRow, InsertDuplicate, DeleteRow
    <3>2. job'[w].path = job[w].path /\ job'[w].seen = job[w].seen
      BY <1>1, <3>1 DEF Wrote, Job
    <3>3. QED
      BY <2>1, <3>1, <3>2, ReadIndexing DEF HasRead
  <2>4. QED
    BY <2>2, <2>3
<1>8. QED
  BY <1>2, <1>3, <1>4, <1>5, <1>6, <1>7 DEF Work

LEMMA FaultyIndexing ==
    ASSUME IndexingInv, Lives, NEW w \in Workers, Faulty(w)
    PROVE  IndexingStep(w)
<1>1. CASE StartFails(w)
  BY <1>1, FinishIndexing DEF StartFails, tables
<1>2. CASE StatementFails(w)
  BY <1>2, AbortIndexing DEF StatementFails, tables
<1>3. CASE StartLost(w) \/ CommitLost(w) \/ RecordFails(w)
  BY <1>3 DEF StartLost, CommitLost, RecordFails, Fault, Lives
<1>4. QED
  BY <1>1, <1>2, <1>3 DEF Faulty

LEMMA IndexingNext == Lives /\ IndexingInv /\ [Next]_vars => IndexingInv'
<1> SUFFICES ASSUME Lives, IndexingInv, [Next]_vars PROVE IndexingInv'
  OBVIOUS
<1>1. TypeOK'
  BY NextTyped DEF IndexingInv
<1>2. CASE UNCHANGED vars
  BY <1>1, <1>2 DEF vars, IndexingInv, IndexingIsSettled, Settles
<1>3. ASSUME NEW w \in Workers, Work(w) \/ Faulty(w) PROVE IndexingInv'
  BY <1>1, <1>3, WorkIndexing, FaultyIndexing, StepFrame, IndexingStepKeeps DEF IndexingInv
<1>4. ASSUME NEW w \in Workers, NEW p \in Paths, Begin(w, p) PROVE IndexingInv'
  <2>1. /\ UNCHANGED repos /\ pc[w] = "idle"
        /\ \A o \in Workers : o # w => pc'[o] = pc[o] /\ job'[o] = job[o]
    BY <1>4 DEF Begin, Advance, tables, IndexingInv, TypeOK
  <2>2. IndexingIsSettled'
    BY <2>1 DEF IndexingInv, IndexingIsSettled, Settles, WillRead, HasRead
  <2>3. QED
    BY <1>1, <2>2 DEF IndexingInv
<1>5. CASE Restart
  BY <1>1, <1>5 DEF Restart, tables, IndexingInv, IndexingIsSettled, Settles
<1>6. ~Crash
  BY DEF IndexingInv, TypeOK, Lives, Crash
<1>7. QED
  BY <1>2, <1>3, <1>4, <1>5, <1>6 DEF Next, Finished

LEMMA IndexingInit == Init => IndexingInv
BY InitTyped DEF Init, IndexingInv, IndexingIsSettled, NoRepo

LEMMA IndexingInvariant ==
    ASSUME Lives
    PROVE  Spec => []IndexingInv
BY IndexingInit, IndexingNext, PTL DEF Spec

(* No repository is left "indexing" by requests that overlap: among those  *)
(* that mark_ready and mark_indexing_failed (repository_store.py:96-106,   *)
(* 126-137) leave without writing the status, one that writes it remains.  *)
THEOREM IndexingStaysUnderWay ==
    ASSUME MaxCrashes = 0, FaultKinds \subseteq {"start", "statement"}
    PROVE  Spec => []IndexingIsUnderWay
<1>1. Lives
  BY DEF Lives
<1>2. IndexingInv => IndexingIsUnderWay
  BY DEF IndexingInv, IndexingIsSettled, IndexingIsUnderWay, Settles, WillRead, HasRead
<1>3. QED
  BY <1>1, <1>2, IndexingInvariant, PTL
=============================================================================
