-------------------------- MODULE PublicationProofs --------------------------
(***************************************************************************)
(* Requests that do not index one repository concurrently publish what     *)
(* they crawled: IndexingService implements Generations, whatever fails,   *)
(* for any number of workers, repositories, files, faults and crashes.     *)
(*                                                                         *)
(* Where no two workers are asked for the same repository, only the        *)
(* request at work changes its repository's status, version and documents. *)
(* What it read of them is therefore what they still are: its flush finds  *)
(* every row it was computed for and leaves the documents it crawled, and  *)
(* the version it computes is the next one.                                *)
(*                                                                         *)
(* The last two theorems are about what is served between requests: that a *)
(* restart would serve the same, with one request at a time, and that      *)
(* documents are served at all, with any number of them.                   *)
(***************************************************************************)
EXTENDS IndexingServiceProofs

DisjointTargets == \A w, o \in Workers : w # o => Targets[w] \cap Targets[o] = {}

-----------------------------------------------------------------------------
(* The rows of a table under what a request has written. *)
Overlay(j, table) == [f \in Files |-> IF f \in j.wrote THEN j.view[f] ELSE table[f]]

BeforeFlush == {"start", "crawl", "load", "sync"}
AfterFlush == {"ready", "activate", "commit"}
BeforeCommit == BeforeFlush \cup {"flush"} \cup AfterFlush
HasCrawled == {"load", "sync", "flush"} \cup AfterFlush
HasLoaded == {"start", "sync", "flush", "record"} \cup AfterFlush

(* A request and the committed rows of its repository, at each stage. *)
Attends(s, j, row, table) ==
    /\ s \in HasLoaded => j.seen.status = row.status /\ j.seen.version = row.version
    /\ s \in HasCrawled => Present(j.files) # {}
    /\ s \in BeforeFlush => j.wrote = {}
    /\ s = "flush" =>
          /\ j.existing = table
          /\ \A f \in Files \ j.todo : ContentOf(Overlay(j, table))[f] = j.files[f]
    /\ s \in AfterFlush => j.view = Overlay(j, table) /\ ContentOf(j.view) = j.files
    /\ s = "switch" => /\ j.view = table /\ ContentOf(j.view) = j.files
                       /\ row.version = j.seen.version + 1

(* Versions are counted by the requests: whoever has not committed yet was *)
(* counted and has not raised the version.                                 *)
WorkersAttend ==
    \A w \in Workers : pc[w] # "idle" =>
        /\ job[w].path \in Targets[w]
        /\ Attends(pc[w], job[w], repos[job[w].path], docs[job[w].path])
        /\ pc[w] \in BeforeCommit => repos[job[w].path].version < requests

RowPublished(row, table) ==
    /\ row.version <= requests
    /\ row.status = "failed" => row.version = 0
    /\ row.version > 0 => Present(table) # {}

RowsPublished == \A p \in Paths : RowPublished(repos[p], docs[p])

PublicationInv == ActivationInv /\ WorkersAttend /\ RowsPublished

(* With one worker, what is served is the active repository's last         *)
(* publication, but between a commit and the switch that follows it.       *)
ServesActive ==
    /\ \A p \in Paths : repos[p].active => runtime = Stored(p)
    /\ (\A p \in Paths : ~repos[p].active) => runtime = Null

SwitchesToActive ==
    /\ \A w \in Workers : pc[w] = "switch" => repos[job[w].path].active
    /\ (\A w \in Workers : pc[w] # "switch") => ServesActive

-----------------------------------------------------------------------------
(* synchronize() makes the rows agree with the files it was given.         *)

(* Where it finds no difference, the row has the file's content.           *)
LEMMA NoDifference ==
    ASSUME NEW table \in Table, NEW files \in Snapshot, NEW f \in Files \ Differences(table, files)
    PROVE  ContentOf(table)[f] = files[f]
<1>1. table[f] \in Row \cup {Null} /\ files[f] \in Contents \cup {Null}
  BY DEF Table, Snapshot
<1>2. table[f] # Null <=> files[f] # Null
  BY <1>1 DEF Differences, Inserts, Deletes, Present
<1>3. CASE table[f] # Null
  <2>1. table[f].content = files[f]
    BY <1>2, <1>3 DEF Differences, Updates, Present
  <2>2. QED
    BY <1>3, <2>1 DEF ContentOf
<1>4. CASE table[f] = Null
  BY <1>2, <1>4 DEF ContentOf
<1>5. QED
  BY <1>3, <1>4

(* The row a statement leaves for a file has the file's content. *)
LEMMA RowsFollowFiles ==
    ASSUME NEW table \in Table, NEW files \in Snapshot, NEW f \in Files, NEW id \in Nat
    PROVE  /\ f \in Updates(table, files) => /\ Updated(table, files, f) # Null
                                            /\ Updated(table, files, f).content = files[f]
           /\ f \in Inserts(table, files) => /\ Inserted(id, files, f) # Null
                                            /\ Inserted(id, files, f).content = files[f]
           /\ f \in Deletes(table, files) => files[f] = Null
<1>1. \A row \in Row : row # Null
  BY NullAssumption DEF Row
<1>2. QED
  BY <1>1, RowsTyped DEF Updated, Inserted, Deletes, Present

(* What a session sees has the type of a table. *)
LEMMA OverlayTyped ==
    ASSUME NEW j \in Job, NEW table \in Table
    PROVE  Overlay(j, table) \in Table
BY DEF Overlay, Table, Job

-----------------------------------------------------------------------------
LEMMA PublicationInit == Init => PublicationInv
<1> SUFFICES ASSUME Init PROVE PublicationInv
  OBVIOUS
<1>1. ActivationInv
  BY ActivationInit
<1>2. WorkersAttend
  BY DEF Init, WorkersAttend
<1>3. RowsPublished
  BY DEF Init, RowsPublished, RowPublished, NoRepo
<1>4. QED
  BY <1>1, <1>2, <1>3 DEF PublicationInv

(* A step of w on its repository p: the rows of p are in order afterwards, *)
(* and w attends to them; no other worker looks at p.                      *)
LEMMA PublicationStep ==
    ASSUME DisjointTargets, PublicationInv, ActivationInv', NEW w \in Workers,
           NEW p \in Targets[w], requests' \in Nat, requests <= requests',
           \A o \in Workers : o # w => pc'[o] = pc[o] /\ job'[o] = job[o],
           \A q \in Paths : q # p => /\ repos'[q].status = repos[q].status
                                    /\ repos'[q].version = repos[q].version
                                    /\ docs'[q] = docs[q],
           RowPublished(repos[p], docs[p])',
           pc'[w] # "idle" => /\ job'[w].path = p
                              /\ Attends(pc'[w], job'[w], repos'[p], docs'[p])
                              /\ pc'[w] \in BeforeCommit => repos'[p].version < requests'
    PROVE  PublicationInv'
<1>1. p \in Paths /\ requests \in Nat /\ \A q \in Paths : repos[q].version \in Nat
  BY TargetsAssumption, BoundsAssumption DEF PublicationInv, ActivationInv, TypeOK, Repo
<1>2. WorkersAttend'
  <2> SUFFICES ASSUME NEW o \in Workers, o # w, pc[o] # "idle"
               PROVE  /\ job[o].path \in Targets[o]
                      /\ Attends(pc[o], job[o], repos'[job[o].path], docs'[job[o].path])
                      /\ pc[o] \in BeforeCommit => repos'[job[o].path].version < requests'
    BY DEF WorkersAttend
  <2> DEFINE q == job[o].path
  <2>1. /\ q \in Targets[o] /\ Attends(pc[o], job[o], repos[q], docs[q])
        /\ pc[o] \in BeforeCommit => repos[q].version < requests
    BY DEF PublicationInv, WorkersAttend
  <2>2. q # p /\ q \in Paths
    BY <2>1, TargetsAssumption DEF DisjointTargets
  <2>3. /\ repos'[q].status = repos[q].status /\ repos'[q].version = repos[q].version
        /\ docs'[q] = docs[q]
    BY <2>2
  <2>4. Attends(pc[o], job[o], repos'[q], docs'[q])
    BY <2>1, <2>3 DEF Attends
  <2>5. pc[o] \in BeforeCommit => repos'[q].version < requests'
    BY <1>1, <2>1, <2>2, <2>3
  <2>6. QED
    BY <2>1, <2>4, <2>5
<1>3. RowsPublished'
  <2> SUFFICES ASSUME NEW q \in Paths, q # p PROVE RowPublished(repos[q], docs[q])'
    BY DEF RowsPublished
  <2>1. RowPublished(repos[q], docs[q])
    BY DEF PublicationInv, RowsPublished
  <2>2. QED
    BY <1>1, <2>1 DEF RowPublished
<1>4. QED
  BY <1>2, <1>3 DEF PublicationInv

(* A step of a request that changes no row. *)
LEMMA LocalPublication ==
    ASSUME DisjointTargets, PublicationInv, ActivationInv', NEW w \in Workers, pc[w] # "idle",
           UNCHANGED <<repos, docs, requests>>,
           \A o \in Workers : o # w => pc'[o] = pc[o] /\ job'[o] = job[o],
           pc'[w] # "idle" =>
               /\ job'[w].path = job[w].path
               /\ Attends(pc'[w], job'[w], repos[job[w].path], docs[job[w].path])
               /\ pc'[w] \in BeforeCommit => pc[w] \in BeforeCommit
    PROVE  PublicationInv'
<1> SUFFICES ASSUME NEW p, p = job[w].path PROVE PublicationInv'
  OBVIOUS
<1>1. /\ p \in Targets[w] /\ p \in Paths
      /\ pc[w] \in BeforeCommit => repos[p].version < requests
  BY TargetsAssumption DEF PublicationInv, WorkersAttend
<1>2. requests' \in Nat /\ requests <= requests'
  BY BoundsAssumption DEF PublicationInv, ActivationInv, TypeOK
<1>3. RowPublished(repos[p], docs[p])'
  BY <1>1 DEF PublicationInv, RowsPublished, RowPublished
<1>4. QED
  BY <1>1, <1>2, <1>3, PublicationStep

(* After a rollback, or its end, a request has no expectation of its rows. *)
LEMMA EndPublication ==
    ASSUME DisjointTargets, PublicationInv, ActivationInv', NEW w \in Workers, pc[w] # "idle",
           UNCHANGED <<repos, docs, requests>>, Abort(w) \/ Finish(w),
           \A o \in Workers : o # w => pc'[o] = pc[o] /\ job'[o] = job[o]
    PROVE  PublicationInv'
<1>1. pc'[w] # "idle" => pc'[w] = "failing" /\ job'[w].path = job[w].path
  BY JobEnds DEF PublicationInv, ActivationInv
<1>2. Attends("failing", job'[w], repos[job[w].path], docs[job[w].path])
  BY DEF Attends, HasLoaded, HasCrawled, BeforeFlush, AfterFlush
<1>3. QED
  BY <1>1, <1>2, LocalPublication DEF BeforeCommit, BeforeFlush, AfterFlush

-----------------------------------------------------------------------------
(* The stages of a request. *)

LEMMA LoadPublication ==
    ASSUME DisjointTargets, PublicationInv, ActivationInv', NEW w \in Workers,
           Crawl(w) \/ LoadRepository(w) \/ LoadFailed(w) \/ MarkReady(w) \/ SetActive(w),
           \A o \in Workers : o # w => pc'[o] = pc[o] /\ job'[o] = job[o]
    PROVE  PublicationInv'
<1> DEFINE p == job[w].path
<1>1. /\ job \in [Workers -> Job] /\ job[w] \in Job /\ pc \in [Workers -> Stage]
      /\ UNCHANGED <<repos, docs, requests>>
  BY DEF PublicationInv, ActivationInv, TypeOK, Crawl, LoadRepository, LoadFailed, MarkReady,
         SetActive, tables, environment
<1>2. pc[w] # "idle" => Attends(pc[w], job[w], repos[p], docs[p])
  BY DEF PublicationInv, WorkersAttend
<1>3. CASE Crawl(w)
  <2>1. PICK files \in Snapshot : Present(files) # {} /\ job' = [job EXCEPT ![w].files = files]
    BY <1>3 DEF Crawl
  <2>2. /\ job'[w].path = p /\ job'[w].files = files /\ job'[w].wrote = job[w].wrote
        /\ pc[w] = "crawl" /\ pc'[w] = "load"
    BY <1>1, <1>3, <2>1 DEF Crawl, Advance, Job
  <2>3. Attends("load", job'[w], repos[p], docs[p])
    BY <1>2, <2>1, <2>2 DEF Attends, HasLoaded, HasCrawled, BeforeFlush, AfterFlush
  <2>4. QED
    BY <1>1, <2>2, <2>3, LocalPublication DEF BeforeCommit, BeforeFlush
<1>4. CASE LoadRepository(w) \/ LoadFailed(w)
  <2>1. /\ job'[w].path = p /\ job'[w].seen = repos[p] /\ job'[w].files = job[w].files
        /\ job'[w].wrote = job[w].wrote
        /\ \/ pc[w] = "load" /\ pc'[w] = "sync"
           \/ pc[w] = "failing" /\ pc'[w] = "record"
    BY <1>1, <1>4 DEF LoadRepository, LoadFailed, Advance, Job
  <2>2. Attends(pc'[w], job'[w], repos[p], docs[p])
    BY <1>2, <2>1 DEF Attends, HasLoaded, HasCrawled, BeforeFlush, AfterFlush
  <2>3. QED
    BY <1>1, <2>1, <2>2, LocalPublication DEF BeforeCommit, BeforeFlush, AfterFlush
<1>5. CASE MarkReady(w) \/ SetActive(w)
  <2>1. /\ job'[w] = job[w]
        /\ \/ pc[w] = "ready" /\ pc'[w] = "activate"
           \/ pc[w] = "activate" /\ pc'[w] = "commit"
    BY <1>1, <1>5 DEF MarkReady, SetActive, Advance
  <2>2. Attends(pc'[w], job'[w], repos[p], docs[p])
    BY <1>2, <2>1 DEF Attends, HasLoaded, HasCrawled, BeforeFlush, AfterFlush
  <2>3. QED
    BY <1>1, <2>1, <2>2, LocalPublication DEF BeforeCommit, AfterFlush
<1>6. QED
  BY <1>3, <1>4, <1>5

LEMMA SelectPublication ==
    ASSUME DisjointTargets, PublicationInv, ActivationInv', NEW w \in Workers, SelectExisting(w),
           \A o \in Workers : o # w => pc'[o] = pc[o] /\ job'[o] = job[o]
    PROVE  PublicationInv'
<1> DEFINE p == job[w].path
           table == docs[p]
<1>1. /\ job \in [Workers -> Job] /\ job[w] \in Job /\ pc \in [Workers -> Stage]
      /\ pc[w] = "sync" /\ p \in Paths /\ table \in Table /\ job[w].files \in Snapshot
      /\ UNCHANGED <<repos, docs, requests>>
  BY DEF PublicationInv, ActivationInv, TypeOK, Job, SelectExisting, tables, environment
<1>2. Attends("sync", job[w], repos[p], table)
  BY <1>1 DEF PublicationInv, WorkersAttend
<1>3. /\ pc'[w] = "flush" /\ job'[w].path = p /\ job'[w].seen = job[w].seen
      /\ job'[w].files = job[w].files /\ job'[w].wrote = job[w].wrote
      /\ job'[w].existing = table /\ job'[w].todo = Differences(table, job[w].files)
  BY <1>1 DEF SelectExisting, Advance, Job
<1>4. job'[w].wrote = {}
  BY <1>2, <1>3 DEF Attends, BeforeFlush
<1>5. Overlay(job'[w], table) = table
  BY <1>1, <1>4 DEF Overlay, Table
<1>6. Attends("flush", job'[w], repos[p], table)
  BY <1>1, <1>2, <1>3, <1>5, NoDifference
     DEF Attends, HasLoaded, HasCrawled, BeforeFlush, AfterFlush
<1>7. QED
  BY <1>1, <1>3, <1>6, LocalPublication DEF BeforeCommit, BeforeFlush, AfterFlush

(* One row of the flush: nobody else commits this repository, so the row   *)
(* is as it was selected, and the statement leaves the file's content.     *)
LEMMA WrotePublication ==
    ASSUME DisjointTargets, PublicationInv, ActivationInv', NEW w \in Workers, pc[w] = "flush",
           NEW f \in Files, NEW row, Wrote(w, f, row),
           (IF row = Null THEN Null ELSE row.content) = job[w].files[f],
           UNCHANGED <<repos, docs, requests, pc>>,
           \A o \in Workers : o # w => pc'[o] = pc[o] /\ job'[o] = job[o]
    PROVE  PublicationInv'
<1> DEFINE p == job[w].path
           table == docs[p]
<1>1. job \in [Workers -> Job] /\ job[w] \in Job /\ job[w].view \in Table
  BY DEF PublicationInv, ActivationInv, TypeOK, Job
<1>2. Attends("flush", job[w], repos[p], table)
  BY DEF PublicationInv, WorkersAttend
<1>3. /\ job'[w].path = p /\ job'[w].seen = job[w].seen /\ job'[w].files = job[w].files
      /\ job'[w].existing = job[w].existing
      /\ job'[w].todo = job[w].todo \ {f} /\ job'[w].wrote = job[w].wrote \cup {f}
      /\ job'[w].view = [job[w].view EXCEPT ![f] = row]
  BY <1>1 DEF Wrote, Job
<1>4. ASSUME NEW g \in Files \ job'[w].todo
      PROVE  ContentOf(Overlay(job'[w], table))[g] = job'[w].files[g]
  <2>1. CASE g = f
    BY <1>1, <1>3, <2>1 DEF ContentOf, Overlay, Table
  <2>2. CASE g # f
    <3>1. g \in Files \ job[w].todo
      BY <1>3, <1>4, <2>2
    <3>2. ContentOf(Overlay(job[w], table))[g] = job[w].files[g]
      BY <1>2, <3>1 DEF Attends
    <3>3. Overlay(job'[w], table)[g] = Overlay(job[w], table)[g]
      BY <1>1, <1>3, <2>2, <3>1 DEF Overlay, Table
    <3>4. QED
      BY <1>3, <3>1, <3>2, <3>3 DEF ContentOf
  <2>3. QED
    BY <2>1, <2>2
<1>5. Attends("flush", job'[w], repos[p], table)
  BY <1>2, <1>3, <1>4 DEF Attends, HasLoaded, HasCrawled, BeforeFlush, AfterFlush
<1>6. QED
  BY <1>3, <1>5, LocalPublication

LEMMA FlushPublication ==
    ASSUME DisjointTargets, PublicationInv, ActivationInv', NEW w \in Workers,
           NEW f \in Files, FlushRow(w, f),
           \A o \in Workers : o # w => pc'[o] = pc[o] /\ job'[o] = job[o]
    PROVE  PublicationInv'
<1> DEFINE p == job[w].path
           table == docs[p]
           files == job[w].files
<1>1. /\ job[w] \in Job /\ pc[w] = "flush" /\ UNCHANGED <<repos, docs, requests>>
      /\ p \in Paths /\ table \in Table /\ files \in Snapshot
  BY DEF FlushRow, UpdateRow, UpdateStale, InsertRow, InsertDuplicate, DeleteRow, AtRow, tables,
         environment, PublicationInv, ActivationInv, TypeOK, Job
<1>2. job[w].existing = table
  BY <1>1 DEF PublicationInv, WorkersAttend, Attends
<1>3. CASE UpdateStale(w, f) \/ InsertDuplicate(w, f)
  BY <1>1, <1>3, EndPublication DEF UpdateStale, InsertDuplicate
<1>4. CASE UpdateRow(w, f)
  <2>1. /\ Wrote(w, f, Updated(table, files, f)) /\ f \in Updates(table, files)
        /\ UNCHANGED pc
    BY <1>2, <1>4 DEF UpdateRow
  <2>2. Updated(table, files, f) # Null /\ Updated(table, files, f).content = files[f]
    BY <1>1, <2>1, RowsFollowFiles
  <2>3. QED
    BY <1>1, <2>1, <2>2, WrotePublication
<1>5. CASE InsertRow(w, f)
  <2> DEFINE id == nextDoc[p] + 1
  <2>1. /\ Wrote(w, f, Inserted(id, files, f)) /\ f \in Inserts(table, files)
        /\ UNCHANGED pc /\ id \in Nat
    BY <1>1, <1>2, <1>5 DEF InsertRow, PublicationInv, ActivationInv, TypeOK
  <2>2. Inserted(id, files, f) # Null /\ Inserted(id, files, f).content = files[f]
    BY <1>1, <2>1, RowsFollowFiles
  <2>3. QED
    BY <1>1, <2>1, <2>2, WrotePublication
<1>6. CASE DeleteRow(w, f)
  <2>1. f \in Deletes(table, files) /\ UNCHANGED pc
    BY <1>2, <1>6 DEF DeleteRow
  <2>2. StillThere(table, job[w].existing, f)
    BY <1>2, <2>1 DEF StillThere, Deletes, Present
  <2>3. Wrote(w, f, Null)
    BY <1>6, <2>2 DEF DeleteRow
  <2>4. files[f] = Null
    BY <2>1 DEF Deletes, Present
  <2>5. QED
    BY <1>1, <2>1, <2>3, <2>4, WrotePublication
<1>7. QED
  BY <1>3, <1>4, <1>5, <1>6 DEF FlushRow

LEMMA ListPublication ==
    ASSUME DisjointTargets, PublicationInv, ActivationInv', NEW w \in Workers, ListDocuments(w),
           \A o \in Workers : o # w => pc'[o] = pc[o] /\ job'[o] = job[o]
    PROVE  PublicationInv'
<1> DEFINE p == job[w].path
           table == docs[p]
<1>1. /\ job \in [Workers -> Job] /\ job[w] \in Job /\ pc \in [Workers -> Stage]
      /\ pc[w] = "flush" /\ job[w].todo = {} /\ p \in Paths /\ table \in Table
      /\ job[w].files \in Snapshot /\ UNCHANGED <<repos, docs, requests>>
  BY DEF PublicationInv, ActivationInv, TypeOK, Job, ListDocuments, tables, environment
<1>2. Attends("flush", job[w], repos[p], table)
  BY <1>1 DEF PublicationInv, WorkersAttend
<1>3. /\ pc'[w] = "ready" /\ job'[w].path = p /\ job'[w].seen = job[w].seen
      /\ job'[w].files = job[w].files /\ job'[w].wrote = job[w].wrote
      /\ job'[w].view = Overlay(job[w], table)
  BY <1>1 DEF ListDocuments, Visible, Overlay, Advance, Job
<1>4. ContentOf(Overlay(job[w], table)) = job[w].files
  BY <1>1, <1>2 DEF Attends, ContentOf, Snapshot
<1>5. Overlay(job'[w], table) = Overlay(job[w], table)
  BY <1>3 DEF Overlay
<1>6. Attends("ready", job'[w], repos[p], table)
  BY <1>2, <1>3, <1>4, <1>5 DEF Attends, HasLoaded, HasCrawled, BeforeFlush, AfterFlush
<1>7. QED
  BY <1>1, <1>3, <1>6, LocalPublication DEF BeforeCommit

-----------------------------------------------------------------------------
(* The steps that write rows. *)

LEMMA BeginPublication ==
    ASSUME DisjointTargets, PublicationInv, ActivationInv', NEW w \in Workers, NEW p \in Paths,
           Begin(w, p)
    PROVE  PublicationInv'
<1>1. /\ p \in Targets[w] /\ UNCHANGED <<repos, docs>> /\ requests' = requests + 1
      /\ requests \in Nat /\ repos[p].version \in Nat
      /\ pc'[w] = "start" /\ job'[w].path = p /\ job'[w].seen = repos[p] /\ job'[w].wrote = {}
      /\ \A o \in Workers : o # w => pc'[o] = pc[o] /\ job'[o] = job[o]
  BY BoundsAssumption
     DEF Begin, Advance, NoJob, tables, PublicationInv, ActivationInv, TypeOK, Repo
<1>2. Attends("start", job'[w], repos[p], docs[p])
  BY <1>1 DEF Attends, HasLoaded, HasCrawled, BeforeFlush, AfterFlush
<1>3. RowPublished(repos[p], docs[p])
  BY DEF PublicationInv, RowsPublished
<1>4. RowPublished(repos[p], docs[p])' /\ repos[p].version < requests'
  BY <1>1, <1>3 DEF RowPublished
<1>5. requests' \in Nat /\ requests <= requests'
  BY <1>1
<1>6. QED
  BY <1>1, <1>2, <1>4, <1>5, PublicationStep

(* The start keeps the version; only "indexing" is left or written. *)
LEMMA StartKeeps ==
    ASSUME PublicationInv, NEW w \in Workers, StartTables(w), NEW p, p = job[w].path
    PROVE  /\ p \in Targets[w] /\ p \in Paths /\ pc[w] = "start"
           /\ repos[p].version < requests
           /\ repos'[p].version = repos[p].version /\ repos'[p].active = repos[p].active
           /\ repos'[p].status = "indexing"
           /\ \A q \in Paths : q # p => repos'[q] = repos[q]
           /\ UNCHANGED <<docs, runtime>>
<1> DEFINE row == Started(job[w].seen, repos[p])
<1>1. /\ pc[w] = "start" /\ p \in Paths /\ repos' = [repos EXCEPT ![p] = row]
      /\ repos \in [Paths -> Repo] /\ UNCHANGED <<docs, runtime>>
  BY DEF StartTables, MayStart, PublicationInv, ActivationInv, TypeOK
<1>2. /\ p \in Targets[w] /\ Attends("start", job[w], repos[p], docs[p])
      /\ repos[p].version < requests
  BY <1>1 DEF PublicationInv, WorkersAttend, BeforeCommit, BeforeFlush
<1>3. RowOK(repos[p]) /\ repos[p] \in Repo
  BY <1>1 DEF PublicationInv, ActivationInv, RowsOK
<1>4. /\ row.version = repos[p].version /\ row.status = "indexing"
      /\ row.active = repos[p].active
  <2>1. job[w].seen.status = repos[p].status
    BY <1>2 DEF Attends, HasLoaded
  <2>2. CASE repos[p].status = "absent"
    BY <1>3, <2>1, <2>2 DEF Started, NoRepo, RowOK, Repo
  <2>3. CASE repos[p].status = "indexing"
    BY <2>1, <2>3 DEF Started
  <2>4. CASE repos[p].status \notin {"absent", "indexing"}
    BY <1>3, <2>1, <2>4 DEF Started, Repo
  <2>5. QED
    BY <2>2, <2>3, <2>4
<1>5. repos'[p] = row /\ \A q \in Paths : q # p => repos'[q] = repos[q]
  BY <1>1
<1>6. QED
  BY <1>1, <1>2, <1>4, <1>5

LEMMA StartPublication ==
    ASSUME DisjointTargets, PublicationInv, ActivationInv', NEW w \in Workers,
           StartRun(w) \/ StartLost(w), UNCHANGED requests,
           \A o \in Workers : o # w => pc'[o] = pc[o] /\ job'[o] = job[o]
    PROVE  PublicationInv'
<1> SUFFICES ASSUME NEW p, p = job[w].path PROVE PublicationInv'
  OBVIOUS
<1>1. StartTables(w)
  BY DEF StartRun, StartLost
<1>2. pc[w] = "start" /\ p \in Paths /\ requests \in Nat
  BY <1>1, StartKeeps, BoundsAssumption DEF PublicationInv, ActivationInv, TypeOK
<1>3. Attends("start", job[w], repos[p], docs[p]) /\ RowPublished(repos[p], docs[p])
  BY <1>2 DEF PublicationInv, WorkersAttend, RowsPublished
<1>4. RowPublished(repos[p], docs[p])'
  BY <1>1, <1>3, StartKeeps DEF RowPublished
<1>5. pc'[w] # "idle" => pc'[w] = "crawl" /\ job' = job
  <2>1. CASE StartRun(w)
    BY <2>1 DEF StartRun, Advance, PublicationInv, ActivationInv, TypeOK
  <2>2. CASE StartLost(w)
    BY <2>2, JobEnds DEF StartLost, PublicationInv, ActivationInv
  <2>3. QED
    BY <2>1, <2>2
<1>6. Attends("crawl", job[w], repos'[p], docs'[p])
  BY <1>1, <1>3, StartKeeps DEF Attends, HasLoaded, HasCrawled, BeforeFlush, AfterFlush
<1>7. requests' \in Nat /\ requests <= requests'
  BY <1>2
<1>8. QED
  BY <1>1, <1>2, <1>4, <1>5, <1>6, <1>7, StartKeeps, PublicationStep

(* What a commit publishes. *)
LEMMA CommitPublishes ==
    ASSUME PublicationInv, NEW w \in Workers, CommitTables(w), NEW p, p = job[w].path
    PROVE  /\ p \in Targets[w] /\ p \in Paths /\ pc[w] = "commit"
           /\ repos[p].version < requests
           /\ repos'[p].version = repos[p].version + 1
           /\ repos'[p].version = job[w].seen.version + 1
           /\ repos'[p].status = "ready" /\ repos'[p].active
           /\ docs'[p] = job[w].view
           /\ ContentOf(job[w].view) = job[w].files /\ Present(job[w].files) # {}
           /\ \A q \in Paths : q # p => /\ repos'[q].status = repos[q].status
                                       /\ repos'[q].version = repos[q].version
                                       /\ docs'[q] = docs[q]
<1>1. /\ pc[w] = "commit" /\ p \in Paths /\ repos \in [Paths -> Repo] /\ docs \in [Paths -> Table]
      /\ repos' = CommittedRepos(w) /\ docs' = [docs EXCEPT ![p] = Visible(w)]
      /\ job[w] \in Job
  BY DEF CommitTables, PublicationInv, ActivationInv, TypeOK
<1>2. /\ p \in Targets[w] /\ Attends("commit", job[w], repos[p], docs[p])
      /\ repos[p].version < requests
  BY <1>1 DEF PublicationInv, WorkersAttend, BeforeCommit, AfterFlush
<1>3. /\ job[w].seen.status = repos[p].status /\ job[w].seen.version = repos[p].version
      /\ job[w].view = Overlay(job[w], docs[p]) /\ ContentOf(job[w].view) = job[w].files
      /\ Present(job[w].files) # {}
  BY <1>2 DEF Attends, HasLoaded, HasCrawled, AfterFlush
<1>4. Visible(w) = Overlay(job[w], docs[p])
  BY DEF Visible, Overlay
<1>5. repos'[p] = [status |-> ReadyStatus(job[w].seen, repos[p]), active |-> TRUE,
                   version |-> NewVersion(w)]
  BY <1>1 DEF CommittedRepos
<1>6. \A q \in Paths : q # p => /\ repos'[q].status = repos[q].status
                              /\ repos'[q].version = repos[q].version
                              /\ docs'[q] = docs[q]
  BY <1>1 DEF CommittedRepos, Repo
<1>7. ReadyStatus(job[w].seen, repos[p]) = "ready"
  BY <1>3 DEF ReadyStatus
<1>8. QED
  BY <1>1, <1>2, <1>3, <1>4, <1>5, <1>6, <1>7 DEF NewVersion

LEMMA CommitPublication ==
    ASSUME DisjointTargets, PublicationInv, ActivationInv', NEW w \in Workers,
           Commit(w) \/ CommitLost(w), UNCHANGED requests,
           \A o \in Workers : o # w => pc'[o] = pc[o] /\ job'[o] = job[o]
    PROVE  PublicationInv'
<1> SUFFICES ASSUME NEW p, p = job[w].path PROVE PublicationInv'
  OBVIOUS
<1>1. CommitTables(w)
  BY DEF Commit, CommitLost
<1>2. /\ requests \in Nat /\ job \in [Workers -> Job] /\ job[w] \in Job /\ repos[p].version \in Nat
      /\ p \in Paths
  BY <1>1, CommitPublishes, BoundsAssumption DEF PublicationInv, ActivationInv, TypeOK, Repo
<1>3. Present(job[w].view) # {}
  <2>1. ContentOf(job[w].view) = job[w].files /\ Present(job[w].files) # {}
    BY <1>1, CommitPublishes
  <2>2. QED
    BY <2>1 DEF Present, ContentOf
<1>4. RowPublished(repos[p], docs[p])'
  <2>1. /\ repos[p].version < requests /\ repos'[p].version = repos[p].version + 1
        /\ repos'[p].status = "ready" /\ docs'[p] = job[w].view
    BY <1>1, CommitPublishes
  <2>2. requests \in Nat /\ requests' = requests /\ repos[p].version \in Nat
    BY <1>2
  <2>3. repos'[p].version <= requests'
    BY <2>1, <2>2
  <2>4. Present(docs'[p]) # {}
    BY <1>3, <2>1
  <2>5. QED
    BY <2>1, <2>3, <2>4 DEF RowPublished
<1>5. pc'[w] # "idle" => /\ job'[w].path = p /\ pc'[w] \notin BeforeCommit
                         /\ Attends(pc'[w], job'[w], repos'[p], docs'[p])
  <2>1. CASE Commit(w)
    <3>1. /\ pc'[w] = "switch" /\ job'[w].path = p /\ job'[w].seen = job[w].seen
          /\ job'[w].files = job[w].files /\ job'[w].view = job[w].view
      BY <1>2, <2>1 DEF Commit, Advance, Job, PublicationInv, ActivationInv, TypeOK
    <3>2. QED
      BY <1>1, <3>1, CommitPublishes
         DEF Attends, HasLoaded, HasCrawled, BeforeFlush, AfterFlush, BeforeCommit
  <2>2. CASE CommitLost(w)
    <3>1. pc'[w] = "failing" /\ job'[w].path = p
      BY <2>2, JobEnds DEF CommitLost, PublicationInv, ActivationInv
    <3>2. QED
      BY <3>1 DEF Attends, HasLoaded, HasCrawled, BeforeFlush, AfterFlush, BeforeCommit
  <2>3. QED
    BY <2>1, <2>2
<1>6. requests' \in Nat /\ requests <= requests' /\ p \in Targets[w]
  BY <1>1, <1>2, CommitPublishes
<1>7. QED
  BY <1>1, <1>4, <1>5, <1>6, CommitPublishes, PublicationStep

(* The record of a failure restores the status the version calls for.      *)
LEMMA RecordPublication ==
    ASSUME DisjointTargets, PublicationInv, ActivationInv', NEW w \in Workers, RecordFailure(w),
           UNCHANGED requests,
           \A o \in Workers : o # w => pc'[o] = pc[o] /\ job'[o] = job[o]
    PROVE  PublicationInv'
<1> SUFFICES ASSUME NEW p, p = job[w].path PROVE PublicationInv'
  OBVIOUS
<1> DEFINE status == FallbackStatus(job[w].seen)
<1>1. /\ pc[w] = "record" /\ p \in Paths /\ UNCHANGED docs /\ pc'[w] = "idle"
      /\ repos \in [Paths -> Repo] /\ requests \in Nat /\ job[w].seen \in Repo
      /\ repos' = repos \/ repos' = [repos EXCEPT ![p].status = status]
  BY JobEnds, BoundsAssumption DEF RecordFailure, PublicationInv, ActivationInv, TypeOK, Job
<1>2. p \in Targets[w] /\ job[w].seen.version = repos[p].version
  BY <1>1 DEF PublicationInv, WorkersAttend, Attends, HasLoaded
<1>3. RowPublished(repos[p], docs[p])
  BY <1>1 DEF PublicationInv, RowsPublished
<1>4. /\ repos'[p].version = repos[p].version
      /\ repos'[p].status = repos[p].status \/ repos'[p].status = status
      /\ \A q \in Paths : q # p => repos'[q] = repos[q]
  BY <1>1 DEF Repo
<1>5. status = "failed" => repos[p].version = 0
  BY <1>1, <1>2 DEF FallbackStatus, Repo
<1>6. RowPublished(repos[p], docs[p])'
  BY <1>1, <1>3, <1>4, <1>5 DEF RowPublished
<1>7. requests' \in Nat /\ requests <= requests'
  BY <1>1
<1>8. QED
  BY <1>1, <1>2, <1>4, <1>6, <1>7, PublicationStep

-----------------------------------------------------------------------------
LEMMA WorkPublication ==
    ASSUME DisjointTargets, PublicationInv, ActivationInv', NEW w \in Workers,
           Work(w) \/ Faulty(w)
    PROVE  PublicationInv'
<1>1. /\ pc[w] # "idle" /\ UNCHANGED requests
      /\ \A o \in Workers : o # w => pc'[o] = pc[o] /\ job'[o] = job[o]
  BY StepFrame DEF PublicationInv, ActivationInv
<1>2. CASE StartRun(w) \/ StartLost(w)
  BY <1>1, <1>2, StartPublication
<1>3. CASE StartConflict(w) \/ CrawlFails(w) \/ ActivateRuntime(w) \/ DeadlockAbort(w)
           \/ StartFails(w) \/ StatementFails(w) \/ RecordFails(w)
  BY <1>1, <1>3, EndPublication
     DEF StartConflict, CrawlFails, ActivateRuntime, DeadlockAbort, StartFails, StatementFails,
         RecordFails, tables
<1>4. CASE Crawl(w) \/ LoadRepository(w) \/ LoadFailed(w) \/ MarkReady(w) \/ SetActive(w)
  BY <1>1, <1>4, LoadPublication
<1>5. CASE SelectExisting(w)
  BY <1>1, <1>5, SelectPublication
<1>6. CASE \E f \in Files : FlushRow(w, f)
  BY <1>1, <1>6, FlushPublication
<1>7. CASE ListDocuments(w)
  BY <1>1, <1>7, ListPublication
<1>8. CASE Commit(w) \/ CommitLost(w)
  BY <1>1, <1>8, CommitPublication
<1>9. CASE RecordFailure(w)
  BY <1>1, <1>9, RecordPublication
<1>10. QED
  BY <1>2, <1>3, <1>4, <1>5, <1>6, <1>7, <1>8, <1>9 DEF Work, Faulty

LEMMA PublicationNext == DisjointTargets /\ PublicationInv /\ [Next]_vars => PublicationInv'
<1> SUFFICES ASSUME DisjointTargets, PublicationInv, [Next]_vars PROVE PublicationInv'
  OBVIOUS
<1>1. ActivationInv'
  BY ActivationNext DEF PublicationInv
<1>2. CASE UNCHANGED vars
  BY <1>1, <1>2 DEF vars, PublicationInv, WorkersAttend, RowsPublished, RowPublished
<1>3. CASE Crash
  BY <1>1, <1>3 DEF Crash, tables, PublicationInv, WorkersAttend, RowsPublished, RowPublished
<1>4. CASE Restart
  BY <1>1, <1>4 DEF Restart, tables, PublicationInv, WorkersAttend, RowsPublished, RowPublished
<1>5. QED
  BY <1>1, <1>2, <1>3, <1>4, BeginPublication, WorkPublication DEF Next, Finished

LEMMA PublicationInvariant ==
    ASSUME DisjointTargets
    PROVE  Spec => []PublicationInv
BY PublicationInit, PublicationNext, PTL DEF Spec

-----------------------------------------------------------------------------
(* The candidate state holds the documents of the crawl: synchronize and   *)
(* list_by_repository (indexing_service.py:108-125) work on rows that no   *)
(* other request changes.                                                  *)
THEOREM ListsTheCrawlHolds ==
    ASSUME DisjointTargets
    PROVE  Spec => []ListsTheCrawl
<1>1. PublicationInv => ListsTheCrawl
  BY DEF PublicationInv, WorkersAttend, Attends, AfterFlush, ListsTheCrawl
<1>2. QED
  BY <1>1, PublicationInvariant, PTL

(* mark_indexing_failed (repository_store.py:126-137) writes "failed" only *)
(* where no version exists, although it decides on a row read earlier.     *)
THEOREM FailedHasNoVersionHolds ==
    ASSUME DisjointTargets
    PROVE  Spec => []FailedHasNoVersion
<1>1. PublicationInv => FailedHasNoVersion
  BY DEF PublicationInv, RowsPublished, RowPublished, FailedHasNoVersion
<1>2. QED
  BY <1>1, PublicationInvariant, PTL

(* A crawl without files is refused (indexing_service.py:83-86), so that   *)
(* what has a version has documents.                                       *)
THEOREM IndexedHasDocumentsHolds ==
    ASSUME DisjointTargets
    PROVE  Spec => []IndexedHasDocuments
<1>1. PublicationInv => IndexedHasDocuments
  BY DEF PublicationInv, RowsPublished, RowPublished, IndexedHasDocuments
<1>2. QED
  BY <1>1, PublicationInvariant, PTL

-----------------------------------------------------------------------------
(* The refinement: what Generations sees of a state. *)

Latest == [p \in Paths |-> [version |-> repos[p].version, docs |-> ContentOf(docs[p])]]
Served == IF runtime = Null THEN Null ELSE [runtime EXCEPT !.docs = ContentOf(runtime.docs)]

(* The active repository is unique, so it is the chosen one. *)
LEMMA ActiveIsChosen ==
    ASSUME SingleActive
    PROVE  /\ \A p \in Paths : repos[p].active => ActivePath = p
           /\ (\A p \in Paths : ~repos[p].active) => ActivePath = Null
BY DEF SingleActive, ActivePath

(* A step that keeps versions, active flags and documents publishes        *)
(* nothing.                                                                *)
LEMMA KeepsPublished ==
    ASSUME PublicationInv, PublicationInv', UNCHANGED docs,
           \A p \in Paths : /\ repos'[p].version = repos[p].version
                           /\ repos'[p].active = repos[p].active
    PROVE  Latest' = Latest /\ ActivePath' = ActivePath
<1>1. Latest' = Latest
  BY DEF Latest, ContentOf
<1>2. SingleActive /\ SingleActive'
  BY DEF PublicationInv, ActivationInv
<1>3. CASE \E p \in Paths : repos[p].active
  <2>1. PICK p \in Paths : repos[p].active /\ repos'[p].active
    BY <1>3
  <2>2. ActivePath = p
    BY <1>2, <2>1, ActiveIsChosen
  <2>3. ActivePath' = p
    BY <1>2, <2>1 DEF SingleActive, ActivePath
  <2>4. QED
    BY <1>1, <2>2, <2>3
<1>4. CASE \A p \in Paths : ~repos[p].active
  BY <1>1, <1>4 DEF ActivePath
<1>5. QED
  BY <1>1, <1>3, <1>4

LEMMA PromiseInit == Init => Promise!Init
<1> SUFFICES ASSUME Init PROVE Promise!Init
  OBVIOUS
<1>1. \A p \in Paths : repos[p] = NoRepo /\ docs[p] = NoRows
  BY DEF Init
<1>2. ContentOf(NoRows) = NoRows
  BY DEF ContentOf, NoRows
<1>3. Latest = [p \in Paths |-> [version |-> 0, docs |-> NoRows]]
  BY <1>1, <1>2 DEF Latest, NoRepo
<1>4. ActivePath = Null
  BY <1>1 DEF ActivePath, NoRepo
<1>5. Served = Null
  BY DEF Init, Served
<1>6. QED
  BY <1>3, <1>4, <1>5 DEF Promise!Init, Latest, Served

(* The commit publishes the documents of the crawl under the next number,  *)
(* whether or not its answer arrives.                                      *)
LEMMA CommitIsPublish ==
    ASSUME PublicationInv, PublicationInv', NEW w \in Workers, CommitTables(w),
           NEW p, p = job[w].path, NEW files, files = job[w].files
    PROVE  Promise!Publish(p, files) /\ p \in Paths /\ files \in Snapshot \ {NoRows}
<1>1. /\ p \in Paths /\ repos[p].version < requests
      /\ repos'[p].version = repos[p].version + 1 /\ repos'[p].active
      /\ ContentOf(docs'[p]) = files /\ Present(files) # {}
      /\ \A q \in Paths : q # p => /\ repos'[q].version = repos[q].version
                                  /\ docs'[q] = docs[q]
  BY CommitPublishes
<1>2. /\ files \in Snapshot /\ files # NoRows /\ UNCHANGED runtime
      /\ requests <= MaxRequests /\ requests \in Nat /\ repos[p].version \in Nat
  BY <1>1, BoundsAssumption
     DEF CommitTables, PublicationInv, ActivationInv, TypeOK, Job, Repo, NoRows, Present
<1>3. Latest[p].version < MaxRequests
  BY <1>1, <1>2, BoundsAssumption DEF Latest
<1>4. Latest' = [Latest EXCEPT ![p] = [version |-> @.version + 1, docs |-> files]]
  <2>1. Latest' = [q \in Paths |-> [version |-> repos'[q].version, docs |-> ContentOf(docs'[q])]]
    BY DEF Latest, ContentOf
  <2>2. \A q \in Paths : q # p => ContentOf(docs'[q]) = ContentOf(docs[q])
    BY <1>1
  <2>3. QED
    BY <1>1, <2>1, <2>2 DEF Latest
<1>5. ActivePath' = p
  <2>1. \A q \in Paths : repos'[q].active => q = p
    BY <1>1 DEF PublicationInv, ActivationInv, SingleActive
  <2>2. QED
    BY <1>1, <2>1 DEF ActivePath
<1>6. Served' = Served
  BY <1>2 DEF Served
<1>7. QED
  BY <1>1, <1>2, <1>3, <1>4, <1>5, <1>6 DEF Promise!Publish, Latest, Served

(* The switch that follows a commit serves what it published.              *)
LEMMA ActivateIsServe ==
    ASSUME PublicationInv, PublicationInv', NEW w \in Workers, ActivateRuntime(w)
    PROVE  job[w].path \in Paths /\ Promise!Serve(job[w].path)
<1> SUFFICES ASSUME NEW p, p = job[w].path PROVE p \in Paths /\ Promise!Serve(p)
  OBVIOUS
<1>1. /\ pc[w] = "switch" /\ p \in Paths /\ UNCHANGED <<repos, docs>>
      /\ runtime' = [path |-> p, version |-> job[w].seen.version + 1, docs |-> job[w].view]
      /\ job[w].seen.version \in Nat /\ job[w].view \in Table
  BY DEF ActivateRuntime, Candidate, NewVersion, tables, PublicationInv, ActivationInv, TypeOK,
         Job, Repo
<1>2. repos[p].version = job[w].seen.version + 1 /\ job[w].view = docs[p]
  BY <1>1 DEF PublicationInv, WorkersAttend, Attends
<1>3. Latest[p].version > 0
  BY <1>1, <1>2 DEF Latest
<1>4. Served' = [path |-> p, version |-> Latest[p].version, docs |-> Latest[p].docs]
  <2>1. runtime' # Null
    BY <1>1, NullGenerationAssumption DEF Generation
  <2>2. Served' = [path |-> p, version |-> repos[p].version, docs |-> ContentOf(docs[p])]
    BY <1>1, <1>2, <2>1 DEF Served
  <2>3. QED
    BY <1>1, <2>2 DEF Latest
<1>5. Latest' = Latest /\ ActivePath' = ActivePath
  BY <1>1, KeepsPublished
<1>6. QED
  BY <1>1, <1>3, <1>4, <1>5 DEF Promise!Serve, Promise!Generation, Latest, Served

(* A restart serves the active repository's last publication, or nothing.  *)
LEMMA RestartIsServe ==
    ASSUME PublicationInv, PublicationInv', Restart
    PROVE  Promise!Lose \/ \E p \in Paths : Promise!Serve(p)
<1>1. UNCHANGED <<repos, docs>> /\ runtime' = Hydrated
  BY DEF Restart, tables
<1>2. Latest' = Latest /\ ActivePath' = ActivePath
  BY <1>1, KeepsPublished
<1>3. CASE \E p \in Paths : Hydratable(p)
  <2>1. PICK p \in Paths : Hydratable(p) /\ Hydrated = Stored(p)
    BY <1>3 DEF Hydrated
  <2>2. /\ runtime' = [path |-> p, version |-> repos[p].version, docs |-> docs[p]]
        /\ repos[p].version \in Nat /\ docs[p] \in Table
    BY <1>1, <2>1 DEF Stored, PublicationInv, ActivationInv, TypeOK, Repo
  <2>3. runtime' # Null
    BY <2>2, NullGenerationAssumption DEF Generation
  <2>4. Served' = [path |-> p, version |-> Latest[p].version, docs |-> Latest[p].docs]
    BY <2>2, <2>3 DEF Served, Latest
  <2>5. Latest[p].version > 0
    BY <2>1 DEF Hydratable, Latest, PublicationInv, ActivationInv, RowsOK, RowOK
  <2>6. Promise!Serve(p)
    BY <1>2, <2>4, <2>5 DEF Promise!Serve, Promise!Generation, Latest, Served
  <2>7. QED
    BY <2>6
<1>4. CASE ~\E p \in Paths : Hydratable(p)
  <2>1. Served' = Null
    BY <1>1, <1>4 DEF Hydrated, Served
  <2>2. QED
    BY <1>2, <2>1 DEF Promise!Lose, Latest, Served
<1>5. QED
  BY <1>3, <1>4

LEMMA CrashIsLose ==
    ASSUME PublicationInv, PublicationInv', Crash
    PROVE  Promise!Lose
<1>1. UNCHANGED <<repos, docs>> /\ runtime' = Null
  BY DEF Crash, tables
<1>2. Latest' = Latest /\ ActivePath' = ActivePath
  BY <1>1, KeepsPublished
<1>3. Served' = Null
  BY <1>1 DEF Served
<1>4. QED
  BY <1>2, <1>3 DEF Promise!Lose, Latest, Served

(* Every other step is one Generations does not see.                       *)
LEMMA OthersStutter ==
    ASSUME PublicationInv, PublicationInv', UNCHANGED <<docs, runtime>>,
           \A p \in Paths : /\ repos'[p].version = repos[p].version
                           /\ repos'[p].active = repos[p].active
    PROVE  UNCHANGED Promise!genVars
<1>1. Latest' = Latest /\ ActivePath' = ActivePath
  BY KeepsPublished
<1>2. Served' = Served
  BY DEF Served
<1>3. QED
  BY <1>1, <1>2 DEF Promise!genVars, Latest, Served

(* What is published changes by commits, what is served by switches.       *)
LEMMA OthersKeep ==
    ASSUME PublicationInv, NEW w \in Workers, Work(w) \/ Faulty(w),
           ~Commit(w), ~CommitLost(w), ~ActivateRuntime(w)
    PROVE  /\ UNCHANGED <<docs, runtime>>
           /\ \A p \in Paths : /\ repos'[p].version = repos[p].version
                               /\ repos'[p].active = repos[p].active
<1>1. CASE StartRun(w) \/ StartLost(w)
  <2>1. StartTables(w)
    BY <1>1 DEF StartRun, StartLost
  <2>2. QED
    BY <2>1, StartKeeps
<1>2. CASE RecordFailure(w)
  <2>1. /\ repos \in [Paths -> Repo]
        /\ \/ repos' = repos
           \/ repos' = [repos EXCEPT ![job[w].path].status = FallbackStatus(job[w].seen)]
    BY <1>2 DEF RecordFailure, PublicationInv, ActivationInv, TypeOK
  <2>2. QED
    BY <1>2, <2>1 DEF RecordFailure, Repo
<1>3. CASE \/ StartConflict(w) \/ Crawl(w) \/ CrawlFails(w) \/ LoadRepository(w)
           \/ SelectExisting(w) \/ ListDocuments(w) \/ MarkReady(w) \/ SetActive(w)
           \/ DeadlockAbort(w) \/ LoadFailed(w)
           \/ StartFails(w) \/ StatementFails(w) \/ RecordFails(w)
           \/ \E f \in Files : FlushRow(w, f)
  BY <1>3 DEF StartConflict, Crawl, CrawlFails, LoadRepository, SelectExisting, ListDocuments,
              MarkReady, SetActive, DeadlockAbort, LoadFailed, StartFails, StatementFails,
              RecordFails, FlushRow, UpdateRow, UpdateStale, InsertRow, InsertDuplicate,
              DeleteRow, tables
<1>4. QED
  BY <1>1, <1>2, <1>3 DEF Work, Faulty

(* What a step of a request is to Generations: a commit publishes, the     *)
(* switch that follows it serves, and nothing else shows.                  *)
LEMMA WorkRefines ==
    ASSUME PublicationInv, PublicationInv', NEW w \in Workers, Work(w) \/ Faulty(w)
    PROVE  [Promise!Next]_(Promise!genVars)
<1>1. CASE Commit(w) \/ CommitLost(w)
  <2>1. PICK p \in Paths, files \in Snapshot \ {NoRows} : Promise!Publish(p, files)
    BY <1>1, CommitIsPublish DEF Commit, CommitLost
  <2>2. QED
    BY <2>1 DEF Promise!Next
<1>2. CASE ActivateRuntime(w)
  <2>1. PICK p \in Paths : Promise!Serve(p)
    BY <1>2, ActivateIsServe
  <2>2. QED
    BY <2>1 DEF Promise!Next
<1>3. CASE ~Commit(w) /\ ~CommitLost(w) /\ ~ActivateRuntime(w)
  BY <1>3, OthersKeep, OthersStutter
<1>4. QED
  BY <1>1, <1>2, <1>3

LEMMA NextRefines ==
    PublicationInv /\ PublicationInv' /\ [Next]_vars => [Promise!Next]_(Promise!genVars)
<1> SUFFICES ASSUME PublicationInv, PublicationInv', [Next]_vars
             PROVE  [Promise!Next]_(Promise!genVars)
  OBVIOUS
<1>1. CASE UNCHANGED vars \/ \E w \in Workers, p \in Paths : Begin(w, p)
  BY <1>1, OthersStutter DEF vars, Begin, tables
<1>2. CASE Crash
  BY <1>2, CrashIsLose DEF Promise!Next
<1>3. CASE Restart
  BY <1>3, RestartIsServe DEF Promise!Next
<1>4. QED
  BY <1>1, <1>2, <1>3, WorkRefines DEF Next, Finished

(* index_repository publishes each collection whole under the next version *)
(* of its repository, and the runtime only ever switches to a repository's *)
(* last publication, whatever fails or crashes, when no two workers are    *)
(* asked for one repository (run reused_label shows what happens when two  *)
(* are: one number for two collections).                                   *)
THEOREM ImplementsPromiseHolds ==
    ASSUME DisjointTargets
    PROVE  Spec => ImplementsPromise
BY PromiseInit, NextRefines, PublicationInvariant, PTL DEF Spec, ImplementsPromise, Promise!Spec

(* What is served carries a number the database recorded, not above the    *)
(* last, and under the last number it holds the recorded documents.        *)
Labelled ==
    runtime # Null =>
        /\ runtime.version <= repos[runtime.path].version
        /\ runtime.version = repos[runtime.path].version =>
              ContentOf(runtime.docs) = ContentOf(docs[runtime.path])

LEMMA LabelledNext == PublicationInv /\ Labelled /\ [Next]_vars => Labelled'
<1> SUFFICES ASSUME PublicationInv, Labelled, [Next]_vars PROVE Labelled'
  OBVIOUS
<1>1. /\ runtime \in Generation \cup {Null} /\ \A p \in Paths : repos[p].version \in Nat
  BY DEF PublicationInv, ActivationInv, TypeOK, Repo
<1>2. CASE UNCHANGED <<docs, runtime>> /\ \A p \in Paths : repos'[p].version = repos[p].version
  BY <1>1, <1>2 DEF Labelled, Generation, ContentOf
<1>3. ASSUME NEW p \in Paths, UNCHANGED <<repos, docs>>,
             runtime' = [path |-> p, version |-> repos[p].version, docs |-> docs[p]]
      PROVE  Labelled'
  BY <1>1, <1>3 DEF Labelled
<1>4. ASSUME NEW w \in Workers, Work(w) \/ Faulty(w) PROVE Labelled'
  <2>1. CASE Commit(w) \/ CommitLost(w)
    <3> SUFFICES ASSUME NEW q \in Paths, NEW v \in Nat, NEW table \in Table,
                        runtime = [path |-> q, version |-> v, docs |-> table]
                 PROVE  Labelled'
      BY <1>1, <2>1 DEF Generation, Labelled, Commit, CommitLost, CommitTables
    <3>1. CommitTables(w) /\ UNCHANGED runtime
      BY <2>1 DEF Commit, CommitLost, CommitTables
    <3>2. /\ v <= repos[q].version
          /\ v = repos[q].version => ContentOf(table) = ContentOf(docs[q])
      BY <1>1, NullGenerationAssumption DEF Labelled, Generation
    <3>3. CASE q = job[w].path
      <4>1. repos'[q].version = repos[q].version + 1
        BY <3>1, <3>3, CommitPublishes
      <4>2. QED
        BY <1>1, <3>1, <3>2, <4>1 DEF Labelled
    <3>4. CASE q # job[w].path
      <4>1. repos'[q].version = repos[q].version /\ docs'[q] = docs[q]
        BY <3>1, <3>4, CommitPublishes
      <4>2. QED
        BY <3>1, <3>2, <4>1 DEF Labelled
    <3>5. QED
      BY <3>3, <3>4
  <2>2. CASE ActivateRuntime(w)
    <3> SUFFICES ASSUME NEW p, p = job[w].path PROVE Labelled'
      OBVIOUS
    <3>1. /\ pc[w] = "switch" /\ p \in Paths /\ UNCHANGED <<repos, docs>>
          /\ runtime' = [path |-> p, version |-> job[w].seen.version + 1, docs |-> job[w].view]
      BY <2>2 DEF ActivateRuntime, Candidate, NewVersion, tables, PublicationInv, ActivationInv,
                  TypeOK
    <3>2. repos[p].version = job[w].seen.version + 1 /\ job[w].view = docs[p]
      BY <3>1 DEF PublicationInv, WorkersAttend, Attends
    <3>3. QED
      BY <1>3, <3>1, <3>2
  <2>3. CASE ~Commit(w) /\ ~CommitLost(w) /\ ~ActivateRuntime(w)
    BY <1>2, <1>4, <2>3, OthersKeep
  <2>4. QED
    BY <2>1, <2>2, <2>3
<1>5. CASE Crash
  BY <1>5 DEF Crash, Labelled
<1>6. CASE Restart
  <2>1. UNCHANGED <<repos, docs>> /\ runtime' = Hydrated
    BY <1>6 DEF Restart, tables
  <2>2. CASE \E p \in Paths : Hydratable(p)
    BY <1>3, <2>1, <2>2 DEF Hydrated, Stored
  <2>3. CASE ~\E p \in Paths : Hydratable(p)
    BY <2>1, <2>3 DEF Hydrated, Labelled
  <2>4. QED
    BY <2>2, <2>3
<1>7. CASE UNCHANGED vars \/ \E w \in Workers, p \in Paths : Begin(w, p)
  BY <1>2, <1>7 DEF vars, Begin, tables
<1>8. QED
  BY <1>4, <1>5, <1>6, <1>7 DEF Next, Finished

(* The version in SearchCacheKeyBuilder's keys (search_cache_key.py:47-54) *)
(* stands for one collection: what is served under the number the database *)
(* has recorded is what it has recorded.                                   *)
THEOREM LabelIdentifiesHolds ==
    ASSUME DisjointTargets
    PROVE  Spec => []LabelIdentifiesDocuments
<1>1. Init => Labelled
  BY DEF Init, Labelled
<1>2. Labelled => LabelIdentifiesDocuments
  BY DEF Labelled, LabelIdentifiesDocuments
<1>3. QED
  BY <1>1, <1>2, LabelledNext, PublicationInvariant, PTL DEF Spec

-----------------------------------------------------------------------------
(* A request is about to switch from its commit to its switch.             *)
LEMMA SwitchStages ==
    ASSUME TypeOK, NEW w \in Workers, Work(w) \/ Faulty(w),
           ~Commit(w), ~ActivateRuntime(w)
    PROVE  pc[w] # "switch" /\ pc'[w] # "switch"
<1>1. pc \in [Workers -> Stage]
  BY DEF TypeOK
<1>2. CASE StartRun(w) \/ StartConflict(w) \/ Crawl(w) \/ CrawlFails(w) \/ LoadRepository(w)
           \/ SelectExisting(w) \/ ListDocuments(w) \/ MarkReady(w) \/ SetActive(w)
           \/ LoadFailed(w) \/ RecordFailure(w)
  BY <1>1, <1>2 DEF StartRun, StartTables, MayStart, StartConflict, Crawl, CrawlFails,
                    LoadRepository, SelectExisting, ListDocuments, MarkReady, SetActive,
                    LoadFailed, RecordFailure, Abort, Finish, Advance
<1>3. CASE \E f \in Files : FlushRow(w, f)
  BY <1>1, <1>3 DEF FlushRow, UpdateRow, UpdateStale, InsertRow, InsertDuplicate, DeleteRow,
                    AtRow, Wrote, Abort, Advance
<1>4. CASE DeadlockAbort(w)
  BY <1>1, <1>4, WaitersStages DEF DeadlockAbort, Abort, Advance
<1>5. CASE Faulty(w)
  BY <1>1, <1>5 DEF Faulty, StartFails, StartLost, StartTables, MayStart, StatementFails,
                    InTransaction, CommitLost, CommitTables, RecordFails, Abort, Finish, Advance
<1>6. QED
  BY <1>2, <1>3, <1>4, <1>5 DEF Work

-----------------------------------------------------------------------------
(* One worker, in a process that lives and records every failure.          *)

SerialInv == PublicationInv /\ IndexingInv /\ up /\ SwitchesToActive

Alone == \A w, o \in Workers : w = o

(* A step on either side of which nobody is about to switch, and which     *)
(* publishes nothing, leaves what is served the active repository's.       *)
LEMMA KeepsServing ==
    ASSUME Alone, SwitchesToActive, NEW w \in Workers, pc[w] # "switch", pc'[w] # "switch",
           UNCHANGED <<docs, runtime>>,
           \A p \in Paths : /\ repos'[p].version = repos[p].version
                           /\ repos'[p].active = repos[p].active
    PROVE  SwitchesToActive'
<1>1. ServesActive
  BY DEF Alone, SwitchesToActive
<1>2. ServesActive'
  BY <1>1 DEF ServesActive, Stored
<1>3. \A o \in Workers : pc'[o] # "switch"
  BY DEF Alone
<1>4. QED
  BY <1>2, <1>3 DEF SwitchesToActive

(* The commit activates the repository that the switch then serves.        *)
LEMMA CommitSwitches ==
    ASSUME Alone, PublicationInv, NEW w \in Workers, Commit(w)
    PROVE  SwitchesToActive'
<1>1. repos'[job[w].path].active
  BY CommitPublishes DEF Commit
<1>2. /\ pc'[w] = "switch" /\ job'[w].path = job[w].path
  BY DEF Commit, Advance, Job, PublicationInv, ActivationInv, TypeOK
<1>3. QED
  BY <1>1, <1>2 DEF Alone, SwitchesToActive

LEMMA ActivateServes ==
    ASSUME Alone, PublicationInv, SwitchesToActive, NEW w \in Workers, ActivateRuntime(w)
    PROVE  SwitchesToActive'
<1> SUFFICES ASSUME NEW p, p = job[w].path PROVE SwitchesToActive'
  OBVIOUS
<1>1. /\ pc[w] = "switch" /\ p \in Paths /\ UNCHANGED <<repos, docs>> /\ pc'[w] = "idle"
      /\ runtime' = [path |-> p, version |-> job[w].seen.version + 1, docs |-> job[w].view]
  BY JobEnds DEF ActivateRuntime, Candidate, NewVersion, tables, PublicationInv, ActivationInv,
                 TypeOK
<1>2. repos[p].version = job[w].seen.version + 1 /\ job[w].view = docs[p]
  BY <1>1 DEF PublicationInv, WorkersAttend, Attends
<1>3. runtime' = Stored(p)'
  BY <1>1, <1>2 DEF Stored
<1>4. repos[p].active /\ \A q \in Paths : repos[q].active => q = p
  BY <1>1 DEF SwitchesToActive, PublicationInv, ActivationInv, SingleActive
<1>5. ServesActive'
  BY <1>1, <1>3, <1>4 DEF ServesActive
<1>6. \A o \in Workers : pc'[o] # "switch"
  BY <1>1 DEF Alone
<1>7. QED
  BY <1>5, <1>6 DEF SwitchesToActive

LEMMA WorkServes ==
    ASSUME Alone, Lives, PublicationInv, SwitchesToActive, NEW w \in Workers,
           Work(w) \/ Faulty(w)
    PROVE  SwitchesToActive'
<1>1. CASE Commit(w)
  BY <1>1, CommitSwitches
<1>2. CASE ActivateRuntime(w)
  BY <1>2, ActivateServes
<1>3. CASE ~Commit(w) /\ ~ActivateRuntime(w)
  <2>1. ~CommitLost(w)
    BY DEF Lives, Fault, CommitLost
  <2>2. pc[w] # "switch" /\ pc'[w] # "switch"
    BY <1>3, <2>1, SwitchStages DEF PublicationInv, ActivationInv
  <2>3. QED
    BY <1>3, <2>1, <2>2, OthersKeep, KeepsServing
<1>4. QED
  BY <1>1, <1>2, <1>3

LEMMA SerialNext == Alone /\ Lives /\ SerialInv /\ [Next]_vars => SerialInv'
<1> SUFFICES ASSUME Alone, Lives, SerialInv, [Next]_vars PROVE SerialInv'
  OBVIOUS
<1>1. PublicationInv' /\ IndexingInv'
  BY PublicationNext, IndexingNext DEF SerialInv, Alone, DisjointTargets
<1>2. ~Crash /\ ~Restart
  BY DEF SerialInv, IndexingInv, TypeOK, Lives, Crash, Restart
<1>3. CASE UNCHANGED vars
  BY <1>1, <1>3 DEF vars, SerialInv, SwitchesToActive, ServesActive, Stored
<1>4. ASSUME NEW w \in Workers, NEW p \in Paths, Begin(w, p) PROVE SerialInv'
  <2>1. /\ UNCHANGED <<repos, docs, runtime, up>> /\ pc[w] = "idle" /\ pc'[w] = "start"
    BY <1>4 DEF Begin, Advance, tables, SerialInv, IndexingInv, TypeOK
  <2>2. QED
    BY <1>1, <2>1, KeepsServing DEF SerialInv
<1>5. ASSUME NEW w \in Workers, Work(w) \/ Faulty(w) PROVE SerialInv'
  BY <1>1, <1>5, WorkServes, StepFrame DEF SerialInv, IndexingInv
<1>6. QED
  BY <1>2, <1>3, <1>4, <1>5 DEF Next, Finished

(* Between requests the active repository is "ready", unless there is      *)
(* none: what hydration would choose is what the last request switched to. *)
LEMMA SerialServes == SerialInv => RestartChangesNothing
<1> SUFFICES ASSUME SerialInv, Idle PROVE runtime = Hydrated
  BY DEF RestartChangesNothing
<1>1. ServesActive
  BY DEF SerialInv, SwitchesToActive, Idle
<1>2. CASE \E p \in Paths : repos[p].active
  <2>1. PICK p \in Paths : repos[p].active
    BY <1>2
  <2>2. repos[p].status \in {"absent", "indexing", "ready", "failed"} /\ repos[p].version \in Nat
    BY DEF SerialInv, IndexingInv, TypeOK, Repo
  <2>3. repos[p].status # "absent" /\ repos[p].version > 0
    BY <2>1 DEF SerialInv, PublicationInv, ActivationInv, RowsOK, RowOK
  <2>4. repos[p].status # "failed"
    BY <2>2, <2>3 DEF SerialInv, PublicationInv, RowsPublished, RowPublished
  <2>5. repos[p].status # "indexing"
    BY DEF SerialInv, IndexingInv, IndexingIsSettled, Settles, WillRead, HasRead, Idle
  <2>6. Hydratable(p) /\ \A q \in Paths : Hydratable(q) => q = p
    BY <2>1, <2>2, <2>3, <2>4, <2>5
       DEF Hydratable, SerialInv, PublicationInv, ActivationInv, SingleActive
  <2>7. Hydrated = Stored(p)
    BY <2>6 DEF Hydrated
  <2>8. QED
    BY <1>1, <2>1, <2>7 DEF ServesActive
<1>3. CASE \A p \in Paths : ~repos[p].active
  BY <1>1, <1>3 DEF ServesActive, Hydrated, Hydratable
<1>4. QED
  BY <1>2, <1>3

(* hydrate_active_repository (indexing_service.py:36-68) would serve what  *)
(* is being served: between requests the runtime state and the database    *)
(* agree, after any sequence of successful and failed requests.  With two  *)
(* workers (run activation_order), a crash, a failure that is not recorded *)
(* or a commit whose answer is lost they may not.                          *)
THEOREM RestartChangesNothingHolds ==
    ASSUME \A w, o \in Workers : w = o,
           MaxCrashes = 0, FaultKinds \subseteq {"start", "statement"}
    PROVE  Spec => []RestartChangesNothing
<1>1. Alone /\ Lives
  BY DEF Alone, Lives
<1>2. Init => SerialInv
  <2> SUFFICES ASSUME Init PROVE SwitchesToActive
    BY <1>1, PublicationInit, IndexingInit DEF SerialInv, Init
  <2>1. (\A p \in Paths : ~repos[p].active) /\ runtime = Null /\ \A w \in Workers : pc[w] = "idle"
    BY DEF Init, NoRepo
  <2>2. QED
    BY <2>1 DEF SwitchesToActive, ServesActive
<1>3. SerialInv /\ [Next]_vars => SerialInv'
  BY <1>1, SerialNext
<1>4. QED
  BY <1>2, <1>3, SerialServes, PTL DEF Spec

-----------------------------------------------------------------------------
(* Any number of workers, each with repositories of its own: while the     *)
(* process lives and no commit loses its answer, documents are served once *)
(* a version was published, or about to be.                                *)

Available ==
    (\E p \in Paths : repos[p].active) =>
        IsReady \/ \E w \in Workers : pc[w] = "switch"

AvailableInv == PublicationInv /\ up /\ Available

(* What a request switches to is what it has committed, which has a        *)
(* version and therefore documents.                                        *)
LEMMA SwitchesToDocuments ==
    ASSUME PublicationInv, NEW w \in Workers, ActivateRuntime(w)
    PROVE  IsReady'
<1>1. /\ pc[w] = "switch" /\ job[w] \in Job /\ job[w].path \in Paths
      /\ repos[job[w].path] \in Repo
  BY DEF ActivateRuntime, PublicationInv, ActivationInv, TypeOK
<1>2. runtime' = [path |-> job[w].path, version |-> job[w].seen.version + 1,
                  docs |-> job[w].view]
  BY DEF ActivateRuntime, Candidate, NewVersion
<1>3. job[w].view \in Table /\ job[w].seen.version \in Nat
  BY <1>1 DEF Job, Repo
<1>4. /\ job[w].view = docs[job[w].path]
      /\ repos[job[w].path].version = job[w].seen.version + 1
  BY <1>1 DEF PublicationInv, WorkersAttend, Attends
<1>5. Present(job[w].view) # {}
  BY <1>1, <1>3, <1>4 DEF PublicationInv, RowsPublished, RowPublished
<1>6. runtime' # Null
  BY <1>1, <1>2, <1>3, NullGenerationAssumption DEF Generation
<1>7. QED
  BY <1>2, <1>5, <1>6 DEF IsReady

LEMMA WorkAvailable ==
    ASSUME AvailableInv, PublicationInv', "lostAck" \notin FaultKinds, NEW w \in Workers,
           Work(w) \/ Faulty(w)
    PROVE  Available'
<1>1. TypeOK /\ repos \in [Paths -> Repo] /\ pc \in [Workers -> Stage]
  BY DEF AvailableInv, PublicationInv, ActivationInv, TypeOK
<1>2. CASE Commit(w)
  BY <1>1, <1>2 DEF Commit, Advance, Available
<1>3. CASE ActivateRuntime(w)
  BY <1>3, SwitchesToDocuments DEF AvailableInv, Available
<1>4. CASE ~Commit(w) /\ ~ActivateRuntime(w)
  <2>1. pc[w] # "switch" /\ \A o \in Workers : o # w => pc'[o] = pc[o]
    BY <1>1, <1>4, SwitchStages, StepFrame
  <2>2. UNCHANGED runtime /\ \A p \in Paths : repos'[p].active => repos[p].active
    <3>1. CASE StartRun(w)
      BY <1>1, <3>1 DEF StartRun, StartTables, Started, NoRepo, Repo
    <3>2. CASE RecordFailure(w)
      BY <1>1, <3>2 DEF RecordFailure, Repo
    <3>3. CASE \/ StartConflict(w) \/ Crawl(w) \/ CrawlFails(w) \/ LoadRepository(w)
               \/ SelectExisting(w) \/ ListDocuments(w) \/ MarkReady(w) \/ SetActive(w)
               \/ DeadlockAbort(w) \/ LoadFailed(w)
               \/ StartFails(w) \/ StatementFails(w) \/ RecordFails(w)
               \/ \E f \in Files : FlushRow(w, f)
      BY <3>3 DEF StartConflict, Crawl, CrawlFails, LoadRepository, SelectExisting,
                  ListDocuments, MarkReady, SetActive, DeadlockAbort, LoadFailed, StartFails,
                  StatementFails, RecordFails, FlushRow, UpdateRow, UpdateStale, InsertRow,
                  InsertDuplicate, DeleteRow, tables
    <3>4. ~StartLost(w) /\ ~CommitLost(w)
      BY DEF StartLost, CommitLost, Fault
    <3>5. QED
      BY <1>4, <3>1, <3>2, <3>3, <3>4 DEF Work, Faulty
  <2>3. QED
    BY <2>1, <2>2 DEF AvailableInv, Available, IsReady
<1>5. QED
  BY <1>2, <1>3, <1>4

LEMMA AvailableNext ==
    ASSUME DisjointTargets, MaxCrashes = 0, "lostAck" \notin FaultKinds,
           AvailableInv, [Next]_vars
    PROVE  AvailableInv'
<1>1. PublicationInv'
  BY PublicationNext DEF AvailableInv
<1>2. TypeOK /\ ~Crash /\ ~Restart
  BY DEF AvailableInv, PublicationInv, ActivationInv, TypeOK, Crash, Restart
<1>3. CASE UNCHANGED vars
  BY <1>1, <1>3 DEF vars, AvailableInv, Available, IsReady
<1>4. ASSUME NEW w \in Workers, NEW p \in Paths, Begin(w, p) PROVE AvailableInv'
  BY <1>1, <1>2, <1>4 DEF Begin, Advance, tables, AvailableInv, Available, IsReady, TypeOK
<1>5. ASSUME NEW w \in Workers, Work(w) \/ Faulty(w) PROVE AvailableInv'
  <2>1. Available'
    BY <1>1, <1>5, WorkAvailable
  <2>2. UNCHANGED up
    BY <1>2, <1>5, StepFrame
  <2>3. QED
    BY <1>1, <2>1, <2>2 DEF AvailableInv
<1>6. QED
  BY <1>2, <1>3, <1>4, <1>5 DEF Next, Finished

(* index_repository (indexing_service.py:70-190) leaves the last version   *)
(* available: when no request is in progress and a repository was ever     *)
(* activated, /search has documents to search (search_engine.py:113-117),  *)
(* after any sequence of successful and failed requests.  A crash while a  *)
(* repository is indexed refutes it (run interrupted), and so do           *)
(* overlapping requests for one repository (run emptied).                  *)
THEOREM LastVersionStaysAvailable ==
    ASSUME DisjointTargets, MaxCrashes = 0, "lostAck" \notin FaultKinds
    PROVE  Spec => []LastVersionAvailable
<1>1. Init => AvailableInv
  BY PublicationInit DEF Init, AvailableInv, Available, NoRepo
<1>2. AvailableInv /\ [Next]_vars => AvailableInv'
  BY AvailableNext
<1>3. AvailableInv => LastVersionAvailable
  <2> SUFFICES ASSUME AvailableInv, Idle, ActivePath # Null PROVE IsReady
    BY DEF LastVersionAvailable
  <2>1. \E p \in Paths : repos[p].active
    BY DEF ActivePath
  <2>2. QED
    BY <2>1 DEF AvailableInv, Available, Idle
<1>4. QED
  BY <1>1, <1>2, <1>3, PTL DEF Spec
=============================================================================
