--------------------------- MODULE DocumentStore ---------------------------
(***************************************************************************)
(* The data of stores/document_store.py: the rows of the documents table   *)
(* that belong to one repository, the snapshot a crawl takes of its files, *)
(* and the row operations synchronize() derives from the two.              *)
(*                                                                         *)
(* A file stands for a relative path, a content for everything             *)
(* _matches_source compares (hash, extension, size, line count).           *)
(***************************************************************************)
EXTENDS Naturals

CONSTANTS
    Files,     \* relative paths
    Contents,  \* file contents
    Null       \* no row, no file

ASSUME NullAssumption == Null \notin Contents /\ Null \notin [id : Nat, content : Contents]

Row == [id : Nat, content : Contents]
Table == [Files -> Row \cup {Null}]
Snapshot == [Files -> Contents \cup {Null}]

NoRows == [f \in Files |-> Null]
Present(table) == {f \in Files : table[f] # Null}

(* What a table says of the repository's files, without the row ids. *)
ContentOf(table) ==
    [f \in Files |-> IF table[f] = Null THEN Null ELSE table[f].content]

-----------------------------------------------------------------------------
(* synchronize() compares the snapshot with the rows it selected. *)
Updates(existing, files) ==
    {f \in Present(existing) \cap Present(files) : existing[f].content # files[f]}

Inserts(existing, files) == Present(files) \ Present(existing)

DeletesForgotten(existing, files) == {}
Deletes(existing, files) == Present(existing) \ Present(files)

Differences(existing, files) ==
    Updates(existing, files) \cup Inserts(existing, files) \cup Deletes(existing, files)

(* The order the flush emits the statements still in todo: updates by      *)
(* primary key, inserts in the order the objects were added, deletes by    *)
(* primary key.  Objects are added in crawl order, and rglob() visits a    *)
(* directory in whatever order the file system lists it.                   *)
InTurn(f, existing, files, todo) ==
    /\ f \in todo
    /\ \/ /\ f \in Updates(existing, files)
          /\ \A g \in todo \cap Updates(existing, files) : existing[f].id <= existing[g].id
       \/ /\ f \in Inserts(existing, files)
          /\ todo \cap Updates(existing, files) = {}
       \/ /\ todo \subseteq Deletes(existing, files)
          /\ \A g \in todo : existing[f].id <= existing[g].id

(* The rows an UPDATE, an INSERT and a DELETE leave behind for file f. *)
Updated(existing, files, f) == [id |-> existing[f].id, content |-> files[f]]
Inserted(id, files, f) == [id |-> id, content |-> files[f]]

(* A statement addressed to a row by its primary key still finds it. *)
StillThere(table, existing, f) == table[f] # Null /\ table[f].id = existing[f].id
=============================================================================
