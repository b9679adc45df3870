------------------------------- MODULE Crawler -------------------------------
(***************************************************************************)
(* services/repository_crawler.py: one crawl of a file tree that other     *)
(* programs change meanwhile.  A directory is listed once (pathlib, a      *)
(* directory at a time in any order) and its files are then visited one by *)
(* one: is it a file, is it eligible, is it small enough, what does it     *)
(* contain, how large is it.  Each of these asks the file system again.    *)
(***************************************************************************)
EXTENDS Integers

CONSTANTS
    Files,                \* names that may exist below the root
    Directory,            \* Directory[f]: the directory f is listed in
    PartsOf,              \* PartsOf[f]: parts of the path of f below the root
    SuffixOf,             \* SuffixOf[f]: the suffix of f, in lower case
    Roots,                \* root directories, as the parts of their paths
    BadRoots,             \* root paths that are missing, no directories, or refused
    IgnoredDirectories,
    SupportedExtensions,
    FileStates,           \* [size, text] pairs a file may have
    NotText,              \* the text of what cannot be read or decoded
    Absent,               \* no file of that name
    Denied,               \* a name that can be listed and not asked about
    Null,                 \* nothing yet
    MaxFileSize,
    MaxChanges            \* bound on changes during the crawl

ASSUME CrawlerAssumption ==
    /\ FileStates \subseteq [size : Nat, text : { v.text : v \in FileStates }]
    /\ {Absent, Denied} \cap FileStates = {} /\ Absent # Denied
    /\ BadRoots \cap Roots = {}
    /\ MaxFileSize \in Nat /\ MaxChanges \in Nat

VARIABLES
    root,      \* parts of the root path, or what is wrong with it
    tree,      \* the file system now
    past,      \* history: the states each file has had since the start
    changes,   \* how many changes there were
    pc,        \* what the crawl does next
    todo,      \* directories not listed yet
    listed,    \* files of the listed directory not visited yet
    current,   \* the file being looked at
    text,      \* what was read of it
    sources    \* source_files

crawlVars == <<pc, todo, listed, current, text, sources>>
vars == <<root, tree, past, changes, crawlVars>>

Texts == { v.text : v \in FileStates }
NameStates == FileStates \cup {Absent, Denied}

TypeOK ==
    /\ root \in Roots \cup BadRoots
    /\ tree \in [Files -> NameStates]
    /\ past \in [Files -> SUBSET NameStates]
    /\ changes \in 0..MaxChanges
    /\ pc \in {"start", "next", "size", "read", "stat", "done", "failed"}
    /\ todo \subseteq { Directory[f] : f \in Files }
    /\ listed \subseteq Files
    /\ current \in Files \cup {Null}
    /\ text \in Texts \cup {Null}
    /\ sources \subseteq [file : Files, size : Nat, text : Texts]

Init ==
    /\ root \in Roots \cup BadRoots
    /\ tree \in [Files -> NameStates]
    /\ past = [f \in Files |-> {tree[f]}]
    /\ changes = 0
    /\ pc = "start"
    /\ todo = {} /\ listed = {} /\ sources = {}
    /\ current = Null /\ text = Null

-----------------------------------------------------------------------------
(* Somebody else creates, removes or rewrites a file, or changes who may   *)
(* search its directory.                                                   *)
Change(f) ==
    /\ pc \notin {"start", "done", "failed"} /\ changes < MaxChanges
    /\ changes' = changes + 1
    /\ \E v \in NameStates \ {tree[f]} :
        /\ tree' = [tree EXCEPT ![f] = v]
        /\ past' = [past EXCEPT ![f] = @ \cup {v}]
    /\ UNCHANGED <<root, crawlVars>>

Environment == UNCHANGED <<root, tree, past, changes>>

Begin ==
    /\ pc = "start"
    /\ pc' = IF root \in BadRoots THEN "failed" ELSE "next"
    /\ todo' = { Directory[f] : f \in Files }
    /\ Environment /\ UNCHANGED <<listed, current, text, sources>>

(* rglob lists the next directory: the names in it at that moment. *)
List(d) ==
    /\ pc = "next" /\ listed = {} /\ d \in todo
    /\ todo' = todo \ {d}
    /\ listed' = { f \in Files : Directory[f] = d /\ tree[f] # Absent }
    /\ Environment /\ UNCHANGED <<pc, current, text, sources>>

IsInIgnoredDirectory(f) == Directory[f] \in IgnoredDirectories
IsIgnoredPath(f) == (root \cup PartsOf[f]) \cap IgnoredDirectories # {}
HasSupportedExtension(f) == SuffixOf[f] \in SupportedExtensions

(* stat answers: is_file() is true, and the file has a size *)
IsFile(f) == tree[f] \in FileStates

NotFiltered(f) == IsFile(f)
Considered(f) == IsFile(f) /\ ~IsIgnoredPath(f) /\ HasSupportedExtension(f)

(* is_file() is false for a name that is gone and raises PermissionError   *)
(* for one that may not be asked about, before any filter.                 *)
Visit(f) ==
    /\ pc = "next" /\ f \in listed
    /\ listed' = listed \ {f}
    /\ \/ tree[f] = Denied /\ pc' = "failed" /\ UNCHANGED current
       \/ Considered(f) /\ pc' = "size" /\ current' = f
       \/ tree[f] # Denied /\ ~Considered(f) /\ UNCHANGED <<pc, current>>
    /\ Environment /\ UNCHANGED <<todo, text, sources>>

(* _is_within_size_limit, whose stat raises when the file is gone or     *)
(* refused                                                                 *)
SizeUnchecked ==
    /\ pc = "size"
    /\ pc' = IF IsFile(current) THEN "read" ELSE "failed"
    /\ Environment /\ UNCHANGED <<todo, listed, current, text, sources>>

CheckSize ==
    /\ pc = "size"
    /\ pc' = IF ~IsFile(current) THEN "failed"
             ELSE IF tree[current].size <= MaxFileSize THEN "read"
             ELSE "next"
    /\ Environment /\ UNCHANGED <<todo, listed, current, text, sources>>

(* _read_text_file, which returns None for what is gone, refused or not    *)
(* text                                                                    *)
Readable(f) == IsFile(f) /\ tree[f].text # NotText

ReadForgotten ==
    /\ pc = "read"
    /\ pc' = "stat"
    /\ text' = IF Readable(current) THEN tree[current].text ELSE text
    /\ Environment /\ UNCHANGED <<todo, listed, current, sources>>

ReadRetries ==
    /\ pc = "read"
    /\ IF Readable(current)
       THEN pc' = "stat" /\ text' = tree[current].text
       ELSE pc' = "size" /\ UNCHANGED text
    /\ Environment /\ UNCHANGED <<todo, listed, current, sources>>

Read ==
    /\ pc = "read"
    /\ IF Readable(current)
       THEN pc' = "stat" /\ text' = tree[current].text
       ELSE pc' = "next" /\ UNCHANGED text
    /\ Environment /\ UNCHANGED <<todo, listed, current, sources>>

(* SourceFile(..., size_bytes=file_path.stat().st_size) *)
Stat ==
    /\ pc = "stat"
    /\ IF ~IsFile(current)
       THEN pc' = "failed" /\ UNCHANGED sources
       ELSE /\ pc' = "next"
            /\ sources' = sources \cup {[file |-> current, size |-> tree[current].size,
                                         text |-> text]}
    /\ Environment /\ UNCHANGED <<todo, listed, current, text>>

Return ==
    /\ pc = "next" /\ todo = {} /\ listed = {}
    /\ pc' = "done"
    /\ Environment /\ UNCHANGED <<todo, listed, current, text, sources>>

Ended == pc \in {"done", "failed"} /\ UNCHANGED vars

Crawl ==
    \/ Begin \/ CheckSize \/ Read \/ Stat \/ Return
    \/ \E d \in todo : List(d)
    \/ \E f \in listed : Visit(f)

Next == Crawl \/ (\E f \in Files : Change(f)) \/ Ended

Spec == Init /\ [][Next]_vars

(* The crawl runs on a handler's thread and waits for nobody. *)
FairSpec == Spec /\ WF_vars(Crawl)

-----------------------------------------------------------------------------
(* A file of the repository somebody may want indexed, wherever the        *)
(* repository is: in no generated, dependency or IDE directory of it, with *)
(* a supported suffix.                                                     *)
Wanted(f) ==
    /\ PartsOf[f] \cap IgnoredDirectories = {}
    /\ SuffixOf[f] \in SupportedExtensions

(* A finished crawl has every wanted file that stayed as it was, if it is  *)
(* small enough and text, with its own size and text, and no other of the  *)
(* files that stayed as they were, whatever happened to the rest.  In a    *)
(* repository below a directory with an ignored name it has none           *)
(* (_is_ignored_path looks at the parts of the absolute path).             *)
UnchangedFilesExact ==
    pc = "done" => \A f \in Files, v \in NameStates : past[f] = {v} =>
        { s \in sources : s.file = f } =
            IF v \in FileStates /\ Wanted(f) /\ v.size <= MaxFileSize /\ v.text # NotText
            THEN {[file |-> f, size |-> v.size, text |-> v.text]} ELSE {}

(* A file is recorded at most once, with a text and a size it had during   *)
(* the crawl, though not necessarily at the same moment, and only if it    *)
(* was small enough at some moment.                                        *)
RecordedExisted ==
    \A s \in sources :
        /\ \A r \in sources : r.file = s.file => r = s
        /\ \E v \in past[s.file] \cap FileStates : v.text = s.text /\ v.text # NotText
        /\ \E v \in past[s.file] \cap FileStates : v.size = s.size
        /\ \E v \in past[s.file] \cap FileStates : v.size <= MaxFileSize

(* A crawl of a proper directory raises only because a wanted file         *)
(* disappeared under it, or because some name may be listed and not asked  *)
(* about: a file that is filtered out can come and go.                     *)
RaisesOnlyForCause ==
    pc = "failed" /\ root \notin BadRoots =>
        \E f \in Files :
            \/ Denied \in past[f]
            \/ Wanted(f) /\ Absent \in past[f] /\ past[f] # {Absent}

(* A crawl ends, whatever is changed meanwhile. *)
CrawlEnds == <>(pc \in {"done", "failed"})
=============================================================================
