---------------------------- MODULE Generations ----------------------------
(***************************************************************************)
(* What indexing promises to whoever searches: every repository has a      *)
(* numbered sequence of document collections, a collection is published    *)
(* whole under the next number, and the process serves some collection     *)
(* that was published, under the number it was published with, or none.    *)
(* IndexingService implements this for workloads whose requests do not     *)
(* index one repository concurrently; SearchService is built on top of it. *)
(***************************************************************************)
EXTENDS Naturals

CONSTANTS
    Paths,        \* canonical repository paths
    Collections,  \* the document collections an indexing run can produce
    Empty,        \* what a repository holds before its first publication
    Null,         \* "nothing is served"
    MaxVersion    \* bound on index versions, for model checking

ASSUME MaxVersionAssumption == MaxVersion \in Nat

VARIABLES
    latest,  \* latest[p]: the last published version of p and its documents
    active,  \* the repository published last: the one a restart serves
    served   \* the generation that answers searches

genVars == <<latest, active, served>>

Generation(p) == [path |-> p, version |-> latest[p].version, docs |-> latest[p].docs]

TypeOK ==
    /\ latest \in [Paths -> [version : 0..MaxVersion, docs : Collections \cup {Empty}]]
    /\ active \in Paths \cup {Null}
    /\ served \in [path : Paths, version : 1..MaxVersion, docs : Collections] \cup {Null}

Init ==
    /\ latest = [p \in Paths |-> [version |-> 0, docs |-> Empty]]
    /\ active = Null
    /\ served = Null

(* One commit makes d the documents of p, numbers them and makes p the     *)
(* active repository.  What is served does not change yet.                 *)
PublishUnnumbered(p, d) ==
    /\ latest[p].version < MaxVersion
    /\ latest' = [latest EXCEPT ![p] =
                     [version |-> IF @.version = 0 THEN 1 ELSE @.version, docs |-> d]]
    /\ active' = p
    /\ UNCHANGED served

Publish(p, d) ==
    /\ latest[p].version < MaxVersion
    /\ latest' = [latest EXCEPT ![p] = [version |-> @.version + 1, docs |-> d]]
    /\ active' = p
    /\ UNCHANGED served

(* The runtime switches to the last published generation of p: a request   *)
(* that has just committed it, or a restart that hydrates it.              *)
ServeUnchecked(p) ==
    /\ served' = Generation(p)
    /\ UNCHANGED <<latest, active>>

Serve(p) ==
    /\ latest[p].version > 0
    /\ served' = Generation(p)
    /\ UNCHANGED <<latest, active>>

(* The process dies: whatever it served is gone. *)
Lose ==
    /\ served' = Null
    /\ UNCHANGED <<latest, active>>

Next ==
    \/ \E p \in Paths, d \in Collections : Publish(p, d)
    \/ \E p \in Paths : Serve(p)
    \/ Lose

Spec == Init /\ [][Next]_genVars

-----------------------------------------------------------------------------
(* The number a collection is served under is enough to tell it from every *)
(* other collection of the repository: nothing newer than the database's   *)
(* record is served, and the newest number is served with the documents    *)
(* recorded under it.  The search cache is keyed by that number            *)
(* (search_cache_key.py:47-54).                                            *)
ServedIsPublished ==
    served # Null =>
        LET last == latest[served.path] IN
        /\ served.version <= last.version
        /\ served.version = last.version => served.docs = last.docs
=============================================================================
