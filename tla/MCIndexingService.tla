------------------------- MODULE MCIndexingService -------------------------
(* Instances of IndexingService for TLC: who asks for which repository.    *)
EXTENDS IndexingService, TLC

CONSTANTS w1, w2, pA, pB, f1, f2, c1, c2  \* model values

(* Every worker may be asked for every repository. *)
AnyPath == [w \in Workers |-> Paths]

(* The clients of w1 index one repository, those of w2 another. *)
OwnPath == (w1 :> {pA}) @@ (w2 :> {pB})

(* Both workers may be asked for one repository, w2 for another as well:  *)
(* enough for requests that meet in their documents, and for requests that *)
(* meet only in their activation.                                          *)
SharedPath == (w1 :> {pA}) @@ (w2 :> {pA, pB})

(* No action distinguishes one worker, repository, file or content; with   *)
(* OwnPath the workers and repositories differ.                            *)
AlikeFiles == Permutations(Files)
Symmetric ==
    AlikeFiles \cup Permutations(Workers) \cup Permutations(Paths)
    \cup Permutations(Contents)
=============================================================================
