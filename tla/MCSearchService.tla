-------------------------- MODULE MCSearchService --------------------------
(* An instance of SearchService for TLC: two requests share a cache key.   *)
EXTENDS SearchService, TLC

CONSTANTS r1, r2, k1, t1, t2  \* model values

SharedKey == (r1 :> k1) @@ (r2 :> k1)
=============================================================================
