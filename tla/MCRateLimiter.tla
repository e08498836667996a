--------------------------- MODULE MCRateLimiter ---------------------------
(***************************************************************************)
(* Instances of RateLimiter: two addresses share the global bucket, which  *)
(* refills faster than theirs; keys expire more than once in the time      *)
(* there is.                                                               *)
(***************************************************************************)
EXTENDS RateLimiter, TLC

CONSTANTS ip1, ip2, r1, r2

MCScopes == {ip1, ip2}
MCRequests == {r1, r2}
MCCapacity == (Global :> 3) @@ [s \in MCScopes |-> 2]
MCRate == (Global :> 2) @@ [s \in MCScopes |-> 1]

Symmetry == Permutations(MCScopes) \cup Permutations(MCRequests)
=============================================================================
