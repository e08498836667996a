----------------------------- MODULE MCSessions -----------------------------
(***************************************************************************)
(* Instances of Sessions: two clients, so that a Refresh meets another or  *)
(* a Logout, and access tokens that expire before the session does.        *)
(***************************************************************************)
EXTENDS Sessions, TLC

CONSTANTS c1, c2, a1, a2, a3, a4

MCClients == {c1, c2}
MCTokens == {a1, a2, a3, a4}

Symmetry == Permutations(MCClients) \cup Permutations(MCTokens)
=============================================================================
