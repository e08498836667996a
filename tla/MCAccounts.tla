----------------------------- MODULE MCAccounts -----------------------------
(***************************************************************************)
(* Instances of Accounts: two clients so that any two requests meet, two   *)
(* users and a third email to move to, and a tenant beside theirs to be    *)
(* created, renamed and deleted.                                           *)
(***************************************************************************)
EXTENDS Accounts, TLC

CONSTANTS u1, u2, t1, t2, e1, e2, e3, n1, n2, c1, c2

MCUsers == {u1, u2}
MCTenants == {t1, t2}
MCTenantOf == [u \in MCUsers |-> t1]
MCEmails == {e1, e2, e3}
MCNames == {n1, n2}
MCClients == {c1, c2}

Symmetry ==
  Permutations(MCUsers) \cup Permutations(MCEmails)
    \cup Permutations(MCNames) \cup Permutations(MCClients)
=============================================================================
