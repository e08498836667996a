--------------------------- MODULE MCBroadcaster ---------------------------
(***************************************************************************)
(* An instance of Broadcaster: two clients of one tenant, so that the      *)
(* tenant's last client may leave and a new first one come, and a client   *)
(* of another.                                                             *)
(***************************************************************************)
EXTENDS Broadcaster, TLC

CONSTANTS a, b, c, t1, t2

MCClients == {a, b, c}

MCTenants == {t1, t2}

MCTenantOf == a :> t1 @@ b :> t1 @@ c :> t2
=============================================================================
