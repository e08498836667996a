------------------------------ MODULE Accounts ------------------------------
(***************************************************************************)
(* The users and the tenants: the operations of internal/services/user.go  *)
(* and tenant.go that write, over the tables users and tenants of          *)
(* internal/repository/user.go and tenant.go, and Get, whose two reads     *)
(* Update ends with.                                                       *)
(*                                                                         *)
(* No operation opens a transaction: each statement commits by itself, and *)
(* what other requests do comes between any two.  A user is written only   *)
(* where it still has the version that was read, a tenant is not.          *)
(*                                                                         *)
(* Roles, and the tenant a caller belongs to, decide only whether a        *)
(* request is refused before it writes: Refuse stands for it.              *)
(***************************************************************************)
EXTENDS Integers

CONSTANTS
  Users,      (* The rows of users: inserted with SQL, as cmd/seed does.   *)
  Tenants,    (* The ids that tenants may have.                            *)
  TenantOf,   (* user -> its tenant_id, which nothing changes.             *)
  Emails, Names,
  Clients,    (* Requests are made by clients, each with one at a time.    *)
  Nothing,    (* What a request that is not there, or has not read, has.   *)
  MaxVersion  (* A bound: the last version a user may reach.               *)

ASSUME AccountsAssumption ==
  /\ TenantOf \in [Users -> Tenants]
  /\ MaxVersion \in Nat \ {0}

VARIABLES
  users,   (* user -> its row.                                             *)
  tenants, (* tenant -> its row, for the tenants that have one.            *)
  pc,      (* Where the request of each client is.                         *)
  id,      (* The user or tenant it is about,                              *)
  new,     (* the email or name it brings,                                 *)
  seen     (* and the row of the user, as it was read.                     *)

vars == <<users, tenants, pc, id, new, seen>>

UserRows == [email : Emails, version : 1 .. MaxVersion, active : BOOLEAN]
TenantRows == [name : Names, active : BOOLEAN]

AboutUsers ==
  {"get user", "new user", "tenant of the new user", "read user", "check email",
   "write user", "answer", "read doomed", "delete user"}

AboutTenants ==
  {"check name", "insert tenant", "read tenant", "write tenant", "delete tenant"}

(* The places of a request that may still write the user it has read.      *)
HasRead == {"check email", "write user", "delete user"}

Init ==
  /\ users \in [Users -> [email : Emails, version : {1}, active : {TRUE}]]
  /\ \A u, w \in Users : users[u].email = users[w].email => u = w
  /\ \E T \in SUBSET Tenants :
       /\ \A u \in Users : TenantOf[u] \in T
       /\ tenants \in [T -> [name : Names, active : {TRUE}]]
  /\ pc = [c \in Clients |-> "idle"]
  /\ id = [c \in Clients |-> Nothing]
  /\ new = [c \in Clients |-> Nothing]
  /\ seen = [c \in Clients |-> Nothing]

---------------------------------------------------------------------------
(* What the database answers.                                              *)

ActiveTenant(t) == t \in DOMAIN tenants /\ tenants[t].active

(* A slip: an UPDATE whose WHERE has no version.                           *)
AnyVersion(c) == users[id[c]].active

(* The WHERE of Update and Delete of a user.                               *)
AsSeen(c) ==
  /\ users[id[c]].version = seen[c].version
  /\ users[id[c]].active

(* UNIQUE of users.email, which the rows of deleted users keep taken.      *)
EmailKept(u, e) == \E w \in Users \ {u} : users[w].email = e

Move(c, from, to) ==
  /\ pc[c] = from
  /\ pc' = [pc EXCEPT ![c] = to]

Goes(c, from, to) ==
  /\ Move(c, from, to)
  /\ UNCHANGED <<id, new, seen>>

(* The request is answered, with success or with an error.                 *)
Ends(c, from) ==
  /\ Move(c, from, "idle")
  /\ id' = [id EXCEPT ![c] = Nothing]
  /\ new' = [new EXCEPT ![c] = Nothing]
  /\ seen' = [seen EXCEPT ![c] = Nothing]

---------------------------------------------------------------------------
(* A request comes, and is refused or fails at any of its steps.  The      *)
(* checks for an email or a name that is taken refuse it when they find an *)
(* active row with it; they take any error for no row, so that a request   *)
(* may pass them whatever the table holds.                                 *)

Accept(c, place, i, d) ==
  /\ Move(c, "idle", place)
  /\ id' = [id EXCEPT ![c] = i]
  /\ new' = [new EXCEPT ![c] = d]
  /\ UNCHANGED <<users, tenants, seen>>

UserRequest(c, u, e) ==
  \/ Accept(c, "new user", u, e)
  \/ Accept(c, "read user", u, e)
  \/ Accept(c, "get user", u, Nothing)
  \/ Accept(c, "read doomed", u, Nothing)

TenantRequest(c, t, n) ==
  \/ Accept(c, "check name", t, n)
  \/ Accept(c, "read tenant", t, n)
  \/ Accept(c, "delete tenant", t, Nothing)

Refuse(c) ==
  /\ Ends(c, pc[c])
  /\ pc[c] # "idle"
  /\ UNCHANGED <<users, tenants>>

---------------------------------------------------------------------------
(* Create of a user.  The User that is inserted has no TenantID: the empty *)
(* string is no UUID, and the database refuses every INSERT.               *)

CheckNewEmail(c) ==
  /\ Goes(c, "new user", "tenant of the new user")
  /\ UNCHANGED <<users, tenants>>

CheckItsTenant(c) ==
  /\ Ends(c, "tenant of the new user")
  /\ UNCHANGED <<users, tenants>>

---------------------------------------------------------------------------
(* Get, Update and Delete of a user.                                       *)

ReadUser(c, from, to) ==
  /\ Move(c, from, to)
  /\ users[id[c]].active
  /\ seen' = [seen EXCEPT ![c] = users[id[c]]]
  /\ UNCHANGED <<users, tenants, id, new>>

GetUser(c) == ReadUser(c, "get user", "answer")

ReadForUpdate(c) ==
  ReadUser(c, "read user",
           IF new[c] = users[id[c]].email THEN "write user" ELSE "check email")

CheckEmail(c) ==
  /\ Goes(c, "check email", "write user")
  /\ UNCHANGED <<users, tenants>>

WriteUser(c) ==
  /\ Goes(c, "write user", "answer")
  /\ AsSeen(c)
  /\ ~EmailKept(id[c], new[c])
  /\ seen[c].version < MaxVersion
  /\ users' = [users EXCEPT ![id[c]] =
                 [@ EXCEPT !.email = new[c], !.version = seen[c].version + 1]]
  /\ UNCHANGED tenants

(* The answer names the tenant: without an active one it is an error, also *)
(* of an Update that has been written.                                     *)
Answer(c) ==
  /\ Ends(c, "answer")
  /\ ActiveTenant(TenantOf[id[c]])
  /\ UNCHANGED <<users, tenants>>

ReadForDelete(c) == ReadUser(c, "read doomed", "delete user")

DeleteUser(c) ==
  /\ Ends(c, "delete user")
  /\ AsSeen(c)
  /\ users' = [users EXCEPT ![id[c]].active = FALSE]
  /\ UNCHANGED tenants

---------------------------------------------------------------------------
(* Create, Update and Delete of a tenant.                                  *)

CheckName(c) ==
  /\ Goes(c, "check name", "insert tenant")
  /\ UNCHANGED <<users, tenants>>

(* The id is a new one, and the request says whether the row is active.    *)
InsertTenant(c) ==
  /\ Ends(c, "insert tenant")
  /\ id[c] \notin DOMAIN tenants
  /\ \E isActive \in BOOLEAN :
       tenants' = [t \in DOMAIN tenants \cup {id[c]} |->
                     IF t = id[c] THEN [name |-> new[c], active |-> isActive]
                                  ELSE tenants[t]]
  /\ UNCHANGED users

ReadTenant(c) ==
  /\ Goes(c, "read tenant", "write tenant")
  /\ ActiveTenant(id[c])
  /\ UNCHANGED <<users, tenants>>

(* A slip: the WHERE has no is_active, Get having asked for it.            *)
WriteTenantOnceActive(c) ==
  /\ Ends(c, "write tenant")
  /\ id[c] \in DOMAIN tenants
  /\ tenants' = [tenants EXCEPT ![id[c]].name = new[c]]
  /\ UNCHANGED users

WriteTenant(c) ==
  /\ Ends(c, "write tenant")
  /\ ActiveTenant(id[c])
  /\ tenants' = [tenants EXCEPT ![id[c]].name = new[c]]
  /\ UNCHANGED users

(* An UPDATE that clears is_active: the row stays.                         *)
DeleteTenant(c) ==
  /\ Ends(c, "delete tenant")
  /\ ActiveTenant(id[c])
  /\ tenants' = [tenants EXCEPT ![id[c]].active = FALSE]
  /\ UNCHANGED users

---------------------------------------------------------------------------
UserStep(c) ==
  \/ \E u \in Users, e \in Emails : UserRequest(c, u, e)
  \/ CheckNewEmail(c) \/ CheckItsTenant(c)
  \/ GetUser(c) \/ ReadForUpdate(c) \/ CheckEmail(c) \/ WriteUser(c) \/ Answer(c)
  \/ ReadForDelete(c) \/ DeleteUser(c)

TenantStep(c) ==
  \/ \E t \in Tenants, n \in Names : TenantRequest(c, t, n)
  \/ CheckName(c) \/ InsertTenant(c)
  \/ ReadTenant(c) \/ WriteTenant(c) \/ DeleteTenant(c)

Next == \E c \in Clients : UserStep(c) \/ TenantStep(c) \/ Refuse(c)

Spec == Init /\ [][Next]_vars

---------------------------------------------------------------------------
RequestOK(c) ==
  /\ pc[c] \in AboutUsers => id[c] \in Users
  /\ pc[c] \in AboutTenants => id[c] \in Tenants
  /\ pc[c] \in {"read user", "check email", "write user"} => new[c] \in Emails
  /\ pc[c] \in {"check name", "insert tenant", "read tenant", "write tenant"} => new[c] \in Names
  /\ pc[c] \in HasRead => seen[c] \in UserRows

RequestsOK ==
  /\ pc \in [Clients -> {"idle"} \cup AboutUsers \cup AboutTenants]
  /\ id \in [Clients -> Users \cup Tenants \cup {Nothing}]
  /\ new \in [Clients -> Emails \cup Names \cup {Nothing}]
  /\ seen \in [Clients -> UserRows \cup {Nothing}]
  /\ \A c \in Clients : RequestOK(c)

TenantsOK ==
  /\ DOMAIN tenants \subseteq Tenants
  /\ tenants \in [DOMAIN tenants -> TenantRows]
  /\ \A u \in Users : TenantOf[u] \in DOMAIN tenants

(* The two tables and the requests keep their shape; a tenant is there for *)
(* every user, so that its foreign key holds.                              *)
TypeOK == users \in [Users -> UserRows] /\ TenantsOK /\ RequestsOK

(* No update is lost: whoever writes a user has read the row that the      *)
(* write replaces, in every column, whatever other requests have done      *)
(* between its read and its write.  Delete leaves the version as it was;   *)
(* is_active has to tell it from what was read.                            *)
WritesFollowReads ==
  [][\A u \in Users :
       users'[u] # users[u] =>
         \E c \in Clients : pc'[c] # pc[c] /\ id[c] = u /\ seen[c] = users[u]]_vars

(* What is deleted stays as it was: no request that had read a user or a   *)
(* tenant before it was deleted writes it or brings it back.               *)
DeletedStaysAsItWas ==
  [][/\ \A u \in Users : ~users[u].active => users'[u] = users[u]
     /\ \A t \in DOMAIN tenants :
          /\ t \in DOMAIN tenants'
          /\ ~tenants[t].active => tenants'[t] = tenants[t]]_vars
=============================================================================
