--------------------------- MODULE AccountsProofs ---------------------------
(***************************************************************************)
(* Accounts, for any number of clients, users, tenants, emails and names.  *)
(***************************************************************************)
EXTENDS Accounts, TLAPS

(* What a request does to its own place and values, TypeOK of the others   *)
(* being untouched.                                                        *)
Untouched(c) ==
  \A d \in Clients \ {c} :
    /\ pc'[d] = pc[d]
    /\ id'[d] = id[d]
    /\ new'[d] = new[d]
    /\ seen'[d] = seen[d]

(* One step of a request keeps the shape of all requests when it leaves    *)
(* the others alone and is itself left well-formed.                        *)
LEMMA RequestsKept ==
  ASSUME RequestsOK, NEW c \in Clients, Untouched(c),
         pc' \in [Clients -> {"idle"} \cup AboutUsers \cup AboutTenants],
         id' \in [Clients -> Users \cup Tenants \cup {Nothing}],
         new' \in [Clients -> Emails \cup Names \cup {Nothing}],
         seen' \in [Clients -> UserRows \cup {Nothing}],
         RequestOK(c)'
  PROVE  RequestsOK'
<1>1. ASSUME NEW d \in Clients PROVE RequestOK(d)'
  <2>1. CASE d = c BY <2>1
  <2>2. CASE d # c BY <2>2, <1>1 DEF RequestsOK, RequestOK, Untouched
  <2> QED BY <2>1, <2>2
<1> QED BY <1>1 DEF RequestsOK

(* A request that goes to a next place keeps its values.                   *)
LEMMA GoingKeeps ==
  ASSUME RequestsOK, NEW c \in Clients, NEW from, NEW to, Goes(c, from, to),
         \/ {from, to} \subseteq AboutUsers
         \/ {from, to} \subseteq AboutTenants,
         to \in {"read user", "check email", "write user"} =>
           from \in {"read user", "check email", "write user"},
         to \in {"check name", "insert tenant", "read tenant", "write tenant"} =>
           from \in {"check name", "insert tenant", "read tenant", "write tenant"},
         to \in HasRead => from \in HasRead
  PROVE  RequestsOK' /\ Untouched(c) /\ pc'[c] = to
<1>1. /\ pc' \in [Clients -> {"idle"} \cup AboutUsers \cup AboutTenants]
      /\ pc'[c] = to /\ pc[c] = from
  BY DEF RequestsOK, Goes, Move
<1>2. Untouched(c)
  BY DEF RequestsOK, Goes, Move, Untouched
<1>3. RequestOK(c)'
  BY <1>1 DEF RequestsOK, RequestOK, Goes, AboutUsers, AboutTenants
<1> QED BY <1>1, <1>2, <1>3, RequestsKept DEF RequestsOK, Goes

(* A request that ends has no values any more.                             *)
LEMMA EndingKeeps ==
  ASSUME RequestsOK, NEW c \in Clients, NEW from, Ends(c, from)
  PROVE  RequestsOK' /\ Untouched(c) /\ pc'[c] = "idle"
<1>1. /\ pc' \in [Clients -> {"idle"} \cup AboutUsers \cup AboutTenants]
      /\ pc'[c] = "idle"
  BY DEF RequestsOK, Ends, Move
<1>2. Untouched(c)
  BY DEF RequestsOK, Ends, Move, Untouched
<1>3. RequestOK(c)'
  BY <1>1 DEF RequestOK, AboutUsers, AboutTenants, HasRead
<1>4. /\ id' \in [Clients -> Users \cup Tenants \cup {Nothing}]
      /\ new' \in [Clients -> Emails \cup Names \cup {Nothing}]
      /\ seen' \in [Clients -> UserRows \cup {Nothing}]
  BY DEF RequestsOK, Ends
<1> QED BY <1>1, <1>2, <1>3, <1>4, RequestsKept

LEMMA AcceptKeeps ==
  ASSUME TypeOK, NEW c \in Clients,
         NEW place \in AboutUsers \cup AboutTenants, NEW i, NEW d,
         Accept(c, place, i, d), place \notin HasRead,
         place \in AboutUsers => i \in Users,
         place \in AboutTenants => i \in Tenants,
         d \in Emails \cup Names \cup {Nothing},
         place = "read user" => d \in Emails,
         place \in {"check name", "insert tenant", "read tenant", "write tenant"} => d \in Names
  PROVE  TypeOK' /\ Untouched(c) /\ pc'[c] = place
<1>1. /\ pc' \in [Clients -> {"idle"} \cup AboutUsers \cup AboutTenants]
      /\ pc'[c] = place
  BY DEF TypeOK, RequestsOK, Accept, Move
<1>2. Untouched(c)
  BY DEF TypeOK, RequestsOK, Accept, Move, Untouched
<1>3. /\ id' \in [Clients -> Users \cup Tenants \cup {Nothing}] /\ id'[c] = i
      /\ new' \in [Clients -> Emails \cup Names \cup {Nothing}] /\ new'[c] = d
      /\ seen' \in [Clients -> UserRows \cup {Nothing}]
  BY DEF TypeOK, RequestsOK, Accept, AboutUsers, AboutTenants
<1>4. RequestOK(c)'
  BY <1>1, <1>3 DEF RequestOK, HasRead
<1>5. RequestsOK'
  BY <1>1, <1>2, <1>3, <1>4, RequestsKept DEF TypeOK
<1> QED BY <1>1, <1>2, <1>5 DEF TypeOK, TenantsOK, Accept

LEMMA ReadingKeeps ==
  ASSUME TypeOK, NEW c \in Clients, NEW from \in AboutUsers, NEW to \in AboutUsers,
         ReadUser(c, from, to),
         to \in {"read user", "check email", "write user"} => from = "read user"
  PROVE  TypeOK' /\ Untouched(c) /\ pc'[c] = to /\ seen'[c] = users[id[c]]
<1>1. /\ pc' \in [Clients -> {"idle"} \cup AboutUsers \cup AboutTenants]
      /\ pc'[c] = to /\ pc[c] = from
  BY DEF TypeOK, RequestsOK, ReadUser, Move
<1>2. Untouched(c)
  BY DEF TypeOK, RequestsOK, ReadUser, Move, Untouched
<1>3. id[c] \in Users
  BY <1>1 DEF TypeOK, RequestsOK, RequestOK
<1>4. /\ seen' \in [Clients -> UserRows \cup {Nothing}]
      /\ seen'[c] = users[id[c]] /\ seen'[c] \in UserRows
  BY <1>3 DEF TypeOK, RequestsOK, ReadUser
<1>5. RequestOK(c)'
  BY <1>1, <1>3, <1>4 DEF TypeOK, RequestsOK, RequestOK, ReadUser, AboutUsers, AboutTenants
<1>6. RequestsOK'
  BY <1>1, <1>2, <1>4, <1>5, RequestsKept DEF TypeOK, RequestsOK, ReadUser
<1> QED BY <1>1, <1>2, <1>4, <1>6 DEF TypeOK, TenantsOK, ReadUser

---------------------------------------------------------------------------
(* The actions as they are counted below.                                  *)
LEMMA Steps ==
  ASSUME Next
  PROVE  \E c \in Clients :
           \/ \E u \in Users, e \in Emails : UserRequest(c, u, e)
           \/ \E t \in Tenants, n \in Names : TenantRequest(c, t, n)
           \/ CheckNewEmail(c) \/ CheckItsTenant(c) \/ CheckEmail(c)
           \/ GetUser(c) \/ ReadForUpdate(c) \/ ReadForDelete(c)
           \/ WriteUser(c) \/ Answer(c) \/ DeleteUser(c)
           \/ CheckName(c) \/ InsertTenant(c)
           \/ ReadTenant(c) \/ WriteTenant(c) \/ DeleteTenant(c)
           \/ Refuse(c)
BY DEF Next, UserStep, TenantStep

LEMMA InitOK == ASSUME AccountsAssumption, Init PROVE TypeOK
<1>1. users \in [Users -> UserRows]
  <2>1. 1 \in 1 .. MaxVersion
    BY DEF AccountsAssumption
  <2> QED BY <2>1 DEF Init, UserRows
<1>2. TenantsOK
  BY DEF AccountsAssumption, Init, TenantsOK, TenantRows
<1>3. RequestsOK
  BY DEF Init, RequestsOK, RequestOK, AboutUsers, AboutTenants, HasRead
<1> QED BY <1>1, <1>2, <1>3 DEF TypeOK

(* A step by c keeps the shape of everything, and the requests of others.  *)
LEMMA StepOK ==
  ASSUME AccountsAssumption, TypeOK, NEW c \in Clients,
           \/ \E u \in Users, e \in Emails : UserRequest(c, u, e)
           \/ \E t \in Tenants, n \in Names : TenantRequest(c, t, n)
           \/ CheckNewEmail(c) \/ CheckItsTenant(c) \/ CheckEmail(c)
           \/ GetUser(c) \/ ReadForUpdate(c) \/ ReadForDelete(c)
           \/ WriteUser(c) \/ Answer(c) \/ DeleteUser(c)
           \/ CheckName(c) \/ InsertTenant(c)
           \/ ReadTenant(c) \/ WriteTenant(c) \/ DeleteTenant(c)
           \/ Refuse(c)
  PROVE  TypeOK' /\ Untouched(c)
<1> USE DEF AboutUsers, AboutTenants, HasRead
<1>0. RequestsOK /\ RequestOK(c) /\ pc[c] \in {"idle"} \cup AboutUsers \cup AboutTenants
  BY DEF TypeOK, RequestsOK
<1>1. CASE \E u \in Users, e \in Emails : UserRequest(c, u, e)
  BY <1>1, AcceptKeeps DEF UserRequest
<1>2. CASE \E t \in Tenants, n \in Names : TenantRequest(c, t, n)
  BY <1>2, AcceptKeeps DEF TenantRequest
<1>3. CASE CheckNewEmail(c)
  BY <1>0, <1>3, GoingKeeps DEF CheckNewEmail, TypeOK, TenantsOK
<1>4. CASE CheckItsTenant(c)
  BY <1>0, <1>4, EndingKeeps DEF CheckItsTenant, TypeOK, TenantsOK
<1>5. CASE CheckEmail(c)
  BY <1>0, <1>5, GoingKeeps DEF CheckEmail, TypeOK, TenantsOK
<1>6. CASE GetUser(c)
  BY <1>6, ReadingKeeps DEF GetUser
<1>7. CASE ReadForUpdate(c)
  BY <1>7, ReadingKeeps DEF ReadForUpdate
<1>8. CASE ReadForDelete(c)
  BY <1>8, ReadingKeeps DEF ReadForDelete
<1>9. CASE WriteUser(c)
  <2>1. RequestsOK' /\ Untouched(c)
    BY <1>0, <1>9, GoingKeeps DEF WriteUser
  <2>2. id[c] \in Users /\ new[c] \in Emails /\ seen[c] \in UserRows
    BY <1>0, <1>9 DEF WriteUser, Goes, Move, RequestOK
  <2>3. seen[c].version + 1 \in 1 .. MaxVersion
    <3>1. seen[c].version \in 1 .. MaxVersion /\ seen[c].version < MaxVersion
      BY <2>2, <1>9 DEF WriteUser, UserRows
    <3> QED BY <3>1 DEF AccountsAssumption
  <2>4. users' \in [Users -> UserRows]
    BY <2>2, <2>3, <1>9 DEF WriteUser, TypeOK, UserRows
  <2> QED BY <2>1, <2>4, <1>9 DEF TypeOK, TenantsOK, WriteUser
<1>10. CASE Answer(c)
  BY <1>0, <1>10, EndingKeeps DEF Answer, TypeOK, TenantsOK
<1>11. CASE DeleteUser(c)
  <2>1. RequestsOK' /\ Untouched(c)
    BY <1>0, <1>11, EndingKeeps DEF DeleteUser
  <2>2. users' \in [Users -> UserRows]
    BY <1>11 DEF DeleteUser, TypeOK, UserRows
  <2> QED BY <2>1, <2>2, <1>11 DEF TypeOK, TenantsOK, DeleteUser
<1>12. CASE CheckName(c)
  BY <1>0, <1>12, GoingKeeps DEF CheckName, TypeOK, TenantsOK
<1>13. CASE InsertTenant(c)
  <2>1. RequestsOK' /\ Untouched(c)
    BY <1>0, <1>13, EndingKeeps DEF InsertTenant
  <2>2. id[c] \in Tenants /\ new[c] \in Names
    BY <1>0, <1>13 DEF InsertTenant, Ends, Move, RequestOK
  <2>3. TenantsOK'
    <3>1. PICK isActive \in BOOLEAN :
            tenants' = [t \in DOMAIN tenants \cup {id[c]} |->
                          IF t = id[c] THEN [name |-> new[c], active |-> isActive]
                                       ELSE tenants[t]]
      BY <1>13 DEF InsertTenant
    <3>2. [name |-> new[c], active |-> isActive] \in TenantRows
      BY <2>2 DEF TenantRows
    <3>3. DOMAIN tenants' = DOMAIN tenants \cup {id[c]}
      BY <3>1
    <3>4. tenants' \in [DOMAIN tenants' -> TenantRows]
      BY <3>1, <3>2, <3>3 DEF TypeOK, TenantsOK
    <3> QED BY <2>2, <3>3, <3>4 DEF TypeOK, TenantsOK
  <2> QED BY <2>1, <2>3, <1>13 DEF TypeOK, InsertTenant
<1>14. CASE ReadTenant(c)
  BY <1>0, <1>14, GoingKeeps DEF ReadTenant, TypeOK, TenantsOK
<1>15. CASE WriteTenant(c)
  <2>1. RequestsOK' /\ Untouched(c)
    BY <1>0, <1>15, EndingKeeps DEF WriteTenant
  <2>2. new[c] \in Names
    BY <1>0, <1>15 DEF WriteTenant, Ends, Move, RequestOK
  <2>3. TenantsOK'
    BY <2>2, <1>15 DEF WriteTenant, TypeOK, TenantsOK, TenantRows
  <2> QED BY <2>1, <2>3, <1>15 DEF TypeOK, WriteTenant
<1>16. CASE DeleteTenant(c)
  <2>1. RequestsOK' /\ Untouched(c)
    BY <1>0, <1>16, EndingKeeps DEF DeleteTenant
  <2>2. TenantsOK'
    BY <1>16 DEF DeleteTenant, TypeOK, TenantsOK, TenantRows
  <2> QED BY <2>1, <2>2, <1>16 DEF TypeOK, DeleteTenant
<1>17. CASE Refuse(c)
  BY <1>0, <1>17, EndingKeeps DEF Refuse, TypeOK, TenantsOK
<1> QED BY <1>1, <1>2, <1>3, <1>4, <1>5, <1>6, <1>7, <1>8, <1>9, <1>10,
           <1>11, <1>12, <1>13, <1>14, <1>15, <1>16, <1>17

LEMMA StutterOK == ASSUME TypeOK, UNCHANGED vars PROVE TypeOK'
BY DEF TypeOK, TenantsOK, RequestsOK, RequestOK, vars

(* The two tables and the requests of all clients keep their shape, and no *)
(* user is without the row of its tenant.                                  *)
THEOREM TypeCorrect == Spec => []TypeOK
<1>1. Init => TypeOK
  BY InitOK, AccountsAssumption
<1>2. TypeOK /\ [Next]_vars => TypeOK'
  BY Steps, StepOK, StutterOK, AccountsAssumption
<1> QED BY <1>1, <1>2, PTL DEF Spec

---------------------------------------------------------------------------
(* What a request has read is what the row is, or the row has moved on: to *)
(* a later version or, at the same one, to a deleted row.                  *)
Behind(c) ==
  pc[c] \in HasRead =>
    /\ seen[c].version <= users[id[c]].version
    /\ AsSeen(c) => seen[c] = users[id[c]]

(* The only steps that change a user, and what all others leave.           *)
LEMMA OthersWriteNoUser ==
  ASSUME TypeOK, NEW c \in Clients,
           \/ \E u \in Users, e \in Emails : UserRequest(c, u, e)
           \/ \E t \in Tenants, n \in Names : TenantRequest(c, t, n)
           \/ CheckNewEmail(c) \/ CheckItsTenant(c) \/ CheckEmail(c)
           \/ GetUser(c) \/ ReadForUpdate(c) \/ ReadForDelete(c)
           \/ Answer(c) \/ CheckName(c) \/ InsertTenant(c)
           \/ ReadTenant(c) \/ WriteTenant(c) \/ DeleteTenant(c)
           \/ Refuse(c)
  PROVE  /\ users' = users
         /\ \/ pc'[c] \notin HasRead
            \/ pc[c] \in HasRead /\ id'[c] = id[c] /\ seen'[c] = seen[c]
            \/ id'[c] = id[c] /\ seen'[c] = users[id[c]]
<1> USE DEF HasRead
<1>0. /\ pc \in [Clients -> {"idle"} \cup AboutUsers \cup AboutTenants]
      /\ seen \in [Clients -> UserRows \cup {Nothing}]
  BY DEF TypeOK, RequestsOK
<1>1. CASE \E u \in Users, e \in Emails : UserRequest(c, u, e)
  BY <1>0, <1>1 DEF UserRequest, Accept, Move
<1>2. CASE \E t \in Tenants, n \in Names : TenantRequest(c, t, n)
  BY <1>0, <1>2 DEF TenantRequest, Accept, Move
<1>3. CASE \/ CheckNewEmail(c) \/ CheckEmail(c)
           \/ CheckName(c) \/ ReadTenant(c)
  BY <1>0, <1>3 DEF CheckNewEmail, CheckEmail, CheckName, ReadTenant, Goes, Move
<1>4. CASE \/ CheckItsTenant(c) \/ Answer(c) \/ InsertTenant(c)
           \/ WriteTenant(c) \/ DeleteTenant(c) \/ Refuse(c)
  BY <1>0, <1>4 DEF CheckItsTenant, Answer, InsertTenant, WriteTenant, DeleteTenant, Refuse, Ends, Move
<1>5. CASE GetUser(c) \/ ReadForUpdate(c) \/ ReadForDelete(c)
  BY <1>0, <1>5 DEF GetUser, ReadForUpdate, ReadForDelete, ReadUser
<1> QED BY <1>1, <1>2, <1>3, <1>4, <1>5

(* What WriteUser and DeleteUser do to the row, seen by who has read it.   *)
LEMMA WriteMovesOn ==
  ASSUME TypeOK, NEW c \in Clients, WriteUser(c)
  PROVE  /\ id[c] \in Users /\ pc[c] \in HasRead /\ pc'[c] \notin HasRead
         /\ AsSeen(c)
         /\ users' = [users EXCEPT ![id[c]] = users'[id[c]]]
         /\ users'[id[c]].version = users[id[c]].version + 1
         /\ id' = id /\ tenants' = tenants
<1>1. /\ pc[c] = "write user" /\ pc'[c] = "answer" /\ AsSeen(c)
      /\ users' = [users EXCEPT ![id[c]] =
                     [@ EXCEPT !.email = new[c], !.version = seen[c].version + 1]]
      /\ id' = id /\ tenants' = tenants
  BY DEF TypeOK, RequestsOK, WriteUser, Goes, Move
<1>2. id[c] \in Users
  BY <1>1 DEF TypeOK, RequestsOK, RequestOK, AboutUsers
<1> QED BY <1>1, <1>2 DEF TypeOK, UserRows, HasRead, AsSeen

LEMMA DeleteMovesOn ==
  ASSUME TypeOK, NEW c \in Clients, DeleteUser(c)
  PROVE  /\ id[c] \in Users /\ pc[c] \in HasRead /\ pc'[c] \notin HasRead
         /\ AsSeen(c)
         /\ users' = [users EXCEPT ![id[c]] = users'[id[c]]]
         /\ users'[id[c]].version = users[id[c]].version
         /\ ~users'[id[c]].active
         /\ tenants' = tenants
<1>1. /\ pc[c] = "delete user" /\ pc'[c] = "idle" /\ AsSeen(c)
      /\ users' = [users EXCEPT ![id[c]].active = FALSE]
      /\ tenants' = tenants
  BY DEF TypeOK, RequestsOK, DeleteUser, Ends, Move
<1>2. id[c] \in Users
  BY <1>1 DEF TypeOK, RequestsOK, RequestOK, AboutUsers
<1> QED BY <1>1, <1>2 DEF TypeOK, UserRows, HasRead

IInv == TypeOK /\ \A c \in Clients : Behind(c)

LEMMA InitBehind == ASSUME AccountsAssumption, Init PROVE IInv
BY InitOK DEF Init, IInv, Behind, HasRead

LEMMA StepBehind == ASSUME AccountsAssumption, IInv, Next PROVE IInv'
<1>1. PICK c \in Clients :
           \/ \E u \in Users, e \in Emails : UserRequest(c, u, e)
           \/ \E t \in Tenants, n \in Names : TenantRequest(c, t, n)
           \/ CheckNewEmail(c) \/ CheckItsTenant(c) \/ CheckEmail(c)
           \/ GetUser(c) \/ ReadForUpdate(c) \/ ReadForDelete(c)
           \/ WriteUser(c) \/ Answer(c) \/ DeleteUser(c)
           \/ CheckName(c) \/ InsertTenant(c)
           \/ ReadTenant(c) \/ WriteTenant(c) \/ DeleteTenant(c)
           \/ Refuse(c)
  BY Steps
<1>2. TypeOK /\ TypeOK' /\ Untouched(c)
  BY <1>1, StepOK DEF IInv
<1>3. ASSUME NEW d \in Clients PROVE Behind(d)'
  <2>1. SUFFICES ASSUME pc'[d] \in HasRead
                 PROVE  /\ seen'[d].version <= users'[id'[d]].version
                        /\ AsSeen(d)' => seen'[d] = users'[id'[d]]
    BY DEF Behind
  <2>2. Behind(d) /\ Behind(c)
    BY DEF IInv
  <2>3. CASE WriteUser(c) \/ DeleteUser(c)
    <3>1. /\ id[c] \in Users /\ pc'[c] \notin HasRead
          /\ users' = [users EXCEPT ![id[c]] = users'[id[c]]]
          /\ \/ users'[id[c]].version = users[id[c]].version + 1
             \/ users'[id[c]].version = users[id[c]].version /\ ~users'[id[c]].active
      BY <2>3, <1>2, WriteMovesOn, DeleteMovesOn
    <3>2. d # c
      BY <2>1, <3>1
    <3>3. pc[d] \in HasRead /\ id'[d] = id[d] /\ seen'[d] = seen[d]
      BY <1>2, <2>1, <3>2 DEF Untouched
    <3>4. id[d] \in Users /\ seen[d] \in UserRows
      BY <1>2, <3>3 DEF TypeOK, RequestsOK, RequestOK, HasRead, AboutUsers
    <3>5. CASE id[d] # id[c]
      <4>1. users'[id[d]] = users[id[d]]
        BY <1>2, <3>1, <3>4, <3>5 DEF TypeOK
      <4> QED BY <2>2, <3>3, <4>1 DEF Behind, AsSeen
    <3>6. CASE id[d] = id[c]
      <4>1. /\ seen[d].version \in Int /\ users[id[c]].version \in Int
            /\ seen[d].version <= users[id[c]].version
        <5>1. users[id[c]] \in UserRows
          BY <1>2, <3>1 DEF TypeOK
        <5>2. seen[d].version <= users[id[d]].version
          BY <2>2, <3>3 DEF Behind
        <5> QED BY <3>4, <3>6, <5>1, <5>2 DEF UserRows
      <4>2. CASE users'[id[c]].version = users[id[c]].version + 1
        BY <3>3, <3>6, <4>1, <4>2 DEF AsSeen
      <4>3. CASE users'[id[c]].version = users[id[c]].version /\ ~users'[id[c]].active
        BY <3>3, <3>6, <4>1, <4>3 DEF AsSeen
      <4> QED BY <3>1, <4>2, <4>3
    <3> QED BY <3>5, <3>6
  <2>4. CASE ~(WriteUser(c) \/ DeleteUser(c))
    <3>1. /\ users' = users
          /\ \/ pc'[c] \notin HasRead
             \/ pc[c] \in HasRead /\ id'[c] = id[c] /\ seen'[c] = seen[c]
             \/ id'[c] = id[c] /\ seen'[c] = users[id[c]]
      BY <1>1, <1>2, <2>4, OthersWriteNoUser
    <3>2. CASE d # c
      BY <1>2, <2>1, <2>2, <3>1, <3>2 DEF Untouched, Behind, AsSeen
    <3>3. CASE d = c /\ seen'[c] = users[id[c]] /\ id'[c] = id[c]
      <4>1. id[c] \in Users
        BY <1>2, <2>1, <3>3 DEF TypeOK, RequestsOK, RequestOK, HasRead, AboutUsers
      <4>2. users[id[c]].version \in Int
        BY <1>2, <4>1 DEF TypeOK, UserRows
      <4> QED BY <3>1, <3>3, <4>2
    <3>4. CASE d = c /\ pc[c] \in HasRead /\ id'[c] = id[c] /\ seen'[c] = seen[c]
      BY <2>2, <3>1, <3>4 DEF Behind, AsSeen
    <3> QED BY <2>1, <3>1, <3>2, <3>3, <3>4
  <2> QED BY <2>3, <2>4
<1> QED BY <1>2, <1>3 DEF IInv

LEMMA Inductive == Spec => []IInv
<1>1. Init => IInv
  BY InitBehind, AccountsAssumption
<1>2. IInv /\ [Next]_vars => IInv'
  <2>1. ASSUME IInv, UNCHANGED vars PROVE IInv'
    BY <2>1, StutterOK DEF IInv, Behind, AsSeen, vars
  <2> QED BY <2>1, StepBehind, AccountsAssumption
<1> QED BY <1>1, <1>2, PTL DEF Spec

(* A step that changes users is a write of one that was read as it is.     *)
LEMMA WhoWrites ==
  ASSUME AccountsAssumption, IInv, Next, users' # users
  PROVE  \E c \in Clients :
           /\ WriteUser(c) \/ DeleteUser(c)
           /\ id[c] \in Users /\ pc'[c] # pc[c]
           /\ seen[c] = users[id[c]] /\ users[id[c]].active
           /\ users' = [users EXCEPT ![id[c]] = users'[id[c]]]
<1>1. PICK c \in Clients : WriteUser(c) \/ DeleteUser(c)
  BY Steps, OthersWriteNoUser DEF IInv
<1>2. /\ id[c] \in Users /\ pc[c] \in HasRead /\ pc'[c] \notin HasRead /\ AsSeen(c)
      /\ users' = [users EXCEPT ![id[c]] = users'[id[c]]]
  BY <1>1, WriteMovesOn, DeleteMovesOn DEF IInv
<1>3. seen[c] = users[id[c]] /\ users[id[c]].active
  BY <1>2 DEF IInv, Behind, AsSeen
<1> QED BY <1>1, <1>2, <1>3

(* No update of a user is lost: a write replaces the row its request read. *)
THEOREM UpdatesAreNotLost == Spec => WritesFollowReads
<1>1. ASSUME IInv, [Next]_vars
      PROVE  [\A u \in Users :
                users'[u] # users[u] =>
                  \E c \in Clients : pc'[c] # pc[c] /\ id[c] = u /\ seen[c] = users[u]]_vars
  <2>1. CASE users' = users BY <2>1
  <2>2. CASE UNCHANGED vars BY <2>2
  <2>3. CASE Next /\ users' # users
    <3>1. PICK c \in Clients :
            /\ id[c] \in Users /\ pc'[c] # pc[c] /\ seen[c] = users[id[c]]
            /\ users' = [users EXCEPT ![id[c]] = users'[id[c]]]
      BY <1>1, <2>3, WhoWrites, AccountsAssumption
    <3>2. ASSUME NEW u \in Users, users'[u] # users[u] PROVE id[c] = u
      BY <1>1, <3>1, <3>2 DEF IInv, TypeOK
    <3> QED BY <3>1, <3>2
  <2> QED BY <1>1, <2>1, <2>2, <2>3
<1> QED BY <1>1, Inductive, PTL DEF Spec, WritesFollowReads

(* A tenant is changed only while it is active, and never lost.            *)
LEMMA TenantsFrozen ==
  ASSUME TypeOK, NEW c \in Clients,
           \/ \E u \in Users, e \in Emails : UserRequest(c, u, e)
           \/ \E t \in Tenants, n \in Names : TenantRequest(c, t, n)
           \/ CheckNewEmail(c) \/ CheckItsTenant(c) \/ CheckEmail(c)
           \/ GetUser(c) \/ ReadForUpdate(c) \/ ReadForDelete(c)
           \/ WriteUser(c) \/ Answer(c) \/ DeleteUser(c)
           \/ CheckName(c) \/ InsertTenant(c)
           \/ ReadTenant(c) \/ WriteTenant(c) \/ DeleteTenant(c)
           \/ Refuse(c)
  PROVE  \A t \in DOMAIN tenants :
           /\ t \in DOMAIN tenants'
           /\ ~tenants[t].active => tenants'[t] = tenants[t]
<1>1. CASE InsertTenant(c)
  BY <1>1 DEF InsertTenant, TypeOK, TenantsOK
<1>2. CASE WriteTenant(c)
  BY <1>2 DEF WriteTenant, ActiveTenant, TypeOK, TenantsOK
<1>3. CASE DeleteTenant(c)
  BY <1>3 DEF DeleteTenant, ActiveTenant, TypeOK, TenantsOK
<1>4. CASE ~(InsertTenant(c) \/ WriteTenant(c) \/ DeleteTenant(c))
  <2>1. tenants' = tenants
    BY <1>4 DEF UserRequest, TenantRequest, Accept, CheckNewEmail, CheckItsTenant, CheckEmail,
       GetUser, ReadForUpdate, ReadForDelete, ReadUser, WriteUser, Answer, DeleteUser,
       CheckName, ReadTenant, Refuse
  <2> QED BY <2>1
<1> QED BY <1>1, <1>2, <1>3, <1>4

(* What is deleted stays as it was.                                        *)
THEOREM DeletedIsFrozen == Spec => DeletedStaysAsItWas
<1>1. ASSUME IInv, [Next]_vars
      PROVE  [/\ \A u \in Users : ~users[u].active => users'[u] = users[u]
              /\ \A t \in DOMAIN tenants :
                   /\ t \in DOMAIN tenants'
                   /\ ~tenants[t].active => tenants'[t] = tenants[t]]_vars
  <2>1. CASE UNCHANGED vars BY <2>1
  <2>2. CASE Next
    <3>1. \A t \in DOMAIN tenants :
            /\ t \in DOMAIN tenants'
            /\ ~tenants[t].active => tenants'[t] = tenants[t]
      BY <1>1, <2>2, Steps, TenantsFrozen DEF IInv
    <3>2. ASSUME NEW u \in Users, ~users[u].active PROVE users'[u] = users[u]
      <4>1. CASE users' = users BY <4>1
      <4>2. CASE users' # users
        <5>1. PICK c \in Clients :
                /\ id[c] \in Users /\ users[id[c]].active
                /\ users' = [users EXCEPT ![id[c]] = users'[id[c]]]
          BY <1>1, <2>2, <4>2, WhoWrites, AccountsAssumption
        <5> QED BY <1>1, <3>2, <5>1 DEF IInv, TypeOK
      <4> QED BY <4>1, <4>2
    <3> QED BY <3>1, <3>2
  <2> QED BY <1>1, <2>1, <2>2
<1> QED BY <1>1, Inductive, PTL DEF Spec, DeletedStaysAsItWas
=============================================================================
