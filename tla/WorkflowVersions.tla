-------------------------- MODULE WorkflowVersions --------------------------
(***************************************************************************)
(* The versions of one workflow of one tenant: Create, CreateFromText,     *)
(* Update, Rollback and Delete of internal/services/workflow.go over the   *)
(* table workflows of internal/repository/workflow.go, in the transactions *)
(* of pkg/postgres/unit_of_work.go.  Versions of other names share no row, *)
(* lock or index entry with these.                                         *)
(*                                                                         *)
(* The database runs READ COMMITTED: a statement sees what is committed    *)
(* when it starts, a row lock is waited for, and what it was asked for is  *)
(* then looked at again.  The writes of a transaction are told from its    *)
(* place, and appear together when it commits.                             *)
(***************************************************************************)
EXTENDS Integers, FiniteSets

CONSTANTS
  Clients,    (* Requests are made by clients, each with one at a time.    *)
  NoClient,
  MaxVersion, (* A bound: the last version an Update may create.           *)
  Attempts,   (* maxRetries of CreateFromText.                             *)
  ModelCalls  (* MaxRetries of GenerateDAGFromText.                        *)

ASSUME VersionsAssumption ==
  /\ NoClient \notin Clients
  /\ MaxVersion \in Nat \ {0}
  /\ Attempts \in Nat \ {0}
  /\ ModelCalls \in Nat \ {0}

VARIABLES
  oneCurrent, (* Whether the table has the index idx_workflows_one_current.*)
  exists,     (* The versions with a committed row,                        *)
  current,    (* those of them with is_current,                            *)
  active,     (* and those with is_active.                                 *)
  lockedBy,   (* version -> the transaction that holds its row.            *)
  pc,         (* Where the request of each client is, or how it ended.     *)
  base,       (* Its CurrentVersion.                                       *)
  target,     (* Its TargetVersion.                                        *)
  todo,       (* The rows a Delete has still to lock.                      *)
  asked       (* How often a CreateFromText has called the language model. *)

table == <<exists, current, active>>
vars == <<oneCurrent, table, lockedBy, pc, base, target, todo, asked>>

Versions == 1 .. MaxVersion

Ended == {"done", "conflict", "failed"}

InTransaction ==
  {"lock", "insert", "commit update",
   "lock current", "lock target", "commit rollback",
   "delete", "lock rows", "commit delete"}

Places == Ended \cup InTransaction \cup {"ask", "create"}

(* Every database may be met: the migrations create the index, and the     *)
(* queries are written so that they need none.                             *)
Init ==
  /\ oneCurrent \in BOOLEAN
  /\ exists = {}
  /\ current = {}
  /\ active = {}
  /\ lockedBy = [v \in Versions |-> NoClient]
  /\ pc = [c \in Clients |-> "done"]
  /\ base = [c \in Clients |-> 1]
  /\ target = [c \in Clients |-> 1]
  /\ todo = [c \in Clients |-> {}]
  /\ asked = [c \in Clients |-> 0]

---------------------------------------------------------------------------
(* What the database answers.                                              *)

(* The rows of Get when it is given no version; those of ListVersions.     *)
Found == current
Listed == active

(* A slip: the WHERE of GetForUpdate leaves is_current out.                *)
MatchesListed(v) == v \in active

(* The WHERE of GetForUpdate, which both its callers give isCurrent.       *)
Matches(v) == v \in current \cap active

(* An INSERT meets UNIQUE (tenant_id, name, version) or the index on the   *)
(* current row.                                                            *)
Refused(v) == v \in exists \/ (oneCurrent /\ current # {})

Go(c, place) == pc' = [pc EXCEPT ![c] = place]

Move(c, from, to) == pc[c] = from /\ Go(c, to)

(* A slip: the deferred Rollback is missing.                               *)
UnlockedNever(c) == lockedBy

Unlocked(c) == [v \in Versions |-> IF lockedBy[v] = c THEN NoClient ELSE lockedBy[v]]

(* Commit, or the deferred Rollback: the transaction lets go of its rows.  *)
Release(c) == lockedBy' = Unlocked(c)

(* A slip: SELECT without FOR UPDATE.                                      *)
GetUnlocked(c, v) ==
  /\ Matches(v)
  /\ UNCHANGED lockedBy

(* SELECT ... FOR UPDATE of one row.  One that matches and is held by      *)
(* another is waited for, one that does not match is not.                  *)
GetForUpdate(c, v) ==
  /\ Matches(v)
  /\ lockedBy[v] \in {NoClient, c}
  /\ lockedBy' = [lockedBy EXCEPT ![v] = c]

(* "workflow was modified by another request"                              *)
NoRow(c, v) ==
  /\ ~Matches(v)
  /\ Go(c, "conflict")
  /\ Release(c)

---------------------------------------------------------------------------
(* A request comes.                                                        *)

Accept(c, first, v, w) ==
  /\ pc[c] \in Ended
  /\ Go(c, first)
  /\ base' = [base EXCEPT ![c] = v]
  /\ target' = [target EXCEPT ![c] = w]
  /\ UNCHANGED <<oneCurrent, table, lockedBy, todo, asked>>

Create(c) == Accept(c, "create", 1, 1)

CreateFromText(c) == Accept(c, "ask", 1, 1)

Update(c) == \E v \in Versions \ {MaxVersion} : Accept(c, "lock", v, 1)

Rollback(c) == \E v, w \in Versions : Accept(c, "lock current", v, w)

Delete(c) == Accept(c, "delete", 1, 1)

(* A list of steps is no plan, or a call of the database fails: nothing of *)
(* the transaction remains, and the request is forgotten.                  *)
Abort(c) ==
  /\ pc[c] \in InTransaction \cup {"create"}
  /\ Go(c, "failed")
  /\ Release(c)
  /\ base' = [base EXCEPT ![c] = 1]
  /\ target' = [target EXCEPT ![c] = 1]
  /\ todo' = [todo EXCEPT ![c] = {}]
  /\ UNCHANGED <<oneCurrent, table, asked>>

---------------------------------------------------------------------------
(* Create and CreateFromText: one INSERT of version 1.                     *)

Inserted(v) ==
  /\ exists' = exists \cup {v}
  /\ active' = active \cup {v}

CreateFirst(c) ==
  /\ pc[c] = "create"
  /\ IF Refused(1)
     THEN Go(c, "conflict") /\ UNCHANGED table
     ELSE Go(c, "done") /\ Inserted(1) /\ current' = current \cup {1}
  /\ UNCHANGED <<oneCurrent, lockedBy, base, target, todo, asked>>

(* The next call of the model within this attempt, or the first of the     *)
(* next attempt.                                                           *)
NextCall(c) == asked[c] + 1
NextAttempt(c) == (asked[c] \div ModelCalls + 1) * ModelCalls

(* A slip: one attempt too many.                                           *)
AskOnceMore(c, n) ==
  IF n <= Attempts * ModelCalls
  THEN asked' = [asked EXCEPT ![c] = n] /\ Go(c, "ask")
  ELSE asked' = [asked EXCEPT ![c] = 0] /\ Go(c, "failed")

AskAgain(c, n) ==
  IF n < Attempts * ModelCalls
  THEN asked' = [asked EXCEPT ![c] = n] /\ Go(c, "ask")
  ELSE asked' = [asked EXCEPT ![c] = 0] /\ Go(c, "failed")

(* The call fails or its answer is no list of steps: asked again at once.  *)
(* The list is no plan: the attempt is over.  Otherwise it is stored.      *)
Ask(c) ==
  /\ pc[c] = "ask"
  /\ \/ AskAgain(c, NextCall(c))
     \/ AskAgain(c, NextAttempt(c))
     \/ asked' = [asked EXCEPT ![c] = 0] /\ Go(c, "create")
  /\ UNCHANGED <<oneCurrent, table, lockedBy, base, target, todo>>

---------------------------------------------------------------------------
(* Update: lock the row, insert the next version, clear is_current.        *)

LockRow(c) ==
  /\ pc[c] = "lock"
  /\ \/ GetForUpdate(c, base[c]) /\ Go(c, "insert")
     \/ NoRow(c, base[c])
  /\ UNCHANGED <<oneCurrent, table, base, target, todo, asked>>

(* A transaction sees its own row, so that the index refuses the insert as *)
(* long as is_current of the old one is not cleared.                       *)
InsertNext(c) ==
  /\ pc[c] = "insert"
  /\ IF Refused(base[c] + 1)
     THEN Go(c, "conflict") /\ Release(c)
     ELSE Go(c, "commit update") /\ UNCHANGED lockedBy
  /\ UNCHANGED <<oneCurrent, table, base, target, todo, asked>>

(* A slip: the old row stays current.                                      *)
CommitUpdateUncleared(c) ==
  /\ Move(c, "commit update", "done")
  /\ Inserted(base[c] + 1)
  /\ current' = current \cup {base[c] + 1}
  /\ Release(c)
  /\ UNCHANGED <<oneCurrent, base, target, todo, asked>>

(* The update by id finds the row it has locked.                           *)
CommitUpdate(c) ==
  /\ Move(c, "commit update", "done")
  /\ Inserted(base[c] + 1)
  /\ current' = (current \ {base[c]}) \cup {base[c] + 1}
  /\ Release(c)
  /\ UNCHANGED <<oneCurrent, base, target, todo, asked>>

---------------------------------------------------------------------------
(* Rollback: lock both rows, clear the current one, set the target.        *)

LockCurrent(c) ==
  /\ pc[c] = "lock current"
  /\ \/ GetForUpdate(c, base[c]) /\ Go(c, "lock target")
     \/ NoRow(c, base[c])
  /\ UNCHANGED <<oneCurrent, table, base, target, todo, asked>>

(* The target, too, is asked for with is_current.                          *)
LockTarget(c) ==
  /\ pc[c] = "lock target"
  /\ \/ GetForUpdate(c, target[c]) /\ Go(c, "commit rollback")
     \/ NoRow(c, target[c])
  /\ UNCHANGED <<oneCurrent, table, base, target, todo, asked>>

CommitRollback(c) ==
  /\ Move(c, "commit rollback", "done")
  /\ current' = (current \ {base[c]}) \cup {target[c]}
  /\ Release(c)
  /\ UNCHANGED <<oneCurrent, exists, active, base, target, todo, asked>>

---------------------------------------------------------------------------
(* Delete: one UPDATE of all rows of the name that its snapshot holds, old *)
(* versions and deleted ones included.                                     *)

(* A slip: only the current row is deleted.                                *)
SnapshotOfCurrent(c) ==
  /\ pc[c] = "delete"
  /\ todo' = [todo EXCEPT ![c] = current]
  /\ Go(c, IF exists = {} THEN "failed" ELSE "lock rows")
  /\ UNCHANGED <<oneCurrent, table, lockedBy, base, target, asked>>

Snapshot(c) ==
  /\ pc[c] = "delete"
  /\ todo' = [todo EXCEPT ![c] = exists]
  /\ Go(c, IF exists = {} THEN "failed" ELSE "lock rows")
  /\ UNCHANGED <<oneCurrent, table, lockedBy, base, target, asked>>

(* It takes them in any order: the statement asks for none.                *)
LockNextRow(c) ==
  /\ pc[c] = "lock rows"
  /\ \E v \in todo[c] :
       /\ lockedBy[v] = NoClient
       /\ lockedBy' = [lockedBy EXCEPT ![v] = c]
       /\ todo' = [todo EXCEPT ![c] = @ \ {v}]
       /\ Go(c, IF todo[c] = {v} THEN "commit delete" ELSE "lock rows")
  /\ UNCHANGED <<oneCurrent, table, base, target, asked>>

CommitDelete(c) ==
  /\ Move(c, "commit delete", "done")
  /\ active' = {v \in active : lockedBy[v] # c}
  /\ Release(c)
  /\ UNCHANGED <<oneCurrent, exists, current, base, target, todo, asked>>

---------------------------------------------------------------------------
(* Who waits for whom.                                                     *)

(* The rows a request asks for and has to wait for if another holds them.  *)
Awaits(c) ==
  {v \in Versions :
     \/ pc[c] \in {"lock", "lock current"} /\ v = base[c] /\ Matches(v)
     \/ pc[c] = "lock target" /\ v = target[c] /\ Matches(v)
     \/ pc[c] = "lock rows" /\ v \in todo[c]}

WaitsFor(c, d) == d # c /\ \E v \in Awaits(c) : lockedBy[v] = d

(* Each needs a row of another among them before it lets go of its own.    *)
Circle(C) ==
  \A c \in C : (\E d \in C : WaitsFor(c, d)) /\ (\E d \in C : WaitsFor(d, c))

Deadlocked(c) == \E C \in SUBSET Clients : c \in C /\ Circle(C)

---------------------------------------------------------------------------
Request(c) ==
  \/ Create(c)
  \/ CreateFromText(c)
  \/ Update(c)
  \/ Rollback(c)
  \/ Delete(c)

Proceed(c) ==
  \/ CreateFirst(c) \/ Ask(c)
  \/ LockRow(c) \/ InsertNext(c) \/ CommitUpdate(c)
  \/ LockCurrent(c) \/ LockTarget(c) \/ CommitRollback(c)
  \/ Snapshot(c) \/ LockNextRow(c) \/ CommitDelete(c)

Next == \E c \in Clients : Request(c) \/ Abort(c) \/ Proceed(c)

Spec == Init /\ [][Next]_vars

(* A request's goroutine runs, and the database grants a row to those that *)
(* queue for it in turn, so that none is passed over for ever.  PostgreSQL *)
(* looks for circles after deadlock_timeout, and aborts who finds one.     *)
FairSpec ==
  /\ Spec
  /\ \A c \in Clients : /\ SF_vars(Proceed(c))
                        /\ WF_vars(Deadlocked(c) /\ Abort(c))

---------------------------------------------------------------------------
TypeOK ==
  /\ oneCurrent \in BOOLEAN
  /\ exists \subseteq Versions
  /\ current \subseteq exists
  /\ active \subseteq exists
  /\ lockedBy \in [Versions -> Clients \cup {NoClient}]
  /\ pc \in [Clients -> Places]
  /\ base \in [Clients -> Versions]
  /\ target \in [Clients -> Versions]
  /\ todo \in [Clients -> SUBSET Versions]
  /\ asked \in [Clients -> 0 .. Attempts * ModelCalls - 1]

(* Get without a version, which triggers and shows a workflow, and the     *)
(* next Update expect one current row: Create, Update and Rollback keep it *)
(* exactly one, whatever they wait for and whichever of them abort, with   *)
(* the index and without.                                                  *)
ExactlyOneCurrent ==
  exists # {} => \E v \in exists : Found = {v}

(* ListVersions shows the active rows.  A Delete that meets an Update      *)
(* leaves the versions it did not see, never old ones without the current. *)
CurrentIsListed ==
  Listed # {} => Found \subseteq Listed

(* Once a Delete has taken all versions, no Update or Rollback that was    *)
(* under way brings the workflow back.                                     *)
DeletedForGood ==
  [][exists # {} /\ active = {} => active' = {}]_vars

(* Two Deletes of one workflow may deadlock, since they take its rows in   *)
(* orders of their own.  No other request is ever in such a circle: an     *)
(* Update asks for nothing once it holds its row, and the second row of a  *)
(* Rollback can only be the one it holds already.                          *)
OnlyDeletesDeadlock ==
  \A c \in Clients : Deadlocked(c) => pc[c] = "lock rows"

History == INSTANCE VersionHistory WITH rows <- exists, shown <- current, listed <- active

(* Requests of many clients, whatever they wait for and whichever abort,   *)
(* make one history: versions without a gap, each an edit of the one that  *)
(* was current and listed when it appeared, never forked; what is shown is *)
(* turned only to a listed version; and a Delete leaves none behind that   *)
(* is older than one it takes.                                             *)
OneHistory == History!Spec

(* No request waits for ever: those that fail let go of their rows, a      *)
(* circle of Deletes is broken up by the database, and the attempts of the *)
(* language model are counted.                                             *)
RequestsEnd ==
  \A c \in Clients : pc[c] \notin Ended ~> pc[c] \in Ended

(* A conflict means that another request came first: an Update that holds  *)
(* the current, active row is not refused.  docs/ARCHITECTURE.md:11 has    *)
(* editors "create, edit, delete, and manually trigger workflows".         *)
EditsLand ==
  [][\A c \in Clients :
       pc[c] = "insert" /\ lockedBy[base[c]] = c => pc'[c] # "conflict"]_vars
=============================================================================
