---------------------------- MODULE JobDispatch ----------------------------
(***************************************************************************)
(* How an execution gets from the API to an engine: the executions table   *)
(* with its version column, the Redis list flowforge:jobs:queue, and in    *)
(* every worker process the poll loop, the Redis loop and the stuck-job    *)
(* sweep of internal/worker/handler/job_poller.go.                         *)
(*                                                                         *)
(* Both loops claim a row the same way: a transaction locks PENDING rows   *)
(* (FOR UPDATE SKIP LOCKED), marks them RUNNING with a compare-and-set on  *)
(* the version, commits, and only then hands each claimed job to the       *)
(* engine.  Between any two of those steps other workers, the API or a     *)
(* crash may intervene.                                                    *)
(*                                                                         *)
(* The engine is seen from here as a run that may write any status to its  *)
(* row with any version token it can guess; module Engine says which       *)
(* tokens it really uses.  What holds here holds for every such engine.    *)
(***************************************************************************)
EXTENDS Integers, Sequences, FiniteSets

CONSTANTS
  Execs,            (* Executions that may be triggered.                   *)
  Workers,          (* Worker processes.                                   *)
  NoExec,           (* "no execution in hand".                             *)
  NoTxn,            (* "row not locked".                                   *)
  BatchLimit,       (* Rows one poll may claim (5 in the code).            *)
  WorkflowVersion,  (* The version of the workflow row executions copy.    *)
  Allowance         (* How many faults of each kind may happen: a bound.   *)

Faults == {"crash", "lostPush", "dbError", "slow", "refused", "interim", "cancel"}

ASSUME DispatchAssumption ==
  /\ IsFiniteSet(Workers)
  /\ BatchLimit \in Nat \ {0}
  /\ WorkflowVersion \in Nat
  /\ Allowance \in [Faults -> Nat]
  /\ NoExec \notin Execs

Txns == Workers \X {"poll", "redis"}

ASSUME NoTxnAssumption == NoTxn \notin Txns

Statuses == {"ABSENT", "PENDING", "RUNNING", "SUCCESS", "FAILED", "CANCELLED",
             "SUSPENDED", "COMPENSATING"}

FinalStatuses == {"SUCCESS", "FAILED", "SUSPENDED"}

InterimStatuses == {"FAILED", "SUSPENDED", "COMPENSATING"}

Terminal == {"SUCCESS", "FAILED", "CANCELLED"}

Jobs == [id : Execs, version : Nat]

Runs == [worker : Workers, id : Execs, version : Nat]

VARIABLES
  status,     (* executions.status; "ABSENT" when there is no row.         *)
  version,    (* executions.version.                                       *)
  lockedBy,   (* The transaction that holds the row's lock.                *)
  created,    (* The rows in created_at order.                             *)
  stale,      (* Rows whose updated_at is over 15 minutes old.             *)
  queue,      (* The Redis list.                                           *)
  unsent,     (* Executions committed by Trigger and not yet pushed.       *)
  cancels,    (* Cancel requests that have read their row.                 *)
  up,         (* Worker processes that run.                                *)
  pc,         (* What each loop of a worker does.                          *)
  popped,     (* The id the Redis loop has taken off the list.             *)
  batch,      (* The jobs a loop has read, with the version it holds.      *)
  runs,       (* RunExecution goroutines.                                  *)
  launches,   (* How often each execution was given to an engine.          *)
  allowance   (* What is left of Allowance.                                *)

rows == <<status, version, stale>>
worker == <<pc, popped, batch>>
vars == <<status, version, lockedBy, created, stale, queue, unsent, cancels, up,
          pc, popped, batch, runs, launches, allowance>>

Spend(f) ==
  /\ allowance[f] > 0
  /\ allowance' = [allowance EXCEPT ![f] = @ - 1]

Unlocked(x) == lockedBy[x] = NoTxn

(* executionRepository.Update on one row, once its version has matched.    *)
Write(x, st) ==
  /\ status' = [status EXCEPT ![x] = st]
  /\ version' = [version EXCEPT ![x] = @ + 1]
  /\ stale' = stale \ {x}

(* executionRepository.Update: nothing changes when the version differs.   *)
Update(x, v, st) ==
  \/ version[x] = v /\ Write(x, st)
  \/ version[x] # v /\ UNCHANGED rows

(* Some loop or engine still works on x.                                   *)
Launching(t, x) == pc[t] = "launching" /\ \E j \in batch[t] : j.id = x

InHand(x) ==
  \/ \E r \in runs : r.id = x
  \/ \E t \in Txns : Launching(t, x)

---------------------------------------------------------------------------
Init ==
  /\ status = [x \in Execs |-> "ABSENT"]
  /\ version = [x \in Execs |-> 0]
  /\ lockedBy = [x \in Execs |-> NoTxn]
  /\ created = <<>>
  /\ stale = {}
  /\ queue = <<>>
  /\ unsent = {}
  /\ cancels = {}
  /\ up = Workers
  /\ pc = [t \in Txns |-> "idle"]
  /\ popped = [w \in Workers |-> NoExec]
  /\ batch = [t \in Txns |-> {}]
  /\ runs = {}
  /\ launches = [x \in Execs |-> 0]
  /\ allowance = Allowance

(***************************************************************************)
(* The API server.                                                         *)
(***************************************************************************)

(* Trigger: the execution and its steps are inserted in one transaction.   *)
Trigger(x) ==
  /\ status[x] = "ABSENT"
  /\ status' = [status EXCEPT ![x] = "PENDING"]
  /\ version' = [version EXCEPT ![x] = WorkflowVersion]
  /\ created' = Append(created, x)
  /\ unsent' = unsent \cup {x}
  /\ UNCHANGED <<lockedBy, stale, queue, cancels, up, worker, runs, launches, allowance>>

(* After the commit Trigger pushes the id; the push may fail, or the       *)
(* server may die before it.                                               *)
Push(x) ==
  /\ x \in unsent
  /\ unsent' = unsent \ {x}
  /\ \/ queue' = Append(queue, x) /\ UNCHANGED allowance
     \/ Spend("lostPush") /\ UNCHANGED queue
  /\ UNCHANGED <<rows, lockedBy, created, cancels, up, worker, runs, launches>>

(* Cancel reads the row, and refuses it unless it is RUNNING ...           *)
CancelRead(x) ==
  /\ status[x] = "RUNNING"
  /\ Spend("cancel")
  /\ cancels' = cancels \cup {[id |-> x, version |-> version[x]]}
  /\ UNCHANGED <<rows, lockedBy, created, queue, unsent, up, worker, runs, launches>>

(* A slip: the version is not compared.                                    *)
CancelWriteBlind(c) ==
  /\ c \in cancels
  /\ Unlocked(c.id)
  /\ cancels' = cancels \ {c}
  /\ Write(c.id, "CANCELLED")
  /\ UNCHANGED <<lockedBy, created, queue, unsent, up, worker, runs, launches, allowance>>

(* ... and then updates it with the version it read.                       *)
CancelWrite(c) ==
  /\ c \in cancels
  /\ Unlocked(c.id)
  /\ cancels' = cancels \ {c}
  /\ Update(c.id, c.version, "CANCELLED")
  /\ UNCHANGED <<lockedBy, created, queue, unsent, up, worker, runs, launches, allowance>>

(***************************************************************************)
(* The loops of a worker.                                                  *)
(***************************************************************************)

(* Slips used to show that the properties can fail: a plain SELECT, and a  *)
(* poll that only serves the ids still in the Redis list.                  *)
AcquirableIgnoringLocks == {x \in Execs : status[x] = "PENDING"}

(* The PENDING rows no transaction has locked.                             *)
Acquirable == {x \in Execs : status[x] = "PENDING" /\ Unlocked(x)}

Older(x, y) ==
  \E i, j \in DOMAIN created : i < j /\ created[i] = x /\ created[j] = y

OldestQueued == {x \in Acquirable : \E i \in DOMAIN queue : queue[i] = x}

(* AcquireForWorker: the oldest of them, at most BatchLimit.               *)
Oldest == {x \in Acquirable :
             Cardinality({y \in Acquirable : Older(y, x)}) < BatchLimit}

(* The transaction t locks the rows xs and keeps what it read of them.     *)
Lock(t, xs) ==
  /\ lockedBy' = [x \in Execs |-> IF x \in xs THEN t ELSE lockedBy[x]]
  /\ batch' = [batch EXCEPT ![t] = {[id |-> x, version |-> version[x]] : x \in xs}]
  /\ pc' = [pc EXCEPT ![t] = "locked"]

Poll(w) ==
  LET t == <<w, "poll">> IN
  /\ w \in up
  /\ pc[t] = "idle"
  /\ Oldest # {}
  /\ Lock(t, Oldest)
  /\ UNCHANGED <<rows, created, queue, unsent, cancels, up, popped, runs, launches,
                 allowance>>

(* BLPop takes the id off the list for good.                               *)
Pop(w) ==
  LET t == <<w, "redis">> IN
  /\ w \in up
  /\ pc[t] = "idle"
  /\ queue # <<>>
  /\ popped' = [popped EXCEPT ![w] = Head(queue)]
  /\ queue' = Tail(queue)
  /\ pc' = [pc EXCEPT ![t] = "popped"]
  /\ UNCHANGED <<rows, lockedBy, created, unsent, cancels, up, batch, runs, launches,
                 allowance>>

(* AcquireByIDForWorker: the row is taken if it is PENDING and unlocked;   *)
(* otherwise, or on a database error, the message is dropped.              *)
AcquireByID(w) ==
  LET t == <<w, "redis">> IN
  /\ pc[t] = "popped"
  /\ popped' = [popped EXCEPT ![w] = NoExec]
  /\ \/ /\ popped[w] \in Acquirable
        /\ Lock(t, {popped[w]})
        /\ UNCHANGED allowance
     \/ /\ popped[w] \notin Acquirable
        /\ pc' = [pc EXCEPT ![t] = "idle"]
        /\ UNCHANGED <<lockedBy, batch, allowance>>
     \/ /\ popped[w] \in Acquirable
        /\ Spend("dbError")
        /\ pc' = [pc EXCEPT ![t] = "idle"]
        /\ UNCHANGED <<lockedBy, batch>>
  /\ UNCHANGED <<rows, created, queue, unsent, cancels, up, runs, launches>>

(* The jobs whose row still has the version that was read.                 *)
Matching(t) == {j \in batch[t] : version[j.id] = j.version}

MatchingIds(t) == {j.id : j \in Matching(t)}

(* A slip: the transaction stays open.                                     *)
ReleaseNothing(t) == UNCHANGED lockedBy

Release(t) == lockedBy' = [x \in Execs |-> IF lockedBy[x] = t THEN NoTxn ELSE lockedBy[x]]

(* A slip: the row keeps its version.                                      *)
ClaimWithoutBump(t) ==
  /\ pc[t] = "locked"
  /\ status' = [x \in Execs |-> IF x \in MatchingIds(t) THEN "RUNNING" ELSE status[x]]
  /\ stale' = stale \ MatchingIds(t)
  /\ Release(t)
  /\ pc' = [pc EXCEPT ![t] = "launching"]
  /\ UNCHANGED <<version, batch, created, queue, unsent, cancels, up, popped, runs,
                 launches, allowance>>

(* The loop over the rows and the commit: each row is set RUNNING if its   *)
(* version still matches, and the version in memory follows.  poll goes on *)
(* past a conflict and keeps the job; processExecutionByID returns.        *)
Claim(t) ==
  LET kept == IF t[2] = "poll" THEN batch[t] ELSE Matching(t) IN
  /\ pc[t] = "locked"
  /\ status' = [x \in Execs |-> IF x \in MatchingIds(t) THEN "RUNNING" ELSE status[x]]
  /\ version' = [x \in Execs |-> IF x \in MatchingIds(t) THEN version[x] + 1 ELSE version[x]]
  /\ stale' = stale \ MatchingIds(t)
  /\ Release(t)
  /\ batch' = [batch EXCEPT ![t] =
       {IF j \in Matching(t) THEN [j EXCEPT !.version = @ + 1] ELSE j : j \in kept}]
  /\ pc' = [pc EXCEPT ![t] = IF kept = {} THEN "idle" ELSE "launching"]
  /\ UNCHANGED <<created, queue, unsent, cancels, up, popped, runs, launches, allowance>>

(* A database error before or in the commit: the transaction rolls back    *)
(* and the loop goes on to its next turn.                                  *)
Abort(t) ==
  /\ pc[t] = "locked"
  /\ Spend("dbError")
  /\ Release(t)
  /\ batch' = [batch EXCEPT ![t] = {}]
  /\ pc' = [pc EXCEPT ![t] = "idle"]
  /\ UNCHANGED <<rows, created, queue, unsent, cancels, up, popped, runs, launches>>

(* After the commit each job is handed over, one at a time.                *)
HandOver(t, j) ==
  /\ pc[t] = "launching"
  /\ j \in batch[t]
  /\ batch' = [batch EXCEPT ![t] = @ \ {j}]
  /\ pc' = [pc EXCEPT ![t] = IF batch[t] = {j} THEN "idle" ELSE "launching"]

(* The workflow is found: go RunExecution.                                 *)
Launch(t, j) ==
  /\ HandOver(t, j)
  /\ runs' = runs \cup {[worker |-> t[1], id |-> j.id, version |-> j.version]}
  /\ launches' = [launches EXCEPT ![j.id] = @ + 1]
  /\ UNCHANGED <<rows, lockedBy, created, queue, unsent, cancels, up, popped, allowance>>

(* A slip: it is marked FAILED whatever its version.                       *)
WorkflowMissingBlind(t, j) ==
  /\ HandOver(t, j)
  /\ Spend("dbError")
  /\ Unlocked(j.id)
  /\ Write(j.id, "FAILED")
  /\ UNCHANGED <<lockedBy, created, queue, unsent, cancels, up, popped, runs, launches>>

(* The workflow is not found: the execution is marked FAILED.              *)
WorkflowMissing(t, j) ==
  /\ HandOver(t, j)
  /\ Spend("dbError")
  /\ Unlocked(j.id)
  /\ Update(j.id, j.version, "FAILED")
  /\ UNCHANGED <<lockedBy, created, queue, unsent, cancels, up, popped, runs, launches>>

(* RecoverStuckJobs: one UPDATE, which leaves the version alone.           *)
Stuck == {x \in Execs : status[x] = "RUNNING" /\ x \in stale}

Recover(w) ==
  /\ w \in up
  /\ Stuck # {}
  /\ status' = [x \in Execs |-> IF x \in Stuck THEN "PENDING" ELSE status[x]]
  /\ stale' = stale \ Stuck
  /\ UNCHANGED <<version, lockedBy, created, queue, unsent, cancels, up, worker, runs,
                 launches, allowance>>

(***************************************************************************)
(* The engine, the clock, and the processes themselves.                    *)
(***************************************************************************)

(* Fifteen minutes pass without an update of the row.  That happens to a   *)
(* row somebody works on as well: the engine writes it only when it ends.  *)
Age(x) ==
  /\ status[x] = "RUNNING"
  /\ x \notin stale
  /\ stale' = stale \cup {x}
  /\ IF InHand(x) THEN Spend("slow") ELSE UNCHANGED allowance
  /\ UNCHANGED <<status, version, lockedBy, created, queue, unsent, cancels, up, worker,
                 runs, launches>>

(* A run ends with a write of its row that is applied ...                  *)
EngineFinish(r, st) ==
  /\ r \in runs
  /\ Unlocked(r.id)
  /\ Write(r.id, st)
  /\ runs' = runs \ {r}
  /\ UNCHANGED <<lockedBy, created, queue, unsent, cancels, up, worker, launches,
                 allowance>>

(* ... or with one that is refused because of its version.                 *)
EngineRefused(r) ==
  /\ r \in runs
  /\ Spend("refused")
  /\ runs' = runs \ {r}
  /\ UNCHANGED <<rows, lockedBy, created, queue, unsent, cancels, up, worker, launches>>

(* A write before the last one: a failed step, a suspension, the start of  *)
(* the compensation.                                                       *)
EngineInterim(r, st) ==
  /\ r \in runs
  /\ Unlocked(r.id)
  /\ Spend("interim")
  /\ Write(r.id, st)
  /\ UNCHANGED <<lockedBy, created, queue, unsent, cancels, up, worker, runs, launches>>

(* A worker dies, or is told to stop: main does not wait for its loops.    *)
(* Its open transactions roll back.                                        *)
Crash(w) ==
  /\ w \in up
  /\ Spend("crash")
  /\ up' = up \ {w}
  /\ pc' = [t \in Txns |-> IF t[1] = w THEN "idle" ELSE pc[t]]
  /\ batch' = [t \in Txns |-> IF t[1] = w THEN {} ELSE batch[t]]
  /\ popped' = [popped EXCEPT ![w] = NoExec]
  /\ lockedBy' = [x \in Execs |-> IF lockedBy[x] \in {<<w, "poll">>, <<w, "redis">>}
                                  THEN NoTxn ELSE lockedBy[x]]
  /\ runs' = {r \in runs : r.worker # w}
  /\ UNCHANGED <<rows, created, queue, unsent, cancels, launches>>

Restart(w) ==
  /\ w \notin up
  /\ up' = up \cup {w}
  /\ UNCHANGED <<rows, lockedBy, created, queue, unsent, cancels, worker, runs, launches,
                 allowance>>

---------------------------------------------------------------------------
Api == \/ \E x \in Execs : Trigger(x) \/ Push(x) \/ CancelRead(x)
       \/ \E c \in cancels : CancelWrite(c)

Loop(w) == \/ Poll(w)
           \/ Pop(w)
           \/ AcquireByID(w)
           \/ \E k \in {"poll", "redis"} :
                \/ Claim(<<w, k>>)
                \/ Abort(<<w, k>>)
                \/ \E j \in batch[<<w, k>>] :
                     Launch(<<w, k>>, j) \/ WorkflowMissing(<<w, k>>, j)

Engine(r) == \/ EngineRefused(r)
             \/ \E st \in FinalStatuses : EngineFinish(r, st)
             \/ \E st \in InterimStatuses : EngineInterim(r, st)

Next ==
  \/ Api
  \/ \E w \in Workers : Loop(w) \/ Recover(w) \/ Crash(w) \/ Restart(w)
  \/ \E x \in Execs : Age(x)
  \/ \E r \in runs : Engine(r)

(* The tickers of a worker that is up fire, the loops' steps end and time  *)
(* passes.  Nothing is assumed of the API's clients, of the Redis list     *)
(* (Pop carries no fairness), of the engine, whose run may hang, nor that  *)
(* a worker that has died is ever restarted.                               *)
Fairness ==
  /\ \A w \in Workers :
       /\ WF_vars(Poll(w))
       /\ WF_vars(AcquireByID(w))
       /\ WF_vars(Recover(w))
  /\ \A t \in Txns :
       /\ WF_vars(Claim(t))
       /\ WF_vars(\E j \in batch[t] : Launch(t, j))
  /\ \A x \in Execs : WF_vars(Age(x))

Spec == Init /\ [][Next]_vars

FairSpec == Spec /\ Fairness

---------------------------------------------------------------------------
(* The shape of the tables and of the loops: a lock belongs to a           *)
(* transaction that is open, and an idle loop holds nothing.               *)
TypeOK ==
  /\ status \in [Execs -> Statuses]
  /\ version \in [Execs -> Nat]
  /\ lockedBy \in [Execs -> Txns \cup {NoTxn}]
  /\ created \in Seq(Execs)
  /\ stale \subseteq Execs
  /\ queue \in Seq(Execs)
  /\ unsent \subseteq Execs
  /\ cancels \subseteq Jobs
  /\ up \subseteq Workers
  /\ pc \in [Txns -> {"idle", "popped", "locked", "launching"}]
  /\ popped \in [Workers -> Execs \cup {NoExec}]
  /\ batch \in [Txns -> SUBSET Jobs]
  /\ runs \subseteq Runs
  /\ launches \in [Execs -> Nat]
  /\ allowance \in [Faults -> Nat]
  /\ \A x \in Execs : ~Unlocked(x) => pc[lockedBy[x]] = "locked"
  /\ \A t \in Txns : batch[t] # {} => pc[t] \in {"locked", "launching"}

(* The compare-and-set of a claim cannot fail: while a transaction holds   *)
(* the lock of a row, the row stays PENDING at the version that was read,  *)
(* whatever the API, the sweep and old runs do.  poll keeps a job whose    *)
(* update failed in the list it launches from, so a conflict there would   *)
(* start an engine on a row it does not own.                               *)
ClaimNeverConflicts ==
  \A t \in Txns : pc[t] = "locked" => \A j \in batch[t] :
    lockedBy[j.id] = t /\ status[j.id] = "PENDING" /\ version[j.id] = j.version

(* Whoever works on an execution: its runs, and the claims on their way to *)
(* an engine.                                                              *)
Owners(x) ==
  {<<r.worker, "run", r.version>> : r \in {s \in runs : s.id = x}} \cup
  UNION {{<<t[1], t[2], j.version>> : j \in {k \in batch[t] : k.id = x}} :
           t \in {u \in Txns : pc[u] = "launching"}}

(* No two of them ever hold the same version, and none holds one the row   *)
(* has not reached: after a recovery the version still tells the old run   *)
(* from the new one.                                                       *)
OwnersHaveDistinctVersions ==
  \A x \in Execs : \A o, p \in Owners(x) :
    /\ o[3] = p[3] => o = p
    /\ o[3] <= version[x]

(* A finished execution stays as it is unless a run of it is still alive:  *)
(* neither a late cancel, nor the sweep, nor a claim, nor the FAILED mark  *)
(* of a missing workflow touches it.                                       *)
OnlyRunsReviveFinished ==
  [][\A x \in Execs : status[x] \in Terminal /\ status'[x] # status[x]
       => \E r \in runs : r.id = x]_vars

(* Each stay of an execution in PENDING feeds at most one engine: the      *)
(* dispatcher implements DispatchPermits.  A PENDING row is a permit that  *)
(* waits, and each claim on its way to an engine is a permit taken.        *)
Waiting == {x \in Execs : status[x] = "PENDING"}

Taken == [x \in Execs |-> Cardinality({t \in Txns : Launching(t, x)})]

Abstract == INSTANCE DispatchPermits
              WITH waiting <- Waiting, taken <- Taken, dispatched <- launches

EachPermitDispatchesOnce == Abstract!Spec

(* The rows of the table change as ExecutionRows says, which module Engine *)
(* keeps to as well: a claim takes PENDING rows; only a row that an engine *)
(* runs is marked freely; a cancel, and the FAILED mark of a claim whose   *)
(* workflow is missing, hit only what is RUNNING or put back by the sweep, *)
(* however long ago they read the row.                                     *)
Owned == {x \in Execs : InHand(x)}

Rows == INSTANCE ExecutionRows
          WITH owned <- Owned, running <- {x \in Execs : \E r \in runs : r.id = x},
               Resumable <- {}

RowsKeepTheContract == Rows!Spec

(* An execution whose row is PENDING or RUNNING and that nobody works on   *)
(* is taken up again, although messages are lost, transactions fail and    *)
(* workers crash: the poll finds what the list lost, and the sweep what a  *)
(* worker dropped, unless no worker is up any more.  Only these two: a row *)
(* that its worker left COMPENSATING or SUSPENDED is beyond both, and      *)
(* stays as it is.                                                         *)
Recoverable(x) == status[x] \in {"PENDING", "RUNNING"}

NeverAbandoned ==
  \A x \in Execs :
    Recoverable(x) /\ ~InHand(x) ~> InHand(x) \/ ~Recoverable(x) \/ up = {}
=============================================================================
