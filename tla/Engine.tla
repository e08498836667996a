------------------------------ MODULE Engine ------------------------------
(***************************************************************************)
(* RunExecution of internal/worker/service/engine.go: the layers of a      *)
(* plan, one goroutine per step of a layer with its retries, the channel   *)
(* of errors, suspension, compensation, and the marks it leaves in the     *)
(* tables executions and step_executions.  Several runs share the engine   *)
(* object of their worker, hence its version counter.                      *)
(*                                                                         *)
(* CompareVersions chooses the repositories the engine talks to.  TRUE:    *)
(* those of internal/repository, where an Update lands iff the version it  *)
(* names is that of the row.  FALSE: any implementation of the interfaces, *)
(* as the engine's tests mock them: an Update may land or be refused, for  *)
(* a version or for a database error.  What holds then is due to engine.go *)
(* alone.                                                                  *)
(*                                                                         *)
(* Left out: outputs and parameters, except for a condition's; retry_count *)
(* and error_log; broadcasts.                                              *)
(***************************************************************************)
EXTENDS Integers, Sequences, FiniteSets, Layering

CONSTANTS
  Execs,            (* Executions, PENDING at first.                       *)
  Runs,             (* RunExecution goroutines.                            *)
  WorkerOf,         (* The worker process, hence the engine, of each.      *)
  Steps,            (* The steps of the workflow.                          *)
  Workflows,        (* The workflows considered.                           *)
  CompareVersions,  (* Do the repositories compare versions?               *)
  Disturbances,     (* A bound: crashes, recoveries, cancels and resumes.  *)
  NoExec            (* "no execution".                                     *)

Actions == {"TASK", "CONDITION", "LOOP", "WAIT_FOR_EVENT", "COMPENSATION"}

(* A definition: the plan BuildExecutionPlan makes of it, whether it has   *)
(* one, the place of each step in the definition, and the fields of the    *)
(* steps.                                                                  *)
WorkflowType ==
  [valid : BOOLEAN, layers : Seq(SUBSET Steps), place : [Steps -> Nat],
   dependsOn : [Steps -> SUBSET Steps], action : [Steps -> Actions],
   maxRetries : [Steps -> Nat], compensatesFor : [Steps -> Steps]]

(* What module ExecutionPlanProofs shows of a plan.                        *)
Planned(w) == Layered(w.layers, w.dependsOn, Steps)

ASSUME EngineAssumption ==
  /\ \A w \in Workflows : w \in WorkflowType /\ (w.valid => Planned(w))
  /\ IsFiniteSet(Steps)
  /\ CompareVersions \in BOOLEAN
  /\ Disturbances \in Nat
  /\ NoExec \notin Execs

Workers == {WorkerOf[r] : r \in Runs}

ExecStatuses ==
  {"PENDING", "RUNNING", "SUCCESS", "FAILED", "CANCELLED", "SUSPENDED", "COMPENSATING"}

StepStatuses == {"PENDING", "RUNNING", "SUCCESS", "FAILED", "SUSPENDED"}

(* Where RunExecution is.                                                  *)
Phases == {"idle", "layer", "wait", "drain", "undo", "undoing", "fail"}

(* Where a step's goroutine is; the last five say what its action did.     *)
Results == {"ok", "unmet", "error", "suspend", "partial"}

Places == {"none", "begin", "get", "claim", "execute", "returned"} \cup Results

VARIABLES
  workflow,     (* The workflow of the executions.                         *)
  execStatus,   (* executions.status.                                      *)
  execVersion,  (* executions.version.                                     *)
  stepStatus,   (* step_executions.status.                                 *)
  stepVersion,  (* step_executions.version.                                *)
  unmet,        (* Steps whose recorded output says condition_met: false.  *)
  resuming,     (* ResumeExecution between its two updates.                *)
  cancels,      (* Cancel requests that have read their row.               *)
  counter,      (* engine.version of each worker.                          *)
  run,          (* The runs.                                               *)
  step,         (* Their step goroutines.                                  *)
  disturbances  (* What is left of Disturbances.                           *)

execRows == <<execStatus, execVersion>>
stepRows == <<stepStatus, stepVersion, unmet>>
vars == <<workflow, execStatus, execVersion, stepStatus, stepVersion, unmet, resuming,
          cancels, counter, run, step, disturbances>>

IdleRun == [exec |-> NoExec, phase |-> "idle", layer |-> 0, errs |-> <<>>,
            skipped |-> {}, suspended |-> FALSE, todo |-> {}]

IdleStep == [pc |-> "none", attempt |-> 0, token |-> 0]

DependsOn(s) == workflow.dependsOn[s]

Layer(r) == workflow.layers[run[r].layer]

(* A slip: a channel for a single error, whatever the layer.               *)
CapacityOne(r) == 1

(* The channel of errors of a layer: nobody reads it before all goroutines *)
(* of the layer have returned, so a send waits for ever once it is full.   *)
Capacity(r) == Cardinality(Layer(r))

HasRoom(r) == Len(run[r].errs) < Capacity(r)

Disturb == disturbances > 0 /\ disturbances' = disturbances - 1

(* An Update that names a version lands or is refused.                     *)
MayLand(match) == CompareVersions => match

MayBeRefused(match) == CompareVersions => ~match

(* Versions are counted only where they are compared.                      *)
Bump(n) == IF CompareVersions THEN n + 1 ELSE n

(* The context of a layer is cancelled by its first error, and every call  *)
(* to a repository made with it fails from then on.                        *)
Cancelled(r) == run[r].errs # <<>>

(* stepRepo.Update of the row of step s.                                   *)
LandStep(x, s, v, st) ==
  /\ MayLand(stepVersion[x][s] = v)
  /\ stepStatus' = [stepStatus EXCEPT ![x][s] = st]
  /\ stepVersion' = [stepVersion EXCEPT ![x][s] = Bump(@)]

RefuseStep(x, s, v) ==
  /\ MayBeRefused(stepVersion[x][s] = v)
  /\ UNCHANGED <<stepStatus, stepVersion>>

(* execRepo.Update of the row of a run with nextVersion().  The counter is *)
(* incremented without synchronisation: of two increments that meet, one   *)
(* may be lost and both calls get the same number.                         *)
OthersOf(w) ==
  {r \in Runs : WorkerOf[r] = w /\ run[r].phase # "idle"}

Numbers(r) ==
  LET n == counter[WorkerOf[r]] IN
  {Bump(n)} \cup IF OthersOf(WorkerOf[r]) # {r} THEN {n} ELSE {}

MarkExec(r, st, live) ==
  LET x == run[r].exec IN
  \E ver \in Numbers(r) :
    /\ counter' = [counter EXCEPT ![WorkerOf[r]] = ver]
    /\ \/ /\ live
          /\ MayLand(execVersion[x] = ver)
          /\ execStatus' = [execStatus EXCEPT ![x] = st]
          /\ execVersion' = [execVersion EXCEPT ![x] = Bump(@)]
       \/ /\ live => MayBeRefused(execVersion[x] = ver)
          /\ UNCHANGED execRows

---------------------------------------------------------------------------
Init ==
  /\ workflow \in Workflows
  /\ execStatus = [x \in Execs |-> "PENDING"]
  /\ execVersion = [x \in Execs |-> 1]
  /\ stepStatus = [x \in Execs |-> [s \in Steps |-> "PENDING"]]
  /\ stepVersion = [x \in Execs |-> [s \in Steps |-> 1]]
  /\ unmet = [x \in Execs |-> {}]
  /\ resuming = {}
  /\ cancels = {}
  /\ counter = [w \in Workers |-> 0]
  /\ run = [r \in Runs |-> IdleRun]
  /\ step = [r \in Runs |-> [s \in Steps |-> IdleStep]]
  /\ disturbances = Disturbances

(***************************************************************************)
(* The main goroutine of a run.                                            *)
(***************************************************************************)

(* The poller claims the row (module JobDispatch tells how) and starts     *)
(* RunExecution, which resets the engine's counter and plans the workflow. *)
Start(r, x) ==
  /\ run[r].phase = "idle"
  /\ execStatus[x] = "PENDING"
  /\ execStatus' = [execStatus EXCEPT ![x] = "RUNNING"]
  /\ execVersion' = [execVersion EXCEPT ![x] = Bump(@)]
  /\ counter' = [counter EXCEPT ![WorkerOf[r]] = execVersion'[x]]
  /\ run' = [run EXCEPT ![r] =
       [IdleRun EXCEPT !.exec = x,
                       !.phase = IF workflow.valid THEN "layer" ELSE "fail",
                       !.layer = 1]]
  /\ UNCHANGED <<workflow, stepRows, resuming, cancels, step, disturbances>>

(* The next layer: a goroutine for each of its steps.                      *)
Spawn(r) ==
  /\ run[r].phase = "layer"
  /\ run[r].layer \in DOMAIN workflow.layers
  /\ run' = [run EXCEPT ![r].phase = "wait"]
  /\ step' = [step EXCEPT ![r] = [s \in Steps |->
                IF s \in Layer(r) THEN [IdleStep EXCEPT !.pc = "begin"] ELSE step[r][s]]]
  /\ UNCHANGED <<workflow, execRows, stepRows, resuming, cancels, counter,
                 disturbances>>

(* wg.Wait: all have returned, with an error or without.                   *)
Join(r) ==
  /\ run[r].phase = "wait"
  /\ \A s \in Layer(r) : step[r][s].pc = "returned"
  /\ run' = [run EXCEPT ![r].phase = IF Cancelled(r) THEN "drain" ELSE "layer",
                        ![r].layer = IF Cancelled(r) THEN @ ELSE @ + 1]
  /\ UNCHANGED <<workflow, execRows, stepRows, resuming, cancels, counter, step,
                 disturbances>>

EndRun(r) ==
  /\ run' = [run EXCEPT ![r] = IdleRun]
  /\ step' = [step EXCEPT ![r] = [s \in Steps |-> IdleStep]]

(* The errors are read in their order.  A suspension is noted ...          *)
DrainSuspension(r) ==
  /\ run[r].phase = "drain"
  /\ run[r].errs # <<>>
  /\ Head(run[r].errs) = "suspend"
  /\ MarkExec(r, "SUSPENDED", TRUE)
  /\ run' = [run EXCEPT ![r].errs = Tail(@), ![r].suspended = TRUE]
  /\ UNCHANGED <<workflow, stepRows, resuming, cancels, step, disturbances>>

(* ... and ends the run when no other error follows it.                    *)
Suspended(r) ==
  /\ run[r].phase = "drain"
  /\ run[r].errs = <<>>
  /\ EndRun(r)
  /\ UNCHANGED <<workflow, execRows, stepRows, resuming, cancels, counter,
                 disturbances>>

(* A slip: every compensation is run, whatever its target did.             *)
UndoableAlways(x) == {s \in Steps : workflow.action[s] = "COMPENSATION"}

(* The compensations whose target has succeeded.                           *)
Undoable(x) ==
  {s \in Steps : /\ workflow.action[s] = "COMPENSATION"
                 /\ stepStatus[x][workflow.compensatesFor[s]] = "SUCCESS"}

(* They are run in the order of the definition.                            *)
UndoesNext(r, s) ==
  /\ s \in run[r].todo
  /\ \A t \in run[r].todo : workflow.place[s] <= workflow.place[t]

(* Any other error starts the compensation, and the errors behind it are   *)
(* never read.  If the steps cannot be listed nothing is compensated.      *)
DrainError(r) ==
  /\ run[r].phase = "drain"
  /\ run[r].errs # <<>>
  /\ Head(run[r].errs) = "error"
  /\ \/ /\ MarkExec(r, "COMPENSATING", TRUE)
        /\ run' = [run EXCEPT ![r].phase = "undo", ![r].todo = Undoable(run[r].exec)]
        /\ step' = [step EXCEPT ![r] = [s \in Steps |->
                      [step[r][s] EXCEPT !.token = stepVersion[run[r].exec][s]]]]
     \/ /\ ~CompareVersions
        /\ run' = [run EXCEPT ![r].phase = "fail"]
        /\ UNCHANGED <<execRows, counter, step>>
  /\ UNCHANGED <<workflow, stepRows, resuming, cancels, disturbances>>

(* A compensation is marked RUNNING, which may be refused, and executed.   *)
Undo(r, s) ==
  LET x == run[r].exec IN
  /\ run[r].phase = "undo"
  /\ UndoesNext(r, s)
  /\ \/ LandStep(x, s, step[r][s].token, "RUNNING")
     \/ RefuseStep(x, s, step[r][s].token)
  /\ run' = [run EXCEPT ![r].phase = "undoing"]
  /\ UNCHANGED <<workflow, execRows, unmet, resuming, cancels, counter, step,
                 disturbances>>

(* Its outcome is recorded, if it has one: the action it names may not be  *)
(* registered.  Whatever comes of it, the next one follows.                *)
Undone(r, s) ==
  LET x == run[r].exec IN
  /\ run[r].phase = "undoing"
  /\ UndoesNext(r, s)
  /\ \/ \E st \in {"SUCCESS", "FAILED"} : LandStep(x, s, step[r][s].token, st)
     \/ RefuseStep(x, s, step[r][s].token)
     \/ UNCHANGED <<stepStatus, stepVersion>>
  /\ run' = [run EXCEPT ![r].phase = "undo", ![r].todo = @ \ {s}]
  /\ UNCHANGED <<workflow, execRows, unmet, resuming, cancels, counter, step,
                 disturbances>>

UndoAll(r) ==
  /\ run[r].phase = "undo"
  /\ run[r].todo = {}
  /\ run' = [run EXCEPT ![r].phase = "fail"]
  /\ UNCHANGED <<workflow, execRows, stepRows, resuming, cancels, counter, step,
                 disturbances>>

(* markExecutionFailed ends a run that failed or had no plan.              *)
Fail(r) ==
  /\ run[r].phase = "fail"
  /\ MarkExec(r, "FAILED", TRUE)
  /\ EndRun(r)
  /\ UNCHANGED <<workflow, stepRows, resuming, cancels, disturbances>>

(* All layers are done.                                                    *)
Finish(r) ==
  /\ run[r].phase = "layer"
  /\ run[r].layer \notin DOMAIN workflow.layers
  /\ MarkExec(r, "SUCCESS", TRUE)
  /\ EndRun(r)
  /\ UNCHANGED <<workflow, stepRows, resuming, cancels, disturbances>>

(***************************************************************************)
(* The goroutine of a step.                                                *)
(***************************************************************************)

At(r, s, place) == run[r].phase = "wait" /\ step[r][s].pc = place

Go(r, s, place) == step' = [step EXCEPT ![r][s].pc = place]

(* It returns nil, or puts its error on the channel, once that has room,   *)
(* and cancels the layer.                                                  *)
Return(r, s) == Go(r, s, "returned") /\ UNCHANGED run

ReturnError(r, s, err) ==
  /\ HasRoom(r)
  /\ Go(r, s, "returned")
  /\ run' = [run EXCEPT ![r].errs = Append(@, err)]

(* A slip: only the step behind the condition is skipped.                  *)
BeginUnlessConditionUnmet(r, s) ==
  /\ At(r, s, "begin")
  /\ IF DependsOn(s) \cap unmet[run[r].exec] # {} THEN Return(r, s)
                                                  ELSE Go(r, s, "get") /\ UNCHANGED run
  /\ UNCHANGED <<workflow, execRows, stepRows, resuming, cancels, counter,
                 disturbances>>

(* A step behind a skipped one is skipped.                                 *)
Begin(r, s) ==
  /\ At(r, s, "begin")
  /\ IF DependsOn(s) \cap run[r].skipped # {}
     THEN /\ Go(r, s, "returned")
          /\ run' = [run EXCEPT ![r].skipped = @ \cup {s}]
     ELSE Go(r, s, "get") /\ UNCHANGED run
  /\ UNCHANGED <<workflow, execRows, stepRows, resuming, cancels, counter,
                 disturbances>>

(* The row is read: its version is the token of this attempt.  A step that *)
(* has succeeded is left alone.                                            *)
Get(r, s) ==
  LET x == run[r].exec IN
  /\ At(r, s, "get")
  /\ ~Cancelled(r)
  /\ IF stepStatus[x][s] = "SUCCESS"
     THEN Return(r, s)
     ELSE /\ step' = [step EXCEPT ![r][s].pc = "claim", ![r][s].token = stepVersion[x][s]]
          /\ UNCHANGED run
  /\ UNCHANGED <<workflow, execRows, stepRows, resuming, cancels, counter,
                 disturbances>>

(* The row cannot be read: the execution is marked FAILED at once, beside  *)
(* the goroutines that still work on it.                                   *)
GetError(r, s) ==
  /\ At(r, s, "get")
  /\ Cancelled(r) \/ ~CompareVersions
  /\ MarkExec(r, "FAILED", ~Cancelled(r))
  /\ ReturnError(r, s, "error")
  /\ UNCHANGED <<workflow, stepRows, resuming, cancels, disturbances>>

(* A slip: the RUNNING mark is written whatever the version.               *)
ClaimBlindly(r, s) ==
  LET x == run[r].exec IN
  /\ At(r, s, "claim")
  /\ stepStatus' = [stepStatus EXCEPT ![x][s] = "RUNNING"]
  /\ \E ver \in Numbers(r) : counter' = [counter EXCEPT ![WorkerOf[r]] = ver]
  /\ Go(r, s, "execute")
  /\ UNCHANGED run
  /\ UNCHANGED <<workflow, execRows, stepVersion, unmet, resuming, cancels,
                 disturbances>>

(* It is marked RUNNING.  A refusal ends the step with an error.           *)
Claim(r, s) ==
  LET x == run[r].exec IN
  /\ At(r, s, "claim")
  /\ \/ /\ ~Cancelled(r)
        /\ LandStep(x, s, step[r][s].token, "RUNNING")
        /\ \E ver \in Numbers(r) : counter' = [counter EXCEPT ![WorkerOf[r]] = ver]
        /\ Go(r, s, "execute")
        /\ UNCHANGED run
     \/ /\ \/ RefuseStep(x, s, step[r][s].token)
           \/ Cancelled(r) /\ UNCHANGED <<stepStatus, stepVersion>>
        /\ ReturnError(r, s, "error")
        /\ UNCHANGED counter
  /\ UNCHANGED <<workflow, execRows, unmet, resuming, cancels, disturbances>>

(* What the action of a step may do.  "partial" is a LOOP with a failed    *)
(* iteration.                                                              *)
Outcomes(s) ==
  CASE workflow.action[s] = "TASK" -> {"ok", "error"}
    [] workflow.action[s] = "CONDITION" -> {"ok", "unmet", "error"}
    [] workflow.action[s] = "LOOP" -> {"ok", "partial"}
    [] workflow.action[s] = "WAIT_FOR_EVENT" -> {"suspend", "error"}
    [] workflow.action[s] = "COMPENSATION" -> {}

Execute(r, s) ==
  /\ At(r, s, "execute")
  /\ \E o \in Outcomes(s) : Go(r, s, o)
  /\ UNCHANGED <<workflow, execRows, stepRows, resuming, cancels, counter, run,
                 disturbances>>

(* The action is not registered, as COMPENSATION is not, or a LOOP has no  *)
(* items or an unregistered action: the execution is marked FAILED.        *)
NotExecutable(r, s) ==
  /\ At(r, s, "execute")
  /\ workflow.action[s] \in {"COMPENSATION", "LOOP"}
  /\ MarkExec(r, "FAILED", ~Cancelled(r))
  /\ ReturnError(r, s, "error")
  /\ UNCHANGED <<workflow, stepRows, resuming, cancels, disturbances>>

(* A slip: a refused SUCCESS mark is only logged.                          *)
SucceedAnyway(r, s) ==
  LET x == run[r].exec IN
  /\ step[r][s].pc \in {"ok", "unmet", "partial"} /\ run[r].phase = "wait"
  /\ run' = [run EXCEPT ![r].skipped = @ \cup IF step[r][s].pc = "unmet" THEN {s} ELSE {}]
  /\ Go(r, s, "returned")
  /\ \/ /\ ~Cancelled(r)
        /\ LandStep(x, s, step[r][s].token, "SUCCESS")
        /\ unmet' = [unmet EXCEPT ![x] =
                       IF step[r][s].pc = "unmet" THEN @ \cup {s} ELSE @ \ {s}]
     \/ RefuseStep(x, s, step[r][s].token) /\ UNCHANGED unmet
     \/ Cancelled(r) /\ UNCHANGED stepRows
  /\ UNCHANGED <<workflow, execRows, resuming, cancels, counter, disturbances>>

(* The action is done; the error of a LOOP's iteration has been assigned   *)
(* to a variable of an inner block, and is not seen here.  An unmet        *)
(* condition skips what depends on the step.  The update names the token   *)
(* of the claim, and its error is the step's.                              *)
Succeed(r, s) ==
  LET x == run[r].exec
      unmetNow == step[r][s].pc = "unmet"
      skipped == run[r].skipped \cup IF unmetNow THEN {s} ELSE {} IN
  /\ run[r].phase = "wait"
  /\ step[r][s].pc \in {"ok", "unmet", "partial"}
  /\ Go(r, s, "returned")
  /\ \/ /\ ~Cancelled(r)
        /\ LandStep(x, s, step[r][s].token, "SUCCESS")
        /\ unmet' = [unmet EXCEPT ![x] = IF unmetNow THEN @ \cup {s} ELSE @ \ {s}]
        /\ run' = [run EXCEPT ![r].skipped = skipped]
     \/ /\ \/ RefuseStep(x, s, step[r][s].token)
           \/ Cancelled(r) /\ UNCHANGED <<stepStatus, stepVersion>>
        /\ HasRoom(r)
        /\ run' = [run EXCEPT ![r].skipped = skipped, ![r].errs = Append(@, "error")]
        /\ UNCHANGED unmet
  /\ UNCHANGED <<workflow, execRows, resuming, cancels, counter, disturbances>>

(* It waits for an event: marked SUSPENDED if the row lets it be, and the  *)
(* run learns of it through the channel.                                   *)
Suspend(r, s) ==
  LET x == run[r].exec IN
  /\ At(r, s, "suspend")
  /\ \/ ~Cancelled(r) /\ LandStep(x, s, step[r][s].token, "SUSPENDED")
     \/ RefuseStep(x, s, step[r][s].token)
     \/ Cancelled(r) /\ UNCHANGED <<stepStatus, stepVersion>>
  /\ ReturnError(r, s, "suspend")
  /\ UNCHANGED <<workflow, execRows, unmet, resuming, cancels, counter, disturbances>>

(* A slip: one retry too many.                                             *)
RetryOnceMore(r, s) ==
  /\ At(r, s, "error")
  /\ step[r][s].attempt <= workflow.maxRetries[s]
  /\ step' = [step EXCEPT ![r][s].pc = "get", ![r][s].attempt = @ + 1]
  /\ UNCHANGED <<workflow, execRows, stepRows, resuming, cancels, counter, run,
                 disturbances>>

(* It failed and tries again after a pause that no cancellation shortens.  *)
Retry(r, s) ==
  /\ At(r, s, "error")
  /\ step[r][s].attempt < workflow.maxRetries[s]
  /\ step' = [step EXCEPT ![r][s].pc = "get", ![r][s].attempt = @ + 1]
  /\ UNCHANGED <<workflow, execRows, stepRows, resuming, cancels, counter, run,
                 disturbances>>

(* It failed for the last time.                                            *)
GiveUp(r, s) ==
  LET x == run[r].exec IN
  /\ At(r, s, "error")
  /\ step[r][s].attempt >= workflow.maxRetries[s]
  /\ \/ ~Cancelled(r) /\ LandStep(x, s, step[r][s].token, "FAILED")
     \/ RefuseStep(x, s, step[r][s].token)
     \/ Cancelled(r) /\ UNCHANGED <<stepStatus, stepVersion>>
  /\ ReturnError(r, s, "error")
  /\ UNCHANGED <<workflow, execRows, unmet, resuming, cancels, counter, disturbances>>

(***************************************************************************)
(* What happens around the runs.                                           *)
(***************************************************************************)

(* RecoverStuckJobs: also while a run works on the row.                    *)
Recover(x) ==
  /\ execStatus[x] = "RUNNING"
  /\ Disturb
  /\ execStatus' = [execStatus EXCEPT ![x] = "PENDING"]
  /\ UNCHANGED <<workflow, execVersion, stepRows, resuming, cancels, counter, run,
                 step>>

(* Cancel of the API reads the row, and refuses it unless it is RUNNING .. *)
CancelRead(x) ==
  /\ execStatus[x] = "RUNNING"
  /\ Disturb
  /\ cancels' = cancels \cup {[id |-> x, version |-> execVersion[x]]}
  /\ UNCHANGED <<workflow, execRows, stepRows, resuming, counter, run, step>>

(* A slip: the update does not name the version that was read.             *)
CancelBlindly(c) ==
  /\ c \in cancels
  /\ cancels' = cancels \ {c}
  /\ execStatus' = [execStatus EXCEPT ![c.id] = "CANCELLED"]
  /\ execVersion' = [execVersion EXCEPT ![c.id] = Bump(@)]
  /\ UNCHANGED <<workflow, stepRows, resuming, counter, run, step, disturbances>>

(* ... and then updates it with the version it read.                       *)
CancelWrite(c) ==
  /\ c \in cancels
  /\ cancels' = cancels \ {c}
  /\ \/ /\ MayLand(execVersion[c.id] = c.version)
        /\ execStatus' = [execStatus EXCEPT ![c.id] = "CANCELLED"]
        /\ execVersion' = [execVersion EXCEPT ![c.id] = Bump(@)]
     \/ /\ MayBeRefused(execVersion[c.id] = c.version)
        /\ UNCHANGED execRows
  /\ UNCHANGED <<workflow, stepRows, resuming, counter, run, step, disturbances>>

(* ResumeExecution: a suspended step gets the payload as its output ...    *)
ResumeStep(x, s) ==
  /\ stepStatus[x][s] = "SUSPENDED"
  /\ Disturb
  /\ stepStatus' = [stepStatus EXCEPT ![x][s] = "SUCCESS"]
  /\ stepVersion' = [stepVersion EXCEPT ![x][s] = Bump(@)]
  /\ resuming' = resuming \cup {x}
  /\ UNCHANGED <<workflow, execRows, unmet, cancels, counter, run, step>>

(* ... and then the execution becomes PENDING, whatever its status was,    *)
(* unless this second update fails, for one because another write came     *)
(* between the read of the row and the update.                             *)
ResumeExec(x) ==
  /\ x \in resuming
  /\ resuming' = resuming \ {x}
  /\ \/ /\ execStatus' = [execStatus EXCEPT ![x] = "PENDING"]
        /\ execVersion' = [execVersion EXCEPT ![x] = Bump(@)]
     \/ UNCHANGED execRows
  /\ UNCHANGED <<workflow, stepRows, cancels, counter, run, step, disturbances>>

(* A worker dies with all its runs.                                        *)
Crash(w) ==
  /\ \E r \in Runs : WorkerOf[r] = w /\ run[r].phase # "idle"
  /\ Disturb
  /\ run' = [r \in Runs |-> IF WorkerOf[r] = w THEN IdleRun ELSE run[r]]
  /\ step' = [r \in Runs |-> IF WorkerOf[r] = w THEN [s \in Steps |-> IdleStep] ELSE step[r]]
  /\ counter' = [counter EXCEPT ![w] = 0]
  /\ UNCHANGED <<workflow, execRows, stepRows, resuming, cancels>>

---------------------------------------------------------------------------
StepGoroutine(r, s) ==
  \/ Begin(r, s) \/ Get(r, s) \/ GetError(r, s) \/ Claim(r, s) \/ Execute(r, s)
  \/ NotExecutable(r, s) \/ Succeed(r, s) \/ Suspend(r, s) \/ Retry(r, s) \/ GiveUp(r, s)

RunExecution(r) ==
  \/ Spawn(r) \/ Join(r) \/ DrainSuspension(r) \/ Suspended(r) \/ DrainError(r)
  \/ UndoAll(r) \/ Fail(r) \/ Finish(r)
  \/ \E s \in Steps : Undo(r, s) \/ Undone(r, s) \/ StepGoroutine(r, s)

Around ==
  \/ \E x \in Execs :
       \/ \E r \in Runs : Start(r, x)
       \/ Recover(x) \/ CancelRead(x) \/ ResumeExec(x)
       \/ \E s \in Steps : ResumeStep(x, s)
  \/ \E c \in cancels : CancelWrite(c)
  \/ \E w \in Workers : Crash(w)

Next == Around \/ \E r \in Runs : RunExecution(r)

Spec == Init /\ [][Next]_vars

(* The goroutines of a live worker are scheduled, and an action returns:   *)
(* it is given a context with a timeout.                                   *)
FairSpec == Spec /\ \A r \in Runs : WF_vars(RunExecution(r))

---------------------------------------------------------------------------
RunType ==
  [exec : Execs \cup {NoExec}, phase : Phases, layer : Nat,
   errs : Seq({"error", "suspend"}), skipped : SUBSET Steps,
   suspended : BOOLEAN, todo : SUBSET Steps]

StepType == [pc : Places, attempt : Nat, token : Nat]

RowsOK ==
  /\ workflow \in Workflows
  /\ execStatus \in [Execs -> ExecStatuses]
  /\ execVersion \in [Execs -> Nat]
  /\ stepStatus \in [Execs -> [Steps -> StepStatuses]]
  /\ stepVersion \in [Execs -> [Steps -> Nat]]
  /\ unmet \in [Execs -> SUBSET Steps]
  /\ resuming \subseteq Execs
  /\ cancels \subseteq [id : Execs, version : Nat]
  /\ counter \in [Workers -> Nat]
  /\ disturbances \in 0..Disturbances

RunsOK ==
  /\ run \in [Runs -> RunType]
  /\ \A r \in Runs : run[r].phase = "idle" <=> run[r].exec = NoExec

StepsOK ==
  /\ step \in [Runs -> [Steps -> StepType]]
  /\ \A r \in Runs, s \in Steps : step[r][s].attempt <= workflow.maxRetries[s]

(* The shape of the state: only an idle run has no execution, and no step  *)
(* is tried more often than its retries allow.                             *)
TypeOK == RowsOK /\ RunsOK /\ StepsOK

Executing(r, s) == step[r][s].pc \in {"execute"} \cup Results

(* A step is executed only when all it depends on is recorded as SUCCESS   *)
(* and nothing it depends on was skipped by its own run: the layers, the   *)
(* skip map, the wait for a whole layer and the errors together see to it, *)
(* also when a run takes over the rows an earlier one left behind.  What   *)
(* an earlier run skipped is another matter: each run starts with an empty *)
(* skip map, and does not execute a condition that is SUCCESS again.       *)
DependenciesDone ==
  \A r \in Runs, s \in Steps : Executing(r, s) =>
    \A d \in DependsOn(s) : /\ stepStatus[run[r].exec][d] = "SUCCESS"
                            /\ d \notin run[r].skipped

(* A compensation is executed only for a step that has succeeded, and only *)
(* when no other step of the run is at work any more.                      *)
UndoesOnlyWhatIsDone ==
  \A r \in Runs : run[r].phase \in {"undo", "undoing"} =>
    /\ \A s \in Steps : step[r][s].pc \in {"none", "returned"}
    /\ \A s \in run[r].todo :
         stepStatus[run[r].exec][workflow.compensatesFor[s]] = "SUCCESS"

(* An execution becomes SUCCESS only when each of its steps is recorded as *)
(* SUCCESS or was skipped: no refused update and no error is overlooked.   *)
SuccessMeansAllDone ==
  [][\A x \in Execs : execStatus[x] # "SUCCESS" /\ execStatus'[x] = "SUCCESS" =>
       \E r \in Runs : /\ run[r].exec = x
                       /\ \A s \in Steps : \/ stepStatus[x][s] = "SUCCESS"
                                           \/ s \in run[r].skipped]_vars

(* A goroutine of the layer that has not returned finds room for an error  *)
(* on the channel, whatever the others have put there and whatever their   *)
(* retries and the database did: the channel is read only after the last   *)
(* of them has returned.                                                   *)
ChannelHasRoom ==
  \A r \in Runs : run[r].phase = "wait" =>
    \A s \in Layer(r) : step[r][s].pc # "returned" => HasRoom(r)

(* Every run ends: no goroutine waits for ever to put its error on the     *)
(* channel, and none retries for ever, so that wg.Wait returns and the     *)
(* compensations, which may be refused one by one, come to an end.         *)
RunsEnd ==
  \A r \in Runs : run[r].phase # "idle" ~> run[r].phase = "idle"

(* What a step's goroutine has left to do: its retries, and the places of  *)
(* this attempt.                                                           *)
PlacesLeft(p) ==
  CASE p = "begin" -> 5
    [] p = "get" -> 4
    [] p = "claim" -> 3
    [] p = "execute" -> 2
    [] p \in Results -> 1
    [] p \in {"none", "returned"} -> 0

Work(r, s) ==
  6 * (workflow.maxRetries[s] - step[r][s].attempt) + PlacesLeft(step[r][s].pc)

(* What a run has left to do: two stages for each layer, and those after   *)
(* them.                                                                   *)
StagesLeft(r) ==
  LET layers == 2 * (Len(workflow.layers) + 1 - run[r].layer) IN
  CASE run[r].phase = "layer" -> layers + 4
    [] run[r].phase = "wait" -> layers + 3
    [] run[r].phase = "drain" -> 3
    [] run[r].phase \in {"undo", "undoing"} -> 2
    [] run[r].phase = "fail" -> 1
    [] run[r].phase = "idle" -> 0

(* Progress within a stage: one goroutine has less to do and the others    *)
(* have as much, an error has been read, a compensation been begun or      *)
(* done with.                                                              *)
Narrows(r) ==
  \/ /\ run[r].phase = "wait"
     /\ \E s \in Steps : /\ Work(r, s)' \in Nat /\ Work(r, s)' < Work(r, s)
                         /\ \A t \in Steps \ {s} : Work(r, t)' = Work(r, t)
  \/ run[r].phase = "drain" /\ Len(run'[r].errs) < Len(run[r].errs)
  \/ run[r].phase = "undo" /\ run'[r].phase = "undoing" /\ run'[r].todo = run[r].todo
  \/ run'[r].todo # run[r].todo /\ run'[r].todo \subseteq run[r].todo

(* Whatever a busy run does uses up some of its work: no retry, no error   *)
(* on the channel and no compensation adds any, so that the run can only   *)
(* go on for so long.                                                      *)
RunsUseUpTheirWork ==
  [][\A r \in Runs :
       run[r].phase # "idle" /\ (run'[r] # run[r] \/ step'[r] # step[r]) =>
         \/ StagesLeft(r)' \in Nat /\ StagesLeft(r)' < StagesLeft(r)
         \/ StagesLeft(r)' = StagesLeft(r) /\ Narrows(r)]_vars

(* A run that has claimed a step holds a token its row has left behind:    *)
(* nothing it writes to the row later can land over a newer claim, and two *)
(* runs never hold the same token.                                         *)
TokensAreUsedUp ==
  \A r \in Runs, s \in Steps : Executing(r, s) =>
    /\ step[r][s].token < stepVersion[run[r].exec][s]
    /\ \A q \in Runs : Executing(q, s) /\ run[q].exec = run[r].exec
                         /\ step[q][s].token = step[r][s].token => q = r

(* What a run, the sweep, a cancel and an event do to the executions is    *)
(* what ExecutionRows allows, the contract module JobDispatch keeps to.    *)
Owned == {run[r].exec : r \in {q \in Runs : run[q].phase # "idle"}}

Rows == INSTANCE ExecutionRows
          WITH status <- execStatus, version <- execVersion, owned <- Owned,
               running <- Owned, Resumable <- Execs

RowsKeepTheContract == Rows!Spec

(* What the action of a step achieved is recorded in its row, in a run     *)
(* nobody disturbs.                                                        *)
ResultsAreRecorded ==
  [][\A r \in Runs, s \in Steps :
       /\ step[r][s].pc = "ok" /\ step'[r][s].pc = "returned"
       /\ disturbances = Disturbances
       /\ ~Cancelled(r)
       => stepStatus'[run[r].exec][s] = "SUCCESS"]_vars
=============================================================================
