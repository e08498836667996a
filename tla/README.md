# FlowForge: models, checks and proofs

FlowForge runs workflows: a client stores a DAG of steps, an API server turns a
trigger into an *execution*, a worker claims the execution and its engine runs
the steps, layer by layer, in parallel. This directory holds TLA+ models of
that code, the TLC configurations that check them, and proofs that TLAPS checks.

Run `tlc -config X.cfg M` for a check and `tlapm M.tla` for a proof; which
configuration belongs to which module is listed in `PROJECT.json` ("runs"), and
so are the lines of the source each definition stands for ("map").

## Inventory

| Component | State it keeps | Operations | What is hard about it | What makes it correct |
|---|---|---|---|---|
| Execution planner `pkg/dag/parser.go` | in-degrees, two queues, layers | `BuildExecutionPlan` | cycles, self-dependencies, an id listed twice | a step comes after what it depends on, once, as early as possible; cycles are told |
| Job dispatch `worker/handler/job_poller.go`, `repository/execution.go`, `services/workflow.go` (Trigger), `services/execution.go` (Cancel, Retry) | table `executions` with a version, row locks, Redis list `flowforge:jobs:queue` | Trigger and push, poll, pop, claim, sweep of stuck rows, cancel | two loops per worker, many workers, crashes, lost pushes, the sweep against live runs | one engine per stay in PENDING, nothing is abandoned, nothing finished is touched |
| Engine `worker/service/engine.go`, `repository/step_execution.go` | `step_executions`, the skip map, the state of outputs, an error channel, a version counter shared by all runs of a process | RunExecution, executeStepWithRetry, runCompensation, ResumeExecution | goroutines per step, a context cancelled by the first error, retries, updates that fail, runs that take over from others | order, no overlooked failure, compensation only of what is done, termination |
| Step actions `worker/service/{http,condition,wait_action,wait_for_event,transform,script,registry}.go` | none (a Docker client, an HTTP client) | Execute | timeouts | seen by the engine as an outcome |
| Step state `worker/service/state.go` | outputs by step id | Set, Copy, Resolve | copies per goroutine | a step sees the outputs it refers to |
| Workflow service `services/workflow.go`, `repository/workflow.go`, `pkg/postgres/unit_of_work.go` | table `workflows`: versions, `is_current`, `is_active`, row locks | Create, CreateFromText, Update, Rollback, Delete | several rows per transaction under two unique indexes, lock queues, nested retries of the language model | one current version, no deleted workflow comes back, every request ends |
| Users and tenants `services/{user,tenant}.go`, `repository/{user,tenant}.go` | tables `users` (with a version) and `tenants` (without) | Create, Get, Update, Delete | each statement commits by itself; checks before the write | no lost update, what is deleted stays so |
| Sessions `services/user.go`, `handler/router.go`, `pkg/jwt` | keys `rt` and `blacklist` in Redis, the tokens clients hold | Login, Refresh, Logout, authMiddleware | four Redis calls per refresh, each may fail; expiry; Refresh against Logout | one live token per session, a logged-out session is gone, as long as requests do not overlap |
| Rate limiter `pkg/redis/redis.go`, `handler/middleware.go` | a token bucket per key in Redis | Allow, the middleware's two questions | expiring keys, clocks, boundaries | never more tokens than capacity plus rate times time, never fewer |
| SSE broadcaster `broadcaster/sse.go`, `handler/sse.go` | clients and a Redis subscription per tenant | Register, Unregister, listenRedis, broadcastLocal | a leaving client against a delivery, slow clients | no send on a closed channel, a subscription per tenant with clients |
| Cron `services/cron_service.go` | entries of the scheduler, two Redis locks | Schedule, Unschedule, enqueue | expiring locks, inserts without a transaction | not modelled: no command starts the service |
| Step queries, AI texts, HTTP decoding, errors, logging, configuration, UI | none, or one row per statement | reading, parsing, formatting | little | not modelled, see below |

How they interact: Trigger commits an execution and its steps, then pushes the
id; the Redis loop and the poll of every worker claim rows of the same table;
a claim hands the row to the engine of its process as a goroutine; the engine
writes both tables and publishes events that the broadcasters of the API
servers pass on; Cancel, the sweep and ResumeExecution write the same rows.

## Modules

| Module | Models | Kind |
|---|---|---|
| `Layering` | what the engine needs of a workflow's layers | definition |
| `ExecutionPlan` | `BuildExecutionPlan`, one action per turn of its loops | state machine |
| `ExecutionPlanProofs` | | proofs |
| `DispatchPermits` | what the dispatcher promises: a stay in PENDING is one permit, taken once and used up by one engine | abstract specification |
| `ExecutionRows` | the contract of the table `executions`: who may claim, mark, fail, cancel and put back a row, in which status, and what that does to its version | abstract specification |
| `JobDispatch` | Trigger to engine: API, loops, sweep, workers | state machine, implements `DispatchPermits` and `ExecutionRows` |
| `JobDispatchProofs` | | proofs |
| `Engine` | RunExecution and what happens to its rows around it | state machine, implements `ExecutionRows` |
| `EngineProofs` | | proofs |
| `VersionHistory` | the versions of one workflow as a sequence of edits, turns to a listed version and deletions, one at a time | abstract specification |
| `WorkflowVersions` | the versions of one workflow in transactions | state machine, implements `VersionHistory` |
| `WorkflowVersionsProofs` | | proofs |
| `Accounts` | users and tenants, statement by statement | state machine |
| `AccountsProofs` | | proofs |
| `Sessions` | the tokens and keys of one session | state machine |
| `SessionsProofs` | | proofs |
| `RateLimiter` | the two buckets every request asks | state machine |
| `RateLimiterProofs` | | proofs |
| `Broadcaster` | the SSE broadcaster of one API server and the handlers of its streams | state machine |
| `BroadcasterProofs` | | proofs |
| `MC` + module | an instance for TLC | |

### ExecutionPlan

The state is the function's local variables. A step is its id and its
`depends_on`, a *sequence*, because an id listed twice counts twice in the
in-degree and is walked twice in the adjacency list. Queues and layers are sets:
Go fills the first queue in map order, and the steps of a layer run
concurrently. `Reject` is the three early returns, `Prepare` the two loops that
fill the maps, `Visit` one turn over the queue, `CloseLayer` the end of a layer,
`Finish` the comparison of `visitedCount`.

### JobDispatch

`status`, `version`, `stale` are the columns of `executions` (`stale` is
`updated_at` being older than the sweep's 15 minutes), `lockedBy` the locks of
`FOR UPDATE SKIP LOCKED`, `queue` the Redis list. Each worker has two loops,
`<<w, "poll">>` and `<<w, "redis">>`, with a program counter and the rows in
hand. A claim is three steps, as in the code: lock and read (`Poll`, or `Pop`
and `AcquireByID`), compare-and-set and commit (`Claim`), and one hand-over per
job (`Launch`, or `WorkflowMissing` with its late FAILED mark). `Cancel` reads
and later writes (`CancelRead`, `CancelWrite`). The engine is abstracted here to
a run that may write any status to its row, so that what holds here holds for
every engine.

A lock is taken and released by the same transaction; PostgreSQL makes the
other writers wait, so their actions have `Unlocked` as a guard. A database
error, a crash, a lost push, a slow run, a refused or an interim write of the
engine and a cancel each have an allowance, the bound on how often they happen.

### Engine

One record per `RunExecution` goroutine (`run`) and one per step goroutine
(`step`). A layer is spawned (`Spawn`), each step goes through `Begin` (skip
map), `Get`, `Claim`, `Execute` and one of `Succeed`, `Suspend`, `Retry`,
`GiveUp`, `NotExecutable`, `GetError`; `Join` is `wg.Wait`; `DrainSuspension`
and `DrainError` read the channel; `Undo`, `Undone`, `UndoAll` are
`runCompensation`. Sending the error and cancelling the layer's context are one
step, which waits for room on the channel: `Capacity` is the size of the layer, as
in `make(chan error, len(layer))`, and nobody reads it before `Join`. `todo` is the list of compensations that a failed run has still to execute,
kept as a set and taken in order of `place`, the position of a step in its
workflow. Outputs decide nothing in the engine and are left out. A step of action
`CONDITION` stands for any step with a `condition` parameter, whatever its action is.
Around the runs, `Cancel` reads a row (`CancelRead`) and later names the version it
read (`CancelWrite`), `ResumeExecution` writes a step and later its execution
(`ResumeStep`, `ResumeExec`, whose update may be refused), the sweep puts rows back,
and workers crash.

The constant `CompareVersions` chooses the repositories. TRUE are those of
`internal/repository`: an update lands iff its version is the row's. FALSE is
any implementation of the two interfaces, like the mocks of `engine_test.go`: an
update may land or be refused. The second is how the logic of the engine is
checked beyond its first `SUCCESS` mark, which the real repositories refuse (see
the findings).

The version counter of the engine is incremented without synchronisation by all
runs of a process; two increments that meet may count once, which `Numbers`
offers whenever another run of the same worker is active.

### WorkflowVersions

`exists`, `current`, `active` are the sets of versions with a committed row, with
`is_current` and with `is_active`. The writes of a transaction appear when it
commits; until then its place (`pc`) tells what it has written, and `lockedBy`
which rows it holds. PostgreSQL runs READ COMMITTED: `GetForUpdate` waits for a
row that matches and is held, and looks again when it gets it; `NoRow` is the row
that no longer matches, answered as a conflict. `Snapshot`, `LockNextRow` and
`CommitDelete` are the one UPDATE of Delete: it sees the rows of its start, locks
them one by one in any order, as the statement has no ORDER BY, and skips what an
Update has inserted since. Requests may thus wait for each other in a circle
(`WaitsFor`, `Circle`); PostgreSQL finds it and aborts one of them, which is
`Abort` under the fairness below. `oneCurrent`, chosen
in `Init`, says whether the table has the index `idx_workflows_one_current`: the
migration creates it, and the queries are written as if there were none. `Ask`
and `AskAgain` are the two nested retry loops of CreateFromText and
GenerateDAGFromText. `Abort` may end any transaction and is the deferred Rollback.

### Accounts

No operation opens a transaction, so each statement is a step and any other
request may come between two. `seen` is the row a request has read. A write of a
user lands where the row still has the version and `is_active` that were read;
a tenant has no version, only `is_active`. `Refuse` stands for roles, for the
caller's tenant and for errors, which decide only whether a request stops. The
insertion of a user is always refused: `Create` never sets its `tenant_id`, so
users come from SQL, as those of `cmd/seed` do, and `CheckItsTenant` ends it.

### Sessions

One session: the key `rt` of its refresh token (`stored`, `storedEnds`), the key
`blacklist` of each access token (`revokedEnds`), and the tokens themselves
(`refEnds`, `accEnds`, `handed`). Every call of Redis is a step that may fail, or
land and lose its answer. `Accepted` is the middleware as it is written: it
answers "token has been revoked" when the blacklist has *no* key, and passes a
token that has one. Two variables remember history for the properties:
`overlapped` that two requests were under way at once, `loggedOut` that a Logout
has deleted the key.

### RateLimiter

A request asks the global bucket and then its own. The script runs inside Redis
as one step; the second it is sent was read before, and may be off by `Skew`. A
bucket is `tokens`, `last_refill` and `expires`. `skewed` remembers that a wrong
second was sent; `spent` is what an ideal bucket would have lost, and is what the
code is compared with. `FailOpen` is a call whose script has not run; `AnswerLost`
one whose script has run but whose answer is lost, so that the client of Redis asks
again by itself, or returns the error and the request goes on. A command that is
still on its way to Redis when its request has moved on is not modelled.

### Broadcaster

A client is one request to `/monitor/stream`, with its channel; a listener is
one `listenRedis` goroutine and is named after the client whose `Register`
started it. `tenantClients` and `subscriptions` are the two maps of the code,
`subscriptions` with the listener a cancel function ends. `Register` and
`Unregister` hold the write lock from begin to end and are one step; a delivery
is `Take`, `Deliver` (the read lock), a `Send` per client and `Delivered` (the
unlock), so that clients come and go between its steps as far as the lock lets
them. Events are counted, not told apart. A cancelled listener may stop or, when
an event waits as well, take it: Go chooses among ready cases at random, and with
it the model.

## Runs

| Run | Checks | Shows |
|---|---|---|
| `plan` | `DependenciesInEarlierLayers`, `EachStepExactlyOnce`, `NoStepWaitsLongerThanNeeded`, `PlanExactlyWhenAcyclic`, `Terminates` | the planner on all lists of up to three steps over nine shapes of `depends_on` (self, twice the same id, missing id, cycles) and all graphs on four steps with up to two dependencies each |
| `dispatch` | `TypeOK`, `ClaimNeverConflicts`, `OwnersHaveDistinctVersions`, `OnlyRunsReviveFinished`, `EachPermitDispatchesOnce`, `RowsKeepTheContract` | one execution between two workers, each kind of fault, two recoveries |
| `dispatch_live` | `NeverAbandoned` | two executions and a poll of one row: a PENDING or RUNNING row that the list, a transaction or a crash drops is found again; a run may also leave its row in another status (`interim`) |
| `engine` | `TypeOK`, `DependenciesDone`, `ChannelHasRoom`, `UndoesOnlyWhatIsDone`, `SuccessMeansAllDone`, `RunsEnd` | five workflows (a join behind a condition, a chain of condition, loop and event, an event beside a condition, a saga, a cycle), all updates may fail, two disturbances |
| `engine_versions` | `TokensAreUsedUp`, `RowsKeepTheContract` | two runs of one execution in one worker, versions compared, three disturbances |
| `broadcaster` | `TypeOK`, `NoSendOnClosed`, `ServedByOneListener`, `LeaversLeave`, `OrphansEnd` | two clients of one tenant and one of another, two events, a lost connection |
| `workflow_versions` | `TypeOK`, `ExactlyOneCurrent`, `CurrentIsListed`, `OnlyDeletesDeadlock`, `DeletedForGood`, `OneHistory`, `RequestsEnd` | two clients, four versions, with the index and without, every transaction may abort anywhere |
| `accounts` | `WritesFollowReads`, `DeletedStaysAsItWas` | two clients, two users, two tenants |
| `sessions` | `RevokedWhileItLives`, `OneTokenAtATime`, `LoggedOutForGood` | two holders of one session, calls that fail, answers that are lost, tokens and keys that expire |
| `rate_limiter` | `TypeOK`, `WithinBudget`, `RefusedOnlyWhenSpent` | two addresses, two requests at once, keys that expire, failing calls |

Every module with a specification has its type invariant `TypeOK`. Those of
`ExecutionPlan`, `Accounts` and `Sessions` say no more than the shape of the state;
they are proved, as all are, and no run evaluates them. Nor does a run ask for the
measures `EveryTurnCounts` and `RunsUseUpTheirWork`, which are proved as well: what
they are for, `Terminates` and `RunsEnd`, is checked.

Two runs are expected to find a violation; each is a finding:

| Run | Property | What the code does |
|---|---|---|
| `engine_results_lost` | `ResultsAreRecorded` | the SUCCESS mark of a step names the version its RUNNING mark has used up, so it is refused |
| `versions_edit_refused` | `EditsLand` | Update inserts the new current row before it clears the old one, and the index on the current row refuses it |

### Behaviour the models have and no run states

Reading the code for the models showed more that a maintainer would want to know.
Each of these is in the model, or is the reason something is not, and no property
asks for the opposite:

- Retry looks a workflow up with the version of the execution, which every update
  counts up (execution.go:152): no FAILED execution finds its workflow.
- A worker that dies in runCompensation leaves its row COMPENSATING, which neither
  the poll nor the sweep takes (repository/execution.go:237 takes RUNNING rows
  only): nothing ever ends such an execution. A SUSPENDED row waits for its event in
  the same way. `NeverAbandoned` is stated of PENDING and RUNNING rows.
- A run starts with an empty skip map (engine.go:104) and does not execute a
  condition that is SUCCESS again: a run that takes over from an earlier one, after
  a crash or a suspension, executes the steps behind a condition that the earlier
  one found unmet. `DependenciesDone` is stated of the skip map of the own run.
- After a sweep has re-queued a slow execution, a second run may execute a step
  the first has claimed; the engine's safety properties therefore say
  "one run per execution" where they need it.
- The engine's shared counter may name the version that a cancel has just written
  (engine.go:78), and its next mark overwrites CANCELLED.
- Outputs are stored in copies of the state that are never merged.
- The blacklist test of authMiddleware is inverted (router.go:159), and its
  patterns `refresh` and `logout` have no slash (router.go:48).
- Rollback asks for its target with `is_current` (workflow.go:298), so that only
  the current version is found and a rollback to any other is refused as a conflict;
  services/workflow_test.go:205-243 expects one from version 2 to 1 to succeed, with a
  repository that finds both. `VersionHistory` lets a workflow turn to any listed
  version (`Turn`), so that `OneHistory` does not depend on it.
- Get finds a workflow that is deleted.
- The UPDATE of Delete locks the versions in an order of its own
  (repository/workflow.go:251): two Deletes of a workflow may deadlock, and one is
  answered with the error of the database. `OnlyDeletesDeadlock` says that no other
  request can be caught in such a circle.
- The check of Update for a free email (user.go:424) and its write are two statements:
  between requests, nothing but the UNIQUE of the column keeps emails apart.
- A request that its own bucket refuses has taken a token of the global one, and one
  that Redis fails goes on without a token.
- Refresh and Logout that overlap may leave two live tokens, or a session that was
  logged out; the session properties are stated of requests that do not overlap.
- A successful ScheduleWorkflow removes the entry it has just added
  (cron_service.go:93).
- The error of a failed LOOP iteration is assigned to a variable of an inner block
  (engine.go:283) and the step recorded as SUCCESS: the outcome `partial`.

### Bounds

- *Steps*: four in the planner, which is what two layers of mutual dependencies
  and a cycle beside an acyclic part need; three in the engine, a layer of two
  and one behind it.
- *Executions and workers*: a conflict needs two claimants of one row, starvation
  two rows and a limit of one. `BatchLimit` is 5 in the code, and 1 here.
- *Faults*: one of each kind, two recoveries of one execution (`slow = 2`), so
  that an old run, a run and a claim exist at once. `Disturbances` is the sum of
  crashes, recoveries, cancels and resumes: two of them put a resume behind a
  crash or a recovery behind a cancel.
- *Retries*: one.
- *Broadcaster*: channels of one event instead of ten, and two events, fill a
  channel; two clients of a tenant are needed for its last one to leave before
  its next one comes; the other tenant's client shares the lock only.
- *WorkflowVersions*: two clients make every pair of requests meet, two Deletes that
  deadlock included; four versions let Updates follow one another and a Delete or
  Rollback meet what they leave. `Attempts` and `ModelCalls` are 2,
  for 3 and 3 in the code: a loop is entered, repeated and left.
- *Accounts*: two users and three emails, so that one may be free; two tenants,
  one of which may be missing; versions up to 3, which two updates reach.
- *Sessions*: `AccessTokenExp` 2 and `RefreshTokenExp` 3, so that access tokens end first; five seconds and four tokens are three refreshes and
  the end of every key.
- *RateLimiter*: capacities and rates small enough to be spent, `Ttl` 2 within
  `MaxTime` 5, so that keys expire and come back; one second of skew.
- *Deadlock* is not checked where every execution may be finished and every
  allowance spent.

### Fairness

`JobDispatch`: the tickers of `Start` fire and their bodies end (weak fairness of
`Poll`, `AcquireByID`, `Claim`, `Launch`, `Recover`) and time passes (`Age`). A
crashed worker may be restarted or not: nothing in the repository sees to it, so
`NeverAbandoned` holds as long as some worker is up. Nothing is assumed of clients, of
the Redis list, or of the engine: a run may hang for ever. `Engine`: the
goroutines of a live worker are scheduled and an action returns, because it gets
a context with a timeout (engine.go:299). `Broadcaster`: listeners and handlers are
scheduled and get the lock when it is free; clients need not read.
`ExecutionPlan`: a sequential function takes its next step. `WorkflowVersions`: a request that may go on does so in the end
(strong fairness of each client's `Proceed`): its goroutine runs, and PostgreSQL
queues those that wait for a row, so that none is passed over for ever; and of a
circle of requests that wait for each other it aborts one (weak fairness of `Abort`
in such a circle), which is its `deadlock_timeout`. `Accounts`,
`Sessions` and `RateLimiter` state no fairness and no liveness.

## Proofs

`ExecutionPlanProofs`, for every set of step lists, from
`InputsAssumption` alone: the type invariant and the four safety properties of
the run `plan`. The inductive invariant says of each step outside the finished
layers how many occurrences of unvisited dependencies its in-degree counts; with
it a step is released exactly when its last dependency is visited, so it is in
one queue only, and a step that is never released depends on another such step,
which is the cycle. `CallsComeToAnEnd` gives the variant of the loops, `Left`,
which every turn lowers, on cyclic lists too: with the fairness of a running
function that is `Terminates`. `PlanServesTheEngine` says in the words of
`Layering` that a returned plan has each step in one layer, behind the layers of
what it depends on, for every list of steps. `Engine` assumes the same operator
of its workflows (`Planned`), so the planner discharges that assumption.

`JobDispatchProofs`, for any number of executions, workers and faults, from
`DispatchAssumption` and `NoTxnAssumption`: the type invariant, the three safety
properties and the refinements of `DispatchPermits` and `ExecutionRows`. The
inductive invariant relates the versions: a token in the hands of a run, a claim or a cancel is
never ahead of its row, a claim's token is the row's as long as the lock is
held, and the token of an owner has been used up, so that no later claim gets it
again. Under the refinement a PENDING row is a waiting permit and a claim on its
way to an engine a taken one. That a claim takes exactly the permits of the rows
it has locked needs `ClaimNeverConflicts`, and that a transaction holds at most
one job per execution.

`DispatcherKeepsContract` and `EngineKeepsContract` show that the two models of the
table `executions`, the dispatcher's with an abstract run and the engine's with an
abstract dispatcher, keep to one contract: a row is taken only from PENDING, marked
only by an engine that runs it, failed by a loop that has claimed it (`Fail`, the missing
workflow) or cancelled only while it is RUNNING or put back to PENDING, and every
write but the sweep's counts the version up. What each of the two leaves abstract is thereby something the other
does. The dispatcher has no ResumeExecution, so its instance lets no execution be
resumed (`Resumable <- {}`); the engine's theorem assumes `CompareVersions`, as the
contract is about a compare-and-set. A late cancel and a late FAILED mark are within
it because their token is not ahead of the row: where the versions match, nobody has
written the row since but the sweep, so it is RUNNING or PENDING. The contract does
not tell who holds a row that was put back and claimed again; that a FAILED mark of an
earlier claim does not hit a later one is `OwnersHaveDistinctVersions`.

`LaunchedOnce` says what the sweep is responsible for: as long as it puts nothing
back, an execution is given to one engine at most, by any number of workers, and
no two of its runs are alive. The proof counts, per execution, the permit still to
come, those taken and those used (`OnePermit`), and gets the step of that count
from the refinement of `DispatchPermits`.

`BroadcasterProofs`, for any clients, tenants, events and failures, from
`BroadcasterAssumption`: the type invariant and the two safety properties. The
inductive invariant says that the registry holds exactly the clients being
served, that the listeners in force are those of the subscriptions, and that
what a delivery still has to reach is being served; the last is why `Unregister`
must wait for the readers.

`EngineProofs`, for any executions, runs, workers, workflows and disturbances.
`TypeCorrect` and `ChannelNeverFills` need no hypothesis but the assumption on the
constants; the second counts the errors on the channel by the steps of the layer
that have returned, so that one that has not finds room. `StepsAreOrdered`, `UndoesOnlyDone` and
`NoFailureOverlooked` assume `[]OneRunEach`, no two runs of one execution at a
time, because the sweep of `JobDispatch` can start a second run beside a slow one,
whose writes then undo what the first knows of its rows. The argument has three
parts per run. `Shape`: which places the steps of a run have in each of its phases.
`Settles`: every step of a layer the run has left is recorded as SUCCESS or in its
skip map, which a layer hands on only when `Join` has seen all of its steps end
without an error. `Undoes`: in a compensation nothing else of the run is at work,
and what the compensations left in `todo` compensate has succeeded. `RowsKept`
says which rows a step leaves alone: a run writes only those of its own execution.
`UndoesOnlyDone` also needs `CompensatesWork`, that no compensation is compensated
by another: otherwise executing one would change the row that another is to undo.
`TokensUsedUp` assumes `CompareVersions`, and no `OneRunEach`: the compare-and-set
alone keeps the tokens of the runs of an execution apart.

`OneRunEach` is itself a consequence: `OneRunUnlessRequeued` derives it from
`NotRequeued`, that neither the sweep nor an event puts back the row of an
execution a run still works on, because a run never makes its own row PENDING and a
claim takes only PENDING rows. `OrderedUnlessRequeued` puts the two together: order,
compensation and SUCCESS, with nothing assumed of the runs (but `CompensatesWork`,
of the workflows). What remains is the finding under "Behaviour the models have": the
sweep judges a row by its age alone.

`RunsCannotGoOnForEver` is the provable part of `RunsEnd`, for every workflow and
whatever becomes of the updates. Each step of a busy run lowers its stages and
layers to go (`StagesLeft`), or leaves them and narrows what the stage has left: the
places and attempts of one step (`Work`), the errors on the channel, or the
compensations in `todo`. No retry and no error adds work to what came before it.

Two theorems say how far the finding of the run `engine_results_lost` reaches.
`ResultsNeverRecorded`: with the repositories as they are, no step's row ever
leaves PENDING and RUNNING, for any workflow, number of runs and disturbances, as
every mark after the RUNNING mark names a version that mark has used up.
`ExecutionsNeverMarked`: nor does a run's mark land on its execution, as long as
each worker has one run at a time and nobody else writes the row while the run is at
work; the counter starts at the version of the row, and `nextVersion` counts it up
before it is used. Where those hypotheses fail a mark may land by accident,
because two runs share a counter, or a cancel has moved the row.

`WorkflowVersionsProofs`, for any clients and versions, from
`VersionsAssumption`: the type invariant, the two invariants and `DeletedForGood`.
The inductive invariant relates places and locks: who is behind `GetForUpdate`
holds the current row, so that no one else can clear it or insert beside it, and
the rows a Delete has locked or has still to lock are all there were, whatever has
come since being newer; so what it leaves is the current row.

`RequestsMakeOneHistory` is the refinement of `VersionHistory`: as seen in the table,
the requests edit one after another, each the version that is current and listed
when it commits, versions have no gaps, a rollback turns to a listed version, and a
deletion takes all up to one of them. `OnlyDeletesCanDeadlock` is a provable part of
`RequestsEnd`. In a circle each holds a row and waits for another. An Update waits
for nothing once it holds its row, and the second row of a Rollback can only be its
first, because its lookup asks for `is_current`; so all are Deletes that are locking.
With a lookup that leaves `is_current` out this would be false: a Rollback that holds
the new version and asks for the old would meet a Delete that holds the old one,
which is the mutant of the property.

`AccountsProofs`, from `AccountsAssumption`: the type invariant and the two
properties. The invariant is that a version a request has read is not ahead of
its row, and that as long as the row has that version and is active it is the
row that was read; so a write that lands replaces what was seen.

`SessionsProofs`, from `SessionsAssumption`, for any clients, tokens and times:
the type invariant and the three invariants. Three parts: the times of keys and
tokens, who holds which token at which place, and, without overlap, that the one
request under way has every other live token revoked before it stores its own.

`RateLimiterProofs`, from `RateAssumption`: the type invariant and the two bounds.
The invariant is an equation, the bucket as refilled now is the capacity less
`spent`, of which both bounds are consequences; a token whose answer was lost is
spent like any other. It needs that a bucket nobody
asks for `Ttl` seconds is full by then (`Capacity <= Rate * Ttl`), which the
code's numbers satisfy (router.go:35, and the 60 seconds of the script).

Liveness (`Terminates`, `NeverAbandoned`, `RunsEnd`, `LeaversLeave`, `OrphansEnd`,
`RequestsEnd`) is only model-checked: it rests on fairness and on what is enabled,
which is beyond the prover. For `Terminates`, `RunsEnd` and `RequestsEnd` the safety part is
proved (`CallsComeToAnEnd`, `RunsCannotGoOnForEver` with `ChannelNeverFills`, `OnlyDeletesCanDeadlock`); that
something is always enabled, and that a decreasing measure runs out, are left to TLC. All other properties of the passing runs are proved.

## What the models leave out

- The migration in `migrations/` does not match the code: it lacks columns the
  repositories select and its CHECK constraints do not know the statuses
  CANCELLED, SUSPENDED and COMPENSATING. The models take the schema from the
  queries.
- `executions.version` is copied from the workflow; `WorkflowVersion` is a
  constant.
- Texts, timestamps other than the age of a row, outputs, broadcasts, logging.
- A COMPENSATION step is put in a layer like any other and fails there, as its
  action is not registered (engine.go:293); the model does that too
  (`NotExecutable`), although docs/Project_Requirement_Document.md:98 has it run
  only after a failure.
- HTTP decoding and answers, lists and pagination, the step queries
  (`services/step.go`), AnalyzeFailure, errors, logging, configuration and the
  UI: they keep no state of their own.
- `State.Resolve` replaces templates in texts, and the actions of steps call
  services; the engine tells them by their outcome.

### Not modelled

The cron service is started by none of the commands. The connections of the
database and of Redis, and what a server does while it has none, are seen by the
models as calls that fail.

## Plan

1. Composition of `JobDispatch` and `Engine`: the tokens the engine really uses
   against the dispatcher's rows, in place of the abstract run of `JobDispatch`.
2. `Cron`, once a command starts it: the two locks, the inserts without a
   transaction, the entry that is removed on success.
3. The lists with their cursors, and `State.Resolve` and the idempotency key of
   HTTP as operators.
4. Proofs: a measure for the requests of `WorkflowVersions` and for the deliveries of
   `Broadcaster`, as the planner and the engine have one; the number of launches of an
   execution in terms of the sweeps that put it back, in place of `LaunchedOnce`'s
   condition that there are none.
