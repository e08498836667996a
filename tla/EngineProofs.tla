---------------------------- MODULE EngineProofs ----------------------------
(***************************************************************************)
(* Proofs about Engine, for any executions, runs, workers, workflows and   *)
(* disturbances.                                                           *)
(***************************************************************************)
EXTENDS Engine, FiniteSetTheorems, TLAPS

---------------------------------------------------------------------------
(* The shape of the state.                                                 *)

LEMMA WorkflowsAre ==
  ASSUME RowsOK
  PROVE  /\ workflow.valid \in BOOLEAN
         /\ workflow.layers \in Seq(SUBSET Steps)
         /\ workflow.dependsOn \in [Steps -> SUBSET Steps]
         /\ workflow.maxRetries \in [Steps -> Nat]
         /\ workflow.action \in [Steps -> Actions]
         /\ workflow.compensatesFor \in [Steps -> Steps]
         /\ workflow.valid => Planned(workflow)
  BY EngineAssumption DEF EngineAssumption, RowsOK, WorkflowType

LEMMA WorkersAre == \A r \in Runs : WorkerOf[r] \in Workers
  BY DEF Workers

LEMMA BusyHasExec ==
  ASSUME RunsOK, NEW r \in Runs, run[r].phase # "idle"
  PROVE  run[r].exec \in Execs
  BY DEF RunsOK, RunType

(* A repository's update of a step's row.                                  *)
StepRowOK ==
  /\ stepStatus' \in [Execs -> [Steps -> StepStatuses]]
  /\ stepVersion' \in [Execs -> [Steps -> Nat]]

LEMMA BumpType == ASSUME NEW n \in Nat PROVE Bump(n) \in Nat
  BY DEF Bump

LEMMA LandType ==
  ASSUME RowsOK, NEW x \in Execs, NEW s \in Steps, NEW v, NEW st \in StepStatuses,
         LandStep(x, s, v, st)
  PROVE  StepRowOK
<1>1. Bump(stepVersion[x][s]) \in Nat
  BY BumpType DEF RowsOK
<1>2. stepVersion' = [stepVersion EXCEPT ![x][s] = Bump(stepVersion[x][s])]
  BY DEF LandStep
<1>3. stepStatus' = [stepStatus EXCEPT ![x][s] = st]
  BY DEF LandStep
<1> QED BY <1>1, <1>2, <1>3 DEF RowsOK, StepRowOK

LEMMA RefuseType ==
  ASSUME RowsOK, UNCHANGED <<stepStatus, stepVersion>>
  PROVE  StepRowOK
  BY DEF RowsOK, StepRowOK

(* A mark of the execution's row.                                          *)
ExecRowOK ==
  /\ execStatus' \in [Execs -> ExecStatuses]
  /\ execVersion' \in [Execs -> Nat]
  /\ counter' \in [Workers -> Nat]

LEMMA NumbersType ==
  ASSUME RowsOK, NEW r \in Runs
  PROVE  Numbers(r) \subseteq Nat
  BY BumpType, WorkersAre DEF RowsOK, Numbers

LEMMA MarkType ==
  ASSUME TypeOK, NEW r \in Runs, run[r].phase # "idle", NEW st \in ExecStatuses,
         NEW live, MarkExec(r, st, live)
  PROVE  ExecRowOK
<1>1. run[r].exec \in Execs
  BY BusyHasExec DEF TypeOK
<1>2. PICK ver \in Nat :
        /\ counter' = [counter EXCEPT ![WorkerOf[r]] = ver]
        /\ \/ /\ execStatus' = [execStatus EXCEPT ![run[r].exec] = st]
              /\ execVersion' = [execVersion EXCEPT ![run[r].exec] = Bump(@)]
           \/ UNCHANGED execRows
  BY NumbersType DEF MarkExec, TypeOK
<1>3. Bump(execVersion[run[r].exec]) \in Nat
  BY <1>1, BumpType DEF TypeOK, RowsOK
<1> QED BY <1>1, <1>2, <1>3 DEF TypeOK, RowsOK, ExecRowOK, execRows

LEMMA DisturbType ==
  ASSUME RowsOK, Disturb
  PROVE  disturbances' \in 0..Disturbances
  BY EngineAssumption DEF EngineAssumption, RowsOK, Disturb

LEMMA RowsFromExec ==
  ASSUME RowsOK, ExecRowOK, UNCHANGED <<workflow, stepRows, resuming, cancels, disturbances>>
  PROVE  RowsOK'
  BY DEF RowsOK, ExecRowOK, stepRows

LEMMA RowsFromStep ==
  ASSUME RowsOK, StepRowOK, unmet' \in [Execs -> SUBSET Steps],
         counter' \in [Workers -> Nat],
         UNCHANGED <<workflow, execRows, resuming, cancels, disturbances>>
  PROVE  RowsOK'
  BY DEF RowsOK, StepRowOK, execRows

---------------------------------------------------------------------------
(* A run, or its steps, get another value; the others keep theirs.         *)

LEMMA RunEdit ==
  ASSUME RunsOK, NEW r \in Runs, NEW R \in RunType,
         R.phase = "idle" <=> R.exec = NoExec,
         run' = [run EXCEPT ![r] = R]
  PROVE  RunsOK'
<1>1. run' \in [Runs -> RunType]
  BY DEF RunsOK
<1>2. ASSUME NEW q \in Runs PROVE run'[q].phase = "idle" <=> run'[q].exec = NoExec
  <2>1. CASE q = r BY <2>1 DEF RunsOK
  <2>2. CASE q # r BY <2>2 DEF RunsOK
  <2> QED BY <2>1, <2>2
<1> QED BY <1>1, <1>2 DEF RunsOK

LEMMA RunIs ==
  ASSUME RunsOK, NEW r \in Runs
  PROVE  run[r] \in RunType
  BY DEF RunsOK

LEMMA RunFields ==
  ASSUME NEW R \in RunType
  PROVE  /\ R.exec \in Execs \cup {NoExec} /\ R.phase \in Phases /\ R.layer \in Nat
         /\ R.errs \in Seq({"error", "suspend"}) /\ R.skipped \in SUBSET Steps
         /\ R.suspended \in BOOLEAN /\ R.todo \in SUBSET Steps
         /\ R = [exec |-> R.exec, phase |-> R.phase, layer |-> R.layer, errs |-> R.errs,
                 skipped |-> R.skipped, suspended |-> R.suspended, todo |-> R.todo]
  BY DEF RunType

LEMMA IdleRunType == IdleRun \in RunType /\ IdleRun.phase = "idle" /\ IdleRun.exec = NoExec
<1>1. <<>> \in Seq({"error", "suspend"}) OBVIOUS
<1> QED BY <1>1 DEF IdleRun, RunType, Phases

LEMMA StepEdit ==
  ASSUME StepsOK, workflow' = workflow, NEW r \in Runs, NEW F \in [Steps -> StepType],
         \A s \in Steps : F[s].attempt <= workflow.maxRetries[s],
         step' = [step EXCEPT ![r] = F]
  PROVE  StepsOK'
<1>1. step' \in [Runs -> [Steps -> StepType]]
  BY DEF StepsOK
<1>2. ASSUME NEW q \in Runs, NEW s \in Steps
      PROVE step'[q][s].attempt <= workflow.maxRetries[s]
  <2>1. CASE q = r BY <2>1 DEF StepsOK
  <2>2. CASE q # r BY <2>2 DEF StepsOK
  <2> QED BY <2>1, <2>2
<1> QED BY <1>1, <1>2 DEF StepsOK

LEMMA StepIs ==
  ASSUME StepsOK, NEW r \in Runs, NEW s \in Steps
  PROVE  step[r][s] \in StepType /\ step[r][s].attempt <= workflow.maxRetries[s]
  BY DEF StepsOK

LEMMA IdleStepType ==
  IdleStep \in StepType /\ IdleStep.attempt = 0
  BY DEF IdleStep, StepType, Places

(* One step of one run.                                                    *)
LEMMA OneStepEdit ==
  ASSUME StepsOK, workflow' = workflow, NEW r \in Runs, NEW s \in Steps, NEW S \in StepType,
         S.attempt <= workflow.maxRetries[s],
         step' = [step EXCEPT ![r][s] = S]
  PROVE  StepsOK'
<1> DEFINE F == [step[r] EXCEPT ![s] = S]
<1>1. F \in [Steps -> StepType] BY DEF StepsOK
<1>2. ASSUME NEW t \in Steps PROVE F[t].attempt <= workflow.maxRetries[t]
  BY DEF StepsOK
<1>3. step' = [step EXCEPT ![r] = F] OBVIOUS
<1> HIDE DEF F
<1> QED BY <1>1, <1>2, <1>3, StepEdit

LEMMA GoType ==
  ASSUME StepsOK, workflow' = workflow, NEW r \in Runs, NEW s \in Steps, NEW p \in Places,
         Go(r, s, p)
  PROVE  StepsOK'
<1> DEFINE S == [step[r][s] EXCEPT !.pc = p]
<1>1. step[r][s] \in StepType /\ step[r][s].attempt <= workflow.maxRetries[s]
  BY StepIs
<1>2. S \in StepType /\ S.attempt = step[r][s].attempt
  BY <1>1 DEF StepType
<1>3. step' = [step EXCEPT ![r][s] = S] BY DEF Go
<1> HIDE DEF S
<1> QED BY <1>1, <1>2, <1>3, OneStepEdit

LEMMA EndRunType ==
  ASSUME RunsOK, StepsOK, RowsOK, workflow' = workflow, NEW r \in Runs, EndRun(r)
  PROVE  RunsOK' /\ StepsOK'
<1>1. RunsOK' BY RunEdit, IdleRunType DEF EndRun
<1> DEFINE F == [s \in Steps |-> IdleStep]
<1>2. F \in [Steps -> StepType] BY IdleStepType
<1>3. ASSUME NEW s \in Steps PROVE F[s].attempt <= workflow.maxRetries[s]
  BY WorkflowsAre, IdleStepType
<1>4. step' = [step EXCEPT ![r] = F] BY DEF EndRun
<1> HIDE DEF F
<1>5. StepsOK' BY <1>2, <1>3, <1>4, StepEdit
<1> QED BY <1>1, <1>5

(* An error on the channel of a run.                                       *)
LEMMA ReturnErrorType ==
  ASSUME RunsOK, StepsOK, workflow' = workflow, NEW r \in Runs, NEW s \in Steps,
         NEW e \in {"error", "suspend"}, ReturnError(r, s, e)
  PROVE  RunsOK' /\ StepsOK'
<1>1. StepsOK' BY GoType DEF ReturnError, Places
<1> DEFINE R == [run[r] EXCEPT !.errs = Append(@, e)]
<1>2. run[r] \in RunType BY RunIs
<1>3. Append(run[r].errs, e) \in Seq({"error", "suspend"})
  BY <1>2, RunFields
<1>4. R \in RunType /\ R.phase = run[r].phase /\ R.exec = run[r].exec
  BY <1>2, <1>3 DEF RunType
<1>5. run' = [run EXCEPT ![r] = R] BY DEF ReturnError
<1>6. run[r].phase = "idle" <=> run[r].exec = NoExec BY DEF RunsOK
<1> HIDE DEF R
<1>7. RunsOK' BY <1>4, <1>5, <1>6, RunEdit
<1> QED BY <1>1, <1>7

---------------------------------------------------------------------------
(* One lemma per action that does more than the operators above.           *)

LEMMA TypeStart ==
  ASSUME TypeOK, NEW r \in Runs, NEW x \in Execs, Start(r, x)
  PROVE  TypeOK'
<1>1. Bump(execVersion[x]) \in Nat
  BY BumpType DEF TypeOK, RowsOK
<1>2. execVersion' = [execVersion EXCEPT ![x] = Bump(execVersion[x])]
  BY DEF Start
<1>3. execVersion' \in [Execs -> Nat] /\ execVersion'[x] \in Nat
  BY <1>1, <1>2 DEF TypeOK, RowsOK
<1>4. counter' \in [Workers -> Nat]
  BY <1>3, WorkersAre DEF Start, TypeOK, RowsOK
<1>5. execStatus' \in [Execs -> ExecStatuses]
  BY DEF Start, TypeOK, RowsOK, ExecStatuses
<1>6. RowsOK'
  BY <1>3, <1>4, <1>5 DEF Start, TypeOK, RowsOK, stepRows
<1>7. PICK p \in {"layer", "fail"} :
        run' = [run EXCEPT ![r] = [IdleRun EXCEPT !.exec = x, !.phase = p, !.layer = 1]]
  BY DEF Start
<1> DEFINE R == [IdleRun EXCEPT !.exec = x, !.phase = p, !.layer = 1]
<1>8. R \in RunType /\ R.phase = p /\ R.exec = x
  BY IdleRunType DEF RunType, Phases
<1>9. R.phase # "idle" /\ R.exec # NoExec
  BY <1>8, EngineAssumption DEF EngineAssumption
<1>10. run' = [run EXCEPT ![r] = R] BY <1>7
<1> HIDE DEF R
<1>11. RunsOK' BY <1>8, <1>9, <1>10, RunEdit DEF TypeOK
<1>12. StepsOK'
  BY DEF Start, TypeOK, StepsOK
<1> QED BY <1>6, <1>11, <1>12 DEF TypeOK

LEMMA TypeSpawn ==
  ASSUME TypeOK, NEW r \in Runs, Spawn(r)
  PROVE  TypeOK'
<1>1. RowsOK'
  BY DEF Spawn, TypeOK, RowsOK, execRows, stepRows
<1> DEFINE R == [run[r] EXCEPT !.phase = "wait"]
<1>2. R \in RunType /\ R.phase = "wait" /\ R.exec = run[r].exec
  BY RunIs DEF TypeOK, RunType, Phases
<1>3. run' = [run EXCEPT ![r] = R] /\ run[r].exec # NoExec
  BY DEF Spawn, TypeOK, RunsOK
<1> DEFINE B == [IdleStep EXCEPT !.pc = "begin"]
           F == [s \in Steps |-> IF s \in Layer(r) THEN B ELSE step[r][s]]
<1>4. B \in StepType /\ B.attempt = 0 BY DEF IdleStep, StepType, Places
<1>5. step' = [step EXCEPT ![r] = F] BY DEF Spawn
<1> HIDE DEF R, B
<1>6. RunsOK' BY <1>2, <1>3, RunEdit DEF TypeOK
<1>7. F \in [Steps -> StepType] BY <1>4, StepIs DEF TypeOK
<1>8. ASSUME NEW s \in Steps PROVE F[s].attempt <= workflow.maxRetries[s]
  BY <1>4, StepIs, WorkflowsAre DEF TypeOK
<1> HIDE DEF F
<1>9. StepsOK' BY <1>5, <1>7, <1>8, StepEdit DEF Spawn, TypeOK
<1> QED BY <1>1, <1>6, <1>9 DEF TypeOK

LEMMA TypeJoin ==
  ASSUME TypeOK, NEW r \in Runs, Join(r)
  PROVE  TypeOK'
<1>1. RowsOK'
  BY DEF Join, TypeOK, RowsOK, execRows, stepRows
<1>2. PICK p \in {"drain", "layer"}, n \in {run[r].layer, run[r].layer + 1} :
        run' = [run EXCEPT ![r].phase = p, ![r].layer = n]
  BY DEF Join
<1> DEFINE R == [run[r] EXCEPT !.phase = p, !.layer = n]
<1>3. run[r] \in RunType /\ run[r].layer \in Nat BY RunIs, RunFields DEF TypeOK
<1>4. n \in Nat BY <1>3
<1>5. R \in RunType /\ R.phase = p /\ R.exec = run[r].exec
  BY <1>3, <1>4 DEF RunType, Phases
<1>6. run' = [run EXCEPT ![r] = R] BY <1>2, <1>3 DEF RunType
<1>7. run[r].exec # NoExec BY DEF Join, TypeOK, RunsOK
<1> HIDE DEF R
<1>8. RunsOK' BY <1>5, <1>6, <1>7, RunEdit DEF TypeOK
<1>9. StepsOK'
  BY DEF Join, TypeOK, StepsOK
<1> QED BY <1>1, <1>8, <1>9 DEF TypeOK

LEMMA TypeDrainSuspension ==
  ASSUME TypeOK, NEW r \in Runs, DrainSuspension(r)
  PROVE  TypeOK'
<1>1. run[r].phase # "idle" /\ run[r].exec # NoExec
  BY DEF DrainSuspension, TypeOK, RunsOK
<1>2. ExecRowOK BY <1>1, MarkType DEF DrainSuspension, ExecStatuses
<1>3. RowsOK' BY <1>2, RowsFromExec DEF DrainSuspension, TypeOK
<1> DEFINE R == [run[r] EXCEPT !.errs = Tail(@), !.suspended = TRUE]
<1>4. run[r] \in RunType BY RunIs DEF TypeOK
<1>5. Tail(run[r].errs) \in Seq({"error", "suspend"})
  BY <1>4, RunFields DEF DrainSuspension
<1>6. R \in RunType /\ R.phase = run[r].phase /\ R.exec = run[r].exec
  BY <1>4, <1>5 DEF RunType
<1>7. run' = [run EXCEPT ![r] = R] BY DEF DrainSuspension
<1> HIDE DEF R
<1>8. RunsOK' BY <1>1, <1>6, <1>7, RunEdit DEF TypeOK
<1>9. StepsOK' BY DEF DrainSuspension, TypeOK, StepsOK
<1> QED BY <1>3, <1>8, <1>9 DEF TypeOK

(* The phase and the compensations to do.                                  *)
LEMMA PhaseEdit ==
  ASSUME RunsOK, NEW r \in Runs, NEW p \in Phases \ {"idle"}, NEW T \in SUBSET Steps,
         run[r].phase # "idle",
         run' = [run EXCEPT ![r] = [run[r] EXCEPT !.phase = p, !.todo = T]]
  PROVE  RunsOK'
<1> DEFINE R == [run[r] EXCEPT !.phase = p, !.todo = T]
<1>1. run[r].exec # NoExec BY DEF RunsOK
<1>2. R \in RunType /\ R.phase = p /\ R.exec = run[r].exec
  BY RunIs DEF RunType
<1> HIDE DEF R
<1> QED BY <1>1, <1>2, RunEdit DEF R

LEMMA OnlyPhaseEdit ==
  ASSUME RunsOK, NEW r \in Runs, NEW p \in Phases \ {"idle"}, run[r].phase # "idle",
         run' = [run EXCEPT ![r].phase = p]
  PROVE  RunsOK'
<1> DEFINE R == [run[r] EXCEPT !.phase = p]
<1>1. run[r].exec # NoExec BY DEF RunsOK
<1>2. R \in RunType /\ R.phase = p /\ R.exec = run[r].exec
  BY RunIs DEF RunType
<1>3. run' = [run EXCEPT ![r] = R] OBVIOUS
<1> HIDE DEF R
<1> QED BY <1>1, <1>2, <1>3, RunEdit

LEMMA TypeDrainError ==
  ASSUME TypeOK, NEW r \in Runs, DrainError(r)
  PROVE  TypeOK'
<1>1. run[r].phase # "idle" BY DEF DrainError
<1>2. CASE /\ MarkExec(r, "COMPENSATING", TRUE)
           /\ run' = [run EXCEPT ![r].phase = "undo", ![r].todo = Undoable(run[r].exec)]
           /\ step' = [step EXCEPT ![r] = [s \in Steps |->
                         [step[r][s] EXCEPT !.token = stepVersion[run[r].exec][s]]]]
  <2>1. ExecRowOK BY <1>1, <1>2, MarkType DEF ExecStatuses
  <2>2. RowsOK' BY <2>1, RowsFromExec DEF DrainError, TypeOK
  <2>3. Undoable(run[r].exec) \in SUBSET Steps BY DEF Undoable
  <2>4. run' = [run EXCEPT ![r] =
                  [run[r] EXCEPT !.phase = "undo", !.todo = Undoable(run[r].exec)]]
    BY <1>2
  <2>5. RunsOK' BY <1>1, <2>3, <2>4, PhaseEdit DEF TypeOK, Phases
  <2>6. run[r].exec \in Execs BY <1>1, BusyHasExec DEF TypeOK
  <2> DEFINE S(s) == [step[r][s] EXCEPT !.token = stepVersion[run[r].exec][s]]
             F == [s \in Steps |-> S(s)]
  <2>7. ASSUME NEW s \in Steps
        PROVE S(s) \in StepType /\ S(s).attempt <= workflow.maxRetries[s]
    <3>1. step[r][s] \in StepType /\ step[r][s].attempt <= workflow.maxRetries[s]
      BY StepIs DEF TypeOK
    <3>2. stepVersion[run[r].exec][s] \in Nat BY <2>6 DEF TypeOK, RowsOK
    <3> QED BY <3>1, <3>2 DEF StepType
  <2>8. step' = [step EXCEPT ![r] = F] BY <1>2
  <2> HIDE DEF S
  <2>9. F \in [Steps -> StepType] BY <2>7
  <2>10. ASSUME NEW s \in Steps PROVE F[s].attempt <= workflow.maxRetries[s]
    BY <2>7
  <2> HIDE DEF F
  <2>11. StepsOK' BY <2>8, <2>9, <2>10, StepEdit DEF DrainError, TypeOK
  <2> QED BY <2>2, <2>5, <2>11 DEF TypeOK
<1>3. CASE /\ run' = [run EXCEPT ![r].phase = "fail"]
           /\ UNCHANGED <<execRows, counter, step>>
  <2>1. RowsOK' BY <1>3 DEF DrainError, TypeOK, RowsOK, execRows, stepRows
  <2>2. RunsOK' BY <1>1, <1>3, OnlyPhaseEdit DEF TypeOK, Phases
  <2>3. StepsOK' BY <1>3 DEF DrainError, TypeOK, StepsOK
  <2> QED BY <2>1, <2>2, <2>3 DEF TypeOK
<1> QED BY <1>2, <1>3 DEF DrainError

LEMMA TypeSuspended ==
  ASSUME TypeOK, NEW r \in Runs, Suspended(r)
  PROVE  TypeOK'
<1>1. RowsOK' BY DEF Suspended, TypeOK, RowsOK, execRows, stepRows
<1>2. RunsOK' /\ StepsOK' BY EndRunType DEF Suspended, TypeOK
<1> QED BY <1>1, <1>2 DEF TypeOK

LEMMA TypeFail ==
  ASSUME TypeOK, NEW r \in Runs, Fail(r)
  PROVE  TypeOK'
<1>1. ExecRowOK BY MarkType DEF Fail, ExecStatuses
<1>2. RowsOK' BY <1>1, RowsFromExec DEF Fail, TypeOK
<1>3. RunsOK' /\ StepsOK' BY EndRunType DEF Fail, TypeOK
<1> QED BY <1>2, <1>3 DEF TypeOK

LEMMA TypeFinish ==
  ASSUME TypeOK, NEW r \in Runs, Finish(r)
  PROVE  TypeOK'
<1>1. ExecRowOK BY MarkType DEF Finish, ExecStatuses
<1>2. RowsOK' BY <1>1, RowsFromExec DEF Finish, TypeOK
<1>3. RunsOK' /\ StepsOK' BY EndRunType DEF Finish, TypeOK
<1> QED BY <1>2, <1>3 DEF TypeOK

(* A refused or landed update of a step's row, and nothing else of a row.  *)
LEMMA StepUpdateType ==
  ASSUME TypeOK, NEW r \in Runs, NEW s \in Steps, run[r].phase # "idle",
         NEW v, NEW st \in StepStatuses,
         LandStep(run[r].exec, s, v, st) \/ UNCHANGED <<stepStatus, stepVersion>>,
         UNCHANGED <<workflow, execRows, unmet, resuming, cancels, counter, disturbances>>
  PROVE  RowsOK'
<1>1. run[r].exec \in Execs BY BusyHasExec DEF TypeOK
<1>2. StepRowOK BY <1>1, LandType, RefuseType DEF TypeOK
<1> QED BY <1>2, RowsFromStep DEF TypeOK, RowsOK

LEMMA TypeUndo ==
  ASSUME TypeOK, NEW r \in Runs, NEW s \in Steps, Undo(r, s)
  PROVE  TypeOK'
<1>1. run[r].phase # "idle" BY DEF Undo
<1>2. RowsOK'
  BY <1>1, StepUpdateType DEF Undo, RefuseStep, StepStatuses
<1>3. RunsOK' BY <1>1, OnlyPhaseEdit DEF Undo, TypeOK, Phases
<1>4. StepsOK' BY DEF Undo, TypeOK, StepsOK
<1> QED BY <1>2, <1>3, <1>4 DEF TypeOK

LEMMA TypeUndone ==
  ASSUME TypeOK, NEW r \in Runs, NEW s \in Steps, Undone(r, s)
  PROVE  TypeOK'
<1>1. run[r].phase # "idle" BY DEF Undone
<1>2. RowsOK'
  BY <1>1, StepUpdateType DEF Undone, RefuseStep, StepStatuses
<1>3. run[r].todo \ {s} \in SUBSET Steps BY RunIs, RunFields DEF TypeOK
<1>4. run' = [run EXCEPT ![r] = [run[r] EXCEPT !.phase = "undo", !.todo = run[r].todo \ {s}]]
  BY DEF Undone
<1>5. RunsOK' BY <1>1, <1>3, <1>4, PhaseEdit DEF TypeOK, Phases
<1>6. StepsOK' BY DEF Undone, TypeOK, StepsOK
<1> QED BY <1>2, <1>5, <1>6 DEF TypeOK

LEMMA TypeUndoAll ==
  ASSUME TypeOK, NEW r \in Runs, UndoAll(r)
  PROVE  TypeOK'
<1>1. RowsOK' BY DEF UndoAll, TypeOK, RowsOK, execRows, stepRows
<1>2. RunsOK' BY OnlyPhaseEdit DEF UndoAll, TypeOK, Phases
<1>3. StepsOK' BY DEF UndoAll, TypeOK, StepsOK
<1> QED BY <1>1, <1>2, <1>3 DEF TypeOK

(* What a run has skipped and the errors on its channel.                   *)
LEMMA SkippedEdit ==
  ASSUME RunsOK, NEW r \in Runs, NEW K \in SUBSET Steps,
         NEW q \in Seq({"error", "suspend"}),
         run' = [run EXCEPT ![r] = [run[r] EXCEPT !.skipped = K, !.errs = q]]
  PROVE  RunsOK'
<1> DEFINE R == [run[r] EXCEPT !.skipped = K, !.errs = q]
<1>1. run[r].phase = "idle" <=> run[r].exec = NoExec BY DEF RunsOK
<1>2. R \in RunType /\ R.phase = run[r].phase /\ R.exec = run[r].exec
  BY RunIs DEF RunType
<1> HIDE DEF R
<1> QED BY <1>1, <1>2, RunEdit DEF R

LEMMA OnlySkippedEdit ==
  ASSUME RunsOK, NEW r \in Runs, NEW K \in SUBSET Steps,
         run' = [run EXCEPT ![r].skipped = K]
  PROVE  RunsOK'
<1> DEFINE R == [run[r] EXCEPT !.skipped = K]
<1>1. run[r].phase = "idle" <=> run[r].exec = NoExec BY DEF RunsOK
<1>2. R \in RunType /\ R.phase = run[r].phase /\ R.exec = run[r].exec
  BY RunIs DEF RunType
<1>3. run' = [run EXCEPT ![r] = R] OBVIOUS
<1> HIDE DEF R
<1> QED BY <1>1, <1>2, <1>3, RunEdit

LEMMA TypeBegin ==
  ASSUME TypeOK, NEW r \in Runs, NEW s \in Steps, Begin(r, s)
  PROVE  TypeOK'
<1>1. RowsOK' BY DEF Begin, TypeOK, RowsOK, execRows, stepRows
<1>2. StepsOK'
  <2>1. Go(r, s, "returned") \/ Go(r, s, "get") BY DEF Begin
  <2> QED BY <2>1, GoType DEF Begin, TypeOK, Places
<1>3. RunsOK'
  <2>1. CASE UNCHANGED run BY <2>1 DEF TypeOK, RunsOK
  <2>2. CASE run' = [run EXCEPT ![r].skipped = @ \cup {s}]
    <3>1. run[r].skipped \cup {s} \in SUBSET Steps BY RunIs, RunFields DEF TypeOK
    <3> QED BY <2>2, <3>1, OnlySkippedEdit DEF TypeOK
  <2> QED BY <2>1, <2>2 DEF Begin
<1> QED BY <1>1, <1>2, <1>3 DEF TypeOK

LEMMA TypeGet ==
  ASSUME TypeOK, NEW r \in Runs, NEW s \in Steps, Get(r, s)
  PROVE  TypeOK'
<1>1. RowsOK' BY DEF Get, TypeOK, RowsOK, execRows, stepRows
<1>2. RunsOK' BY DEF Get, Return, TypeOK, RunsOK
<1>3. CASE Return(r, s)
  <2>1. StepsOK' BY <1>3, GoType DEF Get, Return, TypeOK, Places
  <2> QED BY <1>1, <1>2, <2>1 DEF TypeOK
<1>4. CASE step' = [step EXCEPT ![r][s].pc = "claim",
                                ![r][s].token = stepVersion[run[r].exec][s]]
  <2>1. run[r].exec \in Execs BY BusyHasExec DEF Get, At, TypeOK
  <2>2. stepVersion[run[r].exec][s] \in Nat BY <2>1 DEF TypeOK, RowsOK
  <2> DEFINE S == [step[r][s] EXCEPT !.pc = "claim", !.token = stepVersion[run[r].exec][s]]
  <2>3. step[r][s] \in StepType /\ step[r][s].attempt <= workflow.maxRetries[s]
    BY StepIs DEF TypeOK
  <2>4. S \in StepType /\ S.attempt = step[r][s].attempt
    BY <2>2, <2>3 DEF StepType, Places
  <2>5. step' = [step EXCEPT ![r][s] = S] BY <1>4 DEF TypeOK, StepsOK
  <2> HIDE DEF S
  <2>6. StepsOK' BY <2>3, <2>4, <2>5, OneStepEdit DEF Get, TypeOK
  <2> QED BY <1>1, <1>2, <2>6 DEF TypeOK
<1> QED BY <1>3, <1>4 DEF Get

LEMMA TypeGetError ==
  ASSUME TypeOK, NEW r \in Runs, NEW s \in Steps, GetError(r, s)
  PROVE  TypeOK'
<1>1. ExecRowOK BY MarkType DEF GetError, At, ExecStatuses
<1>2. RowsOK' BY <1>1, RowsFromExec DEF GetError, TypeOK
<1>3. RunsOK' /\ StepsOK' BY ReturnErrorType DEF GetError, TypeOK
<1> QED BY <1>2, <1>3 DEF TypeOK

LEMMA TypeClaim ==
  ASSUME TypeOK, NEW r \in Runs, NEW s \in Steps, Claim(r, s)
  PROVE  TypeOK'
<1>1. run[r].exec \in Execs BY BusyHasExec DEF Claim, At, TypeOK
<1>2. CASE /\ LandStep(run[r].exec, s, step[r][s].token, "RUNNING")
           /\ \E ver \in Numbers(r) : counter' = [counter EXCEPT ![WorkerOf[r]] = ver]
           /\ Go(r, s, "execute")
           /\ UNCHANGED run
  <2>1. StepRowOK BY <1>1, <1>2, LandType DEF TypeOK, StepStatuses
  <2>2. counter' \in [Workers -> Nat]
    BY <1>2, NumbersType DEF TypeOK, RowsOK
  <2>3. RowsOK' BY <2>1, <2>2, RowsFromStep DEF Claim, TypeOK, RowsOK
  <2>4. StepsOK' BY <1>2, GoType DEF Claim, TypeOK, Places
  <2>5. RunsOK' BY <1>2 DEF TypeOK, RunsOK
  <2> QED BY <2>3, <2>4, <2>5 DEF TypeOK
<1>3. CASE /\ UNCHANGED <<stepStatus, stepVersion>>
           /\ ReturnError(r, s, "error")
           /\ UNCHANGED counter
  <2>1. RowsOK' BY <1>3 DEF Claim, TypeOK, RowsOK, execRows
  <2>2. RunsOK' /\ StepsOK' BY <1>3, ReturnErrorType DEF Claim, TypeOK
  <2> QED BY <2>1, <2>2 DEF TypeOK
<1> QED BY <1>2, <1>3 DEF Claim, RefuseStep

LEMMA OutcomesAre == ASSUME NEW s \in Steps, RowsOK PROVE Outcomes(s) \subseteq Results
  BY WorkflowsAre DEF Outcomes, Results, Actions

LEMMA TypeExecute ==
  ASSUME TypeOK, NEW r \in Runs, NEW s \in Steps, Execute(r, s)
  PROVE  TypeOK'
<1>1. RowsOK' BY DEF Execute, TypeOK, RowsOK, execRows, stepRows
<1>2. PICK o \in Results : Go(r, s, o) BY OutcomesAre DEF Execute, TypeOK
<1>3. StepsOK' BY <1>2, GoType DEF Execute, TypeOK, Places
<1>4. RunsOK' BY DEF Execute, TypeOK, RunsOK
<1> QED BY <1>1, <1>3, <1>4 DEF TypeOK

LEMMA TypeNotExecutable ==
  ASSUME TypeOK, NEW r \in Runs, NEW s \in Steps, NotExecutable(r, s)
  PROVE  TypeOK'
<1>1. ExecRowOK BY MarkType DEF NotExecutable, At, ExecStatuses
<1>2. RowsOK' BY <1>1, RowsFromExec DEF NotExecutable, TypeOK
<1>3. RunsOK' /\ StepsOK' BY ReturnErrorType DEF NotExecutable, TypeOK
<1> QED BY <1>2, <1>3 DEF TypeOK

LEMMA TypeSucceed ==
  ASSUME TypeOK, NEW r \in Runs, NEW s \in Steps, Succeed(r, s)
  PROVE  TypeOK'
<1> DEFINE x == run[r].exec
           unmetNow == step[r][s].pc = "unmet"
           skipped == run[r].skipped \cup IF unmetNow THEN {s} ELSE {}
<1>1. x \in Execs BY BusyHasExec DEF Succeed, TypeOK
<1>2. StepsOK' BY GoType DEF Succeed, TypeOK, Places
<1>3. skipped \in SUBSET Steps BY RunIs, RunFields DEF TypeOK
<1>4. CASE /\ LandStep(x, s, step[r][s].token, "SUCCESS")
           /\ unmet' = [unmet EXCEPT ![x] = IF unmetNow THEN @ \cup {s} ELSE @ \ {s}]
           /\ run' = [run EXCEPT ![r].skipped = skipped]
  <2>1. StepRowOK BY <1>1, <1>4, LandType DEF TypeOK, StepStatuses
  <2>2. unmet' \in [Execs -> SUBSET Steps] BY <1>1, <1>4 DEF TypeOK, RowsOK
  <2>3. RowsOK' BY <2>1, <2>2, RowsFromStep DEF Succeed, TypeOK, RowsOK
  <2>4. RunsOK' BY <1>3, <1>4, OnlySkippedEdit DEF TypeOK
  <2> QED BY <1>2, <2>3, <2>4 DEF TypeOK
<1>5. CASE /\ UNCHANGED <<stepStatus, stepVersion>>
           /\ run' = [run EXCEPT ![r].skipped = skipped, ![r].errs = Append(@, "error")]
           /\ UNCHANGED unmet
  <2>1. RowsOK' BY <1>5 DEF Succeed, TypeOK, RowsOK, execRows
  <2>2. Append(run[r].errs, "error") \in Seq({"error", "suspend"})
    BY RunIs, RunFields DEF TypeOK
  <2> HIDE DEF skipped
  <2>3. run' = [run EXCEPT ![r] =
                 [run[r] EXCEPT !.skipped = skipped, !.errs = Append(run[r].errs, "error")]]
    BY <1>5, RunIs DEF TypeOK, RunType, RunsOK
  <2>4. RunsOK' BY <1>3, <2>2, <2>3, SkippedEdit DEF TypeOK
  <2> QED BY <1>2, <2>1, <2>4 DEF TypeOK
<1> QED BY <1>4, <1>5 DEF Succeed, RefuseStep

LEMMA TypeSuspend ==
  ASSUME TypeOK, NEW r \in Runs, NEW s \in Steps, Suspend(r, s)
  PROVE  TypeOK'
<1>1. RowsOK'
  BY StepUpdateType DEF Suspend, At, RefuseStep, StepStatuses
<1>2. RunsOK' /\ StepsOK' BY ReturnErrorType DEF Suspend, TypeOK
<1> QED BY <1>1, <1>2 DEF TypeOK

LEMMA TypeRetry ==
  ASSUME TypeOK, NEW r \in Runs, NEW s \in Steps, Retry(r, s)
  PROVE  TypeOK'
<1>1. RowsOK' BY DEF Retry, TypeOK, RowsOK, execRows, stepRows
<1>2. RunsOK' BY DEF Retry, TypeOK, RunsOK
<1>3. step[r][s] \in StepType /\ step[r][s].attempt \in Nat
  BY StepIs DEF TypeOK, StepType
<1>4. workflow.maxRetries[s] \in Nat BY WorkflowsAre DEF TypeOK
<1>5. PICK n \in Nat : n = step[r][s].attempt + 1 /\ n <= workflow.maxRetries[s]
  BY <1>3, <1>4 DEF Retry
<1> DEFINE S == [step[r][s] EXCEPT !.pc = "get", !.attempt = n]
<1>6. S \in StepType /\ S.attempt = n BY <1>3 DEF StepType, Places
<1>7. step' = [step EXCEPT ![r][s] = S] BY <1>5 DEF Retry, TypeOK, StepsOK
<1>8. S.attempt <= workflow.maxRetries[s] BY <1>5, <1>6
<1> HIDE DEF S
<1>9. StepsOK' BY <1>6, <1>7, <1>8, OneStepEdit DEF Retry, TypeOK
<1> QED BY <1>1, <1>2, <1>9 DEF TypeOK

LEMMA TypeGiveUp ==
  ASSUME TypeOK, NEW r \in Runs, NEW s \in Steps, GiveUp(r, s)
  PROVE  TypeOK'
<1>1. RowsOK'
  BY StepUpdateType DEF GiveUp, At, RefuseStep, StepStatuses
<1>2. RunsOK' /\ StepsOK' BY ReturnErrorType DEF GiveUp, TypeOK
<1> QED BY <1>1, <1>2 DEF TypeOK

(* What happens around the runs.                                           *)
LEMMA TypeRecover ==
  ASSUME TypeOK, NEW x \in Execs, Recover(x)
  PROVE  TypeOK'
<1>1. RowsOK'
  BY DisturbType DEF Recover, TypeOK, RowsOK, stepRows, ExecStatuses
<1>2. RunsOK' /\ StepsOK' BY DEF Recover, TypeOK, RunsOK, StepsOK
<1> QED BY <1>1, <1>2 DEF TypeOK

LEMMA TypeCancelRead ==
  ASSUME TypeOK, NEW x \in Execs, CancelRead(x)
  PROVE  TypeOK'
<1>1. cancels' \subseteq [id : Execs, version : Nat]
  BY DEF CancelRead, TypeOK, RowsOK
<1>2. RowsOK'
  BY <1>1, DisturbType DEF CancelRead, TypeOK, RowsOK, execRows, stepRows
<1>3. RunsOK' /\ StepsOK' BY DEF CancelRead, TypeOK, RunsOK, StepsOK
<1> QED BY <1>2, <1>3 DEF TypeOK

LEMMA TypeCancelWrite ==
  ASSUME TypeOK, NEW c \in cancels, CancelWrite(c)
  PROVE  TypeOK'
<1>1. c.id \in Execs BY DEF TypeOK, RowsOK
<1>2. Bump(execVersion[c.id]) \in Nat BY <1>1, BumpType DEF TypeOK, RowsOK
<1>3. /\ execStatus' \in [Execs -> ExecStatuses]
      /\ execVersion' \in [Execs -> Nat]
  <2>1. CASE UNCHANGED execRows BY <2>1 DEF TypeOK, RowsOK, execRows
  <2>2. CASE /\ execStatus' = [execStatus EXCEPT ![c.id] = "CANCELLED"]
             /\ execVersion' = [execVersion EXCEPT ![c.id] = Bump(@)]
    BY <1>1, <1>2, <2>2 DEF TypeOK, RowsOK, ExecStatuses
  <2> QED BY <2>1, <2>2 DEF CancelWrite
<1>4. cancels' \subseteq cancels BY DEF CancelWrite
<1>5. RowsOK' BY <1>3, <1>4 DEF CancelWrite, TypeOK, RowsOK, stepRows
<1>6. RunsOK' /\ StepsOK' BY DEF CancelWrite, TypeOK, RunsOK, StepsOK
<1> QED BY <1>5, <1>6 DEF TypeOK

LEMMA TypeResumeStep ==
  ASSUME TypeOK, NEW x \in Execs, NEW s \in Steps, ResumeStep(x, s)
  PROVE  TypeOK'
<1>1. Bump(stepVersion[x][s]) \in Nat BY BumpType DEF TypeOK, RowsOK
<1>2. stepVersion' = [stepVersion EXCEPT ![x][s] = Bump(stepVersion[x][s])]
  BY DEF ResumeStep
<1>3. stepVersion' \in [Execs -> [Steps -> Nat]] BY <1>1, <1>2 DEF TypeOK, RowsOK
<1>4. stepStatus' \in [Execs -> [Steps -> StepStatuses]]
  BY DEF ResumeStep, TypeOK, RowsOK, StepStatuses
<1>5. RowsOK'
  BY <1>3, <1>4, DisturbType DEF ResumeStep, TypeOK, RowsOK, execRows
<1>6. RunsOK' /\ StepsOK' BY DEF ResumeStep, TypeOK, RunsOK, StepsOK
<1> QED BY <1>5, <1>6 DEF TypeOK

LEMMA TypeResumeExec ==
  ASSUME TypeOK, NEW x \in Execs, ResumeExec(x)
  PROVE  TypeOK'
<1>1. Bump(execVersion[x]) \in Nat BY BumpType DEF TypeOK, RowsOK
<1>2. /\ execStatus' \in [Execs -> ExecStatuses]
      /\ execVersion' \in [Execs -> Nat]
  <2>1. CASE UNCHANGED execRows BY <2>1 DEF TypeOK, RowsOK, execRows
  <2>2. CASE /\ execStatus' = [execStatus EXCEPT ![x] = "PENDING"]
             /\ execVersion' = [execVersion EXCEPT ![x] = Bump(@)]
    BY <1>1, <2>2 DEF TypeOK, RowsOK, ExecStatuses
  <2> QED BY <2>1, <2>2 DEF ResumeExec
<1>3. RowsOK' BY <1>2 DEF ResumeExec, TypeOK, RowsOK, stepRows
<1>4. RunsOK' /\ StepsOK' BY DEF ResumeExec, TypeOK, RunsOK, StepsOK
<1> QED BY <1>3, <1>4 DEF TypeOK

LEMMA TypeCrash ==
  ASSUME TypeOK, NEW w \in Workers, Crash(w)
  PROVE  TypeOK'
<1>1. RowsOK'
  BY DisturbType DEF Crash, TypeOK, RowsOK, execRows, stepRows
<1>2. RunsOK'
  <2>1. run' \in [Runs -> RunType] BY IdleRunType DEF Crash, TypeOK, RunsOK
  <2>2. ASSUME NEW r \in Runs PROVE run'[r].phase = "idle" <=> run'[r].exec = NoExec
    BY IdleRunType DEF Crash, TypeOK, RunsOK
  <2> QED BY <2>1, <2>2 DEF RunsOK
<1>3. StepsOK'
  <2> DEFINE I == [s \in Steps |-> IdleStep]
  <2>1. I \in [Steps -> StepType] /\ \A s \in Steps : I[s] = IdleStep BY IdleStepType
  <2>2. step' = [r \in Runs |-> IF WorkerOf[r] = w THEN I ELSE step[r]] BY DEF Crash
  <2> HIDE DEF I
  <2>3. step' \in [Runs -> [Steps -> StepType]] BY <2>1, <2>2 DEF TypeOK, StepsOK
  <2>4. ASSUME NEW r \in Runs, NEW s \in Steps
        PROVE step'[r][s].attempt <= workflow.maxRetries[s]
    <3>1. step'[r][s] = IdleStep \/ step'[r][s] = step[r][s] BY <2>1, <2>2
    <3>2. workflow.maxRetries[s] \in Nat BY WorkflowsAre DEF TypeOK
    <3> QED BY <3>1, <3>2, StepIs, IdleStepType DEF TypeOK
  <2> QED BY <2>3, <2>4 DEF StepsOK, Crash
<1> QED BY <1>1, <1>2, <1>3 DEF TypeOK

LEMMA TypeInit == ASSUME Init PROVE TypeOK
<1>1. RowsOK
  BY EngineAssumption DEF EngineAssumption, Init, RowsOK, ExecStatuses, StepStatuses
<1>2. RunsOK BY IdleRunType DEF Init, RunsOK
<1>3. StepsOK BY <1>1, IdleStepType, WorkflowsAre DEF Init, StepsOK
<1> QED BY <1>1, <1>2, <1>3 DEF TypeOK

LEMMA TypeStep == ASSUME TypeOK, [Next]_vars PROVE TypeOK'
<1>1. CASE Around
  BY <1>1, TypeStart, TypeRecover, TypeCancelRead, TypeCancelWrite, TypeResumeExec,
     TypeResumeStep, TypeCrash
     DEF Around
<1>2. ASSUME NEW r \in Runs, RunExecution(r) PROVE TypeOK'
  <2>1. ASSUME NEW s \in Steps, StepGoroutine(r, s) PROVE TypeOK'
    BY <2>1, TypeBegin, TypeGet, TypeGetError, TypeClaim, TypeExecute, TypeNotExecutable,
       TypeSucceed, TypeSuspend, TypeRetry, TypeGiveUp DEF StepGoroutine
  <2> QED
    BY <1>2, <2>1, TypeSpawn, TypeJoin, TypeDrainSuspension, TypeSuspended, TypeDrainError,
       TypeUndoAll, TypeFail, TypeFinish, TypeUndo, TypeUndone DEF RunExecution
<1>3. CASE UNCHANGED vars
  BY <1>3 DEF vars, execRows, stepRows, TypeOK, RowsOK, RunsOK, StepsOK
<1> QED BY <1>1, <1>2, <1>3 DEF Next

(* The engine keeps the shape of its state, and no step is tried more      *)
(* often than its retries allow.                                           *)
THEOREM TypeCorrect == Spec => []TypeOK
BY TypeInit, TypeStep, PTL DEF Spec

---------------------------------------------------------------------------
(* The order of the steps.                                                 *)

(* A step's goroutine is at work only in the layer its run waits for, and  *)
(* past the skip map only if nothing it depends on was skipped.            *)
Shape(r) ==
  /\ run[r].phase = "wait" => run[r].layer \in DOMAIN workflow.layers
  /\ run[r].phase \in {"layer", "wait"} => workflow.valid /\ run[r].layer >= 1
  /\ \A s \in Steps : step[r][s].pc \notin {"none", "returned"} =>
       /\ run[r].phase = "wait"
       /\ s \in Layer(r)
       /\ step[r][s].pc # "begin" => DependsOn(s) \cap run[r].skipped = {}

Settled(r, s) ==
  stepStatus[run[r].exec][s] = "SUCCESS" \/ s \in run[r].skipped

(* The steps of the layers behind a run are settled, and as long as there  *)
(* is no error so are those that have returned in its layer.               *)
Settles(r) ==
  /\ run[r].phase \in {"layer", "wait"} =>
       \A k \in DOMAIN workflow.layers : k < run[r].layer =>
         \A s \in workflow.layers[k] : Settled(r, s)
  /\ run[r].phase = "layer" => run[r].errs = <<>>
  /\ run[r].phase = "wait" /\ run[r].errs = <<>> =>
       \A s \in Layer(r) : step[r][s].pc = "returned" => Settled(r, s)

(* What a step's goroutine may do in one step, for both.                   *)
Moves(r, s) ==
  /\ workflow' = workflow
  /\ \A q \in Runs \ {r} : run'[q] = run[q] /\ step'[q] = step[q]
  /\ run[r].phase = "wait" /\ run'[r].phase = "wait"
  /\ run'[r].exec = run[r].exec /\ run'[r].layer = run[r].layer
  /\ \A t \in Steps \ {s} : step'[r][t] = step[r][t]
  /\ step[r][s].pc \notin {"none", "returned"}
  /\ run'[r].skipped = run[r].skipped \/ run'[r].skipped = run[r].skipped \cup {s}
  /\ step[r][s].pc = "begin" /\ step'[r][s].pc # "returned"
       => DependsOn(s) \cap run[r].skipped = {}
  /\ run[r].errs # <<>> => run'[r].errs # <<>>
  /\ \A x \in Execs, t \in Steps :
       x # run[r].exec \/ t # s => stepStatus'[x][t] = stepStatus[x][t]
  /\ step'[r][s].pc = "returned" /\ run'[r].errs = <<>>
       => stepStatus'[run[r].exec][s] = "SUCCESS" \/ s \in run'[r].skipped

LEMMA AppendNotEmpty ==
  ASSUME NEW q \in Seq({"error", "suspend"}), NEW e \in {"error", "suspend"}
  PROVE  Append(q, e) # <<>>
<1>1. Len(Append(q, e)) = Len(q) + 1 /\ Len(q) \in Nat OBVIOUS
<1>2. Len(<<>>) = 0 OBVIOUS
<1> QED BY <1>1, <1>2

LEMMA GoMoves ==
  ASSUME TypeOK, NEW r \in Runs, NEW s \in Steps, NEW p, Go(r, s, p)
  PROVE  /\ \A q \in Runs \ {r} : step'[q] = step[q]
         /\ \A t \in Steps \ {s} : step'[r][t] = step[r][t]
         /\ step'[r][s].pc = p
<1>1. step \in [Runs -> [Steps -> StepType]] BY DEF TypeOK, StepsOK
<1>2. step[r][s] \in StepType BY StepIs DEF TypeOK
<1>3. step' = [step EXCEPT ![r][s].pc = p] BY DEF Go
<1>4. step'[r][s] = [step[r][s] EXCEPT !.pc = p] BY <1>1, <1>3
<1>5. step'[r][s].pc = p BY <1>2, <1>4 DEF StepType
<1> QED BY <1>1, <1>3, <1>5

LEMMA ErrorMoves ==
  ASSUME TypeOK, NEW r \in Runs, NEW s \in Steps, NEW e \in {"error", "suspend"},
         ReturnError(r, s, e)
  PROVE  /\ \A q \in Runs \ {r} : run'[q] = run[q] /\ step'[q] = step[q]
         /\ \A t \in Steps \ {s} : step'[r][t] = step[r][t]
         /\ run'[r].phase = run[r].phase /\ run'[r].exec = run[r].exec
         /\ run'[r].layer = run[r].layer /\ run'[r].skipped = run[r].skipped
         /\ run'[r].errs # <<>>
<1>1. run \in [Runs -> RunType] /\ run[r] \in RunType BY RunIs DEF TypeOK, RunsOK
<1>2. run' = [run EXCEPT ![r].errs = Append(@, e)] BY DEF ReturnError
<1>3. run'[r] = [run[r] EXCEPT !.errs = Append(run[r].errs, e)] BY <1>1, <1>2
<1>4. Append(run[r].errs, e) # <<>> BY <1>1, RunFields, AppendNotEmpty
<1>5. /\ run'[r].phase = run[r].phase /\ run'[r].exec = run[r].exec
      /\ run'[r].layer = run[r].layer /\ run'[r].skipped = run[r].skipped
      /\ run'[r].errs = Append(run[r].errs, e)
  BY <1>1, <1>3 DEF RunType
<1>6. \A q \in Runs \ {r} : run'[q] = run[q] BY <1>1, <1>2
<1> QED BY <1>4, <1>5, <1>6, GoMoves DEF ReturnError

LEMMA LandMoves ==
  ASSUME TypeOK, NEW x \in Execs, NEW s \in Steps, NEW v, NEW st, LandStep(x, s, v, st)
  PROVE  /\ \A y \in Execs, t \in Steps :
              y # x \/ t # s => stepStatus'[y][t] = stepStatus[y][t]
         /\ stepStatus'[x][s] = st
  BY DEF LandStep, TypeOK, RowsOK

LEMMA BeginMoves ==
  ASSUME TypeOK, NEW r \in Runs, NEW s \in Steps, Begin(r, s)
  PROVE  Moves(r, s)
<1>1. run \in [Runs -> RunType] /\ run[r] \in RunType BY RunIs DEF TypeOK, RunsOK
<1>2. CASE /\ Go(r, s, "returned")
           /\ run' = [run EXCEPT ![r].skipped = @ \cup {s}]
  <2>1. run'[r] = [run[r] EXCEPT !.skipped = run[r].skipped \cup {s}] BY <1>1, <1>2
  <2>2. /\ run'[r].phase = run[r].phase /\ run'[r].exec = run[r].exec
        /\ run'[r].layer = run[r].layer /\ run'[r].errs = run[r].errs
        /\ run'[r].skipped = run[r].skipped \cup {s}
    BY <1>1, <2>1 DEF RunType
  <2>3. \A q \in Runs \ {r} : run'[q] = run[q] BY <1>1, <1>2
  <2> QED BY <1>2, <2>2, <2>3, GoMoves DEF Begin, At, Moves, stepRows
<1>3. CASE /\ DependsOn(s) \cap run[r].skipped = {}
           /\ Go(r, s, "get") /\ UNCHANGED run
  BY <1>3, GoMoves DEF Begin, At, Moves, stepRows
<1> QED BY <1>2, <1>3 DEF Begin

LEMMA GetMoves ==
  ASSUME TypeOK, NEW r \in Runs, NEW s \in Steps, Get(r, s)
  PROVE  Moves(r, s)
<1>1. CASE stepStatus[run[r].exec][s] = "SUCCESS" /\ Return(r, s)
  BY <1>1, GoMoves DEF Get, At, Moves, Return, stepRows
<1>2. CASE step' = [step EXCEPT ![r][s].pc = "claim",
                                ![r][s].token = stepVersion[run[r].exec][s]]
  <2>1. step \in [Runs -> [Steps -> StepType]] BY DEF TypeOK, StepsOK
  <2>2. step[r][s] \in StepType BY StepIs DEF TypeOK
  <2>3. step'[r][s] = [step[r][s] EXCEPT !.pc = "claim",
                                         !.token = stepVersion[run[r].exec][s]]
    BY <1>2, <2>1
  <2>4. step'[r][s].pc = "claim" BY <2>2, <2>3 DEF StepType
  <2>5. /\ \A q \in Runs \ {r} : step'[q] = step[q]
        /\ \A t \in Steps \ {s} : step'[r][t] = step[r][t]
    BY <1>2, <2>1
  <2>6. /\ workflow' = workflow /\ run' = run /\ stepStatus' = stepStatus
        /\ run[r].phase = "wait" /\ step[r][s].pc = "get"
    BY DEF Get, Return, At, stepRows
  <2> QED BY <2>4, <2>5, <2>6 DEF Moves
<1> QED BY <1>1, <1>2 DEF Get

LEMMA GetErrorMoves ==
  ASSUME TypeOK, NEW r \in Runs, NEW s \in Steps, GetError(r, s)
  PROVE  Moves(r, s)
  BY ErrorMoves DEF GetError, At, Moves, stepRows

LEMMA ClaimMoves ==
  ASSUME TypeOK, NEW r \in Runs, NEW s \in Steps, Claim(r, s)
  PROVE  Moves(r, s)
<1>1. run[r].exec \in Execs BY BusyHasExec DEF Claim, At, TypeOK
<1>2. CASE /\ LandStep(run[r].exec, s, step[r][s].token, "RUNNING")
           /\ Go(r, s, "execute")
           /\ UNCHANGED run
  BY <1>1, <1>2, LandMoves, GoMoves DEF Claim, At, Moves
<1>3. CASE UNCHANGED stepStatus /\ ReturnError(r, s, "error")
  BY <1>3, ErrorMoves DEF Claim, At, Moves
<1> QED BY <1>2, <1>3 DEF Claim, RefuseStep

LEMMA ExecuteMoves ==
  ASSUME TypeOK, NEW r \in Runs, NEW s \in Steps, Execute(r, s)
  PROVE  Moves(r, s)
<1>1. PICK o \in Results : Go(r, s, o) BY OutcomesAre DEF Execute, TypeOK
<1>2. o # "returned" BY DEF Results
<1> QED BY <1>1, <1>2, GoMoves DEF Execute, At, Moves, stepRows

LEMMA NotExecutableMoves ==
  ASSUME TypeOK, NEW r \in Runs, NEW s \in Steps, NotExecutable(r, s)
  PROVE  Moves(r, s)
  BY ErrorMoves DEF NotExecutable, At, Moves, stepRows

LEMMA SucceedMoves ==
  ASSUME TypeOK, NEW r \in Runs, NEW s \in Steps, Succeed(r, s)
  PROVE  Moves(r, s)
<1> DEFINE x == run[r].exec
           unmetNow == step[r][s].pc = "unmet"
           skipped == run[r].skipped \cup IF unmetNow THEN {s} ELSE {}
<1>1. run \in [Runs -> RunType] /\ run[r] \in RunType BY RunIs DEF TypeOK, RunsOK
<1>2. x \in Execs BY BusyHasExec DEF Succeed, TypeOK
<1>3. /\ workflow' = workflow /\ run[r].phase = "wait"
      /\ step[r][s].pc \in {"ok", "unmet", "partial"}
      /\ Go(r, s, "returned")
  BY DEF Succeed
<1>4. skipped = run[r].skipped \/ skipped = run[r].skipped \cup {s} OBVIOUS
<1>5. CASE /\ LandStep(x, s, step[r][s].token, "SUCCESS")
           /\ run' = [run EXCEPT ![r].skipped = skipped]
  <2> HIDE DEF skipped
  <2>1. run'[r] = [run[r] EXCEPT !.skipped = skipped] BY <1>1, <1>5
  <2>2. /\ run'[r].phase = run[r].phase /\ run'[r].exec = run[r].exec
        /\ run'[r].layer = run[r].layer /\ run'[r].errs = run[r].errs
        /\ run'[r].skipped = skipped
    BY <1>1, <2>1 DEF RunType
  <2>3. \A q \in Runs \ {r} : run'[q] = run[q] BY <1>1, <1>5
  <2>4. /\ \A y \in Execs, t \in Steps :
             y # x \/ t # s => stepStatus'[y][t] = stepStatus[y][t]
        /\ stepStatus'[x][s] = "SUCCESS"
    BY <1>2, <1>5, LandMoves
  <2> QED BY <1>3, <1>4, <2>2, <2>3, <2>4, GoMoves DEF Moves
<1>6. CASE /\ UNCHANGED stepStatus
           /\ run' = [run EXCEPT ![r].skipped = skipped, ![r].errs = Append(@, "error")]
  <2> HIDE DEF skipped
  <2>1. run'[r] = [run[r] EXCEPT !.skipped = skipped, !.errs = Append(run[r].errs, "error")]
    BY <1>1, <1>6 DEF RunType
  <2>2. /\ run'[r].phase = run[r].phase /\ run'[r].exec = run[r].exec
        /\ run'[r].layer = run[r].layer
        /\ run'[r].errs = Append(run[r].errs, "error")
        /\ run'[r].skipped = skipped
    BY <1>1, <2>1 DEF RunType
  <2>3. \A q \in Runs \ {r} : run'[q] = run[q] BY <1>1, <1>6
  <2>4. run'[r].errs # <<>> BY <1>1, <2>2, RunFields, AppendNotEmpty
  <2>5. stepStatus' = stepStatus BY <1>6
  <2> QED BY <1>3, <1>4, <2>2, <2>3, <2>4, <2>5, GoMoves DEF Moves
<1> QED BY <1>5, <1>6 DEF Succeed, RefuseStep

LEMMA SuspendMoves ==
  ASSUME TypeOK, NEW r \in Runs, NEW s \in Steps, Suspend(r, s)
  PROVE  Moves(r, s)
<1>1. run[r].exec \in Execs BY BusyHasExec DEF Suspend, At, TypeOK
<1>2. \A y \in Execs, t \in Steps :
        y # run[r].exec \/ t # s => stepStatus'[y][t] = stepStatus[y][t]
  BY <1>1, LandMoves DEF Suspend, RefuseStep
<1> QED BY <1>2, ErrorMoves DEF Suspend, At, Moves

LEMMA RetryMoves ==
  ASSUME TypeOK, NEW r \in Runs, NEW s \in Steps, Retry(r, s)
  PROVE  Moves(r, s)
<1>1. step \in [Runs -> [Steps -> StepType]] BY DEF TypeOK, StepsOK
<1>2. step[r][s] \in StepType BY StepIs DEF TypeOK
<1>3. step' = [step EXCEPT ![r][s].pc = "get", ![r][s].attempt = @ + 1] BY DEF Retry
<1>4. step'[r][s] = [step[r][s] EXCEPT !.pc = "get", !.attempt = step[r][s].attempt + 1]
  BY <1>1, <1>3
<1>5. step'[r][s].pc = "get" BY <1>2, <1>4 DEF StepType
<1>6. /\ \A q \in Runs \ {r} : step'[q] = step[q]
      /\ \A t \in Steps \ {s} : step'[r][t] = step[r][t]
  BY <1>1, <1>3
<1>7. /\ workflow' = workflow /\ run' = run /\ stepStatus' = stepStatus
      /\ run[r].phase = "wait" /\ step[r][s].pc = "error"
  BY DEF Retry, At, stepRows
<1> QED BY <1>5, <1>6, <1>7 DEF Moves

LEMMA GiveUpMoves ==
  ASSUME TypeOK, NEW r \in Runs, NEW s \in Steps, GiveUp(r, s)
  PROVE  Moves(r, s)
<1>1. run[r].exec \in Execs BY BusyHasExec DEF GiveUp, At, TypeOK
<1>2. \A y \in Execs, t \in Steps :
        y # run[r].exec \/ t # s => stepStatus'[y][t] = stepStatus[y][t]
  BY <1>1, LandMoves DEF GiveUp, RefuseStep
<1> QED BY <1>2, ErrorMoves DEF GiveUp, At, Moves

LEMMA GoroutineMoves ==
  ASSUME TypeOK, NEW r \in Runs, NEW s \in Steps, StepGoroutine(r, s)
  PROVE  Moves(r, s)
  BY BeginMoves, GetMoves, GetErrorMoves, ClaimMoves, ExecuteMoves, NotExecutableMoves,
     SucceedMoves, SuspendMoves, RetryMoves, GiveUpMoves DEF StepGoroutine

---------------------------------------------------------------------------
(* Shape is kept.                                                          *)

LEMMA ShapeFrame ==
  ASSUME NEW q \in Runs, Shape(q), workflow' = workflow, run'[q] = run[q], step'[q] = step[q]
  PROVE  Shape(q)'
  BY DEF Shape, Layer, DependsOn

(* A step is in one layer, and what it depends on in an earlier one.       *)
LEMMA PlanOrder ==
  ASSUME TypeOK, workflow.valid, NEW i \in DOMAIN workflow.layers, NEW s \in workflow.layers[i]
  PROVE  /\ s \in Steps
         /\ \A k \in DOMAIN workflow.layers : s \in workflow.layers[k] => k = i
         /\ \A d \in DependsOn(s) : \E k \in DOMAIN workflow.layers :
              k < i /\ d \in workflow.layers[k] /\ d \notin workflow.layers[i]
<1>1. workflow.layers \in Seq(SUBSET Steps) /\ Planned(workflow)
  BY WorkflowsAre DEF TypeOK
<1>2. workflow.layers[i] \in SUBSET Steps BY <1>1
<1>3. s \in Steps BY <1>2
<1>4. PICK j \in DOMAIN workflow.layers :
        /\ s \in workflow.layers[j]
        /\ \A k \in DOMAIN workflow.layers : s \in workflow.layers[k] => k = j
        /\ \A d \in workflow.dependsOn[s] : \E k \in 1..(j - 1) : d \in workflow.layers[k]
  BY <1>1, <1>3 DEF Planned, Layered
<1>5. j = i BY <1>4
<1>6. DOMAIN workflow.layers = 1..Len(workflow.layers) /\ Len(workflow.layers) \in Nat
  BY <1>1
<1>7. ASSUME NEW d \in DependsOn(s)
      PROVE \E k \in DOMAIN workflow.layers :
              k < i /\ d \in workflow.layers[k] /\ d \notin workflow.layers[i]
  <2>1. PICK k \in 1..(i - 1) : d \in workflow.layers[k] BY <1>4, <1>5 DEF DependsOn
  <2>2. k \in DOMAIN workflow.layers /\ k < i BY <1>6
  <2>3. d \in Steps BY <1>1, <2>1, <2>2
  <2>4. PICK l \in DOMAIN workflow.layers :
          \A m \in DOMAIN workflow.layers : d \in workflow.layers[m] => m = l
    BY <1>1, <2>3 DEF Planned, Layered
  <2>5. k = l BY <2>1, <2>2, <2>4
  <2>6. d \notin workflow.layers[i] BY <1>6, <2>2, <2>4, <2>5
  <2> QED BY <2>1, <2>2, <2>6
<1> QED BY <1>3, <1>4, <1>5, <1>7

LEMMA ShapeMoves ==
  ASSUME TypeOK, NEW r \in Runs, NEW s \in Steps, Moves(r, s), Shape(r)
  PROVE  Shape(r)'
<1>1. /\ workflow' = workflow /\ run[r].phase = "wait" /\ run'[r].phase = "wait"
      /\ run'[r].layer = run[r].layer
      /\ step[r][s].pc \notin {"none", "returned"}
  BY DEF Moves
<1>2. /\ workflow.valid /\ run[r].layer \in DOMAIN workflow.layers
      /\ Layer(r)' = Layer(r) /\ s \in Layer(r)
  BY <1>1 DEF Shape, Layer
<1>3. ASSUME NEW t \in Steps, step'[r][t].pc \notin {"none", "returned"}
      PROVE  /\ t \in Layer(r)
             /\ step'[r][t].pc # "begin" => DependsOn(t) \cap run'[r].skipped = {}
  <2>1. t \in Layer(r)
    BY <1>1, <1>2, <1>3 DEF Moves, Shape
  <2>2. ASSUME step'[r][t].pc # "begin" PROVE DependsOn(t) \cap run[r].skipped = {}
    BY <1>1, <1>3, <2>2 DEF Moves, Shape
  <2>3. s \notin DependsOn(t) BY <1>2, <2>1, PlanOrder DEF Layer
  <2>4. run'[r].skipped = run[r].skipped \/ run'[r].skipped = run[r].skipped \cup {s}
    BY DEF Moves
  <2> QED BY <2>1, <2>2, <2>3, <2>4
<1>4. DependsOn(s)' = DependsOn(s) /\ \A t \in Steps : DependsOn(t)' = DependsOn(t)
  BY <1>1 DEF DependsOn
<1>5. run'[r].layer >= 1 BY <1>1 DEF Shape
<1> QED BY <1>1, <1>2, <1>3, <1>4, <1>5 DEF Shape

---------------------------------------------------------------------------
(* So is Settles, in the rows of an execution that only its run rewrites.  *)

RowsKept(x) ==
  \A t \in Steps : stepStatus[x][t] = "SUCCESS" => stepStatus'[x][t] = "SUCCESS"

LEMMA SettlesFrame ==
  ASSUME TypeOK, NEW q \in Runs, Shape(q), Settles(q), workflow' = workflow,
         run'[q] = run[q], step'[q] = step[q],
         run[q].phase # "idle" => RowsKept(run[q].exec)
  PROVE  Settles(q)'
<1>1. workflow.layers \in Seq(SUBSET Steps) BY WorkflowsAre DEF TypeOK
<1>2. ASSUME NEW k \in DOMAIN workflow.layers, NEW t \in workflow.layers[k],
             Settled(q, t), run[q].phase # "idle"
      PROVE Settled(q, t)'
  <2>1. t \in Steps BY <1>1
  <2> QED BY <1>2, <2>1 DEF Settled, RowsKept
<1>3. ASSUME run[q].phase \in {"layer", "wait"} PROVE run[q].phase # "idle"
  BY <1>3
<1>4. ASSUME run[q].phase \in {"layer", "wait"}, NEW k \in DOMAIN workflow.layers,
             k < run[q].layer, NEW t \in workflow.layers[k]
      PROVE Settled(q, t)'
  BY <1>2, <1>3, <1>4 DEF Settles
<1>5. ASSUME run[q].phase = "wait", run[q].errs = <<>>, NEW t \in Layer(q),
             step[q][t].pc = "returned"
      PROVE Settled(q, t)'
  BY <1>2, <1>5 DEF Shape, Settles, Layer
<1> QED BY <1>4, <1>5 DEF Settles, Layer

LEMMA SettlesMoves ==
  ASSUME TypeOK, NEW r \in Runs, NEW s \in Steps, Moves(r, s), Shape(r), Settles(r)
  PROVE  Settles(r)'
<1>1. /\ workflow' = workflow /\ run[r].phase = "wait" /\ run'[r].phase = "wait"
      /\ run'[r].layer = run[r].layer /\ run'[r].exec = run[r].exec
      /\ step[r][s].pc \notin {"none", "returned"}
  BY DEF Moves
<1>2. /\ workflow.valid /\ run[r].layer \in DOMAIN workflow.layers
      /\ Layer(r)' = Layer(r) /\ s \in Layer(r)
  BY <1>1 DEF Shape, Layer
<1>3. run[r].exec \in Execs BY <1>1, BusyHasExec DEF TypeOK
<1>4. ASSUME NEW t \in Steps, t # s, Settled(r, t) PROVE Settled(r, t)'
  BY <1>1, <1>3, <1>4 DEF Settled, Moves
<1>5. ASSUME NEW k \in DOMAIN workflow.layers, k < run[r].layer, NEW t \in workflow.layers[k]
      PROVE Settled(r, t)'
  <2>1. Settled(r, t) BY <1>1, <1>5 DEF Settles
  <2>2. t \in Steps /\ t # s
    <3>1. workflow.layers \in Seq(SUBSET Steps) BY WorkflowsAre DEF TypeOK
    <3>2. run[r].layer \in Nat BY RunIs, RunFields DEF TypeOK
    <3>3. k # run[r].layer BY <1>5, <3>1, <3>2
    <3> QED BY <1>2, <1>5, <3>3, PlanOrder DEF Layer
  <2> QED BY <1>4, <2>1, <2>2
<1>6. ASSUME run'[r].errs = <<>>, NEW t \in Layer(r), step'[r][t].pc = "returned"
      PROVE Settled(r, t)'
  <2>1. run[r].errs = <<>> BY <1>6 DEF Moves
  <2>2. t \in Steps BY <1>2, PlanOrder DEF Layer
  <2>3. CASE t = s BY <1>1, <1>6, <2>3 DEF Moves, Settled
  <2>4. CASE t # s
    <3>1. step[r][t].pc = "returned" BY <1>6, <2>2, <2>4 DEF Moves
    <3>2. Settled(r, t) BY <1>1, <1>6, <2>1, <3>1 DEF Settles
    <3> QED BY <1>4, <2>2, <2>4, <3>2
  <2> QED BY <2>3, <2>4
<1> QED BY <1>1, <1>2, <1>5, <1>6 DEF Settles

(* Outside its layers a run has nothing to keep.                           *)
LEMMA Quiet ==
  ASSUME NEW r \in Runs, workflow' = workflow, run'[r].phase \notin {"layer", "wait"},
         \A s \in Steps : step'[r][s].pc \in {"none", "returned"}
  PROVE  Shape(r)' /\ Settles(r)'
  BY DEF Shape, Settles

(* Only the run and its steps change.                                      *)
Alone(r) ==
  /\ workflow' = workflow
  /\ \A q \in Runs \ {r} : run'[q] = run[q] /\ step'[q] = step[q]

LEMMA AtRest ==
  ASSUME NEW r \in Runs, Shape(r), run[r].phase # "wait"
  PROVE  \A s \in Steps : step[r][s].pc \in {"none", "returned"}
  BY DEF Shape

LEMMA EndRunQuiet ==
  ASSUME TypeOK, NEW r \in Runs, EndRun(r), workflow' = workflow
  PROVE  Alone(r) /\ Shape(r)' /\ Settles(r)'
<1>1. run'[r] = IdleRun /\ step'[r] = [s \in Steps |-> IdleStep]
  BY DEF EndRun, TypeOK, RunsOK, StepsOK
<1>2. \A s \in Steps : step'[r][s].pc = "none" BY <1>1 DEF IdleStep
<1>3. run'[r].phase = "idle" BY <1>1, IdleRunType
<1>4. Alone(r) BY DEF EndRun, Alone, TypeOK, RunsOK, StepsOK
<1> QED BY <1>2, <1>3, <1>4, Quiet

LEMMA PhaseIs ==
  ASSUME TypeOK, NEW r \in Runs, NEW p, run' = [run EXCEPT ![r].phase = p]
  PROVE  run'[r].phase = p /\ \A q \in Runs \ {r} : run'[q] = run[q]
<1>1. run \in [Runs -> RunType] /\ run[r] \in RunType BY RunIs DEF TypeOK, RunsOK
<1>2. run'[r] = [run[r] EXCEPT !.phase = p] BY <1>1
<1>3. run'[r].phase = p BY <1>1, <1>2 DEF RunType
<1> QED BY <1>1, <1>3

LEMMA StartKeeps ==
  ASSUME TypeOK, NEW r \in Runs, NEW x \in Execs, Start(r, x), Shape(r)
  PROVE  Alone(r) /\ Shape(r)' /\ Settles(r)'
<1> DEFINE p == IF workflow.valid THEN "layer" ELSE "fail"
<1>1. run' = [run EXCEPT ![r] = [IdleRun EXCEPT !.exec = x, !.phase = p, !.layer = 1]]
  BY DEF Start
<1>2. run'[r] = [IdleRun EXCEPT !.exec = x, !.phase = p, !.layer = 1]
  BY <1>1 DEF TypeOK, RunsOK
<1> HIDE DEF p
<1>3. IdleRun \in RunType /\ IdleRun.errs = <<>> BY IdleRunType DEF IdleRun
<1>4. run'[r].phase = p /\ run'[r].layer = 1 /\ run'[r].errs = <<>>
  BY <1>2, <1>3 DEF RunType
<1>5. workflow' = workflow /\ step' = step BY DEF Start
<1>6. \A s \in Steps : step[r][s].pc \in {"none", "returned"} BY AtRest DEF Start
<1>7. Alone(r) BY <1>1, <1>5 DEF Alone, TypeOK, RunsOK
<1>8. CASE workflow.valid
  <2>1. run'[r].phase = "layer" BY <1>4, <1>8 DEF p
  <2>2. workflow.layers \in Seq(SUBSET Steps) BY WorkflowsAre DEF TypeOK
  <2>3. ASSUME NEW k \in DOMAIN workflow.layers PROVE ~(k < 1)
    BY <2>2
  <2> QED BY <1>4, <1>5, <1>6, <1>7, <1>8, <2>1, <2>3 DEF Shape, Settles
<1>9. CASE ~workflow.valid
  <2>1. run'[r].phase = "fail" BY <1>4, <1>9 DEF p
  <2> QED BY <1>5, <1>6, <1>7, <2>1, Quiet
<1> QED BY <1>8, <1>9

LEMMA SpawnKeeps ==
  ASSUME TypeOK, NEW r \in Runs, Spawn(r), Shape(r)
  PROVE  Alone(r) /\ Shape(r)' /\ (Settles(r) => Settles(r)')
<1>1. run \in [Runs -> RunType] /\ run[r] \in RunType BY RunIs DEF TypeOK, RunsOK
<1>2. run'[r] = [run[r] EXCEPT !.phase = "wait"] BY <1>1 DEF Spawn
<1>3. /\ run'[r].phase = "wait" /\ run'[r].layer = run[r].layer /\ run'[r].exec = run[r].exec
      /\ run'[r].errs = run[r].errs /\ run'[r].skipped = run[r].skipped
  BY <1>1, <1>2 DEF RunType
<1>4. /\ workflow' = workflow /\ stepStatus' = stepStatus /\ run[r].phase = "layer"
      /\ run[r].layer \in DOMAIN workflow.layers
  BY DEF Spawn, stepRows
<1>5. step' = [step EXCEPT ![r] = [s \in Steps |->
                 IF s \in Layer(r) THEN [IdleStep EXCEPT !.pc = "begin"] ELSE step[r][s]]]
  BY DEF Spawn
<1>6. Alone(r) BY <1>4, <1>5 DEF Spawn, Alone, TypeOK, RunsOK, StepsOK
<1>7. [IdleStep EXCEPT !.pc = "begin"].pc = "begin" BY DEF IdleStep
<1>8. ASSUME NEW s \in Steps
      PROVE step'[r][s].pc = IF s \in Layer(r) THEN "begin" ELSE step[r][s].pc
  BY <1>5, <1>7 DEF TypeOK, StepsOK
<1>9. \A s \in Steps : step[r][s].pc \in {"none", "returned"} BY <1>4, AtRest
<1>10. Layer(r)' = Layer(r) /\ Layer(r) \subseteq Steps
  <2>1. workflow.layers \in Seq(SUBSET Steps) BY WorkflowsAre DEF TypeOK
  <2> QED BY <1>3, <1>4, <2>1 DEF Layer
<1>11. Shape(r)' BY <1>3, <1>4, <1>8, <1>9, <1>10 DEF Shape
<1>12. ASSUME Settles(r) PROVE Settles(r)'
  <2>1. ASSUME NEW k \in DOMAIN workflow.layers, k < run[r].layer, NEW t \in workflow.layers[k]
        PROVE Settled(r, t)'
    BY <1>3, <1>4, <1>12, <2>1 DEF Settles, Settled
  <2> QED BY <1>3, <1>4, <1>8, <1>10, <2>1 DEF Settles
<1> QED BY <1>6, <1>11, <1>12

LEMMA JoinKeeps ==
  ASSUME TypeOK, NEW r \in Runs, Join(r), Shape(r)
  PROVE  Alone(r) /\ Shape(r)' /\ (Settles(r) => Settles(r)')
<1>1. run \in [Runs -> RunType] /\ run[r] \in RunType /\ run[r].layer \in Nat
  BY RunIs, RunFields DEF TypeOK, RunsOK
<1>2. /\ workflow' = workflow /\ stepStatus' = stepStatus /\ step' = step
      /\ run[r].phase = "wait"
      /\ \A s \in Layer(r) : step[r][s].pc = "returned"
  BY DEF Join, stepRows
<1>3. Alone(r) BY <1>1, <1>2 DEF Join, Alone
<1>4. workflow.valid /\ run[r].layer >= 1 /\ run[r].layer \in DOMAIN workflow.layers
  BY <1>2 DEF Shape
<1>5. \A s \in Steps : step[r][s].pc \in {"none", "returned"} BY <1>2 DEF Shape
<1>6. CASE Cancelled(r)
  <2>1. run' = [run EXCEPT ![r].phase = "drain", ![r].layer = run[r].layer]
    BY <1>6 DEF Join
  <2>2. run'[r] = [run[r] EXCEPT !.phase = "drain", !.layer = run[r].layer]
    BY <1>1, <2>1 DEF RunType
  <2>3. run'[r].phase = "drain" BY <1>1, <2>2 DEF RunType
  <2> QED BY <1>2, <1>3, <1>5, <2>3, Quiet
<1>7. CASE ~Cancelled(r)
  <2>1. run' = [run EXCEPT ![r].phase = "layer", ![r].layer = run[r].layer + 1]
    BY <1>7 DEF Join
  <2>2. run'[r] = [run[r] EXCEPT !.phase = "layer", !.layer = run[r].layer + 1]
    BY <1>1, <2>1 DEF RunType
  <2>3. /\ run'[r].phase = "layer" /\ run'[r].layer = run[r].layer + 1
        /\ run'[r].errs = run[r].errs /\ run'[r].exec = run[r].exec
        /\ run'[r].skipped = run[r].skipped
    BY <1>1, <2>2 DEF RunType
  <2>4. run[r].errs = <<>> BY <1>7 DEF Cancelled
  <2>5. run[r].layer + 1 >= 1 BY <1>1
  <2>6. Shape(r)' BY <1>2, <1>4, <1>5, <2>3, <2>5 DEF Shape
  <2>7. ASSUME Settles(r), NEW k \in DOMAIN workflow.layers, k < run[r].layer + 1,
               NEW t \in workflow.layers[k]
        PROVE Settled(r, t)'
    <3>1. workflow.layers \in Seq(SUBSET Steps) BY WorkflowsAre DEF TypeOK
    <3>2. k < run[r].layer \/ k = run[r].layer BY <1>1, <2>7, <3>1
    <3>3. Settled(r, t) BY <1>2, <2>4, <2>7, <3>2 DEF Settles, Layer
    <3> QED BY <1>2, <2>3, <3>3 DEF Settled
  <2>8. ASSUME Settles(r) PROVE Settles(r)'
    BY <1>2, <2>3, <2>4, <2>7, <2>8 DEF Settles
  <2> QED BY <1>3, <2>6, <2>8
<1> QED BY <1>6, <1>7

LEMMA DrainSuspensionKeeps ==
  ASSUME TypeOK, NEW r \in Runs, DrainSuspension(r), Shape(r)
  PROVE  Alone(r) /\ Shape(r)' /\ Settles(r)'
<1>1. run \in [Runs -> RunType] /\ run[r] \in RunType BY RunIs DEF TypeOK, RunsOK
<1>2. run' = [run EXCEPT ![r].errs = Tail(@), ![r].suspended = TRUE]
  BY DEF DrainSuspension
<1>3. run'[r] = [run[r] EXCEPT !.errs = Tail(run[r].errs), !.suspended = TRUE]
  BY <1>1, <1>2 DEF RunType
<1>4. run'[r].phase = run[r].phase BY <1>1, <1>3 DEF RunType
<1>5. workflow' = workflow /\ step' = step /\ run[r].phase = "drain"
  BY DEF DrainSuspension
<1>6. Alone(r) BY <1>1, <1>2, <1>5 DEF Alone
<1> QED BY <1>4, <1>5, <1>6, AtRest, Quiet

LEMMA DrainErrorKeeps ==
  ASSUME TypeOK, NEW r \in Runs, DrainError(r), Shape(r)
  PROVE  Alone(r) /\ Shape(r)' /\ Settles(r)'
<1>1. run \in [Runs -> RunType] /\ run[r] \in RunType BY RunIs DEF TypeOK, RunsOK
<1>2. workflow' = workflow /\ run[r].phase = "drain" BY DEF DrainError
<1>3. CASE /\ run' = [run EXCEPT ![r].phase = "undo", ![r].todo = Undoable(run[r].exec)]
           /\ step' = [step EXCEPT ![r] = [s \in Steps |->
                         [step[r][s] EXCEPT !.token = stepVersion[run[r].exec][s]]]]
  <2>1. run'[r] = [run[r] EXCEPT !.phase = "undo", !.todo = Undoable(run[r].exec)]
    BY <1>1, <1>3 DEF RunType
  <2>2. run'[r].phase = "undo" BY <1>1, <2>1 DEF RunType
  <2>3. ASSUME NEW s \in Steps PROVE step'[r][s].pc = step[r][s].pc
    <3>1. step'[r][s] = [step[r][s] EXCEPT !.token = stepVersion[run[r].exec][s]]
      BY <1>3 DEF TypeOK, StepsOK
    <3>2. step[r][s] \in StepType BY StepIs DEF TypeOK
    <3> QED BY <3>1, <3>2 DEF StepType
  <2>4. Alone(r) BY <1>1, <1>2, <1>3 DEF Alone, TypeOK, StepsOK
  <2> QED BY <1>2, <2>2, <2>3, <2>4, AtRest, Quiet
<1>4. CASE run' = [run EXCEPT ![r].phase = "fail"] /\ UNCHANGED step
  <2>1. run'[r].phase = "fail" /\ \A q \in Runs \ {r} : run'[q] = run[q]
    BY <1>4, PhaseIs
  <2> QED BY <1>2, <1>4, <2>1, AtRest, Quiet DEF Alone
<1> QED BY <1>3, <1>4 DEF DrainError

LEMMA UndoKeeps ==
  ASSUME TypeOK, NEW r \in Runs, NEW s \in Steps, Undo(r, s), Shape(r)
  PROVE  Alone(r) /\ Shape(r)' /\ Settles(r)'
<1>1. workflow' = workflow /\ step' = step /\ run[r].phase = "undo" BY DEF Undo
<1>2. run'[r].phase = "undoing" /\ \A q \in Runs \ {r} : run'[q] = run[q]
  BY PhaseIs DEF Undo
<1> QED BY <1>1, <1>2, AtRest, Quiet DEF Alone

LEMMA UndoneKeeps ==
  ASSUME TypeOK, NEW r \in Runs, NEW s \in Steps, Undone(r, s), Shape(r)
  PROVE  Alone(r) /\ Shape(r)' /\ Settles(r)'
<1>1. workflow' = workflow /\ step' = step /\ run[r].phase = "undoing" BY DEF Undone
<1>2. run \in [Runs -> RunType] /\ run[r] \in RunType BY RunIs DEF TypeOK, RunsOK
<1>3. run' = [run EXCEPT ![r].phase = "undo", ![r].todo = @ \ {s}] BY DEF Undone
<1>4. run'[r] = [run[r] EXCEPT !.phase = "undo", !.todo = run[r].todo \ {s}]
  BY <1>2, <1>3 DEF RunType
<1>5. run'[r].phase = "undo" BY <1>2, <1>4 DEF RunType
<1>6. Alone(r) BY <1>1, <1>2, <1>3 DEF Alone
<1> QED BY <1>1, <1>5, <1>6, AtRest, Quiet

LEMMA UndoAllKeeps ==
  ASSUME TypeOK, NEW r \in Runs, UndoAll(r), Shape(r)
  PROVE  Alone(r) /\ Shape(r)' /\ Settles(r)'
<1>1. workflow' = workflow /\ step' = step /\ run[r].phase = "undo" BY DEF UndoAll
<1>2. run'[r].phase = "fail" /\ \A q \in Runs \ {r} : run'[q] = run[q]
  BY PhaseIs DEF UndoAll
<1> QED BY <1>1, <1>2, AtRest, Quiet DEF Alone

LEMMA RunKeeps ==
  ASSUME TypeOK, NEW r \in Runs, RunExecution(r), Shape(r)
  PROVE  Alone(r) /\ Shape(r)' /\ (Settles(r) => Settles(r)')
<1>1. CASE Suspended(r) BY <1>1, EndRunQuiet DEF Suspended
<1>2. CASE Fail(r) BY <1>2, EndRunQuiet DEF Fail
<1>3. CASE Finish(r) BY <1>3, EndRunQuiet DEF Finish
<1>4. CASE Spawn(r) BY <1>4, SpawnKeeps
<1>5. CASE Join(r) BY <1>5, JoinKeeps
<1>6. CASE DrainSuspension(r) \/ DrainError(r) \/ UndoAll(r)
  BY <1>6, DrainSuspensionKeeps, DrainErrorKeeps, UndoAllKeeps
<1>7. ASSUME NEW s \in Steps, Undo(r, s) \/ Undone(r, s)
      PROVE Alone(r) /\ Shape(r)' /\ Settles(r)'
  BY <1>7, UndoKeeps, UndoneKeeps
<1>8. ASSUME NEW s \in Steps, StepGoroutine(r, s)
      PROVE Alone(r) /\ Shape(r)' /\ (Settles(r) => Settles(r)')
  <2>1. Moves(r, s) BY <1>8, GoroutineMoves
  <2>2. Alone(r) BY <2>1 DEF Moves, Alone
  <2> QED BY <2>1, <2>2, ShapeMoves, SettlesMoves
<1> QED BY <1>1, <1>2, <1>3, <1>4, <1>5, <1>6, <1>7, <1>8 DEF RunExecution

(* A run rewrites the rows of its own execution only.                      *)
LEMMA OwnRowsOnly ==
  ASSUME TypeOK, NEW r \in Runs, RunExecution(r)
  PROVE  /\ run[r].phase # "idle"
         /\ \A x \in Execs : x # run[r].exec => RowsKept(x)
<1>1. CASE \/ Suspended(r) \/ Fail(r) \/ Finish(r) \/ Spawn(r) \/ Join(r)
           \/ DrainSuspension(r) \/ DrainError(r) \/ UndoAll(r)
  <2>1. run[r].phase # "idle"
    BY <1>1 DEF Suspended, Fail, Finish, Spawn, Join, DrainSuspension, DrainError, UndoAll
  <2>2. stepStatus' = stepStatus
    BY <1>1 DEF Suspended, Fail, Finish, Spawn, Join, DrainSuspension, DrainError, UndoAll,
                stepRows
  <2> QED BY <2>1, <2>2 DEF RowsKept
<1>2. ASSUME NEW s \in Steps, Undo(r, s) \/ Undone(r, s)
      PROVE /\ run[r].phase # "idle"
            /\ \A x \in Execs : x # run[r].exec => RowsKept(x)
  <2>1. run[r].phase # "idle" BY <1>2 DEF Undo, Undone
  <2>2. run[r].exec \in Execs BY <2>1, BusyHasExec DEF TypeOK
  <2>3. \/ \E st \in {"RUNNING", "SUCCESS", "FAILED"} :
             LandStep(run[r].exec, s, step[r][s].token, st)
        \/ stepStatus' = stepStatus
    BY <1>2 DEF Undo, Undone, RefuseStep
  <2>4. \A y \in Execs, t \in Steps :
          y # run[r].exec => stepStatus'[y][t] = stepStatus[y][t]
    BY <2>2, <2>3, LandMoves
  <2> QED BY <2>1, <2>4 DEF RowsKept
<1>3. ASSUME NEW s \in Steps, StepGoroutine(r, s)
      PROVE /\ run[r].phase # "idle"
            /\ \A x \in Execs : x # run[r].exec => RowsKept(x)
  BY <1>3, GoroutineMoves DEF Moves, RowsKept
<1> QED BY <1>1, <1>2, <1>3 DEF RunExecution

LEMMA ShapeInit == ASSUME Init PROVE \A r \in Runs : Shape(r) /\ Settles(r)
<1>1. ASSUME NEW r \in Runs
      PROVE run[r].phase = "idle" /\ \A s \in Steps : step[r][s].pc = "none"
  BY DEF Init, IdleRun, IdleStep
<1> QED BY <1>1 DEF Shape, Settles

LEMMA ShapeStep ==
  ASSUME TypeOK, \A r \in Runs : Shape(r), [Next]_vars
  PROVE  \A r \in Runs : Shape(r)'
<1>1. ASSUME NEW r \in Runs, Alone(r), Shape(r)' PROVE \A q \in Runs : Shape(q)'
  BY <1>1, ShapeFrame DEF Alone
<1>2. ASSUME NEW r \in Runs, RunExecution(r) PROVE \A q \in Runs : Shape(q)'
  BY <1>1, <1>2, RunKeeps
<1>3. ASSUME NEW r \in Runs, NEW x \in Execs, Start(r, x) PROVE \A q \in Runs : Shape(q)'
  BY <1>1, <1>3, StartKeeps
<1>4. ASSUME NEW w \in Workers, Crash(w) PROVE \A q \in Runs : Shape(q)'
  <2>1. ASSUME NEW q \in Runs PROVE Shape(q)'
    <3>1. workflow' = workflow BY <1>4 DEF Crash
    <3>2. CASE WorkerOf[q] = w
      <4>1. run'[q] = IdleRun /\ step'[q] = [s \in Steps |-> IdleStep]
        BY <1>4, <3>2 DEF Crash
      <4>2. \A s \in Steps : step'[q][s].pc = "none" BY <4>1 DEF IdleStep
      <4>3. run'[q].phase = "idle" BY <4>1, IdleRunType
      <4> QED BY <3>1, <4>2, <4>3, Quiet
    <3>3. CASE WorkerOf[q] # w
      <4>1. run'[q] = run[q] /\ step'[q] = step[q] BY <1>4, <3>3 DEF Crash
      <4> QED BY <3>1, <4>1, ShapeFrame
    <3> QED BY <3>2, <3>3
  <2> QED BY <2>1
<1>5. CASE workflow' = workflow /\ run' = run /\ step' = step
  BY <1>5, ShapeFrame
<1>6. CASE Around
  BY <1>3, <1>4, <1>5, <1>6 DEF Around, Recover, CancelRead, CancelWrite, ResumeExec,
                                ResumeStep
<1> QED BY <1>2, <1>5, <1>6 DEF Next, vars

---------------------------------------------------------------------------
(* The channel of errors.                                                  *)

Returned(r) == {s \in Layer(r) : step[r][s].pc = "returned"}

(* Every error on the channel of a layer is that of a goroutine that has   *)
(* returned, and each goroutine sends one at most.                         *)
Counted(r) ==
  /\ run[r].phase = "layer" => run[r].errs = <<>>
  /\ run[r].phase = "wait" => Len(run[r].errs) <= Cardinality(Returned(r))

LEMMA LayerIs ==
  ASSUME TypeOK, NEW r \in Runs, run[r].layer \in DOMAIN workflow.layers
  PROVE  /\ Layer(r) \subseteq Steps
         /\ IsFiniteSet(Layer(r)) /\ IsFiniteSet(Returned(r))
         /\ Cardinality(Layer(r)) \in Nat /\ Cardinality(Returned(r)) \in Nat
<1>1. Layer(r) \subseteq Steps
  <2>1. workflow.layers \in Seq(SUBSET Steps) BY WorkflowsAre DEF TypeOK
  <2> QED BY <2>1 DEF Layer
<1>2. IsFiniteSet(Layer(r)) BY <1>1, EngineAssumption, FS_Subset DEF EngineAssumption
<1>3. IsFiniteSet(Returned(r)) BY <1>2, FS_Subset DEF Returned
<1> QED BY <1>1, <1>2, <1>3, FS_CardinalityType

(* A goroutine sends nothing, or one error as the last thing it does.      *)
Sends(r, s) ==
  \/ run'[r].errs = run[r].errs
  \/ /\ step'[r][s].pc = "returned"
     /\ Len(run'[r].errs) = Len(run[r].errs) + 1

LEMMA AppendIs ==
  ASSUME TypeOK, NEW r \in Runs, NEW e \in {"error", "suspend"}
  PROVE  Len(Append(run[r].errs, e)) = Len(run[r].errs) + 1
<1>1. run[r].errs \in Seq({"error", "suspend"}) BY RunIs, RunFields DEF TypeOK
<1> QED BY <1>1

LEMMA ErrorSends ==
  ASSUME TypeOK, NEW r \in Runs, NEW s \in Steps, NEW e \in {"error", "suspend"},
         ReturnError(r, s, e)
  PROVE  Sends(r, s)
<1>1. run \in [Runs -> RunType] /\ run[r] \in RunType BY RunIs DEF TypeOK, RunsOK
<1>2. run'[r] = [run[r] EXCEPT !.errs = Append(run[r].errs, e)]
  BY <1>1 DEF ReturnError
<1>3. run'[r].errs = Append(run[r].errs, e) BY <1>1, <1>2 DEF RunType
<1>4. step'[r][s].pc = "returned" BY GoMoves DEF ReturnError
<1> QED BY <1>3, <1>4, AppendIs DEF Sends

LEMMA GoroutineSends ==
  ASSUME TypeOK, NEW r \in Runs, NEW s \in Steps, StepGoroutine(r, s)
  PROVE  Sends(r, s)
<1>1. run \in [Runs -> RunType] /\ run[r] \in RunType BY RunIs DEF TypeOK, RunsOK
<1>2. ASSUME NEW S, run' = [run EXCEPT ![r].skipped = S] PROVE Sends(r, s)
  <2>1. run'[r] = [run[r] EXCEPT !.skipped = S] BY <1>1, <1>2
  <2>2. run'[r].errs = run[r].errs BY <1>1, <2>1 DEF RunType
  <2> QED BY <2>2 DEF Sends
<1>3. ASSUME UNCHANGED run PROVE Sends(r, s) BY <1>3 DEF Sends
<1>4. CASE Begin(r, s) BY <1>2, <1>3, <1>4 DEF Begin
<1>5. CASE Get(r, s) \/ Execute(r, s) \/ Retry(r, s)
  BY <1>3, <1>5 DEF Get, Return, Execute, Retry
<1>6. CASE \/ GetError(r, s) \/ NotExecutable(r, s) \/ Suspend(r, s) \/ GiveUp(r, s)
  BY <1>6, ErrorSends DEF GetError, NotExecutable, Suspend, GiveUp
<1>7. CASE Claim(r, s) BY <1>3, <1>7, ErrorSends DEF Claim
<1>8. CASE Succeed(r, s)
  <2> DEFINE skipped == run[r].skipped \cup IF step[r][s].pc = "unmet" THEN {s} ELSE {}
  <2>1. CASE run' = [run EXCEPT ![r].skipped = skipped] BY <1>2, <2>1
  <2>2. CASE run' = [run EXCEPT ![r].skipped = skipped, ![r].errs = Append(@, "error")]
    <3> HIDE DEF skipped
    <3>1. run'[r] = [run[r] EXCEPT !.skipped = skipped, !.errs = Append(run[r].errs, "error")]
      BY <1>1, <2>2 DEF RunType
    <3>2. run'[r].errs = Append(run[r].errs, "error") BY <1>1, <3>1 DEF RunType
    <3>3. step'[r][s].pc = "returned" BY <1>8, GoMoves DEF Succeed
    <3> QED BY <3>2, <3>3, AppendIs DEF Sends
  <2> QED BY <1>8, <2>1, <2>2 DEF Succeed
<1> QED BY <1>4, <1>5, <1>6, <1>7, <1>8 DEF StepGoroutine

LEMMA GoroutineCounted ==
  ASSUME TypeOK, NEW r \in Runs, NEW s \in Steps, StepGoroutine(r, s), Shape(r), Counted(r)
  PROVE  Counted(r)'
<1>1. Moves(r, s) /\ Sends(r, s) BY GoroutineMoves, GoroutineSends
<1>2. /\ run[r].phase = "wait" /\ run'[r].phase = "wait" /\ s \in Layer(r)
      /\ run[r].layer \in DOMAIN workflow.layers /\ Layer(r)' = Layer(r)
      /\ step[r][s].pc # "returned"
      /\ \A t \in Steps \ {s} : step'[r][t] = step[r][t]
  BY <1>1 DEF Moves, Shape, Layer
<1>3. Layer(r) \subseteq Steps /\ IsFiniteSet(Returned(r)) /\ Cardinality(Returned(r)) \in Nat
  BY <1>2, LayerIs
<1>4. run[r].errs \in Seq({"error", "suspend"}) /\ Len(run[r].errs) \in Nat
  BY RunIs, RunFields DEF TypeOK
<1>5. Len(run[r].errs) <= Cardinality(Returned(r)) BY <1>2 DEF Counted
<1>6. CASE step'[r][s].pc = "returned"
  <2>1. Returned(r)' = Returned(r) \cup {s} /\ s \notin Returned(r)
    BY <1>2, <1>3, <1>6 DEF Returned
  <2>2. Cardinality(Returned(r)') = Cardinality(Returned(r)) + 1
    BY <1>3, <2>1, FS_AddElement
  <2>3. Len(run'[r].errs) <= Len(run[r].errs) + 1 BY <1>1, <1>4 DEF Sends
  <2>4. Len(run'[r].errs) \in Int BY <1>1, <1>4 DEF Sends
  <2>5. Len(run'[r].errs) <= Cardinality(Returned(r)') BY <1>3, <1>4, <1>5, <2>2, <2>3, <2>4
  <2> QED BY <1>2, <2>5 DEF Counted
<1>7. CASE step'[r][s].pc # "returned"
  <2>1. Returned(r)' = Returned(r) BY <1>2, <1>3, <1>7 DEF Returned
  <2>2. run'[r].errs = run[r].errs BY <1>1, <1>7 DEF Sends
  <2> QED BY <1>2, <1>5, <2>1, <2>2 DEF Counted
<1> QED BY <1>6, <1>7

LEMMA MainCounted ==
  ASSUME TypeOK, NEW r \in Runs, RunExecution(r), \A s \in Steps : ~StepGoroutine(r, s),
         Counted(r), Shape(r), Shape(r)'
  PROVE  Counted(r)'
<1>1. run \in [Runs -> RunType] /\ run[r] \in RunType BY RunIs DEF TypeOK, RunsOK
<1>2. ASSUME run'[r].phase \notin {"layer", "wait"} PROVE Counted(r)' BY <1>2 DEF Counted
<1>3. CASE Spawn(r)
  <2>1. run'[r] = [run[r] EXCEPT !.phase = "wait"] BY <1>1, <1>3 DEF Spawn
  <2>2. run'[r].phase = "wait" /\ run'[r].errs = run[r].errs /\ run'[r].layer = run[r].layer
    BY <1>1, <2>1 DEF RunType
  <2>3. run[r].errs = <<>> BY <1>3 DEF Spawn, Counted
  <2>4. Layer(r)' = Layer(r) /\ Layer(r) \subseteq Steps /\ IsFiniteSet(Layer(r))
    BY <1>3, <2>2, LayerIs DEF Spawn, Layer
  <2>5. IsFiniteSet(Returned(r)') BY <2>4, FS_Subset DEF Returned
  <2>6. Cardinality(Returned(r)') \in Nat BY <2>5, FS_CardinalityType
  <2>7. Len(run'[r].errs) = 0 BY <2>2, <2>3
  <2> QED BY <2>2, <2>6, <2>7 DEF Counted
<1>4. CASE Join(r)
  <2> DEFINE p == IF Cancelled(r) THEN "drain" ELSE "layer"
             l == IF Cancelled(r) THEN run[r].layer ELSE run[r].layer + 1
  <2>1. run'[r] = [run[r] EXCEPT !.phase = p, !.layer = l]
    BY <1>1, <1>4 DEF Join, RunType
  <2>2. p = "drain" \/ (p = "layer" /\ run[r].errs = <<>>) BY Zenon DEF Cancelled
  <2> HIDE DEF p, l
  <2>3. run'[r].phase = p /\ run'[r].errs = run[r].errs BY <1>1, <2>1 DEF RunType
  <2> QED BY <2>2, <2>3 DEF Counted
<1>5. CASE Suspended(r) \/ Fail(r) \/ Finish(r)
  <2>1. run'[r] = IdleRun BY <1>1, <1>5 DEF Suspended, Fail, Finish, EndRun
  <2> QED BY <1>2, <2>1, IdleRunType
<1>6. CASE DrainSuspension(r)
  <2>1. run'[r] = [run[r] EXCEPT !.errs = Tail(run[r].errs), !.suspended = TRUE]
    BY <1>1, <1>6 DEF DrainSuspension, RunType
  <2>2. run'[r].phase = "drain" BY <1>1, <1>6, <2>1 DEF DrainSuspension, RunType
  <2> QED BY <1>2, <2>2
<1>7. CASE DrainError(r)
  <2>1. \/ run'[r] = [run[r] EXCEPT !.phase = "undo", !.todo = Undoable(run[r].exec)]
        \/ run'[r] = [run[r] EXCEPT !.phase = "fail"]
    BY <1>1, <1>7 DEF DrainError, RunType
  <2>2. run'[r].phase \in {"undo", "fail"} BY <1>1, <2>1 DEF RunType
  <2> QED BY <1>2, <2>2
<1>8. ASSUME NEW s \in Steps, Undo(r, s) PROVE Counted(r)'
  <2>1. run'[r].phase = "undoing" BY <1>8, PhaseIs DEF Undo
  <2> QED BY <1>2, <2>1
<1>9. ASSUME NEW s \in Steps, Undone(r, s) PROVE Counted(r)'
  <2>1. run'[r] = [run[r] EXCEPT !.phase = "undo", !.todo = run[r].todo \ {s}]
    BY <1>1, <1>9 DEF Undone, RunType
  <2>2. run'[r].phase = "undo" BY <1>1, <2>1 DEF RunType
  <2> QED BY <1>2, <2>2
<1>10. CASE UndoAll(r)
  <2>1. run'[r].phase = "fail" BY <1>10, PhaseIs DEF UndoAll
  <2> QED BY <1>2, <2>1
<1> QED BY <1>3, <1>4, <1>5, <1>6, <1>7, <1>8, <1>9, <1>10 DEF RunExecution

LEMMA CountedStep ==
  ASSUME TypeOK, \A r \in Runs : Shape(r) /\ Shape(r)' /\ Counted(r), [Next]_vars,
         NEW r \in Runs
  PROVE  Counted(r)'
<1>1. ASSUME run'[r] = run[r], step'[r] = step[r], workflow' = workflow PROVE Counted(r)'
  <2>1. Returned(r)' = Returned(r) BY <1>1 DEF Returned, Layer
  <2> QED BY <1>1, <2>1 DEF Counted
<1>2. ASSUME NEW q \in Runs, RunExecution(q) PROVE Counted(r)'
  <2>1. Alone(q) BY <1>2, RunKeeps
  <2>2. Counted(q)' BY <1>2, GoroutineCounted, MainCounted
  <2> QED BY <1>1, <2>1, <2>2 DEF Alone
<1>3. ASSUME NEW q \in Runs, NEW x \in Execs, Start(q, x) PROVE Counted(r)'
  <2>1. Alone(q) BY <1>3, StartKeeps
  <2> DEFINE p == IF workflow.valid THEN "layer" ELSE "fail"
  <2>2. run'[q] = [IdleRun EXCEPT !.exec = x, !.phase = p, !.layer = 1]
    BY <1>3 DEF Start, TypeOK, RunsOK
  <2>3. p # "wait" OBVIOUS
  <2> HIDE DEF p
  <2>4. IdleRun \in RunType /\ IdleRun.errs = <<>> BY IdleRunType DEF IdleRun
  <2>5. run'[q].errs = <<>> /\ run'[q].phase # "wait" BY <2>2, <2>3, <2>4 DEF RunType
  <2>6. Counted(q)' BY <2>5 DEF Counted
  <2> QED BY <1>1, <2>1, <2>6 DEF Alone
<1>4. ASSUME NEW w \in Workers, Crash(w) PROVE Counted(r)'
  <2>1. CASE WorkerOf[r] = w
    <3>1. run'[r].phase = "idle" BY <1>4, <2>1, IdleRunType DEF Crash
    <3> QED BY <3>1 DEF Counted
  <2>2. CASE WorkerOf[r] # w BY <1>1, <1>4, <2>2 DEF Crash
  <2> QED BY <2>1, <2>2
<1>5. CASE UNCHANGED <<run, step, workflow>> BY <1>1, <1>5
<1>6. CASE Around
  BY <1>3, <1>4, <1>5, <1>6 DEF Around, Recover, CancelRead, CancelWrite, ResumeExec,
                                ResumeStep
<1> QED BY <1>2, <1>5, <1>6 DEF Next, vars

(* However the steps of a layer fail, are refused or retried, each of them *)
(* finds room on the channel for its error: make(chan error, len(layer))   *)
(* is enough, for every layer of every plan.                               *)
THEOREM ChannelNeverFills == Spec => []ChannelHasRoom
<1> DEFINE S == \A r \in Runs : Shape(r)
           I == \A r \in Runs : Counted(r)
<1>1. Init => S BY ShapeInit
<1>2. Init => I
  <2>1. Init => \A r \in Runs : run[r].phase = "idle" BY IdleRunType DEF Init
  <2> QED BY <2>1 DEF Counted
<1>3. TypeOK /\ S /\ [Next]_vars => S' BY ShapeStep
<1>4. TypeOK /\ S /\ S' /\ I /\ [Next]_vars => I' BY CountedStep
<1>5. TypeOK /\ S /\ I => ChannelHasRoom
  <2> SUFFICES ASSUME TypeOK, S, I, NEW r \in Runs, run[r].phase = "wait",
                      NEW s \in Layer(r), step[r][s].pc # "returned"
               PROVE  HasRoom(r)
    BY DEF ChannelHasRoom
  <2>1. run[r].layer \in DOMAIN workflow.layers BY DEF Shape
  <2>2. /\ IsFiniteSet(Layer(r)) /\ Returned(r) \subseteq Layer(r) /\ Returned(r) # Layer(r)
        /\ Cardinality(Layer(r)) \in Nat /\ Cardinality(Returned(r)) \in Nat
    BY <2>1, LayerIs DEF Returned
  <2>3. Cardinality(Returned(r)) < Cardinality(Layer(r))
    BY <2>2, FS_Subset
  <2>4. Len(run[r].errs) <= Cardinality(Returned(r)) BY DEF Counted
  <2>5. Len(run[r].errs) \in Nat BY RunIs, RunFields DEF TypeOK
  <2> QED BY <2>2, <2>3, <2>4, <2>5 DEF HasRoom, Capacity
<1> QED BY <1>1, <1>2, <1>3, <1>4, <1>5, TypeCorrect, PTL DEF Spec

---------------------------------------------------------------------------
(* The results that suppose one run at a time per execution: the sweep of  *)
(* module JobDispatch can start a second one beside a slow first one.      *)
OneRunEach ==
  \A p, q \in Runs : run[p].phase # "idle" /\ run[p].exec = run[q].exec => p = q

LEMMA SettlesStep ==
  ASSUME TypeOK, \A r \in Runs : Shape(r), \A r \in Runs : Settles(r), OneRunEach, [Next]_vars
  PROVE  \A r \in Runs : Settles(r)'
<1>1. ASSUME NEW r \in Runs, Alone(r), Settles(r)',
             \A q \in Runs \ {r} : run[q].phase # "idle" => RowsKept(run[q].exec)
      PROVE \A q \in Runs : Settles(q)'
  BY <1>1, SettlesFrame DEF Alone
<1>2. ASSUME NEW r \in Runs, RunExecution(r) PROVE \A q \in Runs : Settles(q)'
  <2>1. ASSUME NEW q \in Runs \ {r}, run[q].phase # "idle" PROVE RowsKept(run[q].exec)
    <3>1. run[q].exec \in Execs BY <2>1, BusyHasExec DEF TypeOK
    <3>2. run[q].exec # run[r].exec BY <2>1 DEF OneRunEach
    <3> QED BY <1>2, <3>1, <3>2, OwnRowsOnly
  <2> QED BY <1>1, <1>2, <2>1, RunKeeps
<1>3. ASSUME NEW r \in Runs, NEW x \in Execs, Start(r, x) PROVE \A q \in Runs : Settles(q)'
  <2>1. \A y : RowsKept(y) BY <1>3 DEF Start, stepRows, RowsKept
  <2> QED BY <1>1, <1>3, <2>1, StartKeeps
<1>4. ASSUME NEW w \in Workers, Crash(w) PROVE \A q \in Runs : Settles(q)'
  <2>1. ASSUME NEW q \in Runs PROVE Settles(q)'
    <3>1. workflow' = workflow BY <1>4 DEF Crash
    <3>2. \A y : RowsKept(y) BY <1>4 DEF Crash, stepRows, RowsKept
    <3>3. CASE WorkerOf[q] = w
      <4>1. run'[q] = IdleRun BY <1>4, <3>3 DEF Crash
      <4>2. run'[q].phase = "idle" BY <4>1, IdleRunType
      <4> QED BY <4>2 DEF Settles
    <3>4. CASE WorkerOf[q] # w
      <4>1. run'[q] = run[q] /\ step'[q] = step[q] BY <1>4, <3>4 DEF Crash
      <4> QED BY <3>1, <3>2, <4>1, SettlesFrame
    <3> QED BY <3>3, <3>4
  <2> QED BY <2>1
<1>5. CASE workflow' = workflow /\ run' = run /\ step' = step /\ \A y \in Execs : RowsKept(y)
  <2>1. ASSUME NEW q \in Runs PROVE Settles(q)'
    <3>1. run[q].phase # "idle" => run[q].exec \in Execs BY BusyHasExec DEF TypeOK
    <3> QED BY <1>5, <3>1, SettlesFrame
  <2> QED BY <2>1
<1>6. ASSUME NEW x \in Execs, Recover(x) \/ CancelRead(x) \/ ResumeExec(x)
      PROVE \A q \in Runs : Settles(q)'
  BY <1>5, <1>6 DEF Recover, CancelRead, ResumeExec, stepRows, RowsKept
<1>7. ASSUME NEW x \in Execs, NEW s \in Steps, ResumeStep(x, s)
      PROVE \A q \in Runs : Settles(q)'
  <2>1. stepStatus' = [stepStatus EXCEPT ![x][s] = "SUCCESS"] BY <1>7 DEF ResumeStep
  <2>2. \A y \in Execs : RowsKept(y) BY <2>1 DEF RowsKept, TypeOK, RowsOK
  <2> QED BY <1>5, <1>7, <2>2 DEF ResumeStep
<1>8. ASSUME NEW c \in cancels, CancelWrite(c) PROVE \A q \in Runs : Settles(q)'
  BY <1>5, <1>8 DEF CancelWrite, stepRows, RowsKept
<1>9. CASE UNCHANGED vars
  BY <1>5, <1>9 DEF vars, stepRows, RowsKept
<1> QED BY <1>2, <1>3, <1>4, <1>6, <1>7, <1>8, <1>9 DEF Next, Around

(* A step is executed only when all it depends on is recorded as SUCCESS   *)
(* and nothing it depends on was skipped by its own run, for every plan,   *)
(* every fate of the updates, and any number of crashes and resumes.       *)
THEOREM StepsAreOrdered == Spec /\ []OneRunEach => []DependenciesDone
<1> DEFINE I == \A r \in Runs : Shape(r) /\ Settles(r)
<1>1. Init => I BY ShapeInit
<1>2. TypeOK /\ I /\ OneRunEach /\ [Next]_vars => I' BY ShapeStep, SettlesStep
<1>3. ASSUME TypeOK, I PROVE DependenciesDone
  <2>1. ASSUME NEW r \in Runs, NEW s \in Steps, Executing(r, s), NEW d \in DependsOn(s)
        PROVE stepStatus[run[r].exec][d] = "SUCCESS" /\ d \notin run[r].skipped
    <3>1. step[r][s].pc \notin {"none", "returned", "begin"}
      BY <2>1 DEF Executing, Results
    <3>2. /\ run[r].phase = "wait" /\ s \in Layer(r)
          /\ DependsOn(s) \cap run[r].skipped = {}
      BY <1>3, <3>1 DEF Shape
    <3>3. run[r].layer \in DOMAIN workflow.layers /\ workflow.valid
      BY <1>3, <3>2 DEF Shape
    <3>4. PICK k \in DOMAIN workflow.layers : k < run[r].layer /\ d \in workflow.layers[k]
      BY <1>3, <3>2, <3>3, PlanOrder DEF Layer
    <3>5. Settled(r, d) BY <1>3, <3>2, <3>4 DEF Settles
    <3> QED BY <2>1, <3>2, <3>5 DEF Settled
  <2> QED BY <2>1 DEF DependenciesDone
<1> QED BY <1>1, <1>2, <1>3, TypeCorrect, PTL DEF Spec

Marked(r, st) ==
  execStatus' = execStatus \/ execStatus' = [execStatus EXCEPT ![run[r].exec] = st]

LEMMA MarksOwn ==
  ASSUME TypeOK, NEW r \in Runs, NEW st, Marked(r, st), NEW x \in Execs,
         execStatus'[x] # execStatus[x]
  PROVE  x = run[r].exec /\ execStatus'[x] = st
  BY DEF Marked, TypeOK, RowsOK

(* An execution becomes SUCCESS only when each of its steps is recorded as *)
(* SUCCESS or was skipped, under the same conditions.                      *)
THEOREM NoFailureOverlooked == Spec /\ []OneRunEach => SuccessMeansAllDone
<1> DEFINE I == \A r \in Runs : Shape(r) /\ Settles(r)
           A == \A x \in Execs : execStatus[x] # "SUCCESS" /\ execStatus'[x] = "SUCCESS" =>
                  \E r \in Runs : /\ run[r].exec = x
                                  /\ \A s \in Steps : \/ stepStatus[x][s] = "SUCCESS"
                                                      \/ s \in run[r].skipped
<1>1. Init => I BY ShapeInit
<1>2. TypeOK /\ I /\ OneRunEach /\ [Next]_vars => I' BY ShapeStep, SettlesStep
<1>3. ASSUME TypeOK, I, [Next]_vars, NEW x \in Execs,
             execStatus[x] # "SUCCESS", execStatus'[x] = "SUCCESS"
      PROVE \E r \in Runs : /\ run[r].exec = x
                            /\ \A s \in Steps : \/ stepStatus[x][s] = "SUCCESS"
                                                \/ s \in run[r].skipped
  <2>1. PICK r \in Runs : Finish(r) /\ x = run[r].exec
    <3>1. ASSUME Around PROVE FALSE
      BY <1>3, <3>1 DEF Around, Start, Recover, CancelRead, CancelWrite, ResumeExec,
                        ResumeStep, Crash, execRows, TypeOK, RowsOK
    <3>2. ASSUME UNCHANGED vars PROVE FALSE BY <1>3, <3>2 DEF vars, execRows
    <3>3. PICK r \in Runs : RunExecution(r) BY <1>3, <3>1, <3>2 DEF Next
    <3>4. ASSUME NEW st, Marked(r, st) PROVE st = "SUCCESS" /\ x = run[r].exec
      BY <1>3, <3>4, MarksOwn
    <3>5. ASSUME Spawn(r) \/ Join(r) \/ Suspended(r) \/ UndoAll(r) PROVE FALSE
      BY <1>3, <3>5 DEF Spawn, Join, Suspended, UndoAll, execRows
    <3>6. ASSUME NEW s \in Steps, Undo(r, s) \/ Undone(r, s) PROVE FALSE
      BY <1>3, <3>6 DEF Undo, Undone, execRows
    <3>7. ASSUME NEW s \in Steps, StepGoroutine(r, s) PROVE FALSE
      <4>1. ASSUME GetError(r, s) \/ NotExecutable(r, s) PROVE FALSE
        <5>1. Marked(r, "FAILED")
          BY <4>1 DEF GetError, NotExecutable, MarkExec, Marked, execRows
        <5> QED BY <3>4, <5>1
      <4>2. ASSUME \/ Begin(r, s) \/ Get(r, s) \/ Claim(r, s) \/ Execute(r, s)
                   \/ Succeed(r, s) \/ Suspend(r, s) \/ Retry(r, s) \/ GiveUp(r, s)
            PROVE FALSE
        <5>1. UNCHANGED execRows
          BY <4>2 DEF Begin, Get, Claim, Execute, Succeed, Suspend, Retry, GiveUp
        <5> QED BY <1>3, <5>1 DEF execRows
      <4> QED BY <3>7, <4>1, <4>2 DEF StepGoroutine
    <3>8. ASSUME DrainSuspension(r) PROVE FALSE
      <4>1. Marked(r, "SUSPENDED") BY <3>8 DEF DrainSuspension, MarkExec, Marked, execRows
      <4> QED BY <3>4, <4>1
    <3>9. ASSUME DrainError(r) PROVE FALSE
      <4>1. Marked(r, "COMPENSATING") BY <3>9 DEF DrainError, MarkExec, Marked, execRows
      <4> QED BY <3>4, <4>1
    <3>10. ASSUME Fail(r) PROVE FALSE
      <4>1. Marked(r, "FAILED") BY <3>10 DEF Fail, MarkExec, Marked, execRows
      <4> QED BY <3>4, <4>1
    <3>11. Finish(r) BY <3>3, <3>5, <3>6, <3>7, <3>8, <3>9, <3>10 DEF RunExecution
    <3>12. Marked(r, "SUCCESS") BY <3>11 DEF Finish, MarkExec, Marked, execRows
    <3>13. x = run[r].exec BY <3>4, <3>12
    <3> QED BY <3>11, <3>13
  <2>2. /\ run[r].phase = "layer" /\ run[r].layer \notin DOMAIN workflow.layers
        /\ workflow.valid /\ run[r].layer >= 1
    BY <1>3, <2>1 DEF Finish, Shape
  <2>3. workflow.layers \in Seq(SUBSET Steps) /\ Planned(workflow)
    BY <1>3, <2>2, WorkflowsAre DEF TypeOK
  <2>4. run[r].layer \in Nat BY <1>3, RunIs, RunFields DEF TypeOK
  <2>5. ASSUME NEW s \in Steps PROVE Settled(r, s)
    <3>1. PICK i \in DOMAIN workflow.layers : s \in workflow.layers[i]
      BY <2>3 DEF Planned, Layered
    <3>2. i < run[r].layer BY <2>2, <2>3, <2>4
    <3> QED BY <1>3, <2>2, <3>1, <3>2 DEF Settles
  <2> QED BY <2>1, <2>5 DEF Settled
<1>4. TypeOK /\ I /\ [Next]_vars => A BY <1>3
<1>5. UNCHANGED vars => A BY DEF vars, execRows
<1> QED BY <1>1, <1>2, <1>4, <1>5, TypeCorrect, PTL DEF Spec, SuccessMeansAllDone

---------------------------------------------------------------------------
(* Compensation.                                                           *)

(* What a run still has to undo has succeeded.                             *)
Undoes(r) ==
  run[r].phase \in {"undo", "undoing"} => \A s \in run[r].todo :
    /\ workflow.action[s] = "COMPENSATION"
    /\ stepStatus[run[r].exec][workflow.compensatesFor[s]] = "SUCCESS"

LEMMA UndoesFrame ==
  ASSUME TypeOK, NEW q \in Runs, Undoes(q), workflow' = workflow, run'[q] = run[q],
         run[q].phase # "idle" => RowsKept(run[q].exec)
  PROVE  Undoes(q)'
<1>1. ASSUME run[q].phase \in {"undo", "undoing"}, NEW s \in run[q].todo
      PROVE /\ workflow.action[s] = "COMPENSATION"
            /\ stepStatus'[run[q].exec][workflow.compensatesFor[s]] = "SUCCESS"
  <2>1. s \in Steps BY RunIs, RunFields DEF TypeOK
  <2>2. workflow.compensatesFor[s] \in Steps BY <2>1, WorkflowsAre DEF TypeOK
  <2>3. run[q].phase # "idle" BY <1>1
  <2> QED BY <1>1, <2>2, <2>3 DEF Undoes, RowsKept
<1> QED BY <1>1 DEF Undoes

LEMMA DrainErrorUndoes ==
  ASSUME TypeOK, NEW r \in Runs, DrainError(r)
  PROVE  Undoes(r)'
<1>1. run \in [Runs -> RunType] /\ run[r] \in RunType BY RunIs DEF TypeOK, RunsOK
<1>2. CASE run' = [run EXCEPT ![r].phase = "undo", ![r].todo = Undoable(run[r].exec)]
  <2>1. run'[r] = [run[r] EXCEPT !.phase = "undo", !.todo = Undoable(run[r].exec)]
    BY <1>1, <1>2 DEF RunType
  <2>2. run'[r].todo = Undoable(run[r].exec) /\ run'[r].exec = run[r].exec
    BY <1>1, <2>1 DEF RunType
  <2>3. workflow' = workflow /\ stepStatus' = stepStatus BY DEF DrainError, stepRows
  <2> QED BY <2>2, <2>3 DEF Undoes, Undoable
<1>3. CASE run' = [run EXCEPT ![r].phase = "fail"]
  <2>1. run'[r].phase = "fail" BY <1>3, PhaseIs
  <2> QED BY <2>1 DEF Undoes
<1> QED BY <1>2, <1>3 DEF DrainError

(* A compensation is not the target of another one.                        *)
CompensatesWork ==
  \A w \in Workflows, s \in Steps :
    w.action[s] = "COMPENSATION" => w.action[w.compensatesFor[s]] # "COMPENSATION"

LEMMA UndoingUndoes ==
  ASSUME CompensatesWork, TypeOK, NEW r \in Runs, NEW s \in Steps,
         Undo(r, s) \/ Undone(r, s), Undoes(r)
  PROVE  Undoes(r)'
<1>1. run \in [Runs -> RunType] /\ run[r] \in RunType BY RunIs DEF TypeOK, RunsOK
<1>2. /\ workflow' = workflow /\ run[r].phase \in {"undo", "undoing"} /\ s \in run[r].todo
  BY DEF Undo, Undone, UndoesNext
<1>3. run'[r].exec = run[r].exec /\ run'[r].todo \subseteq run[r].todo
  <2>1. CASE Undo(r, s)
    <3>1. run'[r] = [run[r] EXCEPT !.phase = "undoing"] BY <1>1, <2>1 DEF Undo
    <3> QED BY <1>1, <3>1 DEF RunType
  <2>2. CASE Undone(r, s)
    <3>1. run' = [run EXCEPT ![r].phase = "undo", ![r].todo = @ \ {s}] BY <2>2 DEF Undone
    <3>2. run'[r] = [run[r] EXCEPT !.phase = "undo", !.todo = run[r].todo \ {s}]
      BY <1>1, <3>1 DEF RunType
    <3>3. run'[r].todo = run[r].todo \ {s} /\ run'[r].exec = run[r].exec
      BY <1>1, <3>2 DEF RunType
    <3> QED BY <3>3
  <2> QED BY <2>1, <2>2
<1>4. run[r].exec \in Execs BY <1>2, BusyHasExec DEF TypeOK
<1>5. \/ \E st \in {"RUNNING", "SUCCESS", "FAILED"} :
           LandStep(run[r].exec, s, step[r][s].token, st)
      \/ stepStatus' = stepStatus
  BY DEF Undo, Undone, RefuseStep
<1>6. \A t \in Steps : t # s => stepStatus'[run[r].exec][t] = stepStatus[run[r].exec][t]
  BY <1>4, <1>5, LandMoves
<1>7. ASSUME NEW u \in run[r].todo
      PROVE /\ workflow.action[u] = "COMPENSATION"
            /\ stepStatus'[run[r].exec][workflow.compensatesFor[u]] = "SUCCESS"
  <2>1. u \in Steps /\ workflow \in Workflows BY <1>1, RunFields DEF TypeOK, RowsOK
  <2>2. workflow.compensatesFor[u] \in Steps BY <2>1, WorkflowsAre DEF TypeOK
  <2>3. /\ workflow.action[u] = "COMPENSATION"
        /\ workflow.action[s] = "COMPENSATION"
        /\ stepStatus[run[r].exec][workflow.compensatesFor[u]] = "SUCCESS"
    BY <1>2 DEF Undoes
  <2>4. workflow.action[workflow.compensatesFor[u]] # "COMPENSATION"
    BY <2>1, <2>3 DEF CompensatesWork
  <2>5. workflow.compensatesFor[u] # s BY <2>3, <2>4
  <2> QED BY <1>6, <2>2, <2>3, <2>5
<1> QED BY <1>2, <1>3, <1>7 DEF Undoes

LEMMA RunUndoes ==
  ASSUME CompensatesWork, TypeOK, NEW r \in Runs, RunExecution(r), Undoes(r)
  PROVE  Undoes(r)'
<1>1. run \in [Runs -> RunType] /\ run[r] \in RunType BY RunIs DEF TypeOK, RunsOK
<1>2. ASSUME run'[r].phase \notin {"undo", "undoing"} PROVE Undoes(r)'
  BY <1>2 DEF Undoes
<1>3. CASE Suspended(r) \/ Fail(r) \/ Finish(r)
  <2>1. run'[r] = IdleRun BY <1>1, <1>3 DEF Suspended, Fail, Finish, EndRun
  <2> QED BY <1>2, <2>1, IdleRunType
<1>4. CASE Spawn(r) \/ UndoAll(r)
  <2>1. run'[r].phase \in {"wait", "fail"} BY <1>4, PhaseIs DEF Spawn, UndoAll
  <2> QED BY <1>2, <2>1
<1>5. CASE Join(r)
  <2>1. PICK p \in {"drain", "layer"}, n \in {run[r].layer, run[r].layer + 1} :
          run' = [run EXCEPT ![r].phase = p, ![r].layer = n]
    BY <1>5 DEF Join
  <2>2. run'[r] = [run[r] EXCEPT !.phase = p, !.layer = n] BY <1>1, <2>1 DEF RunType
  <2>3. run'[r].phase = p BY <1>1, <2>2 DEF RunType
  <2> QED BY <1>2, <2>3
<1>6. CASE DrainSuspension(r)
  <2>1. run' = [run EXCEPT ![r].errs = Tail(@), ![r].suspended = TRUE]
    BY <1>6 DEF DrainSuspension
  <2>2. run'[r] = [run[r] EXCEPT !.errs = Tail(run[r].errs), !.suspended = TRUE]
    BY <1>1, <2>1 DEF RunType
  <2>3. run'[r].phase = run[r].phase BY <1>1, <2>2 DEF RunType
  <2> QED BY <1>2, <1>6, <2>3 DEF DrainSuspension
<1>7. CASE DrainError(r) BY <1>7, DrainErrorUndoes
<1>8. ASSUME NEW s \in Steps, Undo(r, s) \/ Undone(r, s) PROVE Undoes(r)'
  BY <1>8, UndoingUndoes
<1>9. ASSUME NEW s \in Steps, StepGoroutine(r, s) PROVE Undoes(r)'
  <2>1. run'[r].phase = "wait" BY <1>9, GoroutineMoves DEF Moves
  <2> QED BY <1>2, <2>1
<1> QED BY <1>3, <1>4, <1>5, <1>6, <1>7, <1>8, <1>9 DEF RunExecution

LEMMA UndoesStep ==
  ASSUME CompensatesWork, TypeOK, \A r \in Runs : Shape(r), \A r \in Runs : Undoes(r),
         OneRunEach, [Next]_vars
  PROVE  \A r \in Runs : Undoes(r)'
<1>1. ASSUME NEW r \in Runs, RunExecution(r) PROVE \A q \in Runs : Undoes(q)'
  <2>1. ASSUME NEW q \in Runs \ {r}, run[q].phase # "idle" PROVE RowsKept(run[q].exec)
    <3>1. run[q].exec \in Execs BY <2>1, BusyHasExec DEF TypeOK
    <3>2. run[q].exec # run[r].exec BY <2>1 DEF OneRunEach
    <3> QED BY <1>1, <3>1, <3>2, OwnRowsOnly
  <2>2. ASSUME NEW q \in Runs \ {r} PROVE Undoes(q)'
    <3>1. Alone(r) BY <1>1, RunKeeps
    <3> QED BY <2>1, <3>1, UndoesFrame DEF Alone
  <2>3. Undoes(r)' BY <1>1, RunUndoes
  <2> QED BY <2>2, <2>3
<1>2. ASSUME NEW r \in Runs, NEW x \in Execs, Start(r, x) PROVE \A q \in Runs : Undoes(q)'
  <2>1. \A y : RowsKept(y) BY <1>2 DEF Start, stepRows, RowsKept
  <2>2. Alone(r) BY <1>2, StartKeeps
  <2>3. ASSUME NEW q \in Runs \ {r} PROVE Undoes(q)'
    BY <2>1, <2>2, UndoesFrame DEF Alone
  <2>4. run'[r].phase \in {"layer", "fail"}
    <3>1. PICK p \in {"layer", "fail"} :
            run'[r] = [IdleRun EXCEPT !.exec = x, !.phase = p, !.layer = 1]
      BY <1>2 DEF Start, TypeOK, RunsOK
    <3>2. run'[r].phase = p BY <3>1, IdleRunType DEF RunType
    <3> QED BY <3>2
  <2>5. Undoes(r)' BY <2>4 DEF Undoes
  <2> QED BY <2>3, <2>5
<1>3. ASSUME NEW w \in Workers, Crash(w) PROVE \A q \in Runs : Undoes(q)'
  <2>1. \A y : RowsKept(y) BY <1>3 DEF Crash, stepRows, RowsKept
  <2>2. ASSUME NEW q \in Runs, WorkerOf[q] = w PROVE Undoes(q)'
    <3>1. run'[q] = IdleRun BY <1>3, <2>2 DEF Crash
    <3> QED BY <3>1, IdleRunType DEF Undoes
  <2>3. ASSUME NEW q \in Runs, WorkerOf[q] # w PROVE Undoes(q)'
    <3>1. run'[q] = run[q] /\ workflow' = workflow BY <1>3, <2>3 DEF Crash
    <3> QED BY <2>1, <3>1, UndoesFrame
  <2> QED BY <2>2, <2>3
<1>4. CASE workflow' = workflow /\ run' = run /\ \A y \in Execs : RowsKept(y)
  <2>1. ASSUME NEW q \in Runs PROVE Undoes(q)'
    <3>1. run[q].phase # "idle" => run[q].exec \in Execs BY BusyHasExec DEF TypeOK
    <3> QED BY <1>4, <3>1, UndoesFrame
  <2> QED BY <2>1
<1>5. ASSUME NEW x \in Execs, Recover(x) \/ CancelRead(x) \/ ResumeExec(x)
      PROVE \A q \in Runs : Undoes(q)'
  BY <1>4, <1>5 DEF Recover, CancelRead, ResumeExec, stepRows, RowsKept
<1>6. ASSUME NEW x \in Execs, NEW s \in Steps, ResumeStep(x, s)
      PROVE \A q \in Runs : Undoes(q)'
  <2>1. stepStatus' = [stepStatus EXCEPT ![x][s] = "SUCCESS"] BY <1>6 DEF ResumeStep
  <2>2. \A y \in Execs : RowsKept(y) BY <2>1 DEF RowsKept, TypeOK, RowsOK
  <2> QED BY <1>4, <1>6, <2>2 DEF ResumeStep
<1>7. ASSUME NEW c \in cancels, CancelWrite(c) PROVE \A q \in Runs : Undoes(q)'
  BY <1>4, <1>7 DEF CancelWrite, stepRows, RowsKept
<1>8. CASE UNCHANGED vars
  BY <1>4, <1>8 DEF vars, stepRows, RowsKept
<1> QED BY <1>1, <1>2, <1>3, <1>5, <1>6, <1>7, <1>8 DEF Next, Around

(* A compensation is executed only for a step that has succeeded and when  *)
(* nothing else of the run is at work, if no compensation is itself        *)
(* compensated.                                                            *)
THEOREM UndoesOnlyDone ==
  ASSUME CompensatesWork
  PROVE  Spec /\ []OneRunEach => []UndoesOnlyWhatIsDone
<1> DEFINE I == \A r \in Runs : Shape(r)
           J == \A r \in Runs : Undoes(r)
<1>1. Init => I /\ J
  <2>1. Init => I BY ShapeInit
  <2>2. Init => J BY DEF Init, IdleRun, Undoes
  <2> QED BY <2>1, <2>2
<1>2. TypeOK /\ I /\ J /\ OneRunEach /\ [Next]_vars => I' /\ J' BY ShapeStep, UndoesStep
<1>3. TypeOK /\ I /\ J => UndoesOnlyWhatIsDone
  BY AtRest DEF Undoes, UndoesOnlyWhatIsDone
<1> QED BY <1>1, <1>2, <1>3, TypeCorrect, PTL DEF Spec

---------------------------------------------------------------------------
(* The tokens, where the repositories compare versions.                    *)

Holding(r, s) == step[r][s].pc = "claim" \/ Executing(r, s)

(* A token is the version of its row until the claim, and used up after it.*)
Token(r, s) ==
  /\ step[r][s].pc = "claim" => step[r][s].token <= stepVersion[run[r].exec][s]
  /\ Executing(r, s) => step[r][s].token < stepVersion[run[r].exec][s]

Distinct(q, r, s) ==
  Executing(q, s) /\ Executing(r, s) /\ run[q].exec = run[r].exec
    /\ step[q][s].token = step[r][s].token => q = r

(* What a step leaves of the tokens that are held.                         *)
Kept(q, s) ==
  Holding(q, s)' =>
    /\ run'[q].exec = run[q].exec /\ step'[q][s].token = step[q][s].token
    /\ Executing(q, s)' => Executing(q, s)
    /\ step'[q][s].pc = "claim" => step[q][s].pc = "claim"

VersionsGrow ==
  \A x \in Execs, s \in Steps : stepVersion[x][s] <= stepVersion'[x][s]

LEMMA HoldingHasExec ==
  ASSUME TypeOK, NEW r \in Runs, NEW s \in Steps, Shape(r), Holding(r, s)
  PROVE  run[r].exec \in Execs
<1>1. step[r][s].pc \notin {"none", "returned"} BY DEF Holding, Executing, Results
<1>2. run[r].phase # "idle" BY <1>1 DEF Shape
<1> QED BY <1>2, BusyHasExec DEF TypeOK

LEMMA LandGrows ==
  ASSUME CompareVersions, TypeOK, NEW x \in Execs, NEW s \in Steps, NEW v, NEW st,
         LandStep(x, s, v, st)
  PROVE  /\ VersionsGrow
         /\ stepVersion[x][s] = v /\ stepVersion'[x][s] = v + 1
<1>1. stepVersion' = [stepVersion EXCEPT ![x][s] = stepVersion[x][s] + 1]
  BY DEF LandStep, Bump
<1>2. stepVersion[x][s] = v BY DEF LandStep, MayLand
<1>3. stepVersion \in [Execs -> [Steps -> Nat]] BY DEF TypeOK, RowsOK
<1>4. stepVersion'[x][s] = stepVersion[x][s] + 1 BY <1>1, <1>3
<1>5. ASSUME NEW y \in Execs, NEW t \in Steps PROVE stepVersion[y][t] <= stepVersion'[y][t]
  <2>1. stepVersion[y][t] \in Nat BY <1>3
  <2>2. stepVersion'[y][t] = stepVersion[y][t] \/ stepVersion'[y][t] = stepVersion[y][t] + 1
    BY <1>1, <1>3
  <2> QED BY <2>1, <2>2
<1> QED BY <1>2, <1>4, <1>5 DEF VersionsGrow

LEMMA SameGrows ==
  ASSUME TypeOK, stepVersion' = stepVersion
  PROVE  VersionsGrow
<1>1. ASSUME NEW y \in Execs, NEW t \in Steps PROVE stepVersion[y][t] <= stepVersion'[y][t]
  <2>1. stepVersion[y][t] \in Nat BY DEF TypeOK, RowsOK
  <2> QED BY <2>1
<1> QED BY <1>1 DEF VersionsGrow

LEMMA RunGrows ==
  ASSUME CompareVersions, TypeOK, NEW r \in Runs, RunExecution(r)
  PROVE  VersionsGrow
<1>1. CASE \/ Suspended(r) \/ Fail(r) \/ Finish(r) \/ Spawn(r) \/ Join(r)
           \/ DrainSuspension(r) \/ DrainError(r) \/ UndoAll(r)
  <2>1. stepVersion' = stepVersion
    BY <1>1 DEF Suspended, Fail, Finish, Spawn, Join, DrainSuspension, DrainError, UndoAll,
                stepRows
  <2> QED BY <2>1, SameGrows
<1>2. ASSUME NEW s \in Steps, Undo(r, s) \/ Undone(r, s) PROVE VersionsGrow
  <2>1. run[r].exec \in Execs BY <1>2, BusyHasExec DEF TypeOK, Undo, Undone
  <2>2. \/ \E st \in {"RUNNING", "SUCCESS", "FAILED"} :
             LandStep(run[r].exec, s, step[r][s].token, st)
        \/ stepVersion' = stepVersion
    BY <1>2 DEF Undo, Undone, RefuseStep
  <2> QED BY <2>1, <2>2, LandGrows, SameGrows
<1>3. ASSUME NEW s \in Steps, StepGoroutine(r, s) PROVE VersionsGrow
  <2>1. run[r].exec \in Execs
    BY <1>3, GoroutineMoves, BusyHasExec DEF Moves, TypeOK
  <2>2. CASE \/ Begin(r, s) \/ Get(r, s) \/ GetError(r, s) \/ Execute(r, s)
             \/ NotExecutable(r, s) \/ Retry(r, s)
    <3>1. stepVersion' = stepVersion
      BY <2>2 DEF Begin, Get, GetError, Execute, NotExecutable, Retry, stepRows
    <3> QED BY <3>1, SameGrows
  <2>3. CASE Claim(r, s) \/ Succeed(r, s) \/ Suspend(r, s) \/ GiveUp(r, s)
    <3>1. \/ \E st \in {"RUNNING", "SUCCESS", "SUSPENDED", "FAILED"} :
               LandStep(run[r].exec, s, step[r][s].token, st)
          \/ stepVersion' = stepVersion
      BY <2>3 DEF Claim, Succeed, Suspend, GiveUp, RefuseStep
    <3> QED BY <2>1, <3>1, LandGrows, SameGrows
  <2> QED BY <1>3, <2>2, <2>3 DEF StepGoroutine
<1> QED BY <1>1, <1>2, <1>3 DEF RunExecution

(* Tokens that are only kept stay in order.                                *)
LEMMA KeptTokens ==
  ASSUME TypeOK, TypeOK', VersionsGrow, NEW q \in Runs, NEW s \in Steps,
         Shape(q), Token(q, s), Kept(q, s)
  PROVE  Token(q, s)'
<1>1. CASE ~Holding(q, s)' BY <1>1 DEF Holding, Token
<1>2. CASE Holding(q, s)'
  <2>1. /\ run'[q].exec = run[q].exec /\ step'[q][s].token = step[q][s].token
        /\ Executing(q, s)' => Executing(q, s)
        /\ step'[q][s].pc = "claim" => step[q][s].pc = "claim"
    BY <1>2 DEF Kept
  <2>2. run[q].exec \in Execs BY <1>2, <2>1, HoldingHasExec DEF Holding
  <2>3. stepVersion[run[q].exec][s] <= stepVersion'[run[q].exec][s]
    BY <2>2 DEF VersionsGrow
  <2>4. stepVersion[run[q].exec][s] \in Nat /\ step[q][s].token \in Nat
    BY <2>2, StepIs DEF TypeOK, RowsOK, StepType
  <2>5. stepVersion'[run[q].exec][s] \in Nat BY <2>2 DEF TypeOK, RowsOK
  <2>6. ASSUME step'[q][s].pc = "claim"
        PROVE step'[q][s].token <= stepVersion'[run'[q].exec][s]
    <3>1. step[q][s].token <= stepVersion[run[q].exec][s] BY <2>1, <2>6 DEF Token
    <3> QED BY <2>1, <2>3, <2>4, <2>5, <3>1
  <2>7. ASSUME Executing(q, s)'
        PROVE step'[q][s].token < stepVersion'[run'[q].exec][s]
    <3>1. step[q][s].token < stepVersion[run[q].exec][s] BY <2>1, <2>7 DEF Token
    <3> QED BY <2>1, <2>3, <2>4, <2>5, <3>1
  <2> QED BY <2>6, <2>7 DEF Token
<1> QED BY <1>1, <1>2

LEMMA KeptAll ==
  ASSUME TypeOK, TypeOK', VersionsGrow, \A q \in Runs : Shape(q),
         \A q \in Runs, s \in Steps : Token(q, s),
         \A p, q \in Runs, s \in Steps : Distinct(p, q, s),
         \A q \in Runs, s \in Steps : Kept(q, s)
  PROVE  /\ \A q \in Runs, s \in Steps : Token(q, s)'
         /\ \A p, q \in Runs, s \in Steps : Distinct(p, q, s)'
<1>1. \A q \in Runs, s \in Steps : Token(q, s)' BY KeptTokens
<1>2. ASSUME NEW p \in Runs, NEW q \in Runs, NEW s \in Steps PROVE Distinct(p, q, s)'
  <2>1. Executing(p, s)' => Executing(p, s) /\ run'[p].exec = run[p].exec
                              /\ step'[p][s].token = step[p][s].token
    BY DEF Kept, Holding
  <2>2. Executing(q, s)' => Executing(q, s) /\ run'[q].exec = run[q].exec
                              /\ step'[q][s].token = step[q][s].token
    BY DEF Kept, Holding
  <2> QED BY <2>1, <2>2 DEF Distinct
<1> QED BY <1>1, <1>2

LEMMA Resting ==
  ASSUME NEW r \in Runs, Shape(r)', run'[r].phase # "wait", NEW s \in Steps
  PROVE  Kept(r, s)
<1>1. step'[r][s].pc \in {"none", "returned"} BY DEF Shape
<1> QED BY <1>1 DEF Kept, Holding, Executing, Results

LEMMA SameKept ==
  ASSUME NEW q \in Runs, run'[q] = run[q], step'[q] = step[q], NEW s \in Steps
  PROVE  Kept(q, s)
  BY DEF Kept, Holding, Executing

(* The main goroutine claims nothing.                                      *)
LEMMA MainKept ==
  ASSUME TypeOK, NEW r \in Runs, Shape(r), RunExecution(r),
         \A s \in Steps : ~StepGoroutine(r, s)
  PROVE  \A q \in Runs, s \in Steps : Kept(q, s)
<1>1. Alone(r) /\ Shape(r)' BY RunKeeps
<1>2. ASSUME NEW q \in Runs \ {r}, NEW s \in Steps PROVE Kept(q, s)
  BY <1>1, SameKept DEF Alone
<1>3. run \in [Runs -> RunType] /\ run[r] \in RunType BY RunIs DEF TypeOK, RunsOK
<1>4. CASE Spawn(r)
  <2>1. run[r].phase = "layer" BY <1>4 DEF Spawn
  <2>2. ASSUME NEW s \in Steps PROVE step'[r][s].pc \in {"none", "returned", "begin"}
    <3>1. step'[r][s] = IF s \in Layer(r) THEN [IdleStep EXCEPT !.pc = "begin"] ELSE step[r][s]
      BY <1>4 DEF Spawn, TypeOK, StepsOK
    <3>2. [IdleStep EXCEPT !.pc = "begin"].pc = "begin" BY DEF IdleStep
    <3>3. step[r][s].pc \in {"none", "returned"} BY <2>1, AtRest
    <3> QED BY <3>1, <3>2, <3>3
  <2>3. ASSUME NEW s \in Steps PROVE Kept(r, s)
    BY <2>2 DEF Kept, Holding, Executing, Results
  <2> QED BY <1>2, <2>3
<1>5. CASE ~Spawn(r)
  <2>1. run'[r].phase # "wait"
    <3>1. CASE Suspended(r) \/ Fail(r) \/ Finish(r)
      <4>1. run'[r] = IdleRun BY <1>3, <3>1 DEF Suspended, Fail, Finish, EndRun
      <4> QED BY <4>1, IdleRunType
    <3>2. CASE UndoAll(r)
      <4>1. run'[r].phase = "fail" BY <3>2, PhaseIs DEF UndoAll
      <4> QED BY <4>1
    <3>3. CASE Join(r)
      <4>1. PICK p \in {"drain", "layer"}, n \in {run[r].layer, run[r].layer + 1} :
              run' = [run EXCEPT ![r].phase = p, ![r].layer = n]
        BY <3>3 DEF Join
      <4>2. run'[r] = [run[r] EXCEPT !.phase = p, !.layer = n] BY <1>3, <4>1 DEF RunType
      <4>3. run'[r].phase = p BY <1>3, <4>2 DEF RunType
      <4> QED BY <4>3
    <3>4. CASE DrainSuspension(r)
      <4>1. run' = [run EXCEPT ![r].errs = Tail(@), ![r].suspended = TRUE]
        BY <3>4 DEF DrainSuspension
      <4>2. run'[r] = [run[r] EXCEPT !.errs = Tail(run[r].errs), !.suspended = TRUE]
        BY <1>3, <4>1 DEF RunType
      <4>3. run'[r].phase = run[r].phase BY <1>3, <4>2 DEF RunType
      <4> QED BY <3>4, <4>3 DEF DrainSuspension
    <3>5. CASE DrainError(r)
      <4>1. CASE run' = [run EXCEPT ![r].phase = "undo", ![r].todo = Undoable(run[r].exec)]
        <5>1. run'[r] = [run[r] EXCEPT !.phase = "undo", !.todo = Undoable(run[r].exec)]
          BY <1>3, <4>1 DEF RunType
        <5>2. run'[r].phase = "undo" BY <1>3, <5>1 DEF RunType
        <5> QED BY <5>2
      <4>2. CASE run' = [run EXCEPT ![r].phase = "fail"]
        <5>1. run'[r].phase = "fail" BY <4>2, PhaseIs
        <5> QED BY <5>1
      <4> QED BY <3>5, <4>1, <4>2 DEF DrainError
    <3>6. ASSUME NEW s \in Steps, Undo(r, s) PROVE run'[r].phase # "wait"
      <4>1. run'[r].phase = "undoing" BY <3>6, PhaseIs DEF Undo
      <4> QED BY <4>1
    <3>7. ASSUME NEW s \in Steps, Undone(r, s) PROVE run'[r].phase # "wait"
      <4>1. run' = [run EXCEPT ![r].phase = "undo", ![r].todo = @ \ {s}] BY <3>7 DEF Undone
      <4>2. run'[r] = [run[r] EXCEPT !.phase = "undo", !.todo = run[r].todo \ {s}]
        BY <1>3, <4>1 DEF RunType
      <4>3. run'[r].phase = "undo" BY <1>3, <4>2 DEF RunType
      <4> QED BY <4>3
    <3> QED BY <1>5, <3>1, <3>2, <3>3, <3>4, <3>5, <3>6, <3>7 DEF RunExecution
  <2> QED BY <1>1, <1>2, <2>1, Resting
<1> QED BY <1>4, <1>5

(* Nor does a step's goroutine, but for its claim and the read before it.  *)
LEMMA GoroutineKept ==
  ASSUME TypeOK, NEW r \in Runs, NEW s \in Steps, StepGoroutine(r, s),
         \/ step'[r][s].pc \in {"begin", "get", "returned"}
         \/ Execute(r, s)
  PROVE  \A q \in Runs, t \in Steps : Kept(q, t)
<1>1. Moves(r, s) BY GoroutineMoves
<1>2. ASSUME NEW q \in Runs \ {r}, NEW t \in Steps PROVE Kept(q, t)
  BY <1>1, SameKept DEF Moves
<1>3. ASSUME NEW t \in Steps \ {s} PROVE Kept(r, t)
  BY <1>1 DEF Moves, Kept, Holding, Executing
<1>4. Kept(r, s)
  <2>1. CASE step'[r][s].pc \in {"begin", "get", "returned"}
    BY <2>1 DEF Kept, Holding, Executing, Results
  <2>2. CASE Execute(r, s)
    <3>1. PICK o \in Results : Go(r, s, o) BY <2>2, OutcomesAre DEF Execute, TypeOK
    <3>2. step \in [Runs -> [Steps -> StepType]] BY DEF TypeOK, StepsOK
    <3>3. step[r][s] \in StepType BY StepIs DEF TypeOK
    <3>4. step'[r][s] = [step[r][s] EXCEPT !.pc = o] BY <3>1, <3>2 DEF Go
    <3>5. step'[r][s].pc = o /\ step'[r][s].token = step[r][s].token
      BY <3>3, <3>4 DEF StepType
    <3>6. Executing(r, s) /\ run'[r].exec = run[r].exec
      BY <1>1, <2>2 DEF Execute, At, Executing, Moves
    <3>7. o # "claim" BY <3>1 DEF Results
    <3> QED BY <3>5, <3>6, <3>7 DEF Kept
  <2> QED BY <2>1, <2>2
<1> QED BY <1>2, <1>3, <1>4

Ordered == \A q \in Runs, s \in Steps : Token(q, s)

AllDistinct == \A p, q \in Runs, s \in Steps : Distinct(p, q, s)

LEMMA GetOrders ==
  ASSUME TypeOK, TypeOK', NEW r \in Runs, NEW s \in Steps, Get(r, s),
         \A q \in Runs : Shape(q), Ordered, AllDistinct
  PROVE  Ordered' /\ AllDistinct'
<1>1. Moves(r, s) BY GetMoves
<1>2. VersionsGrow /\ stepVersion' = stepVersion BY SameGrows DEF Get, stepRows
<1>3. CASE step'[r][s].pc = "returned"
  <2>1. \A q \in Runs, t \in Steps : Kept(q, t)
    BY <1>3, GoroutineKept DEF StepGoroutine
  <2> QED BY <1>2, <2>1, KeptAll DEF Ordered, AllDistinct
<1>4. CASE step'[r][s].pc # "returned"
  <2>1. step' = [step EXCEPT ![r][s].pc = "claim", ![r][s].token = stepVersion[run[r].exec][s]]
    <3>1. ~Return(r, s) BY <1>4, GoMoves DEF Return
    <3> QED BY <3>1 DEF Get
  <2>2. step \in [Runs -> [Steps -> StepType]] /\ step[r][s] \in StepType
    BY StepIs DEF TypeOK, StepsOK
  <2>3. step'[r][s] = [step[r][s] EXCEPT !.pc = "claim",
                                         !.token = stepVersion[run[r].exec][s]]
    BY <2>1, <2>2
  <2>4. step'[r][s].pc = "claim" /\ step'[r][s].token = stepVersion[run[r].exec][s]
    BY <2>2, <2>3 DEF StepType
  <2>5. run'[r].exec = run[r].exec BY <1>1 DEF Moves
  <2>6. ASSUME NEW q \in Runs, NEW t \in Steps, q # r \/ t # s PROVE Kept(q, t)
    BY <1>1, <2>6, <2>5 DEF Moves, Kept, Holding, Executing
  <2>7. run[r].exec \in Execs BY BusyHasExec DEF Get, At, TypeOK
  <2>8. ~Executing(r, s)' BY <2>4 DEF Executing, Results
  <2>9. Token(r, s)'
    <3>1. stepVersion[run[r].exec][s] \in Nat BY <2>7 DEF TypeOK, RowsOK
    <3> QED BY <1>2, <2>4, <2>5, <2>8, <3>1 DEF Token
  <2>10. ASSUME NEW q \in Runs, NEW t \in Steps PROVE Token(q, t)'
    BY <1>2, <2>6, <2>9, KeptTokens DEF Ordered
  <2>11. ASSUME NEW p \in Runs, NEW q \in Runs, NEW t \in Steps PROVE Distinct(p, q, t)'
    <3>1. CASE t = s /\ (p = r \/ q = r) BY <2>8, <3>1 DEF Distinct
    <3>2. CASE ~(t = s /\ (p = r \/ q = r))
      <4>1. Kept(p, t) /\ Kept(q, t) BY <2>6, <3>2
      <4> QED BY <4>1 DEF AllDistinct, Distinct, Kept, Holding
    <3> QED BY <3>1, <3>2
  <2> QED BY <2>10, <2>11 DEF Ordered, AllDistinct
<1> QED BY <1>3, <1>4

LEMMA ClaimOrders ==
  ASSUME CompareVersions, TypeOK, TypeOK', NEW r \in Runs, NEW s \in Steps, Claim(r, s),
         \A q \in Runs : Shape(q), Ordered, AllDistinct
  PROVE  Ordered' /\ AllDistinct'
<1>1. Moves(r, s) BY ClaimMoves
<1>2. run[r].exec \in Execs BY BusyHasExec DEF Claim, At, TypeOK
<1>3. CASE ReturnError(r, s, "error") /\ stepVersion' = stepVersion
  <2>1. step'[r][s].pc = "returned" BY <1>3, GoMoves DEF ReturnError
  <2>2. \A q \in Runs, t \in Steps : Kept(q, t)
    BY <2>1, GoroutineKept DEF StepGoroutine
  <2> QED BY <1>3, <2>2, SameGrows, KeptAll DEF Ordered, AllDistinct
<1>4. CASE /\ LandStep(run[r].exec, s, step[r][s].token, "RUNNING")
           /\ Go(r, s, "execute")
  <2>1. /\ VersionsGrow
        /\ stepVersion[run[r].exec][s] = step[r][s].token
        /\ stepVersion'[run[r].exec][s] = step[r][s].token + 1
    BY <1>2, <1>4, LandGrows
  <2>2. step \in [Runs -> [Steps -> StepType]] /\ step[r][s] \in StepType
    BY StepIs DEF TypeOK, StepsOK
  <2>3. step'[r][s] = [step[r][s] EXCEPT !.pc = "execute"] BY <1>4, <2>2 DEF Go
  <2>4. /\ step'[r][s].pc = "execute" /\ step'[r][s].token = step[r][s].token
        /\ step[r][s].token \in Nat
    BY <2>2, <2>3 DEF StepType
  <2>5. run'[r].exec = run[r].exec BY <1>1 DEF Moves
  <2>6. ASSUME NEW q \in Runs, NEW t \in Steps, q # r \/ t # s PROVE Kept(q, t)
    BY <1>1, <2>6, <2>5 DEF Moves, Kept, Holding, Executing
  <2>7. Token(r, s)' BY <2>1, <2>4, <2>5 DEF Token
  <2>8. ASSUME NEW q \in Runs, NEW t \in Steps PROVE Token(q, t)'
    BY <2>1, <2>6, <2>7, KeptTokens DEF Ordered
  <2>9. ASSUME NEW q \in Runs \ {r}, Executing(q, s)', run'[q].exec = run[r].exec
        PROVE step'[q][s].token # step'[r][s].token
    <3>1. Kept(q, s) BY <2>6
    <3>2. Executing(q, s) /\ run[q].exec = run[r].exec /\ step'[q][s].token = step[q][s].token
      BY <2>9, <3>1 DEF Kept, Holding
    <3>3. step[q][s].token < stepVersion[run[q].exec][s] BY <3>2 DEF Ordered, Token
    <3>4. step[q][s].token \in Nat BY StepIs DEF TypeOK, StepType
    <3> QED BY <2>1, <2>4, <3>2, <3>3, <3>4
  <2>10. ASSUME NEW p \in Runs, NEW q \in Runs, NEW t \in Steps PROVE Distinct(p, q, t)'
    <3>1. CASE t = s /\ p # q /\ (p = r \/ q = r) BY <2>5, <2>9, <3>1 DEF Distinct
    <3>2. CASE p = q BY <3>2 DEF Distinct
    <3>3. CASE ~(t = s /\ (p = r \/ q = r))
      <4>1. Kept(p, t) /\ Kept(q, t) BY <2>6, <3>3
      <4> QED BY <4>1 DEF AllDistinct, Distinct, Kept, Holding
    <3> QED BY <3>1, <3>2, <3>3
  <2> QED BY <2>8, <2>10 DEF Ordered, AllDistinct
<1> QED BY <1>3, <1>4 DEF Claim, RefuseStep

LEMMA TokensStep ==
  ASSUME CompareVersions, TypeOK, TypeOK', \A q \in Runs : Shape(q), Ordered, AllDistinct,
         [Next]_vars
  PROVE  Ordered' /\ AllDistinct'
<1>1. ASSUME VersionsGrow, \A q \in Runs, s \in Steps : Kept(q, s)
      PROVE Ordered' /\ AllDistinct'
  BY <1>1, KeptAll DEF Ordered, AllDistinct
<1>2. ASSUME NEW r \in Runs, RunExecution(r) PROVE Ordered' /\ AllDistinct'
  <2>1. CASE \A s \in Steps : ~StepGoroutine(r, s)
    BY <1>1, <1>2, <2>1, MainKept, RunGrows
  <2>2. ASSUME NEW s \in Steps, StepGoroutine(r, s) PROVE Ordered' /\ AllDistinct'
    <3>1. CASE Get(r, s) BY <3>1, GetOrders
    <3>2. CASE Claim(r, s) BY <3>2, ClaimOrders
    <3>3. CASE Execute(r, s) BY <1>1, <1>2, <2>2, <3>3, GoroutineKept, RunGrows
    <3>4. CASE Retry(r, s)
      <4>1. step' = [step EXCEPT ![r][s].pc = "get", ![r][s].attempt = @ + 1]
        BY <3>4 DEF Retry
      <4>2. step \in [Runs -> [Steps -> StepType]] /\ step[r][s] \in StepType
        BY StepIs DEF TypeOK, StepsOK
      <4>3. step'[r][s] = [step[r][s] EXCEPT !.pc = "get", !.attempt = step[r][s].attempt + 1]
        BY <4>1, <4>2
      <4>4. step'[r][s].pc = "get" BY <4>2, <4>3 DEF StepType
      <4> QED BY <1>1, <1>2, <2>2, <4>4, GoroutineKept, RunGrows
    <3>5. CASE Begin(r, s)
      <4>1. step'[r][s].pc \in {"returned", "get"} BY <3>5, GoMoves DEF Begin
      <4> QED BY <1>1, <1>2, <2>2, <4>1, GoroutineKept, RunGrows
    <3>6. CASE \/ GetError(r, s) \/ NotExecutable(r, s) \/ Succeed(r, s) \/ Suspend(r, s)
               \/ GiveUp(r, s)
      <4>1. step'[r][s].pc = "returned"
        BY <3>6, GoMoves DEF GetError, NotExecutable, Succeed, Suspend, GiveUp, ReturnError
      <4> QED BY <1>1, <1>2, <2>2, <4>1, GoroutineKept, RunGrows
    <3> QED BY <2>2, <3>1, <3>2, <3>3, <3>4, <3>5, <3>6 DEF StepGoroutine
  <2> QED BY <2>1, <2>2
<1>3. ASSUME NEW r \in Runs, NEW x \in Execs, Start(r, x) PROVE Ordered' /\ AllDistinct'
  <2>1. VersionsGrow BY <1>3, SameGrows DEF Start, stepRows
  <2>2. Alone(r) /\ Shape(r)' BY <1>3, StartKeeps
  <2>3. run'[r].phase # "wait"
    <3>1. PICK p \in {"layer", "fail"} :
            run'[r] = [IdleRun EXCEPT !.exec = x, !.phase = p, !.layer = 1]
      BY <1>3 DEF Start, TypeOK, RunsOK
    <3>2. run'[r].phase = p BY <3>1, IdleRunType DEF RunType
    <3> QED BY <3>2
  <2>4. ASSUME NEW q \in Runs, NEW s \in Steps PROVE Kept(q, s)
    BY <2>2, <2>3, Resting, SameKept DEF Alone
  <2> QED BY <1>1, <2>1, <2>4
<1>4. ASSUME NEW w \in Workers, Crash(w) PROVE Ordered' /\ AllDistinct'
  <2>1. VersionsGrow BY <1>4, SameGrows DEF Crash, stepRows
  <2>2. ASSUME NEW q \in Runs, NEW s \in Steps PROVE Kept(q, s)
    <3>1. CASE WorkerOf[q] = w
      <4>1. step'[q][s] = IdleStep BY <1>4, <3>1 DEF Crash
      <4> QED BY <4>1 DEF IdleStep, Kept, Holding, Executing, Results
    <3>2. CASE WorkerOf[q] # w
      <4>1. run'[q] = run[q] /\ step'[q] = step[q] BY <1>4, <3>2 DEF Crash
      <4> QED BY <4>1, SameKept
    <3> QED BY <3>1, <3>2
  <2> QED BY <1>1, <2>1, <2>2
<1>5. CASE run' = run /\ step' = step /\ VersionsGrow
  BY <1>1, <1>5, SameKept
<1>6. ASSUME NEW x \in Execs, Recover(x) \/ CancelRead(x) \/ ResumeExec(x)
      PROVE Ordered' /\ AllDistinct'
  <2>1. VersionsGrow BY <1>6, SameGrows DEF Recover, CancelRead, ResumeExec, stepRows
  <2> QED BY <1>5, <1>6, <2>1 DEF Recover, CancelRead, ResumeExec
<1>7. ASSUME NEW x \in Execs, NEW s \in Steps, ResumeStep(x, s) PROVE Ordered' /\ AllDistinct'
  <2>1. stepVersion' = [stepVersion EXCEPT ![x][s] = stepVersion[x][s] + 1]
    BY <1>7 DEF ResumeStep, Bump
  <2>2. ASSUME NEW y \in Execs, NEW t \in Steps PROVE stepVersion[y][t] <= stepVersion'[y][t]
    <3>1. stepVersion \in [Execs -> [Steps -> Nat]] BY DEF TypeOK, RowsOK
    <3>2. stepVersion[y][t] \in Nat BY <3>1
    <3>3. stepVersion'[y][t] = stepVersion[y][t] \/ stepVersion'[y][t] = stepVersion[y][t] + 1
      BY <2>1, <3>1
    <3> QED BY <3>2, <3>3
  <2>3. VersionsGrow BY <2>2 DEF VersionsGrow
  <2> QED BY <1>5, <1>7, <2>3 DEF ResumeStep
<1>8. ASSUME NEW c \in cancels, CancelWrite(c) PROVE Ordered' /\ AllDistinct'
  <2>1. VersionsGrow BY <1>8, SameGrows DEF CancelWrite, stepRows
  <2> QED BY <1>5, <1>8, <2>1 DEF CancelWrite
<1>9. CASE UNCHANGED vars
  <2>1. VersionsGrow BY <1>9, SameGrows DEF vars, stepRows
  <2> QED BY <1>5, <1>9, <2>1 DEF vars
<1> QED BY <1>2, <1>3, <1>4, <1>6, <1>7, <1>8, <1>9 DEF Next, Around

(* A run that has claimed a step holds a token its row has left behind,    *)
(* and no two hold the same, however many runs share an execution.         *)
THEOREM TokensUsedUp == ASSUME CompareVersions PROVE Spec => []TokensAreUsedUp
<1> DEFINE I == (\A r \in Runs : Shape(r)) /\ Ordered /\ AllDistinct
<1>1. Init => I
  <2>1. ASSUME Init, NEW r \in Runs, NEW s \in Steps PROVE step[r][s].pc = "none"
    BY <2>1 DEF Init, IdleStep
  <2>2. Init => Ordered /\ AllDistinct
    BY <2>1 DEF Ordered, AllDistinct, Token, Distinct, Executing, Results
  <2> QED BY <2>2, ShapeInit
<1>2. TypeOK /\ TypeOK' /\ I /\ [Next]_vars => I' BY ShapeStep, TokensStep
<1>3. I => TokensAreUsedUp
  BY DEF Ordered, AllDistinct, Token, Distinct, TokensAreUsedUp
<1> QED BY <1>1, <1>2, <1>3, TypeCorrect, PTL DEF Spec

---------------------------------------------------------------------------
(* What a step of a run does to the row of its execution: nothing, or a    *)
(* mark with a number the counter has just given it.                       *)

Counts(r, ver) == counter' = [counter EXCEPT ![WorkerOf[r]] = ver]

Marks(r, ver, st) ==
  /\ MayLand(execVersion[run[r].exec] = ver)
  /\ execStatus' = [execStatus EXCEPT ![run[r].exec] = st]
  /\ execVersion' = [execVersion EXCEPT ![run[r].exec] = Bump(@)]

Writes(r) ==
  \/ UNCHANGED execRows /\ UNCHANGED counter
  \/ \E ver \in Numbers(r) :
       /\ Counts(r, ver)
       /\ \/ UNCHANGED execRows
          \/ \E st \in Rows!Marks : Marks(r, ver, st)

(* A run keeps its execution to its end.                                   *)
KeepsExec(r) ==
  /\ \A q \in Runs \ {r} : run'[q] = run[q]
  /\ \/ run'[r].phase # "idle" /\ run'[r].exec = run[r].exec
     \/ run'[r] = IdleRun

LEMMA MarkWrites ==
  ASSUME NEW r \in Runs, NEW st \in Rows!Marks, NEW live, MarkExec(r, st, live)
  PROVE  Writes(r)
  BY DEF MarkExec, Writes, Counts, Marks

LEMMA GoroutineWrites ==
  ASSUME TypeOK, NEW r \in Runs, NEW s \in Steps, StepGoroutine(r, s)
  PROVE  Writes(r) /\ KeepsExec(r)
<1>1. KeepsExec(r) BY GoroutineMoves DEF Moves, KeepsExec
<1>2. CASE GetError(r, s) \/ NotExecutable(r, s)
  <2>1. "FAILED" \in Rows!Marks BY DEF Rows!Marks
  <2>2. MarkExec(r, "FAILED", ~Cancelled(r)) BY <1>2 DEF GetError, NotExecutable
  <2> QED BY <1>1, <2>1, <2>2, MarkWrites
<1>3. CASE Claim(r, s) BY <1>1, <1>3 DEF Claim, Writes, Counts
<1>4. CASE \/ Begin(r, s) \/ Get(r, s) \/ Execute(r, s) \/ Succeed(r, s) \/ Suspend(r, s)
           \/ Retry(r, s) \/ GiveUp(r, s)
  BY <1>1, <1>4 DEF Begin, Get, Execute, Succeed, Suspend, Retry, GiveUp, Writes
<1> QED BY <1>2, <1>3, <1>4 DEF StepGoroutine

LEMMA ExecKept ==
  ASSUME TypeOK, NEW r \in Runs, NEW R \in RunType, R.exec = run[r].exec, R.phase # "idle",
         run' = [run EXCEPT ![r] = R]
  PROVE  KeepsExec(r)
  BY DEF KeepsExec, TypeOK, RunsOK

LEMMA MainWrites ==
  ASSUME TypeOK, NEW r \in Runs, RunExecution(r), \A s \in Steps : ~StepGoroutine(r, s)
  PROVE  Writes(r) /\ KeepsExec(r)
<1>1. run \in [Runs -> RunType] /\ run[r] \in RunType BY RunIs DEF TypeOK, RunsOK
<1>2. {"SUCCESS", "FAILED", "SUSPENDED", "COMPENSATING"} \subseteq Rows!Marks
  BY DEF Rows!Marks
<1>3. ASSUME EndRun(r) PROVE KeepsExec(r) BY <1>1, <1>3 DEF EndRun, KeepsExec
<1>4. CASE Suspended(r) BY <1>3, <1>4 DEF Suspended, Writes
<1>5. CASE Fail(r) BY <1>2, <1>3, <1>5, MarkWrites DEF Fail
<1>6. CASE Finish(r) BY <1>2, <1>3, <1>6, MarkWrites DEF Finish
<1>7. CASE Spawn(r)
  <2>1. run'[r] = [run[r] EXCEPT !.phase = "wait"] BY <1>1, <1>7 DEF Spawn
  <2>2. run'[r].phase = "wait" /\ run'[r].exec = run[r].exec BY <1>1, <2>1 DEF RunType
  <2>3. KeepsExec(r) BY <1>1, <1>7, <2>2 DEF Spawn, KeepsExec
  <2> QED BY <1>7, <2>3 DEF Spawn, Writes
<1>8. CASE Join(r)
  <2> DEFINE p == IF Cancelled(r) THEN "drain" ELSE "layer"
             l == IF Cancelled(r) THEN run[r].layer ELSE run[r].layer + 1
  <2>1. run'[r] = [run[r] EXCEPT !.phase = p, !.layer = l]
    BY <1>1, <1>8 DEF Join, RunType
  <2>2. p # "idle" OBVIOUS
  <2> HIDE DEF p, l
  <2>3. run'[r].phase = p /\ run'[r].exec = run[r].exec BY <1>1, <2>1 DEF RunType
  <2>4. KeepsExec(r) BY <1>1, <1>8, <2>2, <2>3 DEF Join, KeepsExec
  <2> QED BY <1>8, <2>4 DEF Join, Writes
<1>9. CASE DrainSuspension(r)
  <2>1. run'[r] = [run[r] EXCEPT !.errs = Tail(run[r].errs), !.suspended = TRUE]
    BY <1>1, <1>9 DEF DrainSuspension, RunType
  <2>2. run'[r].phase = "drain" /\ run'[r].exec = run[r].exec
    BY <1>1, <1>9, <2>1 DEF DrainSuspension, RunType
  <2>3. KeepsExec(r) BY <1>1, <1>9, <2>2 DEF DrainSuspension, KeepsExec
  <2> QED BY <1>2, <1>9, <2>3, MarkWrites DEF DrainSuspension
<1>10. CASE DrainError(r)
  <2>1. CASE /\ MarkExec(r, "COMPENSATING", TRUE)
             /\ run' = [run EXCEPT ![r].phase = "undo", ![r].todo = Undoable(run[r].exec)]
    <3>1. run'[r] = [run[r] EXCEPT !.phase = "undo", !.todo = Undoable(run[r].exec)]
      BY <1>1, <2>1 DEF RunType
    <3>2. run'[r].phase = "undo" /\ run'[r].exec = run[r].exec BY <1>1, <3>1 DEF RunType
    <3>3. KeepsExec(r) BY <1>1, <2>1, <3>2 DEF KeepsExec
    <3> QED BY <1>2, <2>1, <3>3, MarkWrites
  <2>2. CASE run' = [run EXCEPT ![r].phase = "fail"] /\ UNCHANGED <<execRows, counter>>
    <3>1. run'[r] = [run[r] EXCEPT !.phase = "fail"] BY <1>1, <2>2
    <3>2. run'[r].phase = "fail" /\ run'[r].exec = run[r].exec BY <1>1, <3>1 DEF RunType
    <3>3. KeepsExec(r) BY <1>1, <2>2, <3>2 DEF KeepsExec
    <3> QED BY <2>2, <3>3 DEF Writes
  <2> QED BY <1>10, <2>1, <2>2 DEF DrainError
<1>11. ASSUME NEW s \in Steps, Undo(r, s) \/ Undone(r, s) PROVE Writes(r) /\ KeepsExec(r)
  <2>1. CASE Undo(r, s)
    <3>1. run'[r] = [run[r] EXCEPT !.phase = "undoing"] BY <1>1, <2>1 DEF Undo
    <3>2. run'[r].phase = "undoing" /\ run'[r].exec = run[r].exec BY <1>1, <3>1 DEF RunType
    <3>3. KeepsExec(r) BY <1>1, <2>1, <3>2 DEF Undo, KeepsExec
    <3> QED BY <2>1, <3>3 DEF Undo, Writes
  <2>2. CASE Undone(r, s)
    <3>1. run'[r] = [run[r] EXCEPT !.phase = "undo", !.todo = run[r].todo \ {s}]
      BY <1>1, <2>2 DEF Undone, RunType
    <3>2. run'[r].phase = "undo" /\ run'[r].exec = run[r].exec BY <1>1, <3>1 DEF RunType
    <3>3. KeepsExec(r) BY <1>1, <2>2, <3>2 DEF Undone, KeepsExec
    <3> QED BY <2>2, <3>3 DEF Undone, Writes
  <2> QED BY <1>11, <2>1, <2>2
<1>12. CASE UndoAll(r)
  <2>1. run'[r] = [run[r] EXCEPT !.phase = "fail"] BY <1>1, <1>12 DEF UndoAll
  <2>2. run'[r].phase = "fail" /\ run'[r].exec = run[r].exec BY <1>1, <2>1 DEF RunType
  <2>3. KeepsExec(r) BY <1>1, <1>12, <2>2 DEF UndoAll, KeepsExec
  <2> QED BY <1>12, <2>3 DEF UndoAll, Writes
<1> QED
  BY <1>4, <1>5, <1>6, <1>7, <1>8, <1>9, <1>10, <1>11, <1>12 DEF RunExecution

LEMMA RunWrites ==
  ASSUME TypeOK, NEW r \in Runs, RunExecution(r)
  PROVE  Writes(r) /\ KeepsExec(r) /\ run[r].phase # "idle"
<1>1. run[r].phase # "idle" BY OwnRowsOnly
<1>2. CASE \E s \in Steps : StepGoroutine(r, s) BY <1>1, <1>2, GoroutineWrites
<1>3. CASE \A s \in Steps : ~StepGoroutine(r, s) BY <1>1, <1>3, MainWrites
<1> QED BY <1>2, <1>3

---------------------------------------------------------------------------
(* The contract of the executions.                                         *)

LEMMA OwnedEdit ==
  ASSUME TypeOK, TypeOK', NEW r \in Runs, run[r].phase # "idle", KeepsExec(r)
  PROVE  Owned' \in {Owned, Owned \ {run[r].exec}}
<1>1. CASE run'[r].phase # "idle" /\ run'[r].exec = run[r].exec
  <2>1. \A q \in Runs : /\ run'[q].exec = run[q].exec
                        /\ run'[q].phase # "idle" <=> run[q].phase # "idle"
    BY <1>1 DEF KeepsExec
  <2> QED BY <2>1 DEF Owned
<1>2. CASE run'[r] = IdleRun
  <2>1. run'[r].phase = "idle" BY <1>2, IdleRunType
  <2>2. Owned' = {run[q].exec : q \in {p \in Runs \ {r} : run[p].phase # "idle"}}
    BY <2>1 DEF KeepsExec, Owned
  <2>3. CASE \E q \in Runs \ {r} : run[q].phase # "idle" /\ run[q].exec = run[r].exec
    <3>1. Owned' = Owned BY <2>2, <2>3 DEF Owned
    <3> QED BY <3>1
  <2>4. CASE ~ \E q \in Runs \ {r} : run[q].phase # "idle" /\ run[q].exec = run[r].exec
    <3>1. Owned' = Owned \ {run[r].exec} BY <2>2, <2>4 DEF Owned
    <3> QED BY <3>1
  <2> QED BY <2>3, <2>4
<1> QED BY <1>1, <1>2 DEF KeepsExec

(* One row gets another value.                                             *)
LEMMA RowEdit ==
  ASSUME CompareVersions, TypeOK, NEW x \in Execs, NEW st,
         execStatus' = [execStatus EXCEPT ![x] = st]
  PROVE  /\ Rows!SetStatus({x}, st)
         /\ execVersion' = [execVersion EXCEPT ![x] = Bump(@)] => Rows!CountUp({x})
  BY DEF Rows!SetStatus, Rows!CountUp, Bump, TypeOK, RowsOK

LEMMA RunKeepsContract ==
  ASSUME CompareVersions, TypeOK, TypeOK', NEW r \in Runs, RunExecution(r)
  PROVE  Rows!Next
<1>1. Writes(r) /\ KeepsExec(r) /\ run[r].phase # "idle" BY RunWrites
<1>2. run[r].exec \in Execs /\ run[r].exec \in Owned
  BY <1>1, BusyHasExec DEF TypeOK, Owned
<1>3. Owned' \in {Owned, Owned \ {run[r].exec}} BY <1>1, OwnedEdit
<1>4. CASE UNCHANGED execRows
  <2>1. Rows!Leave BY <1>3, <1>4 DEF Rows!Leave, execRows
  <2> QED BY <2>1 DEF Rows!Next
<1>5. ASSUME NEW ver, NEW st \in Rows!Marks, Marks(r, ver, st) PROVE Rows!Next
  <2>1. Rows!Mark(run[r].exec, st)
    BY <1>2, <1>3, <1>5, RowEdit DEF Marks, Rows!Mark
  <2> QED BY <1>2, <1>5, <2>1 DEF Rows!Next
<1> QED BY <1>1, <1>4, <1>5 DEF Writes

LEMMA OwnedSame == ASSUME run' = run PROVE Owned' = Owned
  BY DEF Owned

(* A cancel that would still match hits a row that is RUNNING, or that the *)
(* sweep has put back since the cancel read it.                            *)
CancelsFresh ==
  \A c \in cancels :
    /\ c.version <= execVersion[c.id]
    /\ c.version = execVersion[c.id] => execStatus[c.id] \in {"RUNNING", "PENDING"}

LEMMA AroundKeepsContract ==
  ASSUME CompareVersions, TypeOK, TypeOK', CancelsFresh, Around
  PROVE  Rows!Next \/ UNCHANGED <<execStatus, execVersion, Owned>>
<1>1. ASSUME NEW r \in Runs, NEW x \in Execs, Start(r, x) PROVE Rows!Next
  <2>1. execStatus[x] = "PENDING" /\ {x} \in SUBSET Execs BY <1>1 DEF Start
  <2>2. Rows!SetStatus({x}, "RUNNING") /\ Rows!CountUp({x}) BY <1>1, RowEdit DEF Start
  <2>3. Owned' = Owned \cup {x}
    <3>1. PICK p \in {"layer", "fail"} :
            run' = [run EXCEPT ![r] = [IdleRun EXCEPT !.exec = x, !.phase = p, !.layer = 1]]
      BY <1>1 DEF Start
    <3>2. run'[r].phase = p /\ run'[r].exec = x
      BY <3>1, IdleRunType DEF RunType, TypeOK, RunsOK
    <3>3. \A q \in Runs \ {r} : run'[q] = run[q] BY <3>1 DEF TypeOK, RunsOK
    <3>4. run[r].phase = "idle" BY <1>1 DEF Start
    <3> QED BY <3>2, <3>3, <3>4 DEF Owned
  <2>4. Rows!Claim({x}) BY <2>1, <2>2, <2>3 DEF Rows!Claim
  <2> QED BY <2>1, <2>4 DEF Rows!Next
<1>2. ASSUME NEW x \in Execs, Recover(x) PROVE Rows!Next
  <2>1. Rows!SetStatus({x}, "PENDING") BY <1>2, RowEdit DEF Recover
  <2>2. Rows!Recover({x}) BY <1>2, <2>1, OwnedSame DEF Recover, Rows!Recover
  <2>3. {x} \in SUBSET Execs OBVIOUS
  <2> QED BY <2>2, <2>3 DEF Rows!Next
<1>3. ASSUME NEW c \in cancels, CancelWrite(c)
      PROVE Rows!Next \/ UNCHANGED <<execStatus, execVersion, Owned>>
  <2>1. c.id \in Execs BY DEF TypeOK, RowsOK
  <2>2. Owned' = Owned BY <1>3, OwnedSame DEF CancelWrite
  <2>3. CASE UNCHANGED execRows BY <2>2, <2>3 DEF execRows
  <2>4. CASE ~UNCHANGED execRows
    <3>1. /\ execVersion[c.id] = c.version
          /\ execStatus' = [execStatus EXCEPT ![c.id] = "CANCELLED"]
          /\ execVersion' = [execVersion EXCEPT ![c.id] = Bump(@)]
      BY <1>3, <2>4 DEF CancelWrite, MayLand
    <3>2. Rows!SetStatus({c.id}, "CANCELLED") /\ Rows!CountUp({c.id})
      BY <2>1, <3>1, RowEdit
    <3>3. Rows!Cancel(c.id) BY <2>2, <3>1, <3>2 DEF CancelsFresh, Rows!Cancel
    <3> QED BY <2>1, <3>3 DEF Rows!Next
  <2> QED BY <2>3, <2>4
<1>4. ASSUME NEW x \in Execs, ResumeExec(x)
      PROVE Rows!Next \/ UNCHANGED <<execStatus, execVersion, Owned>>
  <2>1. Owned' = Owned BY <1>4, OwnedSame DEF ResumeExec
  <2>2. CASE UNCHANGED execRows BY <2>1, <2>2 DEF execRows
  <2>3. CASE /\ execStatus' = [execStatus EXCEPT ![x] = "PENDING"]
             /\ execVersion' = [execVersion EXCEPT ![x] = Bump(@)]
    <3>1. Rows!SetStatus({x}, "PENDING") /\ Rows!CountUp({x}) BY <2>3, RowEdit
    <3>2. execStatus[x] # "ABSENT" BY DEF TypeOK, RowsOK, ExecStatuses
    <3>3. Rows!Resume(x) BY <2>1, <3>1, <3>2 DEF Rows!Resume
    <3> QED BY <3>3 DEF Rows!Next
  <2> QED BY <1>4, <2>2, <2>3 DEF ResumeExec
<1>5. ASSUME NEW x \in Execs, NEW s \in Steps, ResumeStep(x, s)
      PROVE UNCHANGED <<execStatus, execVersion, Owned>>
  BY <1>5, OwnedSame DEF ResumeStep, execRows
<1>6. ASSUME NEW w \in Workers, Crash(w) PROVE Rows!Next
  <2>1. \A q \in Runs : run'[q] = run[q] \/ run'[q].phase = "idle"
    BY <1>6, IdleRunType DEF Crash
  <2>2. Owned' \in SUBSET Owned BY <2>1 DEF Owned
  <2>3. Rows!Leave BY <1>6, <2>2 DEF Crash, Rows!Leave, execRows
  <2> QED BY <2>3 DEF Rows!Next
<1>7. ASSUME NEW x \in Execs, CancelRead(x)
      PROVE UNCHANGED <<execStatus, execVersion, Owned>>
  BY <1>7, OwnedSame DEF CancelRead, execRows
<1> QED BY <1>1, <1>2, <1>3, <1>4, <1>5, <1>6, <1>7 DEF Around

(* A step that keeps to the contract and leaves the version of a row alone *)
(* leaves its status alone, or is the sweep's.                             *)
LEMMA StatusNeedsVersion ==
  ASSUME TypeOK, Rows!Next, NEW x \in Execs
  PROVE  /\ execVersion[x] <= execVersion'[x]
         /\ execVersion'[x] = execVersion[x] =>
              \/ execStatus'[x] = execStatus[x]
              \/ execStatus[x] = "RUNNING" /\ execStatus'[x] = "PENDING"
<1> DEFINE Goal == /\ execVersion[x] <= execVersion'[x]
                   /\ execVersion'[x] = execVersion[x] =>
                        \/ execStatus'[x] = execStatus[x]
                        \/ execStatus[x] = "RUNNING" /\ execStatus'[x] = "PENDING"
<1>1. execVersion[x] \in Nat BY DEF TypeOK, RowsOK
<1>2. ASSUME NEW X \in SUBSET Execs, NEW st, Rows!SetStatus(X, st), Rows!CountUp(X)
      PROVE Goal
  BY <1>1, <1>2 DEF Rows!SetStatus, Rows!CountUp
<1>3. ASSUME NEW y \in Execs, Rows!Insert(y) PROVE FALSE
  BY <1>3 DEF Rows!Insert, TypeOK, RowsOK, ExecStatuses
<1>4. ASSUME NEW X \in SUBSET Execs, Rows!Recover(X) PROVE Goal
  BY <1>1, <1>4 DEF Rows!Recover, Rows!SetStatus
<1>5. ASSUME Rows!Leave PROVE Goal BY <1>1, <1>5 DEF Rows!Leave
<1>6. ASSUME NEW y \in Execs, Rows!Fail(y) \/ Rows!Cancel(y) \/ Rows!Resume(y)
      PROVE Goal
  BY <1>2, <1>6 DEF Rows!Fail, Rows!Cancel, Rows!Resume
<1>7. ASSUME NEW X \in SUBSET Execs, Rows!Claim(X) PROVE Goal
  BY <1>2, <1>7 DEF Rows!Claim
<1>8. ASSUME NEW y \in Execs, NEW st, Rows!Mark(y, st) PROVE Goal
  BY <1>2, <1>8 DEF Rows!Mark
<1> HIDE DEF Goal
<1>9. Goal BY <1>3, <1>4, <1>5, <1>6, <1>7, <1>8 DEF Rows!Next
<1> QED BY <1>9 DEF Goal

LEMMA RunKeepsCancels == ASSUME NEW r \in Runs, RunExecution(r) PROVE cancels' = cancels
<1>1. ASSUME NEW s \in Steps, StepGoroutine(r, s) PROVE cancels' = cancels
  BY <1>1 DEF StepGoroutine, Begin, Get, GetError, Claim, Execute, NotExecutable, Succeed,
              Suspend, Retry, GiveUp
<1>2. ASSUME NEW s \in Steps, Undo(r, s) \/ Undone(r, s) PROVE cancels' = cancels
  BY <1>2 DEF Undo, Undone
<1> QED
  BY <1>1, <1>2 DEF RunExecution, Spawn, Join, DrainSuspension, Suspended, DrainError,
                    UndoAll, Fail, Finish

LEMMA CancelsStayFresh ==
  ASSUME TypeOK, TypeOK', CancelsFresh, Next,
         Rows!Next \/ UNCHANGED <<execStatus, execVersion, Owned>>
  PROVE  CancelsFresh'
<1>1. \A c \in cancels : c.id \in Execs /\ c.version \in Nat BY DEF TypeOK, RowsOK
<1>2. ASSUME NEW x \in Execs
      PROVE  /\ execVersion[x] \in Nat /\ execVersion'[x] \in Int
             /\ execVersion[x] <= execVersion'[x]
             /\ execVersion'[x] = execVersion[x] =>
                  \/ execStatus'[x] = execStatus[x]
                  \/ execStatus[x] = "RUNNING" /\ execStatus'[x] = "PENDING"
  <2>1. execVersion[x] \in Nat /\ execVersion'[x] \in Int BY DEF TypeOK, RowsOK
  <2>2. CASE Rows!Next BY <2>1, <2>2, StatusNeedsVersion
  <2>3. CASE UNCHANGED <<execStatus, execVersion, Owned>> BY <2>1, <2>3
  <2> QED BY <2>2, <2>3
<1>3. cancels' \subseteq cancels \/ \E x \in Execs : CancelRead(x)
  BY RunKeepsCancels DEF Next, Around, Start, Recover, CancelWrite, ResumeExec, ResumeStep,
                         Crash
<1>4. ASSUME NEW c \in cancels
      PROVE  /\ c.version <= execVersion'[c.id]
             /\ c.version = execVersion'[c.id] =>
                  execStatus'[c.id] \in {"RUNNING", "PENDING"}
  BY <1>1, <1>2 DEF CancelsFresh
<1>5. ASSUME NEW x \in Execs, CancelRead(x) PROVE CancelsFresh'
  <2>1. /\ cancels' = cancels \cup {[id |-> x, version |-> execVersion[x]]}
        /\ execVersion' = execVersion /\ execStatus' = execStatus
        /\ execStatus[x] = "RUNNING" /\ execVersion[x] \in Nat
    BY <1>2, <1>5 DEF CancelRead, execRows
  <2> QED BY <1>4, <2>1 DEF CancelsFresh
<1>6. CASE cancels' \subseteq cancels BY <1>4, <1>6 DEF CancelsFresh
<1> QED BY <1>3, <1>5, <1>6

(* The engine, the sweep, a cancel and an event keep to the contract of    *)
(* the executions: a run marks only what it runs, and a cancel that was    *)
(* slow to write hits only what is still RUNNING or was put back.          *)
THEOREM EngineKeepsContract == ASSUME CompareVersions PROVE Spec => RowsKeepTheContract
<1>1. Init => Rows!Init /\ CancelsFresh
  <2> SUFFICES ASSUME Init PROVE Rows!Init /\ CancelsFresh  OBVIOUS
  <2>1. \A r \in Runs : run[r].phase = "idle" BY IdleRunType DEF Init
  <2>2. Owned = {} BY <2>1 DEF Owned
  <2> QED BY <2>2 DEF Init, Rows!Init, CancelsFresh
<1>2. TypeOK /\ TypeOK' /\ CancelsFresh /\ [Next]_vars
        => [Rows!Next]_<<execStatus, execVersion, Owned>> /\ CancelsFresh'
  <2> SUFFICES ASSUME TypeOK, TypeOK', CancelsFresh, [Next]_vars
               PROVE  /\ Rows!Next \/ UNCHANGED <<execStatus, execVersion, Owned>>
                      /\ CancelsFresh'
    OBVIOUS
  <2>1. CASE UNCHANGED vars BY <2>1, OwnedSame DEF vars, CancelsFresh
  <2>2. CASE Next
    <3>1. Rows!Next \/ UNCHANGED <<execStatus, execVersion, Owned>>
      BY <2>2, RunKeepsContract, AroundKeepsContract DEF Next
    <3> QED BY <2>2, <3>1, CancelsStayFresh
  <2> QED BY <2>1, <2>2
<1> QED BY <1>1, <1>2, TypeCorrect, PTL DEF Spec, RowsKeepTheContract, Rows!Spec

---------------------------------------------------------------------------
(* One run at a time per execution, which the results on the order of the  *)
(* steps suppose: it holds as long as neither the sweep nor an event puts  *)
(* back the row of an execution that a run still works on.                 *)

NotRequeued == \A x \in Owned : ~Recover(x) /\ ~ResumeExec(x)

NotPending ==
  \A r \in Runs : run[r].phase # "idle" => execStatus[run[r].exec] # "PENDING"

(* What a busy run of the next state was before.                           *)
FromBusy(q) ==
  run'[q].phase # "idle" => run[q].phase # "idle" /\ run'[q].exec = run[q].exec

LEMMA SameRuns ==
  ASSUME TypeOK, TypeOK', OneRunEach, \A q \in Runs : FromBusy(q)
  PROVE  OneRunEach'
<1> SUFFICES ASSUME NEW p \in Runs, NEW q \in Runs,
                    run'[p].phase # "idle", run'[p].exec = run'[q].exec
             PROVE  p = q
  BY DEF OneRunEach
<1>1. run'[p].exec # NoExec BY DEF TypeOK, RunsOK
<1>2. run'[q].phase # "idle" BY <1>1 DEF TypeOK, RunsOK
<1> QED BY <1>2 DEF FromBusy, OneRunEach

LEMMA KeptFromBusy ==
  ASSUME NEW r \in Runs, KeepsExec(r), run[r].phase # "idle"
  PROVE  \A q \in Runs : FromBusy(q)
  BY IdleRunType DEF KeepsExec, FromBusy

LEMMA CrashFromBusy ==
  ASSUME NEW w \in Workers, Crash(w)
  PROVE  \A q \in Runs : FromBusy(q) /\ (run'[q].phase # "idle" => WorkerOf[q] # w)
  BY IdleRunType DEF Crash, FromBusy

(* A started run, and the others.                                          *)
LEMMA Started ==
  ASSUME TypeOK, NEW r \in Runs, NEW x \in Execs, Start(r, x)
  PROVE  /\ run'[r].phase # "idle" /\ run'[r].exec = x
         /\ \A q \in Runs \ {r} : run'[q] = run[q]
         /\ execStatus'[x] = "RUNNING"
         /\ \A y \in Execs \ {x} : /\ execStatus'[y] = execStatus[y]
                                   /\ execVersion'[y] = execVersion[y]
<1>1. PICK p \in {"layer", "fail"} :
        run' = [run EXCEPT ![r] = [IdleRun EXCEPT !.exec = x, !.phase = p, !.layer = 1]]
  BY DEF Start
<1>2. run'[r].phase = p /\ run'[r].exec = x
  BY <1>1, IdleRunType DEF RunType, TypeOK, RunsOK
<1>3. \A q \in Runs \ {r} : run'[q] = run[q] BY <1>1 DEF TypeOK, RunsOK
<1>4. /\ execStatus'[x] = "RUNNING"
      /\ \A y \in Execs \ {x} : /\ execStatus'[y] = execStatus[y]
                                /\ execVersion'[y] = execVersion[y]
  BY DEF Start, TypeOK, RowsOK
<1> QED BY <1>2, <1>3, <1>4

LEMMA OneRunStep ==
  ASSUME TypeOK, TypeOK', OneRunEach, NotPending, [Next]_vars, [NotRequeued]_vars
  PROVE  OneRunEach' /\ NotPending'
<1>1. ASSUME \A q \in Runs : FromBusy(q),
             \A q \in Runs : run[q].phase # "idle" =>
               \/ execStatus'[run[q].exec] = execStatus[run[q].exec]
               \/ execStatus'[run[q].exec] # "PENDING"
      PROVE  OneRunEach' /\ NotPending'
  <2>1. OneRunEach' BY <1>1, SameRuns
  <2>2. NotPending' BY <1>1 DEF FromBusy, NotPending
  <2> QED BY <2>1, <2>2
<1>2. ASSUME NEW r \in Runs, RunExecution(r) PROVE OneRunEach' /\ NotPending'
  <2>1. Writes(r) /\ KeepsExec(r) /\ run[r].phase # "idle" BY <1>2, RunWrites
  <2>2. \A y \in Execs : execStatus'[y] = execStatus[y] \/ execStatus'[y] # "PENDING"
    <3>1. CASE UNCHANGED execRows BY <3>1 DEF execRows
    <3>2. ASSUME NEW st \in Rows!Marks, NEW ver, Marks(r, ver, st)
          PROVE \A y \in Execs : execStatus'[y] = execStatus[y] \/ execStatus'[y] # "PENDING"
      BY <3>2 DEF Marks, Rows!Marks, TypeOK, RowsOK
    <3> QED BY <2>1, <3>1, <3>2 DEF Writes
  <2>3. \A q \in Runs : run[q].phase # "idle" => run[q].exec \in Execs
    BY BusyHasExec DEF TypeOK
  <2> QED BY <1>1, <2>1, <2>2, <2>3, KeptFromBusy
<1>3. ASSUME NEW r \in Runs, NEW x \in Execs, Start(r, x) PROVE OneRunEach' /\ NotPending'
  <2>1. \A q \in Runs \ {r} : run[q].phase # "idle" => run[q].exec # x
    BY <1>3 DEF Start, NotPending
  <2>2. OneRunEach'
    <3> SUFFICES ASSUME NEW p \in Runs, NEW q \in Runs,
                        run'[p].phase # "idle", run'[p].exec = run'[q].exec
                 PROVE  p = q
      BY DEF OneRunEach
    <3>1. run'[p].exec # NoExec BY DEF TypeOK, RunsOK
    <3>2. run'[q].phase # "idle" BY <3>1 DEF TypeOK, RunsOK
    <3> QED BY <1>3, <2>1, <3>2, Started DEF OneRunEach
  <2>3. NotPending'
    <3> SUFFICES ASSUME NEW q \in Runs, run'[q].phase # "idle"
                 PROVE  execStatus'[run'[q].exec] # "PENDING"
      BY DEF NotPending
    <3>1. CASE q = r BY <1>3, <3>1, Started
    <3>2. CASE q # r
      <4>1. run[q].phase # "idle" /\ run'[q].exec = run[q].exec BY <1>3, <3>2, Started
      <4>2. run[q].exec \in Execs \ {x} BY <2>1, <3>2, <4>1, BusyHasExec DEF TypeOK
      <4> QED BY <1>3, <4>1, <4>2, Started DEF NotPending
    <3> QED BY <3>1, <3>2
  <2> QED BY <2>2, <2>3
<1>4. ASSUME NEW w \in Workers, Crash(w) PROVE OneRunEach' /\ NotPending'
  <2>1. execStatus' = execStatus BY <1>4 DEF Crash, execRows
  <2> QED BY <1>1, <1>4, <2>1, CrashFromBusy
<1>5. CASE run' = run /\ \A x \in Owned : execStatus'[x] = execStatus[x]
                                            \/ execStatus'[x] # "PENDING"
  BY <1>1, <1>5 DEF FromBusy, Owned
<1>6. ASSUME NEW x \in Execs, Recover(x) \/ ResumeExec(x) PROVE OneRunEach' /\ NotPending'
  <2>1. vars' # vars
    <3>1. CASE Recover(x) BY <3>1 DEF Recover, vars, TypeOK, RowsOK
    <3>2. CASE ResumeExec(x) BY <3>2 DEF ResumeExec, vars
    <3> QED BY <1>6, <3>1, <3>2
  <2>2. x \notin Owned BY <1>6, <2>1 DEF NotRequeued
  <2>3. \A y \in Owned : y \in Execs BY BusyHasExec DEF Owned, TypeOK
  <2>4. \A y \in Owned : execStatus'[y] = execStatus[y]
    BY <1>6, <2>2, <2>3 DEF Recover, ResumeExec, execRows, TypeOK, RowsOK
  <2> QED BY <1>5, <1>6, <2>4 DEF Recover, ResumeExec
<1>7. ASSUME NEW c \in cancels, CancelWrite(c) PROVE OneRunEach' /\ NotPending'
  <2>1. \A y \in Owned : y \in Execs BY BusyHasExec DEF Owned, TypeOK
  <2>2. c.id \in Execs BY DEF TypeOK, RowsOK
  <2> QED BY <1>5, <1>7, <2>1, <2>2 DEF CancelWrite, execRows, TypeOK, RowsOK
<1>8. ASSUME NEW x \in Execs, NEW s \in Steps, ResumeStep(x, s)
      PROVE OneRunEach' /\ NotPending'
  BY <1>5, <1>8 DEF ResumeStep, execRows
<1>9. ASSUME NEW x \in Execs, CancelRead(x) PROVE OneRunEach' /\ NotPending'
  BY <1>5, <1>9 DEF CancelRead, execRows
<1>10. CASE UNCHANGED vars BY <1>5, <1>10 DEF vars
<1> QED BY <1>2, <1>3, <1>4, <1>6, <1>7, <1>8, <1>9, <1>10 DEF Next, Around

LEMMA OneRunInit == ASSUME Init PROVE OneRunEach /\ NotPending
<1>1. \A r \in Runs : run[r].phase = "idle" BY IdleRunType DEF Init
<1> QED BY <1>1 DEF OneRunEach, NotPending

(* At most one run works on an execution, on whatever workers, unless the  *)
(* sweep or an event has put back a row that a run worked on: the claim    *)
(* takes only PENDING rows, and no run makes its own row PENDING.          *)
THEOREM OneRunUnlessRequeued == Spec /\ [][NotRequeued]_vars => []OneRunEach
<1>1. TypeOK /\ TypeOK' /\ OneRunEach /\ NotPending /\ [Next]_vars /\ [NotRequeued]_vars
        => OneRunEach' /\ NotPending'
  BY OneRunStep
<1>2. Init => OneRunEach /\ NotPending BY OneRunInit
<1> QED BY <1>1, <1>2, TypeCorrect, PTL DEF Spec

(* So while no execution with a run is queued again, a step starts after   *)
(* the steps it depends on, SUCCESS means that every step is done, and a   *)
(* compensation undoes only what is done: the claims of RunExecution       *)
(* (engine.go), without a hypothesis on the runs.                          *)
THEOREM OrderedUnlessRequeued ==
  ASSUME CompensatesWork
  PROVE  Spec /\ [][NotRequeued]_vars =>
           []DependenciesDone /\ SuccessMeansAllDone /\ []UndoesOnlyWhatIsDone
<1> QED BY OneRunUnlessRequeued, StepsAreOrdered, NoFailureOverlooked, UndoesOnlyDone, PTL


---------------------------------------------------------------------------
(* What follows from the tokens for the results of the steps.              *)

Unrecorded == \A x \in Execs, s \in Steps : stepStatus[x][s] \in {"PENDING", "RUNNING"}

NothingToUndo ==
  \A r \in Runs : run[r].phase \in {"undo", "undoing"} => run[r].todo = {}

LEMMA LandRecords ==
  ASSUME TypeOK, Unrecorded, NEW x \in Execs, NEW s \in Steps, NEW v,
         LandStep(x, s, v, "RUNNING") \/ UNCHANGED stepStatus
  PROVE  Unrecorded'
<1>1. CASE UNCHANGED stepStatus BY <1>1 DEF Unrecorded
<1>2. CASE LandStep(x, s, v, "RUNNING") BY <1>2 DEF LandStep, Unrecorded, TypeOK, RowsOK
<1> QED BY <1>1, <1>2

(* A used up token lands nowhere.                                          *)
LEMMA UsedUp ==
  ASSUME CompareVersions, TypeOK, TokensAreUsedUp, NEW r \in Runs, NEW s \in Steps,
         Executing(r, s), run[r].phase = "wait", NEW st
  PROVE  ~LandStep(run[r].exec, s, step[r][s].token, st)
<1>1. run[r].exec \in Execs BY BusyHasExec DEF TypeOK
<1>2. stepVersion[run[r].exec][s] \in Nat /\ step[r][s].token \in Nat
  BY <1>1, StepIs DEF TypeOK, RowsOK, StepType
<1>3. step[r][s].token < stepVersion[run[r].exec][s] BY DEF TokensAreUsedUp
<1> QED BY <1>2, <1>3 DEF LandStep, MayLand

LEMMA GoroutineRecords ==
  ASSUME CompareVersions, TypeOK, TokensAreUsedUp, Unrecorded, NothingToUndo,
         NEW r \in Runs, NEW s \in Steps, StepGoroutine(r, s)
  PROVE  Unrecorded' /\ NothingToUndo'
<1>1. Moves(r, s) BY GoroutineMoves
<1>2. NothingToUndo' BY <1>1 DEF Moves, NothingToUndo
<1>3. run[r].exec \in Execs /\ run[r].phase = "wait"
  BY <1>1, BusyHasExec DEF Moves, TypeOK
<1>4. CASE \/ Begin(r, s) \/ Get(r, s) \/ GetError(r, s) \/ Execute(r, s)
           \/ NotExecutable(r, s) \/ Retry(r, s)
  <2>1. UNCHANGED stepStatus
    BY <1>4 DEF Begin, Get, GetError, Execute, NotExecutable, Retry, stepRows
  <2> QED BY <1>2, <1>3, <2>1, LandRecords
<1>5. CASE Claim(r, s)
  <2>1. \/ LandStep(run[r].exec, s, step[r][s].token, "RUNNING")
        \/ UNCHANGED stepStatus
    BY <1>5 DEF Claim, RefuseStep
  <2> QED BY <1>2, <1>3, <2>1, LandRecords
<1>6. CASE Succeed(r, s) \/ Suspend(r, s) \/ GiveUp(r, s)
  <2>1. Executing(r, s)
    BY <1>6 DEF Succeed, Suspend, GiveUp, At, Executing, Results
  <2>2. \/ \E st \in {"SUCCESS", "SUSPENDED", "FAILED"} :
             LandStep(run[r].exec, s, step[r][s].token, st)
        \/ UNCHANGED stepStatus
    BY <1>6 DEF Succeed, Suspend, GiveUp, RefuseStep
  <2>3. UNCHANGED stepStatus BY <1>3, <2>1, <2>2, UsedUp
  <2> QED BY <1>2, <1>3, <2>3, LandRecords
<1> QED BY <1>4, <1>5, <1>6 DEF StepGoroutine

LEMMA MainRecords ==
  ASSUME TypeOK, Unrecorded, NothingToUndo, NEW r \in Runs, RunExecution(r),
         \A s \in Steps : ~StepGoroutine(r, s)
  PROVE  Unrecorded' /\ NothingToUndo'
<1>1. run \in [Runs -> RunType] /\ run[r] \in RunType BY RunIs DEF TypeOK, RunsOK
<1>2. \A q \in Runs \ {r} : run'[q] = run[q] BY RunWrites DEF KeepsExec
<1>3. ASSUME run'[r].phase \notin {"undo", "undoing"} \/ run'[r].todo = {}
      PROVE  NothingToUndo'
  BY <1>2, <1>3 DEF NothingToUndo
<1>4. ASSUME NEW s \in Steps PROVE ~Undo(r, s) /\ ~Undone(r, s)
  BY DEF Undo, Undone, UndoesNext, NothingToUndo
<1>5. CASE Suspended(r) \/ Fail(r) \/ Finish(r)
  <2>1. run'[r] = IdleRun /\ UNCHANGED stepRows
    BY <1>1, <1>5 DEF Suspended, Fail, Finish, EndRun
  <2>2. run'[r].phase = "idle" BY <2>1, IdleRunType
  <2> QED BY <1>3, <2>1, <2>2 DEF stepRows, Unrecorded
<1>6. CASE Spawn(r) \/ UndoAll(r)
  <2>1. /\ \E p \in {"wait", "fail"} : run' = [run EXCEPT ![r].phase = p]
        /\ UNCHANGED stepRows
    BY <1>6 DEF Spawn, UndoAll
  <2>2. run'[r].phase \in {"wait", "fail"} BY <2>1, PhaseIs
  <2> QED BY <1>3, <2>1, <2>2 DEF stepRows, Unrecorded
<1>7. CASE Join(r)
  <2> DEFINE p == IF Cancelled(r) THEN "drain" ELSE "layer"
             l == IF Cancelled(r) THEN run[r].layer ELSE run[r].layer + 1
  <2>1. run'[r] = [run[r] EXCEPT !.phase = p, !.layer = l] /\ UNCHANGED stepRows
    BY <1>1, <1>7 DEF Join, RunType
  <2>2. p \notin {"undo", "undoing"} OBVIOUS
  <2> HIDE DEF p, l
  <2>3. run'[r].phase = p BY <1>1, <2>1 DEF RunType
  <2> QED BY <1>3, <2>1, <2>2, <2>3 DEF stepRows, Unrecorded
<1>8. CASE DrainSuspension(r)
  <2>1. run'[r] = [run[r] EXCEPT !.errs = Tail(run[r].errs), !.suspended = TRUE]
    BY <1>1, <1>8 DEF DrainSuspension, RunType
  <2>2. run'[r].phase = "drain" BY <1>1, <1>8, <2>1 DEF DrainSuspension, RunType
  <2> QED BY <1>3, <1>8, <2>2 DEF DrainSuspension, stepRows, Unrecorded
<1>9. CASE DrainError(r)
  <2>1. UNCHANGED stepStatus BY <1>9 DEF DrainError, stepRows
  <2>2. CASE run' = [run EXCEPT ![r].phase = "undo", ![r].todo = Undoable(run[r].exec)]
    <3>1. run'[r] = [run[r] EXCEPT !.phase = "undo", !.todo = Undoable(run[r].exec)]
      BY <1>1, <2>2 DEF RunType
    <3>2. run'[r].todo = Undoable(run[r].exec) BY <1>1, <3>1 DEF RunType
    <3>3. run[r].exec \in Execs BY <1>9, BusyHasExec DEF DrainError, TypeOK
    <3>4. \A s \in Steps : workflow.compensatesFor[s] \in Steps
      BY WorkflowsAre DEF TypeOK
    <3>5. Undoable(run[r].exec) = {} BY <3>3, <3>4 DEF Undoable, Unrecorded
    <3> QED BY <1>3, <2>1, <3>2, <3>5 DEF Unrecorded
  <2>3. CASE run' = [run EXCEPT ![r].phase = "fail"]
    <3>1. run'[r].phase = "fail" BY <2>3, PhaseIs
    <3> QED BY <1>3, <2>1, <3>1 DEF Unrecorded
  <2> QED BY <1>9, <2>2, <2>3 DEF DrainError
<1> QED BY <1>4, <1>5, <1>6, <1>7, <1>8, <1>9 DEF RunExecution

LEMMA RecordsStep ==
  ASSUME CompareVersions, TypeOK, TokensAreUsedUp, Unrecorded, NothingToUndo, [Next]_vars
  PROVE  Unrecorded' /\ NothingToUndo'
<1>1. ASSUME NEW r \in Runs, RunExecution(r) PROVE Unrecorded' /\ NothingToUndo'
  BY <1>1, GoroutineRecords, MainRecords
<1>2. ASSUME NEW r \in Runs, NEW x \in Execs, Start(r, x)
      PROVE Unrecorded' /\ NothingToUndo'
  <2>1. PICK p \in {"layer", "fail"} :
          run' = [run EXCEPT ![r] = [IdleRun EXCEPT !.exec = x, !.phase = p, !.layer = 1]]
    BY <1>2 DEF Start
  <2>2. run'[r].phase = p BY <2>1, IdleRunType DEF RunType, TypeOK, RunsOK
  <2>3. NothingToUndo' BY <1>2, <2>2, Started DEF NothingToUndo
  <2> QED BY <1>2, <2>3 DEF Start, stepRows, Unrecorded
<1>3. ASSUME NEW w \in Workers, Crash(w) PROVE Unrecorded' /\ NothingToUndo'
  BY <1>3, IdleRunType DEF Crash, stepRows, Unrecorded, NothingToUndo
<1>4. ASSUME NEW x \in Execs, Recover(x) \/ CancelRead(x) \/ ResumeExec(x)
      PROVE Unrecorded' /\ NothingToUndo'
  BY <1>4 DEF Recover, CancelRead, ResumeExec, stepRows, Unrecorded, NothingToUndo
<1>5. ASSUME NEW x \in Execs, NEW s \in Steps, ResumeStep(x, s) PROVE FALSE
  BY <1>5 DEF ResumeStep, Unrecorded
<1>6. ASSUME NEW c \in cancels, CancelWrite(c) PROVE Unrecorded' /\ NothingToUndo'
  BY <1>6 DEF CancelWrite, stepRows, Unrecorded, NothingToUndo
<1>7. CASE UNCHANGED vars BY <1>7 DEF vars, stepRows, Unrecorded, NothingToUndo
<1> QED BY <1>1, <1>2, <1>3, <1>4, <1>5, <1>6, <1>7 DEF Next, Around

(* With the repositories of the code the row of a step never leaves        *)
(* PENDING and RUNNING: the claim uses its token up, and each later mark   *)
(* of the attempt (engine.go, executeStepWithRetry) names that token.      *)
THEOREM ResultsNeverRecorded == ASSUME CompareVersions PROVE Spec => []Unrecorded
<1>1. Init => Unrecorded /\ NothingToUndo
  BY IdleRunType DEF Init, Unrecorded, NothingToUndo
<1>2. TypeOK /\ TokensAreUsedUp /\ Unrecorded /\ NothingToUndo /\ [Next]_vars
        => Unrecorded' /\ NothingToUndo'
  BY RecordsStep
<1> QED BY <1>1, <1>2, TypeCorrect, TokensUsedUp, PTL DEF Spec

---------------------------------------------------------------------------
(* What follows from the counter for the status of the executions.         *)

OneRunPerWorker ==
  \A p, q \in Runs : run[p].phase # "idle" /\ run[q].phase # "idle"
                       /\ WorkerOf[p] = WorkerOf[q] => p = q

(* Nobody but its runs writes the row of an execution a run works on.      *)
LeftAlone ==
  /\ \A x \in Owned : ~Recover(x) /\ ~ResumeExec(x)
  /\ \A c \in cancels : c.id \in Owned => ~CancelWrite(c)

(* The counter has reached the version of the row: the next number it      *)
(* gives is above it.                                                      *)
CounterAhead ==
  \A r \in Runs : run[r].phase # "idle" =>
    execVersion[run[r].exec] <= counter[WorkerOf[r]]

Unmarked == \A x \in Execs : execStatus[x] \in {"PENDING", "RUNNING", "CANCELLED"}

LEMMA CounterRun ==
  ASSUME CompareVersions, TypeOK, TypeOK', OneRunPerWorker, CounterAhead, Unmarked,
         NEW r \in Runs, RunExecution(r)
  PROVE  CounterAhead' /\ Unmarked'
<1>1. Writes(r) /\ KeepsExec(r) /\ run[r].phase # "idle" BY RunWrites
<1> DEFINE w == WorkerOf[r]
           x == run[r].exec
<1>2. w \in Workers /\ x \in Execs BY <1>1, WorkersAre, BusyHasExec DEF TypeOK
<1>3. counter[w] \in Nat /\ execVersion[x] \in Nat /\ execVersion[x] <= counter[w]
  BY <1>1, <1>2 DEF TypeOK, RowsOK, CounterAhead
<1>4. Numbers(r) = {counter[w] + 1}
  <2>1. OthersOf(w) = {r} BY <1>1 DEF OthersOf, OneRunPerWorker
  <2> QED BY <2>1 DEF Numbers, Bump
<1>5. /\ UNCHANGED execRows
      /\ counter'[w] \in Nat /\ counter[w] <= counter'[w]
      /\ \A v \in Workers \ {w} : counter'[v] = counter[v]
  <2>1. CASE UNCHANGED execRows /\ UNCHANGED counter BY <1>3, <2>1
  <2>2. CASE Counts(r, counter[w] + 1)
    <3>1. /\ counter'[w] = counter[w] + 1
          /\ \A v \in Workers \ {w} : counter'[v] = counter[v]
      BY <1>2, <2>2 DEF Counts, TypeOK, RowsOK
    <3>2. \A st : ~Marks(r, counter[w] + 1, st) BY <1>3 DEF Marks, MayLand
    <3>3. UNCHANGED execRows
      <4>1. CASE UNCHANGED execRows BY <4>1
      <4>2. CASE \E ver \in Numbers(r) : \E st \in Rows!Marks : Marks(r, ver, st)
        BY <1>4, <3>2, <4>2
      <4> QED BY <1>1, <4>1, <4>2 DEF Writes
    <3> QED BY <1>3, <3>1, <3>3
  <2> QED BY <1>1, <1>4, <2>1, <2>2 DEF Writes
<1>6. Unmarked' BY <1>5 DEF execRows, Unmarked
<1>7. CounterAhead'
  <2> SUFFICES ASSUME NEW q \in Runs, run'[q].phase # "idle"
               PROVE  execVersion'[run'[q].exec] <= counter'[WorkerOf[q]]
    BY DEF CounterAhead
  <2>1. run[q].phase # "idle" /\ run'[q].exec = run[q].exec
    BY <1>1, KeptFromBusy DEF FromBusy
  <2>2. execVersion[run[q].exec] <= counter[WorkerOf[q]] BY <2>1 DEF CounterAhead
  <2>3. CASE q = r BY <1>3, <1>5, <2>1, <2>3 DEF execRows
  <2>4. CASE q # r
    <3>1. WorkerOf[q] \in Workers \ {w} BY <1>1, <2>1, <2>4, WorkersAre DEF OneRunPerWorker
    <3> QED BY <1>5, <2>1, <2>2, <3>1 DEF execRows
  <2> QED BY <2>3, <2>4
<1> QED BY <1>6, <1>7

LEMMA CounterStep ==
  ASSUME CompareVersions, TypeOK, TypeOK', NotPending, OneRunPerWorker, OneRunPerWorker',
         CounterAhead, Unmarked, [Next]_vars, [LeftAlone]_vars
  PROVE  CounterAhead' /\ Unmarked'
<1>1. ASSUME NEW r \in Runs, RunExecution(r) PROVE CounterAhead' /\ Unmarked'
  BY <1>1, CounterRun
<1>2. ASSUME NEW r \in Runs, NEW x \in Execs, Start(r, x) PROVE CounterAhead' /\ Unmarked'
  <2>1. /\ run'[r].phase # "idle" /\ run'[r].exec = x
        /\ \A q \in Runs \ {r} : run'[q] = run[q]
        /\ execStatus'[x] = "RUNNING"
        /\ \A y \in Execs \ {x} : /\ execStatus'[y] = execStatus[y]
                                  /\ execVersion'[y] = execVersion[y]
    BY <1>2, Started
  <2>2. Unmarked' BY <2>1 DEF Unmarked
  <2>3. counter' = [counter EXCEPT ![WorkerOf[r]] = execVersion'[x]] BY <1>2 DEF Start
  <2>4. CounterAhead'
    <3> SUFFICES ASSUME NEW q \in Runs, run'[q].phase # "idle"
                 PROVE  execVersion'[run'[q].exec] <= counter'[WorkerOf[q]]
      BY DEF CounterAhead
    <3>1. CASE q = r
      <4>1. counter'[WorkerOf[r]] = execVersion'[x]
        BY <2>3, WorkersAre DEF TypeOK, RowsOK
      <4>2. execVersion'[x] \in Nat BY DEF TypeOK, RowsOK
      <4> QED BY <2>1, <3>1, <4>1, <4>2
    <3>2. CASE q # r
      <4>1. run'[q] = run[q] /\ run[q].phase # "idle" BY <2>1, <3>2
      <4>2. run[q].exec \in Execs \ {x}
        BY <1>2, <4>1, BusyHasExec DEF Start, NotPending, TypeOK
      <4>3. WorkerOf[q] # WorkerOf[r] BY <2>1, <3>2 DEF OneRunPerWorker
      <4>4. counter'[WorkerOf[q]] = counter[WorkerOf[q]]
        BY <2>3, <4>3, WorkersAre DEF TypeOK, RowsOK
      <4> QED BY <2>1, <4>1, <4>2, <4>4 DEF CounterAhead
    <3> QED BY <3>1, <3>2
  <2> QED BY <2>2, <2>4
<1>3. ASSUME NEW w \in Workers, Crash(w) PROVE CounterAhead' /\ Unmarked'
  <2>1. UNCHANGED execRows BY <1>3 DEF Crash
  <2>2. \A v \in Workers \ {w} : counter'[v] = counter[v]
    BY <1>3 DEF Crash, TypeOK, RowsOK
  <2>3. \A q \in Runs : run'[q].phase # "idle" =>
          /\ run[q].phase # "idle" /\ run'[q].exec = run[q].exec
          /\ WorkerOf[q] \in Workers \ {w}
    BY <1>3, CrashFromBusy, WorkersAre DEF FromBusy
  <2> QED BY <2>1, <2>2, <2>3 DEF execRows, CounterAhead, Unmarked
<1>4. CASE /\ UNCHANGED <<run, counter>> /\ Unmarked'
           /\ \A x \in Owned : execVersion'[x] = execVersion[x]
  BY <1>4 DEF CounterAhead, Owned
<1>5. ASSUME NEW x \in Execs, Recover(x) \/ ResumeExec(x)
      PROVE CounterAhead' /\ Unmarked'
  <2>1. vars' # vars
    <3>1. CASE Recover(x) BY <3>1 DEF Recover, vars, TypeOK, RowsOK
    <3>2. CASE ResumeExec(x) BY <3>2 DEF ResumeExec, vars
    <3> QED BY <1>5, <3>1, <3>2
  <2>2. x \notin Owned BY <1>5, <2>1 DEF LeftAlone
  <2>3. \A y \in Owned : y \in Execs BY BusyHasExec DEF Owned, TypeOK
  <2>4. \A y \in Owned : execVersion'[y] = execVersion[y]
    BY <1>5, <2>2, <2>3 DEF Recover, ResumeExec, execRows, TypeOK, RowsOK
  <2>5. Unmarked' BY <1>5 DEF Recover, ResumeExec, execRows, Unmarked, TypeOK, RowsOK
  <2> QED BY <1>4, <1>5, <2>4, <2>5 DEF Recover, ResumeExec
<1>6. ASSUME NEW x \in Execs, NEW s \in Steps, ResumeStep(x, s)
      PROVE CounterAhead' /\ Unmarked'
  BY <1>4, <1>6 DEF ResumeStep, execRows, Unmarked
<1>7. ASSUME NEW c \in cancels, CancelWrite(c) PROVE CounterAhead' /\ Unmarked'
  <2>1. vars' # vars BY <1>7 DEF CancelWrite, vars
  <2>2. c.id \notin Owned BY <1>7, <2>1 DEF LeftAlone
  <2>3. c.id \in Execs /\ \A y \in Owned : y \in Execs
    BY BusyHasExec DEF Owned, TypeOK, RowsOK
  <2>4. \A y \in Owned : execVersion'[y] = execVersion[y]
    BY <1>7, <2>2, <2>3 DEF CancelWrite, execRows, TypeOK, RowsOK
  <2>5. Unmarked' BY <1>7, <2>3 DEF CancelWrite, execRows, Unmarked, TypeOK, RowsOK
  <2> QED BY <1>4, <1>7, <2>4, <2>5 DEF CancelWrite
<1>8. ASSUME NEW x \in Execs, CancelRead(x) PROVE CounterAhead' /\ Unmarked'
  BY <1>4, <1>8 DEF CancelRead, execRows, Unmarked
<1>9. CASE UNCHANGED vars BY <1>4, <1>9 DEF vars, Unmarked
<1> QED BY <1>1, <1>2, <1>3, <1>5, <1>6, <1>7, <1>8, <1>9 DEF Next, Around

(* With the repositories of the code, a worker that runs one execution at  *)
(* a time, and nobody else who writes its row, no mark of a run lands: the *)
(* counter starts at the version of the row (engine.go, RunExecution), and *)
(* the update names the next one (nextVersion).                            *)
THEOREM ExecutionsNeverMarked ==
  ASSUME CompareVersions
  PROVE  Spec /\ [][LeftAlone]_vars /\ []OneRunPerWorker => []Unmarked
<1>1. Init => OneRunEach /\ NotPending /\ CounterAhead /\ Unmarked
  <2>1. Init => OneRunEach /\ NotPending BY OneRunInit
  <2>2. Init => \A r \in Runs : run[r].phase = "idle" BY IdleRunType DEF Init
  <2>3. Init => CounterAhead BY <2>2 DEF CounterAhead
  <2>4. Init => Unmarked BY DEF Init, Unmarked
  <2> QED BY <2>1, <2>3, <2>4
<1>2. [LeftAlone]_vars => [NotRequeued]_vars BY DEF LeftAlone, NotRequeued
<1>3. TypeOK /\ TypeOK' /\ OneRunEach /\ NotPending /\ [Next]_vars /\ [NotRequeued]_vars
        => OneRunEach' /\ NotPending'
  BY OneRunStep
<1>4. TypeOK /\ TypeOK' /\ NotPending /\ OneRunPerWorker /\ OneRunPerWorker'
        /\ CounterAhead /\ Unmarked /\ [Next]_vars /\ [LeftAlone]_vars
        => CounterAhead' /\ Unmarked'
  BY CounterStep
<1> QED BY <1>1, <1>2, <1>3, <1>4, TypeCorrect, PTL DEF Spec

---------------------------------------------------------------------------
(* The work of a run.                                                      *)

UsesUp(r) ==
  \/ StagesLeft(r)' \in Nat /\ StagesLeft(r)' < StagesLeft(r)
  \/ StagesLeft(r)' = StagesLeft(r) /\ Narrows(r)

(* Between two layers a run is at most behind the last one.                *)
Bounded(r) == run[r].phase = "layer" => run[r].layer <= Len(workflow.layers) + 1

LEMMA LayersAre ==
  ASSUME TypeOK, NEW r \in Runs
  PROVE  /\ Len(workflow.layers) \in Nat
         /\ DOMAIN workflow.layers = 1..Len(workflow.layers)
         /\ run[r].layer \in Nat
<1>1. workflow.layers \in Seq(SUBSET Steps) BY WorkflowsAre DEF TypeOK
<1>2. run[r].layer \in Nat BY RunIs, RunFields DEF TypeOK
<1> QED BY <1>1, <1>2

LEMMA StagesAre ==
  ASSUME NEW r \in Runs
  PROVE  /\ run[r].phase = "layer" =>
              StagesLeft(r) = 2 * (Len(workflow.layers) + 1 - run[r].layer) + 4
         /\ run[r].phase = "wait" =>
              StagesLeft(r) = 2 * (Len(workflow.layers) + 1 - run[r].layer) + 3
         /\ run[r].phase = "drain" => StagesLeft(r) = 3
         /\ run[r].phase \in {"undo", "undoing"} => StagesLeft(r) = 2
         /\ run[r].phase = "fail" => StagesLeft(r) = 1
         /\ run[r].phase = "idle" => StagesLeft(r) = 0
  BY DEF StagesLeft

LEMMA StagesNext ==
  ASSUME NEW r \in Runs, workflow' = workflow
  PROVE  /\ run'[r].phase = "layer" =>
              StagesLeft(r)' = 2 * (Len(workflow.layers) + 1 - run'[r].layer) + 4
         /\ run'[r].phase = "wait" =>
              StagesLeft(r)' = 2 * (Len(workflow.layers) + 1 - run'[r].layer) + 3
         /\ run'[r].phase = "drain" => StagesLeft(r)' = 3
         /\ run'[r].phase \in {"undo", "undoing"} => StagesLeft(r)' = 2
         /\ run'[r].phase = "fail" => StagesLeft(r)' = 1
         /\ run'[r].phase = "idle" => StagesLeft(r)' = 0
  BY DEF StagesLeft

(* To end is always less.                                                  *)
LEMMA EndUsesUp ==
  ASSUME TypeOK, NEW r \in Runs, Shape(r), Bounded(r), workflow' = workflow,
         run[r].phase # "idle", run'[r].phase = "idle"
  PROVE  UsesUp(r)
<1>1. StagesLeft(r)' = 0 BY StagesNext
<1>2. run[r].phase \in {"layer", "wait", "drain", "undo", "undoing", "fail"}
  BY RunIs, RunFields DEF TypeOK, Phases
<1>3. CASE run[r].phase = "layer" BY <1>1, <1>3, LayersAre, StagesAre DEF Bounded, UsesUp
<1>4. CASE run[r].phase = "wait" BY <1>1, <1>4, LayersAre, StagesAre DEF Shape, UsesUp
<1>5. CASE run[r].phase \in {"drain", "undo", "undoing", "fail"}
  BY <1>1, <1>5, StagesAre DEF UsesUp
<1> QED BY <1>2, <1>3, <1>4, <1>5

LEMMA PlacesAre ==
  /\ PlacesLeft("begin") = 5 /\ PlacesLeft("get") = 4 /\ PlacesLeft("claim") = 3
  /\ PlacesLeft("execute") = 2 /\ PlacesLeft("returned") = 0
  /\ \A p \in Results : PlacesLeft(p) = 1
<1>1. {"begin", "get", "claim", "execute", "returned", "none"} \cap Results = {}
  BY DEF Results
<1>2. PlacesLeft("begin") = 5 /\ PlacesLeft("get") = 4 /\ PlacesLeft("claim") = 3
  BY <1>1 DEF PlacesLeft
<1>3. PlacesLeft("execute") = 2 /\ PlacesLeft("returned") = 0
  BY <1>1 DEF PlacesLeft
<1>4. \A p \in Results : PlacesLeft(p) = 1 BY <1>1 DEF PlacesLeft
<1> QED BY <1>2, <1>3, <1>4

LEMMA WorkNext ==
  ASSUME TypeOK, workflow' = workflow, NEW r \in Runs, NEW s \in Steps, NEW a \in Nat,
         \/ a = step[r][s].attempt
         \/ a = step[r][s].attempt + 1 /\ PlacesLeft(step[r][s].pc) = 1,
         step'[r][s].attempt = a,
         PlacesLeft(step'[r][s].pc) \in 0..4, PlacesLeft(step[r][s].pc) \in 1..5,
         \/ PlacesLeft(step'[r][s].pc) < PlacesLeft(step[r][s].pc)
         \/ a # step[r][s].attempt
  PROVE  Work(r, s)' < Work(r, s)
<1> DEFINE m == workflow.maxRetries[s]
           b == step[r][s].attempt
           p == PlacesLeft(step[r][s].pc)
           q == PlacesLeft(step'[r][s].pc)
<1>1. m \in Nat /\ b \in Nat BY WorkflowsAre, StepIs DEF TypeOK, StepType
<1>2. Work(r, s) = 6 * (m - b) + p BY DEF Work
<1>3. Work(r, s)' = 6 * (m - a) + q BY DEF Work, PlacesLeft
<1>4. p \in 1..5 /\ q \in 0..4 /\ ((a = b /\ q < p) \/ (a = b + 1 /\ p = 1)) OBVIOUS
<1> HIDE DEF m, b, p, q
<1> QED BY <1>1, <1>2, <1>3, <1>4

(* No attempt is made past the last retry.                                 *)
LEMMA WorkFits ==
  ASSUME TypeOK, TypeOK', workflow' = workflow, NEW r \in Runs, NEW s \in Steps
  PROVE  Work(r, s)' \in Nat
<1>1. workflow.maxRetries[s] \in Nat BY WorkflowsAre DEF TypeOK
<1>2. step'[r][s] \in StepType /\ step'[r][s].attempt <= workflow.maxRetries[s]
  BY DEF TypeOK, StepsOK
<1>3. step'[r][s].attempt \in Nat /\ step'[r][s].pc \in Places BY <1>2 DEF StepType
<1>4. PlacesLeft(step'[r][s].pc) \in 0..5 BY <1>3, PlacesAre DEF Places, PlacesLeft
<1>5. Work(r, s)' = 6 * (workflow.maxRetries[s] - step'[r][s].attempt)
                    + PlacesLeft(step'[r][s].pc)
  BY DEF Work, PlacesLeft
<1> HIDE DEF PlacesLeft
<1> QED BY <1>1, <1>2, <1>3, <1>4, <1>5

LEMMA GoUses ==
  ASSUME TypeOK, workflow' = workflow, NEW r \in Runs, NEW s \in Steps, NEW p, Go(r, s, p),
         PlacesLeft(p) \in 0..4, PlacesLeft(step[r][s].pc) \in 1..5,
         PlacesLeft(p) < PlacesLeft(step[r][s].pc)
  PROVE  Work(r, s)' < Work(r, s)
<1>1. step \in [Runs -> [Steps -> StepType]] /\ step[r][s] \in StepType
  BY StepIs DEF TypeOK, StepsOK
<1>2. step'[r][s] = [step[r][s] EXCEPT !.pc = p] BY <1>1 DEF Go
<1>3. step'[r][s].pc = p /\ step'[r][s].attempt = step[r][s].attempt
  BY <1>1, <1>2 DEF StepType
<1>4. step[r][s].attempt \in Nat BY <1>1 DEF StepType
<1>5. /\ PlacesLeft(step'[r][s].pc) \in 0..4
      /\ PlacesLeft(step'[r][s].pc) < PlacesLeft(step[r][s].pc)
  BY <1>3
<1> QED BY <1>3, <1>4, <1>5, WorkNext

LEMMA GoroutineUses ==
  ASSUME TypeOK, TypeOK', NEW r \in Runs, NEW s \in Steps, StepGoroutine(r, s)
  PROVE  UsesUp(r)
<1>1. Moves(r, s) BY GoroutineMoves
<1>2. workflow' = workflow BY <1>1 DEF Moves
<1>3. ASSUME NEW p \in {"get", "claim", "execute", "returned"} \cup Results, Go(r, s, p),
             NEW a \in {"begin", "get", "claim", "execute"} \cup Results,
             step[r][s].pc = a, PlacesLeft(p) < PlacesLeft(a)
      PROVE  Work(r, s)' < Work(r, s)
  <2>1. PlacesLeft(p) \in 0..4 /\ PlacesLeft(a) \in 1..5 BY PlacesAre
  <2> QED BY <1>2, <1>3, <2>1, GoUses
<1>4. Work(r, s)' < Work(r, s)
  <2>1. CASE Begin(r, s)
    <3>1. step[r][s].pc = "begin" /\ (Go(r, s, "returned") \/ Go(r, s, "get"))
      BY <2>1 DEF Begin, At
    <3> QED BY <1>3, <3>1, PlacesAre
  <2>2. CASE Get(r, s) /\ Go(r, s, "returned")
    <3>1. step[r][s].pc = "get" BY <2>2 DEF Get, At
    <3> QED BY <1>3, <2>2, <3>1, PlacesAre
  <2>3. CASE Get(r, s) /\ ~Go(r, s, "returned")
    <3>1. /\ step' = [step EXCEPT ![r][s].pc = "claim",
                                  ![r][s].token = stepVersion[run[r].exec][s]]
          /\ step[r][s].pc = "get"
      BY <2>3 DEF Get, At, Return
    <3>2. step \in [Runs -> [Steps -> StepType]] /\ step[r][s] \in StepType
      BY StepIs DEF TypeOK, StepsOK
    <3>3. step'[r][s] = [step[r][s] EXCEPT !.pc = "claim",
                                           !.token = stepVersion[run[r].exec][s]]
      BY <3>1, <3>2
    <3>4. step'[r][s].pc = "claim" /\ step'[r][s].attempt = step[r][s].attempt
          /\ step[r][s].attempt \in Nat
      BY <3>2, <3>3 DEF StepType
    <3>5. PlacesLeft(step[r][s].pc) = 4 /\ PlacesLeft(step'[r][s].pc) = 3
      BY <3>1, <3>4, PlacesAre
    <3> HIDE DEF PlacesLeft
    <3> QED BY <1>2, <3>4, <3>5, WorkNext
  <2>4. CASE GetError(r, s)
    <3>1. step[r][s].pc = "get" /\ Go(r, s, "returned")
      BY <2>4 DEF GetError, At, ReturnError
    <3> QED BY <1>3, <3>1, PlacesAre
  <2>5. CASE Claim(r, s)
    <3>1. step[r][s].pc = "claim" /\ (Go(r, s, "execute") \/ Go(r, s, "returned"))
      BY <2>5 DEF Claim, At, ReturnError
    <3> QED BY <1>3, <3>1, PlacesAre
  <2>6. CASE Execute(r, s)
    <3>1. step[r][s].pc = "execute" BY <2>6 DEF Execute, At
    <3>2. PICK o \in Results : Go(r, s, o) BY <2>6, OutcomesAre DEF Execute, TypeOK
    <3>3. PlacesLeft(o) < PlacesLeft("execute") BY PlacesAre
    <3> QED BY <1>3, <3>1, <3>2, <3>3
  <2>7. CASE NotExecutable(r, s)
    <3>1. step[r][s].pc = "execute" /\ Go(r, s, "returned")
      BY <2>7 DEF NotExecutable, At, ReturnError
    <3> QED BY <1>3, <3>1, PlacesAre
  <2>8. CASE Succeed(r, s) \/ Suspend(r, s) \/ GiveUp(r, s)
    <3>1. step[r][s].pc \in Results /\ Go(r, s, "returned")
      BY <2>8 DEF Succeed, Suspend, GiveUp, At, ReturnError, Results
    <3>2. PlacesLeft("returned") < PlacesLeft(step[r][s].pc) BY <3>1, PlacesAre
    <3> QED BY <1>3, <3>1, <3>2
  <2>9. CASE Retry(r, s)
    <3>1. /\ step' = [step EXCEPT ![r][s].pc = "get", ![r][s].attempt = @ + 1]
          /\ step[r][s].pc = "error"
      BY <2>9 DEF Retry, At
    <3>2. step \in [Runs -> [Steps -> StepType]] /\ step[r][s] \in StepType
      BY StepIs DEF TypeOK, StepsOK
    <3>3. step'[r][s] = [step[r][s] EXCEPT !.pc = "get", !.attempt = step[r][s].attempt + 1]
      BY <3>1, <3>2
    <3>4. /\ step'[r][s].pc = "get" /\ step'[r][s].attempt = step[r][s].attempt + 1
          /\ step[r][s].attempt \in Nat
      BY <3>2, <3>3 DEF StepType
    <3>5. PlacesLeft(step[r][s].pc) = 1 /\ PlacesLeft(step'[r][s].pc) = 4
      BY <3>1, <3>4, PlacesAre DEF Results
    <3>6. step[r][s].attempt + 1 \in Nat /\ step[r][s].attempt + 1 # step[r][s].attempt
      BY <3>4
    <3> QED BY <1>2, <3>4, <3>5, <3>6, WorkNext
  <2> QED BY <2>1, <2>2, <2>3, <2>4, <2>5, <2>6, <2>7, <2>8, <2>9 DEF StepGoroutine
<1>5. \A t \in Steps \ {s} : Work(r, t)' = Work(r, t)
  BY <1>1 DEF Moves, Work, PlacesLeft
<1>6. Work(r, s)' \in Nat BY <1>2, WorkFits
<1>7. Narrows(r) BY <1>1, <1>4, <1>5, <1>6 DEF Moves, Narrows
<1>8. StagesLeft(r)' = StagesLeft(r) BY <1>1, StagesAre, StagesNext DEF Moves
<1> QED BY <1>7, <1>8 DEF UsesUp

LEMMA NextLayerIsLess ==
  ASSUME NEW n \in Nat, NEW k \in Nat, k <= n
  PROVE  /\ 2 * (n + 1 - (k + 1)) + 4 \in Nat
         /\ 2 * (n + 1 - (k + 1)) + 4 < 2 * (n + 1 - k) + 3
  OBVIOUS

LEMMA MainUses ==
  ASSUME TypeOK, NEW r \in Runs, Shape(r), Bounded(r), RunExecution(r),
         \A s \in Steps : ~StepGoroutine(r, s)
  PROVE  UsesUp(r) /\ Bounded(r)'
<1>1. run \in [Runs -> RunType] /\ run[r] \in RunType BY RunIs DEF TypeOK, RunsOK
<1>2. workflow' = workflow BY RunKeeps DEF Alone
<1>3. ASSUME run'[r].phase # "layer" PROVE Bounded(r)' BY <1>3 DEF Bounded
<1>4. CASE Suspended(r) \/ Fail(r) \/ Finish(r)
  <2>1. run'[r] = IdleRun /\ run[r].phase # "idle"
    BY <1>1, <1>4 DEF Suspended, Fail, Finish, EndRun
  <2>2. run'[r].phase = "idle" BY <2>1, IdleRunType
  <2> QED BY <1>2, <1>3, <2>1, <2>2, EndUsesUp
<1>5. CASE Spawn(r)
  <2>1. run'[r] = [run[r] EXCEPT !.phase = "wait"] BY <1>1, <1>5 DEF Spawn
  <2>2. run'[r].phase = "wait" /\ run'[r].layer = run[r].layer BY <1>1, <2>1 DEF RunType
  <2>3. run[r].phase = "layer" /\ run[r].layer \in DOMAIN workflow.layers
    BY <1>5 DEF Spawn
  <2>4. StagesLeft(r) = 2 * (Len(workflow.layers) + 1 - run[r].layer) + 4
    BY <2>3, StagesAre
  <2>5. StagesLeft(r)' = 2 * (Len(workflow.layers) + 1 - run[r].layer) + 3
    BY <1>2, <2>2, StagesNext
  <2>6. run[r].layer <= Len(workflow.layers) BY <2>3, LayersAre
  <2>7. StagesLeft(r)' \in Nat /\ StagesLeft(r)' < StagesLeft(r)
    BY <2>4, <2>5, <2>6, LayersAre
  <2>8. UsesUp(r) BY <2>7 DEF UsesUp
  <2> QED BY <1>3, <2>2, <2>8
<1>6. CASE Join(r)
  <2> DEFINE p == IF Cancelled(r) THEN "drain" ELSE "layer"
             l == IF Cancelled(r) THEN run[r].layer ELSE run[r].layer + 1
  <2>1. run'[r] = [run[r] EXCEPT !.phase = p, !.layer = l]
    BY <1>1, <1>6 DEF Join, RunType
  <2>2. p = "drain" \/ (p = "layer" /\ l = run[r].layer + 1)
    BY Zenon
  <2> HIDE DEF p, l
  <2>3. run'[r].phase = p /\ run'[r].layer = l BY <1>1, <2>1 DEF RunType
  <2>4. run[r].phase = "wait" /\ run[r].layer \in DOMAIN workflow.layers
    BY <1>6 DEF Join, Shape
  <2>5. UsesUp(r)
    <3>1. StagesLeft(r) = 2 * (Len(workflow.layers) + 1 - run[r].layer) + 3
      BY <2>4, StagesAre
    <3>2. StagesLeft(r)' = 3 \/ StagesLeft(r)' = 2 * (Len(workflow.layers) + 1 - l) + 4
      BY <1>2, <2>2, <2>3, StagesNext
    <3>3. l = run[r].layer + 1 \/ StagesLeft(r)' = 3
      BY <1>2, <2>2, <2>3, StagesNext
    <3>4. run[r].layer <= Len(workflow.layers) BY <2>4, LayersAre
    <3>5. CASE StagesLeft(r)' = 3
      <4>1. StagesLeft(r)' \in Nat /\ StagesLeft(r)' < StagesLeft(r)
        BY <3>1, <3>4, <3>5, LayersAre
      <4> QED BY <4>1 DEF UsesUp
    <3>6. CASE StagesLeft(r)' # 3
      <4>1. StagesLeft(r)' = 2 * (Len(workflow.layers) + 1 - (run[r].layer + 1)) + 4
        BY <3>2, <3>3, <3>6
      <4>2. StagesLeft(r)' \in Nat /\ StagesLeft(r)' < StagesLeft(r)
        <5>1. Len(workflow.layers) \in Nat /\ run[r].layer \in Nat BY LayersAre
        <5> QED BY <3>1, <3>4, <4>1, <5>1, NextLayerIsLess
      <4> QED BY <4>2 DEF UsesUp
    <3> QED BY <3>5, <3>6
  <2>6. Bounded(r)' BY <1>2, <2>2, <2>3, <2>4, LayersAre DEF Bounded
  <2> QED BY <2>5, <2>6
<1>7. CASE DrainSuspension(r)
  <2>1. run'[r] = [run[r] EXCEPT !.errs = Tail(run[r].errs), !.suspended = TRUE]
    BY <1>1, <1>7 DEF DrainSuspension, RunType
  <2>2. run'[r].phase = run[r].phase /\ run'[r].errs = Tail(run[r].errs)
    BY <1>1, <2>1 DEF RunType
  <2>3. run[r].phase = "drain" /\ run[r].errs # <<>> BY <1>7 DEF DrainSuspension
  <2>4. run[r].errs \in Seq({"error", "suspend"}) BY <1>1, RunFields
  <2>5. Len(Tail(run[r].errs)) < Len(run[r].errs) BY <2>3, <2>4
  <2>6. Narrows(r) BY <2>2, <2>3, <2>5 DEF Narrows
  <2>7. StagesLeft(r)' = StagesLeft(r) BY <1>2, <2>2, <2>3, StagesAre, StagesNext
  <2> QED BY <1>3, <2>2, <2>3, <2>6, <2>7 DEF UsesUp
<1>8. CASE DrainError(r)
  <2>1. \E d \in SUBSET Steps :
          \/ run'[r] = [run[r] EXCEPT !.phase = "undo", !.todo = d]
          \/ run'[r] = [run[r] EXCEPT !.phase = "fail"]
    <3>1. Undoable(run[r].exec) \in SUBSET Steps BY DEF Undoable
    <3> QED BY <1>1, <1>8, <3>1 DEF DrainError, RunType
  <2>2. run'[r].phase \in {"undo", "fail"} BY <1>1, <2>1 DEF RunType
  <2>3. run[r].phase = "drain" BY <1>8 DEF DrainError
  <2> QED BY <1>2, <1>3, <2>2, <2>3, StagesAre, StagesNext DEF UsesUp
<1>9. ASSUME NEW s \in Steps, Undo(r, s) PROVE UsesUp(r) /\ Bounded(r)'
  <2>1. run'[r] = [run[r] EXCEPT !.phase = "undoing"] BY <1>1, <1>9 DEF Undo
  <2>2. run'[r].phase = "undoing" /\ run'[r].todo = run[r].todo BY <1>1, <2>1 DEF RunType
  <2>3. run[r].phase = "undo" BY <1>9 DEF Undo
  <2>4. Narrows(r) BY <2>2, <2>3 DEF Narrows
  <2>5. StagesLeft(r)' = StagesLeft(r) BY <1>2, <2>2, <2>3, StagesAre, StagesNext
  <2> QED BY <1>3, <2>2, <2>4, <2>5 DEF UsesUp
<1>10. ASSUME NEW s \in Steps, Undone(r, s) PROVE UsesUp(r) /\ Bounded(r)'
  <2>1. run'[r] = [run[r] EXCEPT !.phase = "undo", !.todo = run[r].todo \ {s}]
    BY <1>1, <1>10 DEF Undone, RunType
  <2>2. run'[r].phase = "undo" /\ run'[r].todo = run[r].todo \ {s}
    BY <1>1, <2>1 DEF RunType
  <2>3. run[r].phase = "undoing" /\ s \in run[r].todo BY <1>10 DEF Undone, UndoesNext
  <2>4. Narrows(r) BY <2>2, <2>3 DEF Narrows
  <2>5. StagesLeft(r)' = StagesLeft(r) BY <1>2, <2>2, <2>3, StagesAre, StagesNext
  <2> QED BY <1>3, <2>2, <2>4, <2>5 DEF UsesUp
<1>11. CASE UndoAll(r)
  <2>1. run'[r].phase = "fail" BY <1>11, PhaseIs DEF UndoAll
  <2>2. run[r].phase = "undo" BY <1>11 DEF UndoAll
  <2> QED BY <1>2, <1>3, <2>1, <2>2, StagesAre, StagesNext DEF UsesUp
<1> QED BY <1>4, <1>5, <1>6, <1>7, <1>8, <1>9, <1>10, <1>11 DEF RunExecution

LEMMA UsesStep ==
  ASSUME TypeOK, TypeOK', \A r \in Runs : Shape(r) /\ Bounded(r), [Next]_vars, NEW r \in Runs
  PROVE  /\ run[r].phase # "idle" /\ (run'[r] # run[r] \/ step'[r] # step[r]) => UsesUp(r)
         /\ Bounded(r)'
<1>1. ASSUME run'[r] = run[r], step'[r] = step[r], workflow' = workflow
      PROVE  /\ run[r].phase # "idle" /\ (run'[r] # run[r] \/ step'[r] # step[r])
                  => UsesUp(r)
             /\ Bounded(r)'
  BY <1>1 DEF Bounded
<1>2. ASSUME NEW q \in Runs, RunExecution(q)
      PROVE  UsesUp(q) /\ Bounded(q)' /\ Alone(q)
  <2>1. Alone(q) BY <1>2, RunKeeps
  <2>2. ASSUME NEW s \in Steps, StepGoroutine(q, s) PROVE UsesUp(q) /\ Bounded(q)'
    <3>1. run'[q].phase = "wait" BY <2>2, GoroutineMoves DEF Moves
    <3> QED BY <2>2, <3>1, GoroutineUses DEF Bounded
  <2> QED BY <1>2, <2>1, <2>2, MainUses
<1>3. ASSUME NEW q \in Runs, NEW x \in Execs, Start(q, x)
      PROVE  Alone(q) /\ run[q].phase = "idle" /\ Bounded(q)'
  <2> DEFINE p == IF workflow.valid THEN "layer" ELSE "fail"
  <2>1. run'[q] = [IdleRun EXCEPT !.exec = x, !.phase = p, !.layer = 1]
    BY <1>3 DEF Start, TypeOK, RunsOK
  <2> HIDE DEF p
  <2>2. run'[q].layer = 1 BY <2>1, IdleRunType DEF RunType
  <2>3. Alone(q) BY <1>3, StartKeeps
  <2>4. Bounded(q)' BY <2>2, <2>3, LayersAre DEF Bounded, Alone
  <2> QED BY <1>3, <2>3, <2>4 DEF Start
<1>4. ASSUME NEW w \in Workers, Crash(w)
      PROVE  /\ run[r].phase # "idle" /\ (run'[r] # run[r] \/ step'[r] # step[r])
                  => UsesUp(r)
             /\ Bounded(r)'
  <2>1. workflow' = workflow BY <1>4 DEF Crash
  <2>2. CASE WorkerOf[r] = w
    <3>1. run'[r].phase = "idle" BY <1>4, <2>2, IdleRunType DEF Crash
    <3> QED BY <2>1, <3>1, EndUsesUp DEF Bounded
  <2>3. CASE WorkerOf[r] # w
    <3>1. run'[r] = run[r] /\ step'[r] = step[r] BY <1>4, <2>3 DEF Crash
    <3> QED BY <1>1, <2>1, <3>1
  <2> QED BY <2>2, <2>3
<1>5. CASE UNCHANGED <<run, step, workflow>> BY <1>1, <1>5
<1>6. CASE Around
  <2>1. ASSUME NEW x \in Execs, NEW s \in Steps,
               Recover(x) \/ CancelRead(x) \/ ResumeExec(x) \/ ResumeStep(x, s)
        PROVE  UNCHANGED <<run, step, workflow>>
    BY <2>1 DEF Recover, CancelRead, ResumeExec, ResumeStep
  <2>2. ASSUME NEW x \in Execs, Recover(x) \/ CancelRead(x) \/ ResumeExec(x)
        PROVE  UNCHANGED <<run, step, workflow>>
    BY <2>2 DEF Recover, CancelRead, ResumeExec
  <2>3. ASSUME NEW q \in Runs, NEW x \in Execs, Start(q, x)
        PROVE  /\ run[r].phase # "idle" /\ (run'[r] # run[r] \/ step'[r] # step[r])
                    => UsesUp(r)
               /\ Bounded(r)'
    BY <1>1, <1>3, <2>3 DEF Alone
  <2>4. ASSUME NEW c \in cancels, CancelWrite(c)
        PROVE  UNCHANGED <<run, step, workflow>>
    BY <2>4 DEF CancelWrite
  <2> QED BY <1>4, <1>5, <1>6, <2>1, <2>2, <2>3, <2>4 DEF Around
<1>7. ASSUME NEW q \in Runs, RunExecution(q)
      PROVE  /\ run[r].phase # "idle" /\ (run'[r] # run[r] \/ step'[r] # step[r])
                  => UsesUp(r)
             /\ Bounded(r)'
  BY <1>1, <1>2, <1>7 DEF Alone
<1>8. CASE UNCHANGED vars BY <1>5, <1>8 DEF vars
<1> QED BY <1>6, <1>7, <1>8 DEF Next

(* Whatever a busy run does uses up some of its work, for every workflow,  *)
(* whatever becomes of the updates.                                        *)
THEOREM RunsCannotGoOnForEver == Spec => RunsUseUpTheirWork
<1> DEFINE I == \A r \in Runs : Shape(r) /\ Bounded(r)
           A == \A r \in Runs :
                  run[r].phase # "idle" /\ (run'[r] # run[r] \/ step'[r] # step[r]) =>
                    UsesUp(r)
<1>1. Init => I
  <2>1. Init => \A r \in Runs : Shape(r) BY ShapeInit
  <2>2. Init => \A r \in Runs : run[r].phase = "idle" BY IdleRunType DEF Init
  <2> QED BY <2>1, <2>2 DEF Bounded
<1>2. TypeOK /\ TypeOK' /\ I /\ [Next]_vars => I' BY ShapeStep, UsesStep
<1>3. TypeOK /\ TypeOK' /\ I /\ [Next]_vars => A BY UsesStep
<1>4. A => [\A r \in Runs :
              run[r].phase # "idle" /\ (run'[r] # run[r] \/ step'[r] # step[r]) =>
                \/ StagesLeft(r)' \in Nat /\ StagesLeft(r)' < StagesLeft(r)
                \/ StagesLeft(r)' = StagesLeft(r) /\ Narrows(r)]_vars
  BY DEF UsesUp
<1> HIDE DEF A
<1> QED BY <1>1, <1>2, <1>3, <1>4, TypeCorrect, PTL DEF Spec, RunsUseUpTheirWork
=============================================================================
