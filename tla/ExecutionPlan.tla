--------------------------- MODULE ExecutionPlan ---------------------------
(***************************************************************************)
(* BuildExecutionPlan of pkg/dag/parser.go: the layering of a workflow's   *)
(* steps (Kahn's algorithm).  The engine runs the steps of one layer in    *)
(* parallel and the layers one after another, so the plan is what orders a *)
(* step after the steps it depends on.                                     *)
(*                                                                         *)
(* A step is its id and its list depends_on; the other fields play no part *)
(* in the layering.  depends_on is a sequence: an id may be listed twice,  *)
(* which counts twice in the in-degree and twice in the adjacency list.    *)
(* Queues and layers are sets: Go fills the first queue in map iteration   *)
(* order, and a layer's steps run concurrently, so their order in the      *)
(* slices is not observable.                                               *)
(***************************************************************************)
EXTENDS Integers, Sequences, FiniteSets

CONSTANTS
  StepId,   (* Everything a step may be called or may depend on.           *)
  Inputs    (* The step lists the function may be called with.             *)

StepDefinition == [id : StepId, depends_on : Seq(StepId)]

ASSUME InputsAssumption == Inputs \subseteq Seq(StepDefinition)

VARIABLES
  steps,            (* The argument.                                       *)
  phase,            (* Where the call is; the last six are its results.    *)
  inDegree,         (* Occurrences of unvisited dependencies, per step.    *)
  currentQueue,     (* What is left of the layer being visited.            *)
  nextQueue,        (* The steps released for the next layer.              *)
  currentLayer,     (* The steps visited in this layer.                    *)
  executionLayers,  (* The finished layers.                                *)
  visitedCount

vars == <<steps, phase, inDegree, currentQueue, nextQueue, currentLayer,
          executionLayers, visitedCount>>

Phases == {"start", "layers", "planned", "empty", "duplicate", "missing", "cycle"}

Returned == phase \notin {"start", "layers"}

(***************************************************************************)
(* The maps the function fills: stepMap's keys, the definition stored for  *)
(* a key, and the positions at which a step lists a dependency (as many as *)
(* the times it appears in the dependency's adjacency list).               *)
(***************************************************************************)
Ids == {steps[i].id : i \in DOMAIN steps}

DependsOn(s) == steps[CHOOSE i \in DOMAIN steps : steps[i].id = s].depends_on

Dependencies(s) == {DependsOn(s)[k] : k \in DOMAIN DependsOn(s)}

Occurrences(s, d) == {k \in DOMAIN DependsOn(s) : DependsOn(s)[k] = d}

HasDuplicateId ==
  \E i, j \in DOMAIN steps : i # j /\ steps[i].id = steps[j].id

HasMissingDependency == \E s \in Ids : ~(Dependencies(s) \subseteq Ids)

(***************************************************************************)
(* Plausible slips in the code, used to show that the properties can fail. *)
(***************************************************************************)
ReleasedTooEarly(s) ==
  {n \in Ids : /\ Occurrences(n, s) # {}
               /\ inDegree[n] - Cardinality(Occurrences(n, s)) <= 1}

VisitOwnLayer(s) ==
  /\ phase = "layers"
  /\ s \in currentQueue
  /\ visitedCount' = visitedCount + 1
  /\ currentQueue' = currentQueue \ {s}
  /\ inDegree' = [n \in Ids |-> inDegree[n] - Cardinality(Occurrences(n, s))]
  /\ nextQueue' = nextQueue \cup {n \in Ids : /\ Occurrences(n, s) # {}
                                              /\ inDegree'[n] = 0}
  /\ executionLayers' = Append(executionLayers, {s})
  /\ UNCHANGED <<steps, phase, currentLayer>>

CloseLayerKeepingQueue ==
  /\ phase = "layers"
  /\ currentQueue = {}
  /\ currentLayer # {}
  /\ executionLayers' = Append(executionLayers, currentLayer)
  /\ currentQueue' = nextQueue
  /\ currentLayer' = {}
  /\ UNCHANGED <<steps, phase, inDegree, nextQueue, visitedCount>>

FinishOnlyWhenComplete ==
  /\ phase = "layers"
  /\ currentQueue = {}
  /\ currentLayer = {}
  /\ visitedCount = Len(steps)
  /\ phase' = "planned"
  /\ UNCHANGED <<steps, inDegree, currentQueue, nextQueue, currentLayer,
                 executionLayers, visitedCount>>

FinishUnchecked ==
  /\ phase = "layers"
  /\ currentQueue = {}
  /\ currentLayer = {}
  /\ phase' = "planned"
  /\ UNCHANGED <<steps, inDegree, currentQueue, nextQueue, currentLayer,
                 executionLayers, visitedCount>>

---------------------------------------------------------------------------
Init ==
  /\ steps \in Inputs
  /\ phase = "start"
  /\ inDegree = [s \in Ids |-> 0]
  /\ currentQueue = {}
  /\ nextQueue = {}
  /\ currentLayer = {}
  /\ executionLayers = <<>>
  /\ visitedCount = 0

(* The three early returns, in the order of the code.                      *)
Reject ==
  /\ phase = "start"
  /\ \/ steps = <<>> /\ phase' = "empty"
     \/ HasDuplicateId /\ phase' = "duplicate"
     \/ ~HasDuplicateId /\ HasMissingDependency /\ phase' = "missing"
  /\ UNCHANGED <<steps, inDegree, currentQueue, nextQueue, currentLayer,
                 executionLayers, visitedCount>>

(* Count the in-degrees and queue the steps that depend on nothing.        *)
Prepare ==
  /\ phase = "start"
  /\ steps # <<>>
  /\ ~HasDuplicateId
  /\ ~HasMissingDependency
  /\ inDegree' = [s \in Ids |-> Len(DependsOn(s))]
  /\ currentQueue' = {s \in Ids : inDegree'[s] = 0}
  /\ phase' = "layers"
  /\ UNCHANGED <<steps, nextQueue, currentLayer, executionLayers, visitedCount>>

(* The dependants of s whose last dependency was s: the adjacency list is  *)
(* walked and each occurrence takes one off the in-degree.                 *)
Released(s) ==
  {n \in Ids : /\ Occurrences(n, s) # {}
               /\ inDegree[n] - Cardinality(Occurrences(n, s)) = 0}

(* One turn of the loop over the queue.                                    *)
Visit(s) ==
  /\ phase = "layers"
  /\ s \in currentQueue
  /\ currentQueue' = currentQueue \ {s}
  /\ currentLayer' = currentLayer \cup {s}
  /\ visitedCount' = visitedCount + 1
  /\ inDegree' = [n \in Ids |-> inDegree[n] - Cardinality(Occurrences(n, s))]
  /\ nextQueue' = nextQueue \cup Released(s)
  /\ UNCHANGED <<steps, phase, executionLayers>>

(* The end of one turn of the outer loop.                                  *)
CloseLayer ==
  /\ phase = "layers"
  /\ currentQueue = {}
  /\ currentLayer # {}
  /\ executionLayers' = Append(executionLayers, currentLayer)
  /\ currentQueue' = nextQueue
  /\ nextQueue' = {}
  /\ currentLayer' = {}
  /\ UNCHANGED <<steps, phase, inDegree, visitedCount>>

(* The outer loop's condition is false: every step was visited, or some    *)
(* wait for each other.                                                    *)
Finish ==
  /\ phase = "layers"
  /\ currentQueue = {}
  /\ currentLayer = {}
  /\ \/ visitedCount = Len(steps) /\ phase' = "planned"
     \/ visitedCount # Len(steps) /\ phase' = "cycle"
  /\ UNCHANGED <<steps, inDegree, currentQueue, nextQueue, currentLayer,
                 executionLayers, visitedCount>>

Next ==
  \/ Reject
  \/ Prepare
  \/ \E s \in StepId : Visit(s)
  \/ CloseLayer
  \/ Finish

(* A sequential function: it keeps taking its next step.                   *)
Spec == Init /\ [][Next]_vars /\ WF_vars(Next)

---------------------------------------------------------------------------
(* The shape of the data the function works on.                            *)
TypeOK ==
  /\ steps \in Inputs
  /\ phase \in Phases
  /\ inDegree \in [Ids -> Nat]
  /\ currentQueue \subseteq Ids
  /\ nextQueue \subseteq Ids
  /\ currentLayer \subseteq Ids
  /\ executionLayers \in Seq(SUBSET Ids)
  /\ visitedCount \in Nat

(* Every step a layer holds depends only on steps of strictly earlier      *)
(* layers: the engine, which waits for a whole layer before it starts the  *)
(* next, never starts a step before the steps it depends on.               *)
DependenciesInEarlierLayers ==
  \A i \in DOMAIN executionLayers : \A s \in executionLayers[i] :
    \A d \in Dependencies(s) : \E j \in 1 .. i-1 : d \in executionLayers[j]

(* No step is put in two layers (it would run twice), no layer is empty,   *)
(* and a plan that is returned has every step of the workflow.             *)
EachStepExactlyOnce ==
  /\ \A i \in DOMAIN executionLayers : executionLayers[i] # {}
  /\ \A i, j \in DOMAIN executionLayers :
       i # j => executionLayers[i] \cap executionLayers[j] = {}
  /\ phase = "planned" => UNION {executionLayers[i] : i \in DOMAIN executionLayers} = Ids

(* A step is in the earliest layer it can be in: one of its dependencies   *)
(* is in the layer just before, so no step waits for a layer it does not   *)
(* need.                                                                   *)
NoStepWaitsLongerThanNeeded ==
  \A i \in DOMAIN executionLayers : i > 1 =>
    \A s \in executionLayers[i] : Dependencies(s) \cap executionLayers[i-1] # {}

(* Steps that all wait for one another: each depends on one of the others  *)
(* or on itself.                                                           *)
Deadlocked(C) == \A s \in C : Dependencies(s) \cap C # {}

Cyclic == \E C \in SUBSET Ids : C # {} /\ Deadlocked(C)

(* The function returns a plan exactly for the acyclic step lists, and the *)
(* cycle error exactly for the others (of those it does not reject for an  *)
(* empty list, a duplicate or a missing id).                               *)
PlanExactlyWhenAcyclic ==
  /\ phase = "planned" => ~Cyclic
  /\ phase = "cycle" => Cyclic

(* What is left to do: two turns for each step not visited, one for the    *)
(* layer that is open.                                                     *)
Left ==
  CASE phase = "start" -> 2 * Len(steps) + 2
    [] phase = "layers" ->
         2 * (Len(steps) - visitedCount) + (IF currentLayer = {} THEN 1 ELSE 2)
    [] Returned -> 0

(* Every turn of either loop leaves less to do, on cyclic inputs too: the  *)
(* call takes at most two turns for a step, and no step is visited twice,  *)
(* however often it is listed as a dependency.                             *)
EveryTurnCounts == [][Left' \in Nat /\ Left' < Left]_vars

(* The call returns, on cyclic inputs too ("infinite loop prevented").     *)
Terminates == <>Returned
=============================================================================
