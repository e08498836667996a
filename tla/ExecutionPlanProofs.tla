------------------------ MODULE ExecutionPlanProofs ------------------------
(***************************************************************************)
(* What BuildExecutionPlan returns, proved for every step list.            *)
(*                                                                         *)
(* The safety invariants are not inductive by themselves: that a layer's   *)
(* steps depend on earlier layers only follows from what an in-degree      *)
(* counts and from which steps the two queues hold, which IInv states.     *)
(***************************************************************************)
EXTENDS ExecutionPlan, Layering, FiniteSetTheorems, FunctionTheorems, SequenceTheorems, TLAPS

Done == UNION {executionLayers[i] : i \in DOMAIN executionLayers}

Visited == Done \cup currentLayer

(* The positions of n's depends_on whose step has not been visited.        *)
Pending(n) == {k \in DOMAIN DependsOn(n) : DependsOn(n)[k] \notin Visited}

Prepared == phase \in {"layers", "planned", "cycle"}

Untouched ==
  ~Prepared => /\ currentQueue = {} /\ nextQueue = {} /\ currentLayer = {}
               /\ executionLayers = <<>> /\ visitedCount = 0

WellFormed == Prepared => steps # <<>> /\ ~HasDuplicateId /\ ~HasMissingDependency

InDegreeCounts == Prepared => \A n \in Ids : inDegree[n] = Cardinality(Pending(n))

QueuesHoldTheReady ==
  Prepared => \A n \in Ids :
    inDegree[n] = 0 <=> n \in currentQueue \cup nextQueue \cup Visited

QueuedOnce ==
  /\ (currentQueue \cup nextQueue) \cap Visited = {}
  /\ currentQueue \cap nextQueue = {}
  /\ currentLayer \cap Done = {}

LayerDependsOnDone ==
  \A s \in currentQueue \cup currentLayer : Dependencies(s) \subseteq Done

NextNeedsThisLayer ==
  /\ \A s \in nextQueue : Dependencies(s) \cap currentLayer # {}
  /\ executionLayers # <<>> =>
       \A s \in currentQueue \cup currentLayer :
         Dependencies(s) \cap executionLayers[Len(executionLayers)] # {}

CountsVisited == visitedCount = Cardinality(Visited)

NoneDeadlocked ==
  \A C \in SUBSET Ids : Deadlocked(C) => C \cap Visited = {}

Verdict ==
  /\ phase = "planned" => Visited = Ids /\ currentLayer = {}
  /\ phase = "cycle" => /\ Visited # Ids /\ currentLayer = {}
                        /\ currentQueue = {} /\ nextQueue = {}

LayersDisjoint ==
  /\ \A i \in DOMAIN executionLayers : executionLayers[i] # {}
  /\ \A i, j \in DOMAIN executionLayers :
       i # j => executionLayers[i] \cap executionLayers[j] = {}

IInv ==
  /\ TypeOK
  /\ Untouched
  /\ WellFormed
  /\ InDegreeCounts
  /\ QueuesHoldTheReady
  /\ QueuedOnce
  /\ LayerDependsOnDone
  /\ NextNeedsThisLayer
  /\ CountsVisited
  /\ NoneDeadlocked
  /\ Verdict
  /\ LayersDisjoint
  /\ DependenciesInEarlierLayers
  /\ NoStepWaitsLongerThanNeeded

---------------------------------------------------------------------------
(* The argument's operators do not change while steps does not.            *)
LEMMA InputUnchanged ==
  ASSUME steps' = steps
  PROVE  /\ Ids' = Ids
         /\ \A s : DependsOn(s)' = DependsOn(s)
         /\ \A s : Dependencies(s)' = Dependencies(s)
         /\ HasDuplicateId' = HasDuplicateId
         /\ HasMissingDependency' = HasMissingDependency
         /\ \A C : Deadlocked(C)' = Deadlocked(C)
<1>1. Ids' = Ids  BY DEF Ids
<1>2. \A s : DependsOn(s)' = DependsOn(s)  BY Zenon DEF DependsOn
<1>3. \A s : Dependencies(s)' = Dependencies(s)  BY <1>2, Zenon DEF Dependencies
<1>4. HasDuplicateId' = HasDuplicateId  BY DEF HasDuplicateId
<1>5. HasMissingDependency' = HasMissingDependency
  BY <1>1, <1>3, Zenon DEF HasMissingDependency
<1>6. \A C : Deadlocked(C)' = Deadlocked(C)  BY <1>3, Zenon DEF Deadlocked
<1>7. QED  BY <1>1, <1>2, <1>3, <1>4, <1>5, <1>6

(* The positions of a sequence of length m are m.                          *)
LEMMA IntervalCardinality ==
  ASSUME NEW m \in Nat
  PROVE  IsFiniteSet(1 .. m) /\ Cardinality(1 .. m) = m
<1>1. 1 \in Int /\ m \in Int  OBVIOUS
<1>2. Cardinality(1 .. m) = IF 1 > m THEN 0 ELSE m - 1 + 1  BY <1>1, FS_Interval
<1>3. IsFiniteSet(1 .. m)  BY <1>1, FS_Interval
<1>4. QED  BY <1>2, <1>3

(* A step's depends_on is a sequence of step ids.                          *)
LEMMA DependsOnType ==
  ASSUME steps \in Inputs, NEW s \in Ids
  PROVE  /\ DependsOn(s) \in Seq(StepId)
         /\ DOMAIN DependsOn(s) = 1 .. Len(DependsOn(s))
         /\ Len(DependsOn(s)) \in Nat
         /\ IsFiniteSet(DOMAIN DependsOn(s))
         /\ Cardinality(DOMAIN DependsOn(s)) = Len(DependsOn(s))
<1>1. steps \in Seq(StepDefinition)  BY InputsAssumption
<1>2. PICK i \in DOMAIN steps : steps[i].id = s  BY DEF Ids
<1> DEFINE j == CHOOSE k \in DOMAIN steps : steps[k].id = s
<1>3. j \in DOMAIN steps  BY <1>2
<1>4. steps[j] \in StepDefinition  BY <1>1, <1>3
<1>5. DependsOn(s) = steps[j].depends_on  BY DEF DependsOn
<1>6. DependsOn(s) \in Seq(StepId)  BY <1>4, <1>5 DEF StepDefinition
<1>7. Len(DependsOn(s)) \in Nat /\ DOMAIN DependsOn(s) = 1 .. Len(DependsOn(s))
  BY <1>6
<1>8. QED  BY <1>6, <1>7, IntervalCardinality

(* There are finitely many ids, as many as steps when none is a duplicate. *)
LEMMA IdsFinite ==
  ASSUME steps \in Inputs
  PROVE  /\ IsFiniteSet(Ids)
         /\ ~HasDuplicateId => Cardinality(Ids) = Len(steps)
<1>1. steps \in Seq(StepDefinition)  BY InputsAssumption
<1>2. DOMAIN steps = 1 .. Len(steps) /\ Len(steps) \in Nat  BY <1>1
<1>3. IsFiniteSet(DOMAIN steps) /\ Cardinality(DOMAIN steps) = Len(steps)
  BY <1>2, IntervalCardinality
<1> DEFINE f == [i \in DOMAIN steps |-> steps[i].id]
<1>4. f \in Surjection(DOMAIN steps, Ids)  BY DEF Surjection, Ids
<1>5. ~HasDuplicateId => f \in Injection(DOMAIN steps, Ids)
  BY DEF Injection, IsInjective, Ids, HasDuplicateId
<1>6. QED  BY <1>3, <1>4, <1>5, FS_Surjection

(* Visiting s takes its occurrences out of what n still waits for.         *)
LEMMA PendingAfterVisit ==
  ASSUME steps \in Inputs, steps' = steps, NEW n \in Ids, NEW s,
         s \notin Visited, Visited' = Visited \cup {s}
  PROVE  /\ IsFiniteSet(Pending(n))
         /\ Cardinality(Pending(n)) \in Nat
         /\ Cardinality(Occurrences(n, s)) \in Nat
         /\ IsFiniteSet(Pending(n)')
         /\ Cardinality(Pending(n)') \in Nat
         /\ Cardinality(Pending(n)') = Cardinality(Pending(n)) - Cardinality(Occurrences(n, s))
         /\ Pending(n)' = Pending(n) \ Occurrences(n, s)
<1>1. IsFiniteSet(Pending(n))  BY DependsOnType, FS_Subset DEF Pending
<1>2. Occurrences(n, s) \subseteq Pending(n)  BY DEF Occurrences, Pending
<1>3. DependsOn(n)' = DependsOn(n)  BY InputUnchanged
<1>4. Pending(n)' = Pending(n) \ Occurrences(n, s)
  BY <1>3 DEF Pending, Occurrences
<1>5. IsFiniteSet(Occurrences(n, s))  BY <1>1, <1>2, FS_Subset
<1>6. Pending(n) \cap Occurrences(n, s) = Occurrences(n, s)  BY <1>2
<1>7. QED
  BY <1>1, <1>4, <1>5, <1>6, FS_Difference, FS_CardinalityType

(* Nothing is left to wait for exactly when every dependency was visited.  *)
LEMMA NothingPending ==
  ASSUME steps \in Inputs, NEW n \in Ids
  PROVE  /\ IsFiniteSet(Pending(n))
         /\ Cardinality(Pending(n)) \in Nat
         /\ Cardinality(Pending(n)) = 0 <=> Dependencies(n) \subseteq Visited
<1>1. IsFiniteSet(Pending(n))  BY DependsOnType, FS_Subset DEF Pending
<1>2. Pending(n) = {} <=> Dependencies(n) \subseteq Visited
  BY DEF Pending, Dependencies
<1>3. QED  BY <1>1, <1>2, FS_EmptySet, FS_CardinalityType
---------------------------------------------------------------------------
LEMMA InitIInv == Init => IInv
<1> SUFFICES ASSUME Init PROVE IInv  OBVIOUS
<1>1. Done = {} /\ Visited = {}  BY DEF Init, Done, Visited
<1>2. CountsVisited  BY <1>1, FS_EmptySet DEF Init, CountsVisited
<1>3. TypeOK  BY DEF Init, TypeOK, Phases
<1>4. NoneDeadlocked  BY <1>1 DEF NoneDeadlocked
<1>5. QED
  BY <1>1, <1>2, <1>3, <1>4
  DEF Init, IInv, Untouched, WellFormed, InDegreeCounts, QueuesHoldTheReady,
      QueuedOnce, LayerDependsOnDone, NextNeedsThisLayer, Verdict, LayersDisjoint,
      DependenciesInEarlierLayers, NoStepWaitsLongerThanNeeded, Prepared

LEMMA RejectIInv == IInv /\ Reject => IInv'
<1> SUFFICES ASSUME IInv, Reject PROVE IInv'  OBVIOUS
<1>1. /\ UNCHANGED <<steps, inDegree, currentQueue, nextQueue, currentLayer,
                     executionLayers, visitedCount>>
      /\ phase = "start" /\ phase' \in {"empty", "duplicate", "missing"}
  BY DEF Reject
<1>2. Ids' = Ids /\ \A C : Deadlocked(C)' = Deadlocked(C)  BY <1>1, InputUnchanged
<1>3. Done' = Done /\ Visited' = Visited  BY <1>1 DEF Done, Visited
<1>4. TypeOK'  BY <1>1, <1>2 DEF IInv, TypeOK, Phases
<1>5. CountsVisited' /\ NoneDeadlocked'
  BY <1>1, <1>2, <1>3 DEF IInv, CountsVisited, NoneDeadlocked
<1>6. QED
  BY <1>1, <1>3, <1>4, <1>5
  DEF IInv, Untouched, WellFormed, InDegreeCounts, QueuesHoldTheReady,
      QueuedOnce, LayerDependsOnDone, NextNeedsThisLayer, Verdict, LayersDisjoint,
      DependenciesInEarlierLayers, NoStepWaitsLongerThanNeeded, Prepared

LEMMA PrepareIInv == IInv /\ Prepare => IInv'
<1> SUFFICES ASSUME IInv, Prepare PROVE IInv'  OBVIOUS
<1>1. /\ UNCHANGED <<steps, nextQueue, currentLayer, executionLayers, visitedCount>>
      /\ phase' = "layers"
      /\ steps # <<>> /\ ~HasDuplicateId /\ ~HasMissingDependency
  BY DEF Prepare
<1>2. /\ nextQueue = {} /\ currentLayer = {} /\ executionLayers = <<>>
      /\ visitedCount = 0 /\ steps \in Inputs
  BY DEF Prepare, IInv, Untouched, TypeOK, Prepared
<1>3. /\ Ids' = Ids /\ \A C : Deadlocked(C)' = Deadlocked(C)
      /\ \A n : DependsOn(n)' = DependsOn(n)
      /\ \A n : Dependencies(n)' = Dependencies(n)
  BY <1>1, InputUnchanged
<1>4. Done' = {} /\ Visited' = {}  BY <1>1, <1>2 DEF Done, Visited
<1>5. ASSUME NEW n \in Ids
      PROVE  /\ inDegree'[n] = Len(DependsOn(n)) /\ inDegree'[n] \in Nat
             /\ Pending(n)' = DOMAIN DependsOn(n)
             /\ Cardinality(Pending(n)') = inDegree'[n]
             /\ inDegree'[n] = 0 => Dependencies(n) = {}
  <2>1. inDegree'[n] = Len(DependsOn(n))  BY <1>3 DEF Prepare
  <2>2. Pending(n)' = DOMAIN DependsOn(n)  BY <1>3, <1>4 DEF Pending
  <2>3. Len(DependsOn(n)) \in Nat /\ DOMAIN DependsOn(n) = 1 .. Len(DependsOn(n))
    BY <1>2, DependsOnType
  <2>4. QED  BY <1>2, <2>1, <2>2, <2>3, DependsOnType DEF Dependencies
<1>6. currentQueue' = {n \in Ids : inDegree'[n] = 0}  BY DEF Prepare
<1>7. TypeOK'
  <2>1. inDegree' \in [Ids -> Nat]  BY <1>5 DEF Prepare
  <2>2. QED  BY <1>1, <1>2, <1>3, <1>6, <2>1 DEF IInv, TypeOK, Phases
<1>8. CountsVisited'  BY <1>1, <1>2, <1>4, FS_EmptySet DEF CountsVisited
<1>9. InDegreeCounts'  BY <1>3, <1>5 DEF InDegreeCounts
<1>10. QueuesHoldTheReady'  BY <1>3, <1>4, <1>6, <1>1, <1>2 DEF QueuesHoldTheReady
<1>11. LayerDependsOnDone' /\ NextNeedsThisLayer'
  BY <1>1, <1>2, <1>3, <1>5, <1>6 DEF LayerDependsOnDone, NextNeedsThisLayer
<1>12. NoneDeadlocked'  BY <1>4 DEF NoneDeadlocked
<1>13. QueuedOnce'  BY <1>1, <1>2, <1>4 DEF QueuedOnce
<1>14. WellFormed'  BY <1>1, InputUnchanged DEF WellFormed
<1>15. QED
  BY <1>1, <1>2, <1>7, <1>8, <1>9, <1>10, <1>11, <1>12, <1>13, <1>14
  DEF IInv, Untouched, Verdict, LayersDisjoint, DependenciesInEarlierLayers,
      NoStepWaitsLongerThanNeeded, Prepared

LEMMA VisitIInv == ASSUME IInv, NEW s \in StepId, Visit(s) PROVE IInv'
<1>1. /\ phase = "layers" /\ s \in currentQueue
      /\ UNCHANGED <<steps, phase, executionLayers>>
      /\ currentQueue' = currentQueue \ {s}
      /\ currentLayer' = currentLayer \cup {s}
      /\ visitedCount' = visitedCount + 1
      /\ inDegree' = [n \in Ids |-> inDegree[n] - Cardinality(Occurrences(n, s))]
      /\ nextQueue' = nextQueue \cup Released(s)
  BY DEF Visit
<1>2. TypeOK /\ Prepared /\ steps \in Inputs /\ s \in Ids  BY <1>1 DEF IInv, TypeOK, Prepared
<1>3. /\ Ids' = Ids /\ \A C : Deadlocked(C)' = Deadlocked(C)
      /\ \A n : DependsOn(n)' = DependsOn(n)
      /\ \A n : Dependencies(n)' = Dependencies(n)
      /\ HasDuplicateId' = HasDuplicateId
      /\ HasMissingDependency' = HasMissingDependency
  BY <1>1, InputUnchanged
<1>4. Done' = Done /\ Visited' = Visited \cup {s}  BY <1>1 DEF Done, Visited
<1>5. s \notin Visited /\ s \notin nextQueue  BY <1>1 DEF IInv, QueuedOnce
<1>6. ASSUME NEW n \in Ids
      PROVE  /\ inDegree[n] = Cardinality(Pending(n))
             /\ inDegree'[n] = Cardinality(Pending(n)')
             /\ inDegree'[n] \in Nat
             /\ Cardinality(Occurrences(n, s)) \in Nat
             /\ inDegree'[n] = inDegree[n] - Cardinality(Occurrences(n, s))
             /\ Occurrences(n, s) = {} => inDegree'[n] = inDegree[n]
             /\ Occurrences(n, s) # {} => inDegree[n] # 0 /\ s \in Dependencies(n)
  <2>1. inDegree[n] = Cardinality(Pending(n))  BY <1>2 DEF IInv, InDegreeCounts
  <2>2. /\ Cardinality(Pending(n)') = Cardinality(Pending(n)) - Cardinality(Occurrences(n, s))
        /\ Cardinality(Pending(n)') \in Nat
        /\ Cardinality(Pending(n)) \in Nat
        /\ Cardinality(Occurrences(n, s)) \in Nat
        /\ IsFiniteSet(Pending(n))
    BY <1>1, <1>2, <1>4, <1>5, PendingAfterVisit
  <2>3. Occurrences(n, s) = {} => Cardinality(Occurrences(n, s)) = 0  BY FS_EmptySet
  <2>4. Occurrences(n, s) \subseteq Pending(n)  BY <1>5 DEF Occurrences, Pending
  <2>5. Occurrences(n, s) # {} => Cardinality(Pending(n)) # 0
    BY <2>2, <2>4, FS_EmptySet
  <2>6. Occurrences(n, s) # {} => s \in Dependencies(n)
    BY DEF Occurrences, Dependencies
  <2>7. inDegree'[n] = inDegree[n] - Cardinality(Occurrences(n, s))  BY <1>1
  <2>8. QED  BY <2>1, <2>2, <2>3, <2>5, <2>6, <2>7
<1>7. Released(s) = {n \in Ids : inDegree[n] # 0 /\ inDegree'[n] = 0}
  <2>1. ASSUME NEW n \in Ids
        PROVE  n \in Released(s) <=> inDegree[n] # 0 /\ inDegree'[n] = 0
    BY <1>6 DEF Released
  <2>2. QED  BY <2>1 DEF Released
<1>8. \A n \in Ids : inDegree[n] = 0 => inDegree'[n] = 0
  BY <1>6
<1>9. Released(s) \cap (currentQueue \cup nextQueue \cup Visited) = {}
  BY <1>2, <1>7 DEF IInv, QueuesHoldTheReady
<1>10. TypeOK'
  <2>1. inDegree' \in [Ids' -> Nat]  BY <1>1, <1>3, <1>6
  <2>2. Released(s) \subseteq Ids  BY DEF Released
  <2>3. QED  BY <1>1, <1>2, <1>3, <2>1, <2>2 DEF TypeOK
<1>11. InDegreeCounts'  BY <1>3, <1>6 DEF InDegreeCounts
<1>12. QueuesHoldTheReady'
  BY <1>1, <1>2, <1>3, <1>4, <1>7, <1>8 DEF IInv, QueuesHoldTheReady, Prepared
<1>13. QueuedOnce'
  BY <1>1, <1>4, <1>5, <1>9 DEF IInv, QueuedOnce, Visited
<1>14. LayerDependsOnDone'
  BY <1>1, <1>3, <1>4 DEF IInv, LayerDependsOnDone
<1>15. NextNeedsThisLayer'
  <2>1. \A n \in Released(s) : s \in Dependencies(n)  BY <1>6 DEF Released
  <2>2. QED  BY <1>1, <1>3, <2>1 DEF IInv, NextNeedsThisLayer
<1>16. CountsVisited'
  <2>1. Visited \subseteq Ids  BY <1>2 DEF TypeOK, Visited, Done
  <2>2. IsFiniteSet(Visited)  BY <1>2, <2>1, IdsFinite, FS_Subset
  <2>3. QED  BY <1>1, <1>4, <1>5, <2>2, FS_AddElement DEF IInv, CountsVisited
<1>17. NoneDeadlocked'
  <2> SUFFICES ASSUME NEW C \in SUBSET Ids, Deadlocked(C), s \in C PROVE FALSE
    BY <1>3, <1>4 DEF IInv, NoneDeadlocked
  <2>1. Dependencies(s) \subseteq Visited
    BY <1>1 DEF IInv, LayerDependsOnDone, Visited
  <2>2. Dependencies(s) \cap C # {}  BY DEF Deadlocked
  <2>3. QED  BY <2>1, <2>2 DEF IInv, NoneDeadlocked
<1>18. WellFormed'  BY <1>1, <1>3 DEF IInv, WellFormed, Prepared
<1>19. LayersDisjoint' /\ DependenciesInEarlierLayers' /\ NoStepWaitsLongerThanNeeded'
  BY <1>1, <1>3
  DEF IInv, LayersDisjoint, DependenciesInEarlierLayers, NoStepWaitsLongerThanNeeded
<1>20. Untouched' /\ Verdict'  BY <1>1 DEF Untouched, Verdict, Prepared
<1>21. QED
  BY <1>10, <1>11, <1>12, <1>13, <1>14, <1>15, <1>16, <1>17, <1>18, <1>19, <1>20
  DEF IInv

LEMMA CloseLayerIInv == IInv /\ CloseLayer => IInv'
<1> SUFFICES ASSUME IInv, CloseLayer PROVE IInv'  OBVIOUS
<1>1. /\ phase = "layers" /\ currentQueue = {} /\ currentLayer # {}
      /\ executionLayers' = Append(executionLayers, currentLayer)
      /\ currentQueue' = nextQueue /\ nextQueue' = {} /\ currentLayer' = {}
      /\ UNCHANGED <<steps, phase, inDegree, visitedCount>>
  BY DEF CloseLayer
<1>2. TypeOK /\ Prepared /\ steps \in Inputs  BY <1>1 DEF IInv, TypeOK, Prepared
<1>3. /\ Ids' = Ids /\ \A C : Deadlocked(C)' = Deadlocked(C)
      /\ \A n : DependsOn(n)' = DependsOn(n)
      /\ \A n : Dependencies(n)' = Dependencies(n)
      /\ HasDuplicateId' = HasDuplicateId
      /\ HasMissingDependency' = HasMissingDependency
  BY <1>1, InputUnchanged
<1> DEFINE m == Len(executionLayers)
<1>4. /\ m \in Nat /\ DOMAIN executionLayers = 1 .. m
      /\ executionLayers \in Seq(SUBSET Ids)
  BY <1>2 DEF TypeOK
<1>5. /\ Len(executionLayers') = m + 1
      /\ DOMAIN executionLayers' = 1 .. m+1
      /\ executionLayers'[m+1] = currentLayer
      /\ \A i \in 1 .. m : executionLayers'[i] = executionLayers[i]
      /\ executionLayers' \in Seq(SUBSET Ids)
  BY <1>1, <1>2, <1>4 DEF TypeOK
<1>6. Done' = Visited /\ Visited' = Visited
  <2>1. Done' = Done \cup currentLayer
    <3>1. Done' \subseteq Done \cup currentLayer  BY <1>4, <1>5 DEF Done
    <3>2. Done \subseteq Done'
      <4> SUFFICES ASSUME NEW x \in Done PROVE x \in Done'  OBVIOUS
      <4>1. PICK i \in 1 .. m : x \in executionLayers[i]  BY <1>4 DEF Done
      <4>2. i \in DOMAIN executionLayers' /\ x \in executionLayers'[i]
        BY <1>4, <1>5, <4>1
      <4>3. QED  BY <4>2 DEF Done
    <3>3. currentLayer \subseteq Done'
      <4>1. m+1 \in DOMAIN executionLayers'  BY <1>4, <1>5
      <4>2. QED  BY <1>5, <4>1 DEF Done
    <3>4. QED  BY <3>1, <3>2, <3>3
  <2>2. QED  BY <1>1, <2>1 DEF Visited
<1>7. TypeOK'  BY <1>1, <1>2, <1>3, <1>5 DEF TypeOK
<1>8. InDegreeCounts'
  BY <1>1, <1>2, <1>3, <1>6 DEF IInv, InDegreeCounts, Prepared, Pending
<1>9. QueuesHoldTheReady'
  BY <1>1, <1>2, <1>3, <1>6 DEF IInv, QueuesHoldTheReady, Prepared
<1>10. QueuedOnce'  BY <1>1, <1>6 DEF IInv, QueuedOnce
<1>11. LayerDependsOnDone'
  <2> SUFFICES ASSUME NEW s \in nextQueue PROVE Dependencies(s) \subseteq Visited
    BY <1>1, <1>3, <1>6 DEF LayerDependsOnDone
  <2>1. s \in Ids  BY <1>2 DEF TypeOK
  <2>2. inDegree[s] = 0  BY <1>2, <2>1 DEF IInv, QueuesHoldTheReady
  <2>3. Cardinality(Pending(s)) = 0  BY <1>2, <2>1, <2>2 DEF IInv, InDegreeCounts
  <2>4. QED  BY <1>2, <2>1, <2>3, NothingPending
<1>12. NextNeedsThisLayer'
  BY <1>1, <1>3, <1>5 DEF IInv, NextNeedsThisLayer
<1>13. CountsVisited'  BY <1>1, <1>6 DEF IInv, CountsVisited
<1>14. NoneDeadlocked'  BY <1>3, <1>6 DEF IInv, NoneDeadlocked
<1>15. WellFormed'  BY <1>1, <1>3 DEF IInv, WellFormed, Prepared
<1>16. Untouched' /\ Verdict'  BY <1>1 DEF Untouched, Verdict, Prepared
<1>17. LayersDisjoint'
  <2>1. \A i \in 1 .. m : executionLayers[i] \cap currentLayer = {}
    BY <1>4 DEF IInv, QueuedOnce, Done
  <2>2. QED  BY <1>1, <1>4, <1>5, <2>1 DEF IInv, LayersDisjoint
<1>18. DependenciesInEarlierLayers'
  <2> SUFFICES ASSUME NEW i \in 1 .. m+1, NEW s \in executionLayers'[i],
                      NEW d \in Dependencies(s)
               PROVE  \E j \in 1 .. i-1 : d \in executionLayers'[j]
    BY <1>3, <1>5 DEF DependenciesInEarlierLayers
  <2>1. CASE i \in 1 .. m
    <3>1. PICK j \in 1 .. i-1 : d \in executionLayers[j]
      BY <1>4, <1>5, <2>1 DEF IInv, DependenciesInEarlierLayers
    <3>2. QED  BY <1>4, <1>5, <2>1, <3>1
  <2>2. CASE i = m+1
    <3>1. d \in Done  BY <1>5, <2>2 DEF IInv, LayerDependsOnDone
    <3>2. PICK j \in 1 .. m : d \in executionLayers[j]  BY <1>4, <3>1 DEF Done
    <3>3. QED  BY <1>4, <1>5, <2>2, <3>2
  <2>3. QED  BY <1>4, <2>1, <2>2
<1>19. NoStepWaitsLongerThanNeeded'
  <2> SUFFICES ASSUME NEW i \in 1 .. m+1, i > 1, NEW s \in executionLayers'[i]
               PROVE  Dependencies(s) \cap executionLayers'[i-1] # {}
    BY <1>3, <1>5 DEF NoStepWaitsLongerThanNeeded
  <2>1. CASE i \in 1 .. m
    <3>1. Dependencies(s) \cap executionLayers[i-1] # {}
      BY <1>4, <1>5, <2>1 DEF IInv, NoStepWaitsLongerThanNeeded
    <3>2. QED  BY <1>4, <1>5, <2>1, <3>1
  <2>2. CASE i = m+1
    <3>1. executionLayers # <<>>  BY <1>4, <2>2
    <3>2. Dependencies(s) \cap executionLayers[m] # {}
      BY <1>5, <2>2, <3>1 DEF IInv, NextNeedsThisLayer
    <3>3. QED  BY <1>4, <1>5, <2>2, <3>2
  <2>3. QED  BY <1>4, <2>1, <2>2
<1>20. QED
  BY <1>7, <1>8, <1>9, <1>10, <1>11, <1>12, <1>13, <1>14, <1>15, <1>16, <1>17,
     <1>18, <1>19
  DEF IInv

LEMMA FinishIInv == IInv /\ Finish => IInv'
<1> SUFFICES ASSUME IInv, Finish PROVE IInv'  OBVIOUS
<1>1. /\ phase = "layers" /\ currentQueue = {} /\ currentLayer = {}
      /\ \/ visitedCount = Len(steps) /\ phase' = "planned"
         \/ visitedCount # Len(steps) /\ phase' = "cycle"
      /\ UNCHANGED <<steps, inDegree, currentQueue, nextQueue, currentLayer,
                     executionLayers, visitedCount>>
  BY DEF Finish
<1>2. TypeOK /\ Prepared /\ Prepared' /\ steps \in Inputs
  BY <1>1 DEF IInv, TypeOK, Prepared
<1>3. /\ Ids' = Ids /\ \A C : Deadlocked(C)' = Deadlocked(C)
      /\ \A n : DependsOn(n)' = DependsOn(n)
      /\ \A n : Dependencies(n)' = Dependencies(n)
      /\ HasDuplicateId' = HasDuplicateId
      /\ HasMissingDependency' = HasMissingDependency
  BY <1>1, InputUnchanged
<1>4. Done' = Done /\ Visited' = Visited  BY <1>1 DEF Done, Visited
<1>5. nextQueue = {}  BY <1>1, <1>2 DEF IInv, NextNeedsThisLayer
<1>6. Verdict'
  <2>1. Visited \subseteq Ids  BY <1>2 DEF TypeOK, Visited, Done
  <2>2. IsFiniteSet(Ids) /\ Cardinality(Ids) = Len(steps)
    BY <1>2, IdsFinite DEF IInv, WellFormed
  <2>3. visitedCount = Cardinality(Visited)  BY DEF IInv, CountsVisited
  <2>4. visitedCount = Len(steps) <=> Visited = Ids  BY <2>1, <2>2, <2>3, FS_Subset
  <2>5. QED  BY <1>1, <1>3, <1>4, <1>5, <2>4 DEF Verdict
<1>7. TypeOK'  BY <1>1, <1>2, <1>3 DEF TypeOK, Phases
<1>8. InDegreeCounts' /\ QueuesHoldTheReady'
  BY <1>1, <1>2, <1>3, <1>4
  DEF IInv, InDegreeCounts, QueuesHoldTheReady, Pending
<1>9. WellFormed' /\ Untouched'
  BY <1>1, <1>2, <1>3 DEF IInv, WellFormed, Untouched
<1>10. CountsVisited' /\ NoneDeadlocked'
  BY <1>1, <1>3, <1>4 DEF IInv, CountsVisited, NoneDeadlocked
<1>11. QED
  BY <1>1, <1>3, <1>4, <1>6, <1>7, <1>8, <1>9, <1>10
  DEF IInv, QueuedOnce, LayerDependsOnDone, NextNeedsThisLayer, LayersDisjoint,
      DependenciesInEarlierLayers, NoStepWaitsLongerThanNeeded

LEMMA StutterIInv == IInv /\ UNCHANGED vars => IInv'
<1> SUFFICES ASSUME IInv, UNCHANGED vars PROVE IInv'  OBVIOUS
<1>1. UNCHANGED <<steps, phase, inDegree, currentQueue, nextQueue, currentLayer,
                  executionLayers, visitedCount>>
  BY DEF vars
<1>2. /\ Ids' = Ids /\ \A C : Deadlocked(C)' = Deadlocked(C)
      /\ \A n : DependsOn(n)' = DependsOn(n)
      /\ \A n : Dependencies(n)' = Dependencies(n)
      /\ HasDuplicateId' = HasDuplicateId
      /\ HasMissingDependency' = HasMissingDependency
  BY <1>1, InputUnchanged
<1>3. Done' = Done /\ Visited' = Visited  BY <1>1 DEF Done, Visited
<1>4. TypeOK'  BY <1>1, <1>2 DEF IInv, TypeOK
<1>5. InDegreeCounts' /\ QueuesHoldTheReady'
  BY <1>1, <1>2, <1>3 DEF IInv, InDegreeCounts, QueuesHoldTheReady, Pending, Prepared
<1>6. WellFormed' /\ Untouched' /\ Verdict'
  BY <1>1, <1>2, <1>3 DEF IInv, WellFormed, Untouched, Verdict, Prepared
<1>7. CountsVisited' /\ NoneDeadlocked'
  BY <1>1, <1>2, <1>3 DEF IInv, CountsVisited, NoneDeadlocked
<1>8. QED
  BY <1>1, <1>2, <1>3, <1>4, <1>5, <1>6, <1>7
  DEF IInv, QueuedOnce, LayerDependsOnDone, NextNeedsThisLayer, LayersDisjoint,
      DependenciesInEarlierLayers, NoStepWaitsLongerThanNeeded

(* The inductive invariant holds in every state of every call.             *)
THEOREM Invariance == Spec => []IInv
<1>1. Init => IInv  BY InitIInv
<1>2. IInv /\ [Next]_vars => IInv'
  BY RejectIInv, PrepareIInv, VisitIInv, CloseLayerIInv, FinishIInv, StutterIInv
  DEF Next
<1>3. QED  BY <1>1, <1>2, PTL DEF Spec

---------------------------------------------------------------------------
(* The variables of BuildExecutionPlan keep their types: no in-degree goes *)
(* below zero, whatever depends_on lists.                                  *)
THEOREM TypeCorrect == Spec => []TypeOK
<1>1. IInv => TypeOK  BY DEF IInv
<1>2. QED  BY <1>1, Invariance, PTL

(* For every step list, a step's dependencies are in earlier layers of the *)
(* plan than the step: the order the engine's layer loop relies on.        *)
THEOREM PlanRespectsDependencies == Spec => []DependenciesInEarlierLayers
<1>1. IInv => DependenciesInEarlierLayers  BY DEF IInv
<1>2. QED  BY <1>1, Invariance, PTL

(* For every step list, a returned plan holds each step of the workflow in *)
(* exactly one layer.                                                      *)
THEOREM PlanPartitionsSteps == Spec => []EachStepExactlyOnce
<1>1. IInv => EachStepExactlyOnce
  <2> SUFFICES ASSUME IInv, phase = "planned" PROVE Done = Ids
    BY DEF IInv, EachStepExactlyOnce, LayersDisjoint, Done
  <2>1. QED  BY DEF IInv, Verdict, Visited
<1>2. QED  BY <1>1, Invariance, PTL

(* For every step list, every layer is as early as the dependencies of its *)
(* steps allow.                                                            *)
THEOREM PlanIsTight == Spec => []NoStepWaitsLongerThanNeeded
<1>1. IInv => NoStepWaitsLongerThanNeeded  BY DEF IInv
<1>2. QED  BY <1>1, Invariance, PTL

(* A plan is returned for acyclic step lists only, and the cycle error for *)
(* cyclic ones only.                                                       *)
THEOREM PlanDecidesCycles == Spec => []PlanExactlyWhenAcyclic
<1>1. ASSUME IInv PROVE PlanExactlyWhenAcyclic
  <2>1. ASSUME phase = "planned" PROVE ~Cyclic
    <3>1. Visited = Ids  BY <1>1, <2>1 DEF IInv, Verdict
    <3>2. QED  BY <1>1, <3>1 DEF IInv, NoneDeadlocked, Cyclic
  <2>2. ASSUME phase = "cycle" PROVE Cyclic
    <3> DEFINE C == Ids \ Visited
    <3>1. /\ Visited # Ids /\ currentQueue = {} /\ nextQueue = {}
          /\ TypeOK /\ Prepared
      BY <1>1, <2>2 DEF IInv, Verdict, Prepared
    <3>2. C # {}  BY <3>1 DEF TypeOK, Visited, Done
    <3>3. ASSUME NEW n \in C PROVE Dependencies(n) \cap C # {}
      <4>1. inDegree[n] # 0  BY <1>1, <3>1 DEF IInv, QueuesHoldTheReady
      <4>2. Cardinality(Pending(n)) # 0  BY <1>1, <3>1, <4>1 DEF IInv, InDegreeCounts
      <4>3. ~(Dependencies(n) \subseteq Visited)
        BY <3>1, <4>2, NothingPending DEF TypeOK
      <4>4. Dependencies(n) \subseteq Ids
        BY <1>1, <3>1 DEF IInv, WellFormed, HasMissingDependency
      <4>5. QED  BY <4>3, <4>4
    <3>4. QED  BY <3>2, <3>3 DEF Cyclic, Deadlocked
  <2>3. QED  BY <2>1, <2>2 DEF PlanExactlyWhenAcyclic
<1>2. QED  BY <1>1, Invariance, PTL

---------------------------------------------------------------------------
(* What BuildExecutionPlan returns is what RunExecution (engine.go) relies *)
(* on: every step of the workflow in one layer, after the layers of all    *)
(* the steps it depends on.                                                *)
ServesTheEngine ==
  phase = "planned" => Layered(executionLayers, [s \in Ids |-> Dependencies(s)], Ids)

THEOREM PlanServesTheEngine == Spec => []ServesTheEngine
<1>1. ASSUME IInv PROVE ServesTheEngine
  <2> SUFFICES ASSUME phase = "planned", NEW s \in Ids
               PROVE  \E i \in DOMAIN executionLayers :
                        /\ s \in executionLayers[i]
                        /\ \A k \in DOMAIN executionLayers : s \in executionLayers[k] => k = i
                        /\ \A d \in Dependencies(s) :
                             \E k \in 1 .. (i - 1) : d \in executionLayers[k]
    BY DEF ServesTheEngine, Layered
  <2>1. Visited = Ids /\ currentLayer = {}  BY <1>1 DEF IInv, Verdict
  <2>2. PICK i \in DOMAIN executionLayers : s \in executionLayers[i]
    BY <2>1 DEF Visited, Done
  <2>3. \A k \in DOMAIN executionLayers : s \in executionLayers[k] => k = i
    BY <1>1, <2>2 DEF IInv, LayersDisjoint
  <2>4. \A d \in Dependencies(s) : \E k \in 1 .. (i - 1) : d \in executionLayers[k]
    BY <1>1, <2>2 DEF IInv, DependenciesInEarlierLayers
  <2>5. QED  BY <2>2, <2>3, <2>4
<1>2. QED  BY <1>1, Invariance, PTL

---------------------------------------------------------------------------
(* What is left to do.                                                     *)

LEMMA VisitsFit ==
  ASSUME IInv, Prepared
  PROVE  visitedCount \in Nat /\ Len(steps) \in Nat /\ visitedCount <= Len(steps)
<1>1. Visited \subseteq Ids /\ steps \in Inputs  BY DEF IInv, TypeOK, Visited, Done
<1>2. IsFiniteSet(Ids) /\ Cardinality(Ids) = Len(steps)
  BY <1>1, IdsFinite DEF IInv, WellFormed
<1>3. Cardinality(Visited) <= Cardinality(Ids)  BY <1>1, <1>2, FS_Subset
<1>4. Len(steps) \in Nat  BY <1>2, FS_CardinalityType
<1>5. visitedCount = Cardinality(Visited) /\ visitedCount \in Nat
  BY DEF IInv, CountsVisited, TypeOK
<1>6. QED  BY <1>2, <1>3, <1>4, <1>5

LEMMA LeftAre ==
  /\ phase = "start" => Left = 2 * Len(steps) + 2
  /\ phase = "layers" /\ currentLayer = {} => Left = 2 * (Len(steps) - visitedCount) + 1
  /\ phase = "layers" /\ currentLayer # {} => Left = 2 * (Len(steps) - visitedCount) + 2
  /\ Returned => Left = 0
  BY DEF Left, Returned

LEMMA LeftNext ==
  ASSUME steps' = steps
  PROVE
  /\ phase' = "layers" /\ currentLayer' = {} => Left' = 2 * (Len(steps) - visitedCount') + 1
  /\ phase' = "layers" /\ currentLayer' # {} => Left' = 2 * (Len(steps) - visitedCount') + 2
  /\ Returned' => Left' = 0
  BY DEF Left, Returned

LEMMA LessLeft == ASSUME IInv, IInv', Next PROVE Left' \in Nat /\ Left' < Left
<1>1. steps' = steps
  BY DEF Next, Reject, Prepare, Visit, CloseLayer, Finish
<1>2. Len(steps) \in Nat
  <2>1. steps \in Seq(StepDefinition)  BY InputsAssumption DEF IInv, TypeOK
  <2>2. QED  BY <2>1
<1>3. CASE Reject
  <2>1. phase = "start" /\ Returned'  BY <1>3 DEF Reject, Returned
  <2>2. QED  BY <1>1, <1>2, <2>1, LeftAre, LeftNext
<1>4. CASE Prepare
  <2>1. /\ phase = "start" /\ phase' = "layers"
        /\ currentLayer' = {} /\ visitedCount' = 0
    BY <1>4 DEF Prepare, IInv, Untouched, Prepared
  <2>2. QED  BY <1>1, <1>2, <2>1, LeftAre, LeftNext
<1>5. ASSUME NEW s \in StepId, Visit(s) PROVE Left' \in Nat /\ Left' < Left
  <2>1. /\ phase = "layers" /\ phase' = "layers"
        /\ currentLayer' # {} /\ visitedCount' = visitedCount + 1
    BY <1>5 DEF Visit
  <2>2. visitedCount \in Nat /\ visitedCount' <= Len(steps)
    <3>1. visitedCount \in Nat  BY <2>1, VisitsFit DEF Prepared
    <3>2. Visited' \subseteq Ids' /\ steps' \in Inputs  BY DEF IInv, TypeOK, Visited, Done
    <3>3. Visited' \subseteq Ids /\ steps \in Inputs  BY <1>1, <3>2, InputUnchanged
    <3>4. ~HasDuplicateId  BY <2>1 DEF IInv, WellFormed, Prepared
    <3>5. IsFiniteSet(Ids) /\ Cardinality(Ids) = Len(steps)  BY <3>3, <3>4, IdsFinite
    <3>6. Cardinality(Visited') <= Cardinality(Ids)  BY <3>3, <3>5, FS_Subset
    <3>7. visitedCount' = Cardinality(Visited')  BY DEF IInv, CountsVisited
    <3>8. QED  BY <3>1, <3>5, <3>6, <3>7
  <2>3. Left' = 2 * (Len(steps) - (visitedCount + 1)) + 2  BY <1>1, <2>1, LeftNext
  <2>4. \/ Left = 2 * (Len(steps) - visitedCount) + 1
        \/ Left = 2 * (Len(steps) - visitedCount) + 2
    BY <2>1, LeftAre
  <2>5. QED  BY <1>2, <2>1, <2>2, <2>3, <2>4
<1>6. CASE CloseLayer
  <2>1. /\ phase = "layers" /\ phase' = "layers" /\ visitedCount' = visitedCount
        /\ currentLayer # {} /\ currentLayer' = {}
    BY <1>6 DEF CloseLayer
  <2>2. visitedCount \in Nat /\ visitedCount <= Len(steps)
    BY <2>1, VisitsFit DEF Prepared
  <2>3. QED  BY <1>1, <1>2, <2>1, <2>2, LeftAre, LeftNext
<1>7. CASE Finish
  <2>1. phase = "layers" /\ Returned'  BY <1>7 DEF Finish, Returned
  <2>2. visitedCount \in Nat /\ visitedCount <= Len(steps)
    BY <2>1, VisitsFit DEF Prepared
  <2>3. Left' = 0  BY <1>1, <2>1, LeftNext
  <2>4. QED  BY <1>2, <2>1, <2>2, <2>3, LeftAre
<1>8. QED  BY <1>3, <1>4, <1>5, <1>6, <1>7 DEF Next

(* BuildExecutionPlan comes to its end in at most two turns for each step: *)
(* no list of steps keeps it in its loops.                                 *)
THEOREM CallsComeToAnEnd == Spec => EveryTurnCounts
<1>1. IInv /\ IInv' /\ [Next]_vars => [Left' \in Nat /\ Left' < Left]_vars
  BY LessLeft
<1>2. QED  BY <1>1, Invariance, PTL DEF Spec, EveryTurnCounts
=============================================================================
