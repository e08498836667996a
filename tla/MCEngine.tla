----------------------------- MODULE MCEngine -----------------------------
(***************************************************************************)
(* Instances of Engine.                                                    *)
(***************************************************************************)
EXTENDS Engine, TLC

CONSTANTS a, b, c, x1, r1, r2, w1

(* The steps a, b, c in that order.  layers is the plan of dependsOn.      *)
Flow(layers, deps, action, retries, target) ==
  [valid |-> TRUE, layers |-> layers, place |-> a :> 1 @@ b :> 2 @@ c :> 3, dependsOn |-> deps,
   action |-> action, maxRetries |-> retries, compensatesFor |-> target]

Three(p, q, r) == a :> p @@ b :> q @@ c :> r

None == Three({}, {}, {})

Itself == Three(a, b, c)

Once == Three(0, 0, 0)

(* A condition, a task beside it, and a task behind both.                  *)
Join2 == Flow(<<{a, b}, {c}>>, Three({}, {}, {a, b}),
              Three("CONDITION", "TASK", "TASK"), Three(0, 1, 0), Itself)

(* A condition, then a loop, then an event.                                *)
Chain == Flow(<<{a}, {b}, {c}>>, Three({}, {a}, {b}),
              Three("CONDITION", "LOOP", "WAIT_FOR_EVENT"), Once, Itself)

(* An event beside a condition that a task hangs on.                       *)
Event == Flow(<<{a, b}, {c}>>, Three({}, {}, {a}),
              Three("CONDITION", "WAIT_FOR_EVENT", "TASK"), Once, Itself)

(* A task, another that may fail, and the compensation of the first.       *)
Saga == Flow(<<{a, b}, {c}>>, Three({}, {}, {a}),
             Three("TASK", "TASK", "COMPENSATION"), Three(1, 0, 0), Three(a, b, a))

(* No plan exists.                                                         *)
Cyclic == [Flow(<<>>, Three({b}, {a}, {}), Three("TASK", "TASK", "TASK"), Once, Itself)
             EXCEPT !.valid = FALSE]

(* One task, tried twice.                                                  *)
OneTask ==
  [valid |-> TRUE, layers |-> <<{a}>>, place |-> a :> 1, dependsOn |-> a :> {},
   action |-> a :> "TASK", maxRetries |-> a :> 1, compensatesFor |-> a :> a]

MCExecs == {x1}

ABC == {a, b, c}

JustA == {a}

Flows == {Join2, Chain, Event, Saga, Cyclic}

Singles == {OneTask}

OneRun == {r1}

TwoRuns == {r1, r2}

OneWorker == [r \in Runs |-> w1]
=============================================================================
