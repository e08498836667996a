-------------------------- MODULE MCExecutionPlan --------------------------
(***************************************************************************)
(* Step lists for BuildExecutionPlan: all lists of up to MaxSteps steps    *)
(* called a, b or c whose depends_on is one of a few shapes (nothing, one  *)
(* id, two ids, the same id twice, an id that does not exist), and all     *)
(* graphs on four distinct steps.                                          *)
(***************************************************************************)
EXTENDS ExecutionPlan, SequencesExt

CONSTANTS a, b, c, d, missing

MCStepId == {a, b, c, d, missing}

MaxSteps == 3

Shapes == {<<>>, <<a>>, <<b>>, <<c>>, <<a, a>>, <<a, b>>, <<b, c>>, <<c, a, c>>,
           <<b, missing>>}

ShortLists ==
  UNION {[1 .. n -> [id : {a, b, c}, depends_on : Shapes]] : n \in 0 .. MaxSteps}

(* Four distinct steps, each with any set of dependencies.                 *)
Four == <<a, b, c, d>>

FourStepGraphs ==
  {[i \in 1 .. 4 |-> [id |-> Four[i], depends_on |-> SetToSeq(g[i])]] :
     g \in [1 .. 4 -> {G \in SUBSET {a, b, c, d} : Cardinality(G) <= 2}]}

MCInputs == ShortLists \cup FourStepGraphs
=============================================================================
