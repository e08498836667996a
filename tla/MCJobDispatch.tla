--------------------------- MODULE MCJobDispatch ---------------------------
(***************************************************************************)
(* Instances of JobDispatch with two workers: one execution for safety,    *)
(* two executions and a poll that takes one row at a time for liveness, so *)
(* that the limit and the order matter.  The allowances are the bound on   *)
(* every kind of fault.                                                    *)
(***************************************************************************)
EXTENDS JobDispatch, TLC

CONSTANTS x1, x2, w1, w2

MCExecs == {x1, x2}

MCWorkers == {w1, w2}

Allow(crash, lostPush, dbError, slow, refused, interim, cancel) ==
  [f \in Faults |-> CASE f = "crash" -> crash
                      [] f = "lostPush" -> lostPush
                      [] f = "dbError" -> dbError
                      [] f = "slow" -> slow
                      [] f = "refused" -> refused
                      [] f = "interim" -> interim
                      [] f = "cancel" -> cancel]

(* Every fault, and two recoveries of one execution.                       *)
OneOfEach == Allow(1, 1, 1, 2, 1, 1, 1)

(* A worker dies, messages are lost and transactions fail; and a run may   *)
(* leave its row SUSPENDED or COMPENSATING for a while.                    *)
Losses == Allow(1, 1, 1, 0, 0, 1, 0)

One == {x1}

Symmetry == Permutations(MCWorkers)
=============================================================================
