-------------------------- MODULE DispatchPermits --------------------------
(***************************************************************************)
(* What the dispatcher promises.  An execution that becomes PENDING gets a *)
(* permit to run.  The permit can be taken once, and then stops waiting;   *)
(* each permit taken starts at most one engine.  Failures lose permits,    *)
(* waiting or taken, but nothing multiplies them.                          *)
(***************************************************************************)
EXTENDS Naturals

CONSTANT Execs

VARIABLES
  waiting,     (* The executions with a permit nobody has taken.           *)
  taken,       (* How many permits of each are on their way to an engine.  *)
  dispatched   (* How often each was given to an engine.                   *)

Init ==
  /\ waiting = {}
  /\ taken = [x \in Execs |-> 0]
  /\ dispatched = [x \in Execs |-> 0]

(* Some executions become PENDING.                                         *)
Grant ==
  /\ waiting' \in SUBSET Execs
  /\ waiting \subseteq waiting'
  /\ UNCHANGED <<taken, dispatched>>

(* The permits of X are taken.                                             *)
Take(X) ==
  /\ X \subseteq waiting
  /\ waiting' = waiting \ X
  /\ taken' = [x \in Execs |-> IF x \in X THEN taken[x] + 1 ELSE taken[x]]
  /\ UNCHANGED dispatched

(* An engine starts on x.                                                  *)
Dispatch(x) ==
  /\ taken[x] > 0
  /\ taken' = [taken EXCEPT ![x] = @ - 1]
  /\ dispatched' = [dispatched EXCEPT ![x] = @ + 1]
  /\ UNCHANGED waiting

(* A worker crashes, a workflow is missing, a PENDING row is overwritten.  *)
Lose ==
  /\ waiting' \in SUBSET waiting
  /\ taken' \in [Execs -> Nat]
  /\ \A x \in Execs : taken'[x] <= taken[x]
  /\ UNCHANGED dispatched

Next ==
  \/ Grant
  \/ Lose
  \/ \E X \in SUBSET Execs : Take(X)
  \/ \E x \in Execs : Dispatch(x)

Spec == Init /\ [][Next]_<<waiting, taken, dispatched>>
=============================================================================
