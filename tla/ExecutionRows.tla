--------------------------- MODULE ExecutionRows ---------------------------
(***************************************************************************)
(* The contract of the table executions, which the dispatcher, the engine  *)
(* and the API share.  Nobody takes a row but by a claim of a PENDING one; *)
(* only an engine that runs it marks it, and one who has merely claimed it *)
(* may only fail it, while it is RUNNING or put back by the sweep, as a    *)
(* cancel may; and every write but the sweep's counts the version up.      *)
(***************************************************************************)
EXTENDS Naturals

CONSTANTS
  Execs,
  Resumable  (* The executions that may be resumed by an event.            *)

VARIABLES
  status,   (* executions.status; "ABSENT" when there is no row.           *)
  version,  (* executions.version.                                         *)
  owned,    (* The executions some loop or run has claimed and works on.   *)
  running   (* Those an engine runs: it starts and ends when it likes.     *)

Marks == {"SUCCESS", "FAILED", "SUSPENDED", "COMPENSATING"}

CountUp(X) == version' = [x \in Execs |-> IF x \in X THEN version[x] + 1 ELSE version[x]]

SetStatus(X, st) == status' = [x \in Execs |-> IF x \in X THEN st ELSE status[x]]

Init ==
  /\ status \in [Execs -> {"ABSENT", "PENDING"}]
  /\ version \in [Execs -> Nat]
  /\ owned = {}
  /\ running = {}

(* The row is inserted, with a version of the inserter's choice.           *)
Insert(x) ==
  /\ status[x] = "ABSENT"
  /\ SetStatus({x}, "PENDING")
  /\ version'[x] \in Nat
  /\ version' = [version EXCEPT ![x] = version'[x]]
  /\ UNCHANGED owned

(* A transaction claims the rows X.                                        *)
Claim(X) ==
  /\ \A x \in X : status[x] = "PENDING"
  /\ SetStatus(X, "RUNNING")
  /\ CountUp(X)
  /\ owned' = owned \cup X

(* An engine that runs x marks it, and may be the last to leave it.        *)
Mark(x, st) ==
  /\ x \in running
  /\ SetStatus({x}, st)
  /\ CountUp({x})
  /\ owned' \in {owned, owned \ {x}}

(* Who has claimed x gives it up; by then the sweep may have put it back,  *)
(* and a later owner may be at work on it.                                 *)
Fail(x) ==
  /\ x \in owned
  /\ status[x] \in {"RUNNING", "PENDING"}
  /\ SetStatus({x}, "FAILED")
  /\ CountUp({x})
  /\ owned' \in {owned, owned \ {x}}

(* Owners go without a mark: a refused update, a crash.                    *)
Leave ==
  /\ owned' \in SUBSET owned
  /\ UNCHANGED <<status, version>>

(* The sweep puts back what has been RUNNING for long, at its version.     *)
Recover(X) ==
  /\ \A x \in X : status[x] = "RUNNING"
  /\ SetStatus(X, "PENDING")
  /\ UNCHANGED <<version, owned>>

Cancel(x) ==
  /\ status[x] \in {"RUNNING", "PENDING"}
  /\ SetStatus({x}, "CANCELLED")
  /\ CountUp({x})
  /\ UNCHANGED owned

(* An event has arrived for a suspended step of x, whatever became of x.   *)
Resume(x) ==
  /\ x \in Resumable
  /\ status[x] # "ABSENT"
  /\ SetStatus({x}, "PENDING")
  /\ CountUp({x})
  /\ UNCHANGED owned

Next ==
  \/ \E x \in Execs : \/ Insert(x) \/ Fail(x) \/ Cancel(x) \/ Resume(x)
                      \/ \E st \in Marks : Mark(x, st)
  \/ \E X \in SUBSET Execs : Claim(X) \/ Recover(X)
  \/ Leave

Spec == Init /\ [][Next]_<<status, version, owned>>
=============================================================================
