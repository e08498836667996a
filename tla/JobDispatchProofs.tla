------------------------- MODULE JobDispatchProofs -------------------------
(***************************************************************************)
(* The safety of the dispatcher, proved for any number of executions and   *)
(* workers, any batch limit and any number of faults.                      *)
(***************************************************************************)
EXTENDS JobDispatch, FiniteSetTheorems, TLAPS

(* A row that was never inserted has version 0, below every claim.         *)
AbsentIsZero == \A x \in Execs : status[x] = "ABSENT" => version[x] = 0

(* A loop holds at most one job per execution.                             *)
OneJobPerExecution == \A t \in Txns : \A j, k \in batch[t] : j.id = k.id => j = k

(* A run's version was reached by its row, and is its own.                 *)
RunsOwnVersions ==
  \A r \in runs :
    /\ r.version <= version[r.id]
    /\ \A s \in runs : r.id = s.id /\ r.version = s.version => r = s

(* The same for a claim on its way to an engine.                           *)
LaunchesOwnVersions ==
  \A t \in Txns : pc[t] = "launching" => \A j \in batch[t] :
    /\ j.version <= version[j.id]
    /\ \A r \in runs : r.id = j.id => r.version # j.version
    /\ \A u \in Txns : pc[u] = "launching" => \A k \in batch[u] :
         j.id = k.id /\ j.version = k.version => t = u

IInv ==
  /\ TypeOK
  /\ AbsentIsZero
  /\ OneJobPerExecution
  /\ ClaimNeverConflicts
  /\ RunsOwnVersions
  /\ LaunchesOwnVersions

---------------------------------------------------------------------------
LEMMA TxnsOfWorkers ==
  /\ \A w \in Workers : <<w, "poll">> \in Txns /\ <<w, "redis">> \in Txns
  /\ \A t \in Txns : t[1] \in Workers
BY DEF Txns

LEMMA SpendType ==
  ASSUME TypeOK, NEW f \in Faults, Spend(f)
  PROVE  allowance' \in [Faults -> Nat]
BY DEF TypeOK, Spend

LEMMA InitIInv == Init => IInv
BY DispatchAssumption
DEF Init, IInv, TypeOK, AbsentIsZero, OneJobPerExecution, ClaimNeverConflicts,
    RunsOwnVersions, LaunchesOwnVersions, Statuses, Unlocked

LEMMA TriggerIInv == ASSUME IInv, NEW x \in Execs, Trigger(x) PROVE IInv'
<1> USE DispatchAssumption DEF Trigger, worker
<1>1. TypeOK'  BY DEF IInv, TypeOK, Statuses, Unlocked
<1>2. AbsentIsZero' /\ OneJobPerExecution'
  BY DEF IInv, TypeOK, AbsentIsZero, OneJobPerExecution
<1>3. \A y \in Execs : version[y] <= version'[y]
  BY DEF IInv, TypeOK, AbsentIsZero
<1>4. ClaimNeverConflicts'  BY DEF IInv, TypeOK, ClaimNeverConflicts, Jobs
<1>5. RunsOwnVersions' /\ LaunchesOwnVersions'
  BY <1>3 DEF IInv, TypeOK, RunsOwnVersions, LaunchesOwnVersions, Jobs, Runs
<1>6. QED  BY <1>1, <1>2, <1>4, <1>5 DEF IInv

LEMMA PushIInv == ASSUME IInv, NEW x \in Execs, Push(x) PROVE IInv'
<1>1. allowance' \in [Faults -> Nat]
  <2>1. CASE Spend("lostPush")  BY <2>1, SpendType DEF IInv, Faults
  <2>2. CASE UNCHANGED allowance  BY <2>2 DEF IInv, TypeOK
  <2>3. QED  BY <2>1, <2>2 DEF Push
<1>2. queue' \in Seq(Execs) /\ unsent' \subseteq Execs
  <2>1. CASE queue' = Append(queue, x)  BY <2>1 DEF Push, IInv, TypeOK
  <2>2. CASE UNCHANGED queue  BY <2>2 DEF Push, IInv, TypeOK
  <2>3. QED  BY <2>1, <2>2 DEF Push
<1>3. UNCHANGED <<status, version, stale, lockedBy, created, cancels, up, pc, popped,
                  batch, runs, launches>>
  BY DEF Push, worker, rows
<1>4. TypeOK'  BY <1>1, <1>2, <1>3 DEF IInv, TypeOK, Unlocked
<1>5. QED
  BY <1>3, <1>4 DEF IInv, AbsentIsZero, OneJobPerExecution, ClaimNeverConflicts,
                    RunsOwnVersions, LaunchesOwnVersions

LEMMA CancelReadIInv == ASSUME IInv, NEW x \in Execs, CancelRead(x) PROVE IInv'
<1>1. allowance' \in [Faults -> Nat]
  BY SpendType DEF CancelRead, IInv, Faults
<1>2. cancels' \subseteq Jobs
  BY DEF CancelRead, IInv, TypeOK, Jobs
<1>3. UNCHANGED <<status, version, stale, lockedBy, created, queue, unsent, up, pc, popped,
                  batch, runs, launches>>
  BY DEF CancelRead, worker, rows
<1>4. TypeOK'  BY <1>1, <1>2, <1>3 DEF IInv, TypeOK, Unlocked
<1>5. QED
  BY <1>3, <1>4 DEF IInv, AbsentIsZero, OneJobPerExecution, ClaimNeverConflicts,
                    RunsOwnVersions, LaunchesOwnVersions

(* A write of one row raises its version and leaves the others alone.      *)
LEMMA WriteRows ==
  ASSUME IInv, NEW x \in Execs, NEW st \in Statuses \ {"ABSENT"},
         Write(x, st) \/ UNCHANGED rows
  PROVE  /\ status' \in [Execs -> Statuses]
         /\ version' \in [Execs -> Nat]
         /\ stale' \subseteq Execs
         /\ \A y \in Execs : version[y] <= version'[y]
         /\ \A y \in Execs \ {x} : version'[y] = version[y] /\ status'[y] = status[y]
         /\ AbsentIsZero'
<1>1. CASE Write(x, st)
  BY <1>1 DEF IInv, TypeOK, Write, AbsentIsZero
<1>2. CASE UNCHANGED rows
  BY <1>2 DEF rows, IInv, TypeOK, AbsentIsZero
<1>3. QED  BY <1>1, <1>2

(* If the row is unlocked and nobody else moves, all the invariant holds.  *)
LEMMA WriteKeeps ==
  ASSUME IInv, NEW x \in Execs, Unlocked(x), NEW st \in Statuses \ {"ABSENT"},
         Write(x, st) \/ UNCHANGED rows,
         UNCHANGED <<lockedBy, worker, runs>>
  PROVE  /\ ClaimNeverConflicts' /\ RunsOwnVersions' /\ LaunchesOwnVersions'
         /\ OneJobPerExecution'
<1> USE DEF worker
<1>1. /\ version' \in [Execs -> Nat]
      /\ \A y \in Execs : version[y] <= version'[y]
      /\ \A y \in Execs \ {x} : version'[y] = version[y] /\ status'[y] = status[y]
  BY WriteRows
<1>2. ClaimNeverConflicts'
  BY <1>1, NoTxnAssumption DEF IInv, TypeOK, ClaimNeverConflicts, Jobs, Unlocked
<1>3. RunsOwnVersions' /\ LaunchesOwnVersions' /\ OneJobPerExecution'
  BY <1>1 DEF IInv, TypeOK, RunsOwnVersions, LaunchesOwnVersions, Jobs, Runs,
              OneJobPerExecution
<1>4. QED  BY <1>2, <1>3

LEMMA CancelWriteIInv == ASSUME IInv, NEW c \in cancels, CancelWrite(c) PROVE IInv'
<1>1. /\ c.id \in Execs /\ Unlocked(c.id)
      /\ Write(c.id, "CANCELLED") \/ UNCHANGED rows
      /\ cancels' = cancels \ {c}
      /\ UNCHANGED <<lockedBy, created, queue, unsent, up, worker, runs, launches, allowance>>
  BY DEF CancelWrite, Update, IInv, TypeOK, Jobs
<1>2. "CANCELLED" \in Statuses \ {"ABSENT"}  BY DEF Statuses
<1>3. /\ status' \in [Execs -> Statuses] /\ version' \in [Execs -> Nat]
      /\ stale' \subseteq Execs
      /\ AbsentIsZero' /\ ClaimNeverConflicts'
      /\ RunsOwnVersions' /\ LaunchesOwnVersions' /\ OneJobPerExecution'
  BY <1>1, <1>2, WriteRows, WriteKeeps
<1>4. TypeOK'  BY <1>1, <1>3 DEF IInv, TypeOK, worker, Unlocked
<1>5. QED  BY <1>3, <1>4 DEF IInv

LEMMA EngineIInv == ASSUME IInv, NEW r \in runs, Engine(r) PROVE IInv'
<1>1. CASE EngineRefused(r)
  <2>1. /\ UNCHANGED <<rows, lockedBy, created, queue, unsent, cancels, up, worker, launches>>
        /\ runs' = runs \ {r} /\ allowance' \in [Faults -> Nat]
    BY <1>1, SpendType DEF EngineRefused, Faults, IInv
  <2>2. TypeOK'  BY <2>1 DEF IInv, TypeOK, worker, rows, Unlocked
  <2>3. QED
    BY <2>1, <2>2 DEF IInv, AbsentIsZero, OneJobPerExecution, ClaimNeverConflicts,
                      RunsOwnVersions, LaunchesOwnVersions, worker, rows
<1>2. ASSUME NEW st \in FinalStatuses, EngineFinish(r, st) PROVE IInv'
  <2>1. /\ Unlocked(r.id) /\ Write(r.id, st) /\ runs' = runs \ {r}
        /\ UNCHANGED <<lockedBy, created, queue, unsent, cancels, up, worker, launches,
                       allowance>>
        /\ r.id \in Execs /\ st \in Statuses \ {"ABSENT"}
    BY <1>2 DEF EngineFinish, FinalStatuses, Statuses, IInv, TypeOK, Runs
  <2>2. /\ status' \in [Execs -> Statuses] /\ version' \in [Execs -> Nat]
        /\ stale' \subseteq Execs /\ AbsentIsZero'
        /\ \A y \in Execs : version[y] <= version'[y]
        /\ \A y \in Execs \ {r.id} : version'[y] = version[y] /\ status'[y] = status[y]
    BY <2>1, WriteRows
  <2>3. TypeOK'  BY <2>1, <2>2 DEF IInv, TypeOK, worker, Unlocked
  <2>4. ClaimNeverConflicts'
    BY <2>1, <2>2, NoTxnAssumption
    DEF IInv, TypeOK, ClaimNeverConflicts, Jobs, Unlocked, worker
  <2>5. RunsOwnVersions' /\ LaunchesOwnVersions' /\ OneJobPerExecution'
    BY <2>1, <2>2
    DEF IInv, TypeOK, RunsOwnVersions, LaunchesOwnVersions, Jobs, Runs, worker,
        OneJobPerExecution
  <2>6. QED  BY <2>2, <2>3, <2>4, <2>5 DEF IInv
<1>3. ASSUME NEW st \in InterimStatuses, EngineInterim(r, st) PROVE IInv'
  <2>1. /\ Unlocked(r.id) /\ Write(r.id, st) /\ allowance' \in [Faults -> Nat]
        /\ UNCHANGED <<lockedBy, created, queue, unsent, cancels, up, worker, runs, launches>>
        /\ r.id \in Execs /\ st \in Statuses \ {"ABSENT"}
    BY <1>3, SpendType
    DEF EngineInterim, InterimStatuses, Statuses, IInv, TypeOK, Runs, Faults
  <2>2. /\ status' \in [Execs -> Statuses] /\ version' \in [Execs -> Nat]
        /\ stale' \subseteq Execs /\ AbsentIsZero' /\ ClaimNeverConflicts'
        /\ RunsOwnVersions' /\ LaunchesOwnVersions' /\ OneJobPerExecution'
    BY <2>1, WriteRows, WriteKeeps
  <2>3. TypeOK'  BY <2>1, <2>2 DEF IInv, TypeOK, worker, Unlocked
  <2>4. QED  BY <2>2, <2>3 DEF IInv
<1>4. QED  BY <1>1, <1>2, <1>3 DEF Engine

(* Locking acquirable rows from an idle or popped loop.                    *)
LEMMA LockKeeps ==
  ASSUME IInv, NEW t \in Txns, pc[t] \in {"idle", "popped"},
         NEW xs, xs \subseteq Acquirable, Lock(t, xs),
         UNCHANGED <<rows, created, queue, unsent, cancels, up, runs, launches, allowance>>,
         popped' \in [Workers -> Execs \cup {NoExec}]
  PROVE  IInv'
<1> USE DEF rows
<1>1. /\ lockedBy' = [x \in Execs |-> IF x \in xs THEN t ELSE lockedBy[x]]
      /\ batch' = [batch EXCEPT ![t] = {[id |-> x, version |-> version[x]] : x \in xs}]
      /\ pc' = [pc EXCEPT ![t] = "locked"]
      /\ \A x \in xs : x \in Execs /\ status[x] = "PENDING" /\ lockedBy[x] = NoTxn
  BY DEF Lock, Acquirable, Unlocked
<1> DEFINE b == {[id |-> x, version |-> version[x]] : x \in xs}
<1>2. /\ b \subseteq Jobs
      /\ \A j \in b : /\ j.id \in xs /\ j.version = version[j.id]
      /\ \A j, k \in b : j.id = k.id => j = k
  BY <1>1 DEF IInv, TypeOK, Jobs
<1>3. /\ batch'[t] = b /\ pc'[t] = "locked"
      /\ \A u \in Txns \ {t} : batch'[u] = batch[u] /\ pc'[u] = pc[u]
      /\ batch' \in [Txns -> SUBSET Jobs]
      /\ pc' \in [Txns -> {"idle", "popped", "locked", "launching"}]
      /\ lockedBy' \in [Execs -> Txns \cup {NoTxn}]
  BY <1>1, <1>2 DEF IInv, TypeOK
<1>4. TypeOK'
  BY <1>1, <1>2, <1>3, NoTxnAssumption DEF IInv, TypeOK, Unlocked
<1>5. ClaimNeverConflicts'
  BY <1>1, <1>2, <1>3, NoTxnAssumption DEF IInv, TypeOK, ClaimNeverConflicts, Jobs
<1>6. OneJobPerExecution'  BY <1>2, <1>3 DEF IInv, OneJobPerExecution
<1>7. RunsOwnVersions' /\ LaunchesOwnVersions'
  BY <1>3 DEF IInv, RunsOwnVersions, LaunchesOwnVersions
<1>8. QED  BY <1>4, <1>5, <1>6, <1>7 DEF IInv, AbsentIsZero

LEMMA PollIInv == ASSUME IInv, NEW w \in Workers, Poll(w) PROVE IInv'
<1> DEFINE t == <<w, "poll">>
<1>1. /\ t \in Txns /\ pc[t] = "idle" /\ Lock(t, Oldest)
      /\ UNCHANGED <<rows, created, queue, unsent, cancels, up, popped, runs, launches,
                     allowance>>
  BY TxnsOfWorkers DEF Poll
<1>2. Oldest \subseteq Acquirable  BY DEF Oldest
<1>3. QED  BY <1>1, <1>2, LockKeeps DEF IInv, TypeOK

(* A loop that holds nothing moves on.                                     *)
LEMMA IdleKeeps ==
  ASSUME IInv, NEW t \in Txns, pc[t] \in {"idle", "popped"},
         NEW to \in {"idle", "popped"}, pc' = [pc EXCEPT ![t] = to],
         queue' \in Seq(Execs), popped' \in [Workers -> Execs \cup {NoExec}],
         allowance' \in [Faults -> Nat],
         UNCHANGED <<rows, lockedBy, created, unsent, cancels, up, batch, runs, launches>>
  PROVE  IInv'
<1>1. /\ pc' \in [Txns -> {"idle", "popped", "locked", "launching"}]
      /\ \A u \in Txns \ {t} : pc'[u] = pc[u]
      /\ pc'[t] \in {"idle", "popped"}
  BY DEF IInv, TypeOK
<1>2. batch[t] = {} /\ \A x \in Execs : ~Unlocked(x) => lockedBy[x] \in Txns \ {t}
  BY DEF IInv, TypeOK, Unlocked
<1>3. UNCHANGED <<status, version, stale, lockedBy, created, unsent, cancels, up, batch,
                  runs, launches>>
  BY DEF rows
<1>4. TypeOK'  BY <1>1, <1>2, <1>3 DEF IInv, TypeOK, Unlocked
<1>5. QED
  BY <1>1, <1>2, <1>3, <1>4
  DEF IInv, AbsentIsZero, OneJobPerExecution, ClaimNeverConflicts, RunsOwnVersions,
      LaunchesOwnVersions

LEMMA PopIInv == ASSUME IInv, NEW w \in Workers, Pop(w) PROVE IInv'
<1> DEFINE t == <<w, "redis">>
<1>1. /\ t \in Txns /\ pc[t] = "idle" /\ pc' = [pc EXCEPT ![t] = "popped"]
      /\ queue # <<>> /\ queue' = Tail(queue)
      /\ popped' = [popped EXCEPT ![w] = Head(queue)]
      /\ UNCHANGED <<rows, lockedBy, created, unsent, cancels, up, batch, runs, launches>>
      /\ UNCHANGED allowance
  BY TxnsOfWorkers DEF Pop
<1>2. Head(queue) \in Execs /\ queue' \in Seq(Execs)
  BY <1>1 DEF IInv, TypeOK
<1>3. popped' \in [Workers -> Execs \cup {NoExec}] /\ allowance' \in [Faults -> Nat]
  BY <1>1, <1>2 DEF IInv, TypeOK
<1>4. QED  BY <1>1, <1>2, <1>3, IdleKeeps

LEMMA AcquireByIDIInv == ASSUME IInv, NEW w \in Workers, AcquireByID(w) PROVE IInv'
<1> DEFINE t == <<w, "redis">>
<1>1. /\ t \in Txns /\ pc[t] = "popped"
      /\ popped' = [popped EXCEPT ![w] = NoExec]
      /\ UNCHANGED <<rows, created, queue, unsent, cancels, up, runs, launches>>
  BY TxnsOfWorkers DEF AcquireByID
<1>2. popped' \in [Workers -> Execs \cup {NoExec}] /\ queue' \in Seq(Execs)
  BY <1>1 DEF IInv, TypeOK
<1>3. CASE popped[w] \in Acquirable /\ Lock(t, {popped[w]}) /\ UNCHANGED allowance
  <2>1. {popped[w]} \subseteq Acquirable  BY <1>3
  <2>2. QED  BY <1>1, <1>2, <1>3, <2>1, LockKeeps
<1>4. CASE /\ pc' = [pc EXCEPT ![t] = "idle"]
           /\ UNCHANGED <<lockedBy, batch>>
           /\ Spend("dbError") \/ UNCHANGED allowance
  <2>1. allowance' \in [Faults -> Nat]
    <3>1. CASE Spend("dbError")  BY <3>1, SpendType DEF IInv, Faults
    <3>2. CASE UNCHANGED allowance  BY <3>2 DEF IInv, TypeOK
    <3>3. QED  BY <1>4, <3>1, <3>2
  <2>2. QED  BY <1>1, <1>2, <1>4, <2>1, IdleKeeps
<1>5. QED  BY <1>3, <1>4 DEF AcquireByID

(* By ClaimNeverConflicts a claim takes every job it has read: each gets   *)
(* a version above all those handed out for its row before.                *)
LEMMA ClaimEffect ==
  ASSUME IInv, NEW t \in Txns, Claim(t)
  PROVE  /\ Matching(t) = batch[t]
         /\ \A x \in Execs :
              \/ /\ x \in MatchingIds(t) /\ lockedBy[x] = t
                 /\ status[x] = "PENDING" /\ status'[x] = "RUNNING"
                 /\ version'[x] = version[x] + 1
              \/ /\ x \notin MatchingIds(t)
                 /\ status'[x] = status[x] /\ version'[x] = version[x]
         /\ batch'[t] \subseteq Jobs
         /\ batch' \in [Txns -> SUBSET Jobs]
         /\ \A k \in batch'[t] : k.id \in MatchingIds(t) /\ k.version = version'[k.id]
         /\ \A x \in MatchingIds(t) : \E k \in batch'[t] : k.id = x
         /\ pc'[t] = IF batch'[t] = {} THEN "idle" ELSE "launching"
         /\ pc[t] = "locked"
         /\ \A u \in Txns \ {t} : batch'[u] = batch[u] /\ pc'[u] = pc[u]
<1>1. pc[t] = "locked" /\ \A j \in batch[t] :
        lockedBy[j.id] = t /\ status[j.id] = "PENDING" /\ version[j.id] = j.version
  BY DEF Claim, IInv, ClaimNeverConflicts
<1>2. Matching(t) = batch[t]  BY <1>1 DEF Matching
<1>3. batch[t] \subseteq Jobs /\ MatchingIds(t) \subseteq Execs
  BY <1>2 DEF IInv, TypeOK, Jobs, MatchingIds
<1> DEFINE bumped == {[j EXCEPT !.version = @ + 1] : j \in batch[t]}
<1>4. batch' = [batch EXCEPT ![t] = bumped]
  <2>1. (IF t[2] = "poll" THEN batch[t] ELSE Matching(t)) = batch[t]  BY <1>2
  <2>2. {IF j \in Matching(t) THEN [j EXCEPT !.version = @ + 1] ELSE j : j \in batch[t]}
          = bumped
    BY <1>2
  <2>3. QED  BY <2>1, <2>2 DEF Claim
<1>5. pc' = [pc EXCEPT ![t] = IF batch[t] = {} THEN "idle" ELSE "launching"]
  BY <1>2 DEF Claim
<1>6. bumped \subseteq Jobs /\ (bumped = {} <=> batch[t] = {})
  <2>1. \A j \in Jobs : [j EXCEPT !.version = @ + 1] \in Jobs  BY DEF Jobs
  <2>2. QED  BY <1>3, <2>1
<1>7. /\ \A k \in bumped : k.id \in MatchingIds(t) /\ k.version = version[k.id] + 1
      /\ \A x \in MatchingIds(t) : \E k \in bumped : k.id = x
  <2>1. \A j \in batch[t] : /\ [j EXCEPT !.version = @ + 1].id = j.id
                            /\ [j EXCEPT !.version = @ + 1].version = j.version + 1
    BY <1>3 DEF Jobs
  <2>2. \A j \in batch[t] : j.id \in MatchingIds(t)  BY <1>2 DEF MatchingIds
  <2>3. \A x \in MatchingIds(t) : \E j \in batch[t] : j.id = x
    BY <1>2 DEF MatchingIds
  <2>4. \A k \in bumped : \E j \in batch[t] : k.id = j.id /\ k.version = j.version + 1
    BY <2>1
  <2>5. \A j \in batch[t] : \E k \in bumped : k.id = j.id
    BY <2>1
  <2> HIDE DEF bumped
  <2>6. \A k \in bumped : k.id \in MatchingIds(t) /\ k.version = version[k.id] + 1
    BY <1>1, <2>2, <2>4
  <2>7. \A x \in MatchingIds(t) : \E k \in bumped : k.id = x
    BY <2>3, <2>5
  <2>8. QED  BY <2>6, <2>7
<1>8. \A x \in MatchingIds(t) : lockedBy[x] = t /\ status[x] = "PENDING"
  BY <1>1, <1>2 DEF MatchingIds
<1>9. \A x \in Execs :
        /\ status'[x] = IF x \in MatchingIds(t) THEN "RUNNING" ELSE status[x]
        /\ version'[x] = IF x \in MatchingIds(t) THEN version[x] + 1 ELSE version[x]
  BY DEF Claim
<1>10. batch'[t] = bumped /\ batch' \in [Txns -> SUBSET Jobs]
  BY <1>4, <1>6 DEF IInv, TypeOK
<1>11. \A u \in Txns \ {t} : batch'[u] = batch[u] /\ pc'[u] = pc[u]
  BY <1>4, <1>5 DEF IInv, TypeOK
<1>12. pc'[t] = IF batch'[t] = {} THEN "idle" ELSE "launching"
  BY <1>5, <1>6, <1>10 DEF IInv, TypeOK
<1>13. \A x \in Execs :
         \/ /\ x \in MatchingIds(t) /\ lockedBy[x] = t
            /\ status[x] = "PENDING" /\ status'[x] = "RUNNING"
            /\ version'[x] = version[x] + 1
         \/ /\ x \notin MatchingIds(t)
            /\ status'[x] = status[x] /\ version'[x] = version[x]
  BY <1>8, <1>9
<1>14. \A k \in batch'[t] : k.id \in MatchingIds(t) /\ k.version = version'[k.id]
  BY <1>3, <1>7, <1>9, <1>10
<1>15. QED
  BY <1>1, <1>2, <1>6, <1>7, <1>10, <1>11, <1>12, <1>13, <1>14

LEMMA ClaimIInv == ASSUME IInv, NEW t \in Txns, Claim(t) PROVE IInv'
<1> DEFINE ids == MatchingIds(t)
<1>1. /\ \A x \in Execs :
           \/ /\ x \in ids /\ lockedBy[x] = t
              /\ status[x] = "PENDING" /\ status'[x] = "RUNNING"
              /\ version'[x] = version[x] + 1
           \/ /\ x \notin ids
              /\ status'[x] = status[x] /\ version'[x] = version[x]
      /\ batch' \in [Txns -> SUBSET Jobs]
      /\ \A k \in batch'[t] : k.id \in ids /\ k.version = version'[k.id]
      /\ pc'[t] \in {"idle", "launching"} /\ (batch'[t] # {} => pc'[t] = "launching")
      /\ \A u \in Txns \ {t} : batch'[u] = batch[u] /\ pc'[u] = pc[u]
  BY ClaimEffect
<1>2. /\ status' \in [Execs -> Statuses] /\ version' \in [Execs -> Nat]
      /\ stale' \subseteq Execs
      /\ pc' \in [Txns -> {"idle", "popped", "locked", "launching"}]
  BY <1>1 DEF Claim, IInv, TypeOK, Statuses
<1>3. /\ lockedBy' \in [Execs -> Txns \cup {NoTxn}]
      /\ \A x \in Execs : lockedBy'[x] = IF lockedBy[x] = t THEN NoTxn ELSE lockedBy[x]
  BY DEF Claim, Release, IInv, TypeOK
<1>4. UNCHANGED <<created, queue, unsent, cancels, up, popped, runs, launches, allowance>>
  BY DEF Claim
<1>5. TypeOK'
  <2>1. \A x \in Execs : lockedBy'[x] # NoTxn => pc'[lockedBy'[x]] = "locked"
    BY <1>1, <1>3 DEF IInv, TypeOK, Unlocked
  <2>2. \A u \in Txns : batch'[u] # {} => pc'[u] \in {"locked", "launching"}
    BY <1>1 DEF IInv, TypeOK
  <2>3. QED  BY <1>1, <1>2, <1>3, <1>4, <2>1, <2>2 DEF IInv, TypeOK, Unlocked
<1>6. \A x \in Execs : version[x] <= version'[x]
  <2>1. \A x \in Execs : version[x] \in Nat  BY DEF IInv, TypeOK
  <2>2. \A x \in Execs : version'[x] \in {version[x], version[x] + 1}  BY <1>1
  <2>3. QED  BY <2>1, <2>2
<1>7. AbsentIsZero'  BY <1>1 DEF IInv, AbsentIsZero
<1>8. OneJobPerExecution'
  <2>1. \A j, k \in batch'[t] : j.id = k.id => j = k
    BY <1>1 DEF Jobs
  <2>2. QED  BY <1>1, <2>1 DEF IInv, OneJobPerExecution
<1>9. ClaimNeverConflicts'
  <2> SUFFICES ASSUME NEW u \in Txns, pc'[u] = "locked", NEW j \in batch'[u]
               PROVE  lockedBy'[j.id] = u /\ status'[j.id] = "PENDING"
                      /\ version'[j.id] = j.version
    BY DEF ClaimNeverConflicts
  <2>1. u # t /\ pc[u] = "locked" /\ j \in batch[u] /\ j.id \in Execs
    BY <1>1 DEF IInv, TypeOK, Jobs
  <2>2. lockedBy[j.id] = u /\ status[j.id] = "PENDING" /\ version[j.id] = j.version
    BY <2>1 DEF IInv, ClaimNeverConflicts
  <2>3. QED  BY <1>1, <1>3, <2>1, <2>2
<1>10. RunsOwnVersions'
  BY <1>2, <1>4, <1>6 DEF IInv, TypeOK, RunsOwnVersions, Runs
<1>11. LaunchesOwnVersions'
  <2>1. \A u \in Txns \ {t} : pc'[u] = "launching" => \A j \in batch'[u] :
          /\ j.id \in Execs /\ j.version \in Nat /\ j.version <= version[j.id]
          /\ \A r \in runs : r.id = j.id => r.version # j.version
    BY <1>1 DEF IInv, TypeOK, LaunchesOwnVersions, Jobs
  <2>2. \A k \in batch'[t] : /\ k.id \in Execs
                             /\ k.version = version[k.id] + 1
                             /\ k.version = version'[k.id]
    BY <1>1 DEF Jobs
  <2>3. \A r \in runs : r.id \in Execs /\ r.version \in Nat /\ r.version <= version[r.id]
    BY DEF IInv, TypeOK, RunsOwnVersions, Runs
  <2>4. \A x \in Execs : version[x] \in Nat /\ version'[x] \in Nat
    BY <1>2 DEF IInv, TypeOK
  <2>5. ASSUME NEW u \in Txns, pc'[u] = "launching", NEW j \in batch'[u]
        PROVE  j.version <= version'[j.id]
    BY <1>6, <2>1, <2>2, <2>4, <2>5
  <2>6. ASSUME NEW u \in Txns, pc'[u] = "launching", NEW j \in batch'[u],
               NEW r \in runs, r.id = j.id
        PROVE  r.version # j.version
    BY <2>1, <2>2, <2>3, <2>4, <2>6
  <2>7. ASSUME NEW u \in Txns, pc'[u] = "launching", NEW j \in batch'[u],
               NEW v \in Txns, pc'[v] = "launching", NEW k \in batch'[v],
               j.id = k.id, j.version = k.version
        PROVE  u = v
    <3>1. CASE u = t /\ v # t  BY <2>7, <3>1, <2>1, <2>2, <2>4
    <3>2. CASE u # t /\ v = t  BY <2>7, <3>2, <2>1, <2>2, <2>4
    <3>3. CASE u # t /\ v # t  BY <1>1, <2>7, <3>3 DEF IInv, LaunchesOwnVersions
    <3>4. QED  BY <3>1, <3>2, <3>3
  <2>8. QED  BY <1>4, <2>5, <2>6, <2>7 DEF LaunchesOwnVersions
<1>12. QED  BY <1>5, <1>7, <1>8, <1>9, <1>10, <1>11 DEF IInv

(* A transaction that rolls back.                                          *)
LEMMA AbortIInv == ASSUME IInv, NEW t \in Txns, Abort(t) PROVE IInv'
<1>1. /\ allowance' \in [Faults -> Nat]
      /\ lockedBy' \in [Execs -> Txns \cup {NoTxn}]
      /\ \A x \in Execs : lockedBy'[x] = IF lockedBy[x] = t THEN NoTxn ELSE lockedBy[x]
      /\ batch' \in [Txns -> SUBSET Jobs] /\ batch'[t] = {}
      /\ pc' \in [Txns -> {"idle", "popped", "locked", "launching"}] /\ pc'[t] = "idle"
      /\ \A u \in Txns \ {t} : batch'[u] = batch[u] /\ pc'[u] = pc[u]
  BY SpendType DEF Abort, Release, IInv, TypeOK, Faults
<1>2. UNCHANGED <<status, version, stale, created, queue, unsent, cancels, up, popped,
                  runs, launches>>
  BY DEF Abort, rows
<1>3. TypeOK'
  <2>1. \A x \in Execs : lockedBy'[x] # NoTxn => pc'[lockedBy'[x]] = "locked"
    BY <1>1, <1>2 DEF IInv, TypeOK, Unlocked
  <2>2. \A u \in Txns : batch'[u] # {} => pc'[u] \in {"locked", "launching"}
    BY <1>1, <1>2 DEF IInv, TypeOK
  <2>3. QED  BY <1>1, <1>2, <2>1, <2>2 DEF IInv, TypeOK, Unlocked
<1>4. ClaimNeverConflicts'
  <2> SUFFICES ASSUME NEW u \in Txns, pc'[u] = "locked", NEW k \in batch'[u]
               PROVE  lockedBy'[k.id] = u /\ status'[k.id] = "PENDING"
                      /\ version'[k.id] = k.version
    BY DEF ClaimNeverConflicts
  <2>1. u # t /\ pc[u] = "locked" /\ k \in batch[u] /\ k.id \in Execs
    BY <1>1, <1>2 DEF IInv, TypeOK, Jobs
  <2>2. lockedBy[k.id] = u /\ status[k.id] = "PENDING" /\ version[k.id] = k.version
    BY <2>1 DEF IInv, ClaimNeverConflicts
  <2>3. QED  BY <1>1, <1>2, <2>1, <2>2
<1>5. QED
  BY <1>1, <1>2, <1>3, <1>4
  DEF IInv, AbsentIsZero, OneJobPerExecution, RunsOwnVersions, LaunchesOwnVersions

(* A job leaves the batch of its loop.                                     *)
LEMMA HandOverEffect ==
  ASSUME IInv, NEW t \in Txns, NEW j \in batch[t], HandOver(t, j)
  PROVE  /\ pc[t] = "launching" /\ j \in Jobs
         /\ batch' \in [Txns -> SUBSET Jobs] /\ batch'[t] = batch[t] \ {j}
         /\ pc' \in [Txns -> {"idle", "popped", "locked", "launching"}]
         /\ pc'[t] = IF batch'[t] = {} THEN "idle" ELSE "launching"
         /\ \A u \in Txns \ {t} : batch'[u] = batch[u] /\ pc'[u] = pc[u]
BY DEF HandOver, IInv, TypeOK

LEMMA LaunchIInv ==
  ASSUME IInv, NEW t \in Txns, NEW j \in batch[t], Launch(t, j) PROVE IInv'
<1> DEFINE r == [worker |-> t[1], id |-> j.id, version |-> j.version]
<1>1. /\ pc[t] = "launching" /\ j \in Jobs
      /\ batch' \in [Txns -> SUBSET Jobs] /\ batch'[t] = batch[t] \ {j}
      /\ pc' \in [Txns -> {"idle", "popped", "locked", "launching"}]
      /\ pc'[t] = IF batch'[t] = {} THEN "idle" ELSE "launching"
      /\ \A u \in Txns \ {t} : batch'[u] = batch[u] /\ pc'[u] = pc[u]
  BY HandOverEffect DEF Launch
<1>2. /\ runs' = runs \cup {r} /\ r \in Runs
      /\ r.id = j.id /\ r.version = j.version
      /\ launches' \in [Execs -> Nat]
  BY <1>1, TxnsOfWorkers DEF Launch, IInv, TypeOK, Jobs, Runs
<1>3. UNCHANGED <<status, version, stale, lockedBy, created, queue, unsent, cancels, up,
                  popped, allowance>>
  BY DEF Launch, rows
<1>4. TypeOK'
  <2>1. \A x \in Execs : lockedBy'[x] # NoTxn => pc'[lockedBy'[x]] = "locked"
    BY <1>1, <1>2, <1>3 DEF IInv, TypeOK, Unlocked
  <2>2. \A u \in Txns : batch'[u] # {} => pc'[u] \in {"locked", "launching"}
    BY <1>1, <1>2, <1>3 DEF IInv, TypeOK
  <2>3. QED  BY <1>1, <1>2, <1>3, <2>1, <2>2 DEF IInv, TypeOK, Unlocked
<1>5. ClaimNeverConflicts'
  BY <1>1, <1>3 DEF IInv, ClaimNeverConflicts
<1>10. OneJobPerExecution' /\ AbsentIsZero'
  BY <1>1, <1>3 DEF IInv, OneJobPerExecution, AbsentIsZero
<1>6. /\ j.version <= version[j.id]
      /\ \A s \in runs : s.id = j.id => s.version # j.version
      /\ \A u \in Txns : pc[u] = "launching" => \A k \in batch[u] :
           j.id = k.id /\ j.version = k.version => u = t /\ k = j
  BY <1>1 DEF IInv, LaunchesOwnVersions, OneJobPerExecution
<1> HIDE DEF r
<1>7. RunsOwnVersions'
  BY <1>2, <1>3, <1>6 DEF IInv, RunsOwnVersions
<1>8. LaunchesOwnVersions'
  <2>1. \A u \in Txns : pc'[u] = "launching" =>
          pc[u] = "launching" /\ batch'[u] \subseteq batch[u] /\ j \notin batch'[t]
    BY <1>1
  <2>2. ASSUME NEW u \in Txns, pc'[u] = "launching", NEW k \in batch'[u]
        PROVE  k.id # j.id \/ k.version # j.version
    BY <1>6, <2>1, <2>2
  <2>3. QED  BY <1>2, <1>3, <2>1, <2>2 DEF IInv, LaunchesOwnVersions
<1>9. QED  BY <1>4, <1>5, <1>7, <1>8, <1>10 DEF IInv

LEMMA WorkflowMissingIInv ==
  ASSUME IInv, NEW t \in Txns, NEW j \in batch[t], WorkflowMissing(t, j) PROVE IInv'
<1>1. /\ pc[t] = "launching" /\ j \in Jobs
      /\ batch' \in [Txns -> SUBSET Jobs] /\ batch'[t] = batch[t] \ {j}
      /\ pc' \in [Txns -> {"idle", "popped", "locked", "launching"}]
      /\ pc'[t] = IF batch'[t] = {} THEN "idle" ELSE "launching"
      /\ \A u \in Txns \ {t} : batch'[u] = batch[u] /\ pc'[u] = pc[u]
  BY HandOverEffect DEF WorkflowMissing
<1>2. /\ allowance' \in [Faults -> Nat]
      /\ Unlocked(j.id) /\ j.id \in Execs
      /\ Write(j.id, "FAILED") \/ UNCHANGED rows
  BY <1>1, SpendType DEF WorkflowMissing, Update, IInv, Faults, Jobs
<1>3. "FAILED" \in Statuses \ {"ABSENT"}  BY DEF Statuses
<1>4. /\ status' \in [Execs -> Statuses] /\ version' \in [Execs -> Nat]
      /\ stale' \subseteq Execs
      /\ \A y \in Execs : version[y] <= version'[y]
      /\ \A y \in Execs \ {j.id} : version'[y] = version[y] /\ status'[y] = status[y]
      /\ AbsentIsZero'
  BY <1>2, <1>3, WriteRows
<1>5. UNCHANGED <<lockedBy, created, queue, unsent, cancels, up, popped, runs, launches>>
  BY DEF WorkflowMissing
<1>6. TypeOK'
  <2>1. \A x \in Execs : lockedBy'[x] # NoTxn => pc'[lockedBy'[x]] = "locked"
    BY <1>1, <1>2, <1>4, <1>5 DEF IInv, TypeOK, Unlocked
  <2>2. \A u \in Txns : batch'[u] # {} => pc'[u] \in {"locked", "launching"}
    BY <1>1, <1>2, <1>4, <1>5 DEF IInv, TypeOK
  <2>3. QED  BY <1>1, <1>2, <1>4, <1>5, <2>1, <2>2 DEF IInv, TypeOK, Unlocked
<1>7. ClaimNeverConflicts'
  <2> SUFFICES ASSUME NEW u \in Txns, pc'[u] = "locked", NEW k \in batch'[u]
               PROVE  lockedBy'[k.id] = u /\ status'[k.id] = "PENDING"
                      /\ version'[k.id] = k.version
    BY DEF ClaimNeverConflicts
  <2>1. u # t /\ pc[u] = "locked" /\ k \in batch[u] /\ k.id \in Execs
    BY <1>1 DEF IInv, TypeOK, Jobs
  <2>2. lockedBy[k.id] = u /\ status[k.id] = "PENDING" /\ version[k.id] = k.version
    BY <2>1 DEF IInv, ClaimNeverConflicts
  <2>3. k.id # j.id  BY <1>2, <2>2, NoTxnAssumption DEF Unlocked
  <2>4. QED  BY <1>4, <1>5, <2>1, <2>2, <2>3
<1>8. OneJobPerExecution'  BY <1>1 DEF IInv, OneJobPerExecution
<1>9. RunsOwnVersions'
  BY <1>4, <1>5 DEF IInv, TypeOK, RunsOwnVersions, Runs
<1>10. LaunchesOwnVersions'
  <2>1. \A u \in Txns : pc'[u] = "launching" =>
          pc[u] = "launching" /\ batch'[u] \subseteq batch[u]
    BY <1>1
  <2>2. \A u \in Txns : \A k \in batch'[u] : k.id \in Execs /\ k.version \in Nat
    BY <1>1 DEF Jobs
  <2>3. \A x \in Execs : version[x] \in Nat /\ version'[x] \in Nat
    BY <1>4 DEF IInv, TypeOK
  <2>4. ASSUME NEW u \in Txns, pc'[u] = "launching", NEW k \in batch'[u]
        PROVE  k.version <= version'[k.id]
    <3>1. k.version <= version[k.id]  BY <2>1, <2>4 DEF IInv, LaunchesOwnVersions
    <3>2. QED  BY <1>4, <2>2, <2>3, <3>1
  <2>5. QED  BY <1>5, <2>1, <2>4 DEF IInv, LaunchesOwnVersions
<1>11. QED  BY <1>4, <1>6, <1>7, <1>8, <1>9, <1>10 DEF IInv

LEMMA RecoverIInv == ASSUME IInv, NEW w \in Workers, Recover(w) PROVE IInv'
<1>1. /\ status' \in [Execs -> Statuses] /\ stale' \subseteq Execs
      /\ \A x \in Execs : \/ status'[x] = status[x]
                          \/ status[x] = "RUNNING" /\ status'[x] = "PENDING"
  BY DEF Recover, Stuck, IInv, TypeOK, Statuses
<1>2. UNCHANGED <<version, lockedBy, created, queue, unsent, cancels, up, pc, popped,
                  batch, runs, launches, allowance>>
  BY DEF Recover, worker
<1>3. TypeOK'  BY <1>1, <1>2 DEF IInv, TypeOK, Unlocked
<1>4. ClaimNeverConflicts'
  BY <1>1, <1>2 DEF IInv, TypeOK, ClaimNeverConflicts, Jobs
<1>5. QED
  BY <1>1, <1>2, <1>3, <1>4
  DEF IInv, AbsentIsZero, OneJobPerExecution, RunsOwnVersions, LaunchesOwnVersions

LEMMA AgeIInv == ASSUME IInv, NEW x \in Execs, Age(x) PROVE IInv'
<1>1. allowance' \in [Faults -> Nat]
  <2>1. CASE Spend("slow")  BY <2>1, SpendType DEF IInv, Faults
  <2>2. CASE UNCHANGED allowance  BY <2>2 DEF IInv, TypeOK
  <2>3. QED  BY <2>1, <2>2 DEF Age
<1>2. stale' \subseteq Execs  BY DEF Age, IInv, TypeOK
<1>3. UNCHANGED <<status, version, lockedBy, created, queue, unsent, cancels, up, pc,
                  popped, batch, runs, launches>>
  BY DEF Age, worker
<1>4. TypeOK'  BY <1>1, <1>2, <1>3 DEF IInv, TypeOK, Unlocked
<1>5. QED
  BY <1>3, <1>4 DEF IInv, AbsentIsZero, OneJobPerExecution, ClaimNeverConflicts,
                    RunsOwnVersions, LaunchesOwnVersions

LEMMA CrashIInv == ASSUME IInv, NEW w \in Workers, Crash(w) PROVE IInv'
<1>1. \A t \in Txns : t[1] = w <=> t \in {<<w, "poll">>, <<w, "redis">>}
  BY DEF Txns
<1>2. /\ \A t \in Txns : t[1] = w => pc'[t] = "idle" /\ batch'[t] = {}
      /\ \A t \in Txns : t[1] # w => pc'[t] = pc[t] /\ batch'[t] = batch[t]
      /\ pc' \in [Txns -> {"idle", "popped", "locked", "launching"}]
      /\ batch' \in [Txns -> SUBSET Jobs]
      /\ popped' \in [Workers -> Execs \cup {NoExec}]
      /\ up' \subseteq Workers /\ runs' \subseteq runs
      /\ lockedBy' \in [Execs -> Txns \cup {NoTxn}]
      /\ \A x \in Execs : lockedBy'[x] = IF lockedBy[x] \in {<<w, "poll">>, <<w, "redis">>}
                                         THEN NoTxn ELSE lockedBy[x]
  BY DEF Crash, IInv, TypeOK
<1>3. allowance' \in [Faults -> Nat]  BY SpendType DEF Crash, IInv, Faults
<1>4. UNCHANGED <<status, version, stale, created, queue, unsent, cancels, launches>>
  BY DEF Crash, rows
<1>5. TypeOK'
  <2>1. \A x \in Execs : lockedBy'[x] # NoTxn => pc'[lockedBy'[x]] = "locked"
    <3> SUFFICES ASSUME NEW x \in Execs, lockedBy'[x] # NoTxn
                 PROVE  pc'[lockedBy'[x]] = "locked"
      OBVIOUS
    <3>1. lockedBy'[x] = lockedBy[x] /\ lockedBy[x] \notin {<<w, "poll">>, <<w, "redis">>}
      BY <1>2
    <3>2. lockedBy[x] \in Txns /\ pc[lockedBy[x]] = "locked"
      BY <3>1 DEF IInv, TypeOK, Unlocked
    <3>3. QED  BY <1>1, <1>2, <3>1, <3>2
  <2>2. \A u \in Txns : batch'[u] # {} => pc'[u] \in {"locked", "launching"}
    BY <1>2 DEF IInv, TypeOK
  <2>3. QED  BY <1>1, <1>2, <1>3, <1>4, <2>1, <2>2 DEF IInv, TypeOK, Unlocked
<1>6. ClaimNeverConflicts'
  <2> SUFFICES ASSUME NEW u \in Txns, pc'[u] = "locked", NEW k \in batch'[u]
               PROVE  lockedBy'[k.id] = u /\ status'[k.id] = "PENDING"
                      /\ version'[k.id] = k.version
    BY DEF ClaimNeverConflicts
  <2>1. u[1] # w /\ pc[u] = "locked" /\ k \in batch[u] /\ k.id \in Execs
    BY <1>1, <1>2, <1>4 DEF IInv, TypeOK, Jobs
  <2>2. lockedBy[k.id] = u /\ status[k.id] = "PENDING" /\ version[k.id] = k.version
    BY <2>1 DEF IInv, ClaimNeverConflicts
  <2>3. QED  BY <1>1, <1>2, <1>4, <2>1, <2>2
<1>7. QED
  BY <1>2, <1>4, <1>5, <1>6
  DEF IInv, AbsentIsZero, OneJobPerExecution, RunsOwnVersions, LaunchesOwnVersions

LEMMA RestartIInv == ASSUME IInv, NEW w \in Workers, Restart(w) PROVE IInv'
<1>1. up' \subseteq Workers  BY DEF Restart, IInv, TypeOK
<1>2. UNCHANGED <<status, version, stale, lockedBy, created, queue, unsent, cancels, pc,
                  popped, batch, runs, launches, allowance>>
  BY DEF Restart, rows, worker
<1>3. TypeOK'  BY <1>1, <1>2 DEF IInv, TypeOK, Unlocked
<1>4. QED
  BY <1>2, <1>3 DEF IInv, AbsentIsZero, OneJobPerExecution, ClaimNeverConflicts,
                    RunsOwnVersions, LaunchesOwnVersions

LEMMA StutterIInv == ASSUME IInv, UNCHANGED vars PROVE IInv'
<1>1. UNCHANGED <<status, version, stale, lockedBy, created, queue, unsent, cancels, up, pc,
                  popped, batch, runs, launches, allowance>>
  BY DEF vars
<1>2. TypeOK'  BY <1>1 DEF IInv, TypeOK, Unlocked
<1>3. QED
  BY <1>1, <1>2 DEF IInv, AbsentIsZero, OneJobPerExecution, ClaimNeverConflicts,
                    RunsOwnVersions, LaunchesOwnVersions

LEMMA NextIInv == IInv /\ [Next]_vars => IInv'
<1> SUFFICES ASSUME IInv, [Next]_vars PROVE IInv'  OBVIOUS
<1>1. CASE Api
  BY <1>1, TriggerIInv, PushIInv, CancelReadIInv, CancelWriteIInv DEF Api
<1>2. ASSUME NEW w \in Workers, Loop(w) PROVE IInv'
  <2>1. CASE Poll(w) \/ Pop(w) \/ AcquireByID(w)
    BY <2>1, PollIInv, PopIInv, AcquireByIDIInv
  <2>2. ASSUME NEW k \in {"poll", "redis"}, Claim(<<w, k>>) \/ Abort(<<w, k>>) PROVE IInv'
    BY <2>2, TxnsOfWorkers, ClaimIInv, AbortIInv
  <2>3. ASSUME NEW k \in {"poll", "redis"}, NEW j \in batch[<<w, k>>],
               Launch(<<w, k>>, j) \/ WorkflowMissing(<<w, k>>, j)
        PROVE  IInv'
    BY <2>3, TxnsOfWorkers, LaunchIInv, WorkflowMissingIInv
  <2>4. QED  BY <1>2, <2>1, <2>2, <2>3 DEF Loop
<1>3. ASSUME NEW w \in Workers, Recover(w) \/ Crash(w) \/ Restart(w) PROVE IInv'
  BY <1>3, RecoverIInv, CrashIInv, RestartIInv
<1>4. ASSUME NEW x \in Execs, Age(x) PROVE IInv'  BY <1>4, AgeIInv
<1>5. ASSUME NEW r \in runs, Engine(r) PROVE IInv'  BY <1>5, EngineIInv
<1>6. CASE UNCHANGED vars  BY <1>6, StutterIInv
<1>7. QED  BY <1>1, <1>2, <1>3, <1>4, <1>5, <1>6 DEF Next

---------------------------------------------------------------------------
(* The inductive invariant holds in every reachable state.                 *)
THEOREM Invariance == Spec => []IInv
<1>1. QED  BY InitIInv, NextIInv, PTL DEF Spec

(* The tables and the loops keep their shape: a row lock always belongs to *)
(* an open transaction, so none is leaked by an error or a crash.          *)
THEOREM TypeCorrect == Spec => []TypeOK
<1>1. IInv => TypeOK  BY DEF IInv
<1>2. QED  BY <1>1, Invariance, PTL

(* The compare-and-set of a claim (repository/execution.go Update, called  *)
(* by poll and processExecutionByID) never conflicts, for any number of    *)
(* workers: SKIP LOCKED alone already makes claims exclusive.              *)
THEOREM ClaimsSucceed == Spec => []ClaimNeverConflicts
<1>1. IInv => ClaimNeverConflicts  BY DEF IInv
<1>2. QED  BY <1>1, Invariance, PTL

(* No two runs or claims of an execution ever hold the same version, and   *)
(* none holds one its row has not reached.                                 *)
THEOREM OwnersAreDistinct == Spec => []OwnersHaveDistinctVersions
<1>1. ASSUME IInv PROVE OwnersHaveDistinctVersions
  <2> SUFFICES ASSUME NEW x \in Execs, NEW o \in Owners(x), NEW p \in Owners(x)
               PROVE  (o[3] = p[3] => o = p) /\ o[3] <= version[x]
    BY DEF OwnersHaveDistinctVersions
  <2> DEFINE IsRun(q) == \E r \in runs : r.id = x /\ q = <<r.worker, "run", r.version>>
             IsClaim(q) == \E t \in Txns : /\ pc[t] = "launching"
                                           /\ \E j \in batch[t] :
                                                j.id = x /\ q = <<t[1], t[2], j.version>>
  <2>1. \A q \in Owners(x) : IsRun(q) \/ IsClaim(q)
    BY DEF Owners
  <2>2. \A q \in Owners(x) : q[3] <= version[x]
    BY <1>1, <2>1 DEF IInv, RunsOwnVersions, LaunchesOwnVersions
  <2>3. ASSUME o[3] = p[3] PROVE o = p
    <3>1. CASE IsRun(o) /\ IsRun(p)
      BY <1>1, <2>3, <3>1 DEF IInv, RunsOwnVersions
    <3>2. CASE IsRun(o) /\ IsClaim(p)
      BY <1>1, <2>3, <3>2 DEF IInv, LaunchesOwnVersions
    <3>3. CASE IsClaim(o) /\ IsRun(p)
      BY <1>1, <2>3, <3>3 DEF IInv, LaunchesOwnVersions
    <3>4. CASE IsClaim(o) /\ IsClaim(p)
      BY <1>1, <2>3, <3>4 DEF IInv, LaunchesOwnVersions
    <3>5. QED  BY <2>1, <3>1, <3>2, <3>3, <3>4
  <2>4. QED  BY <2>2, <2>3
<1>2. QED  BY <1>1, Invariance, PTL

---------------------------------------------------------------------------
(* A token, an id with a version, is fresh if the row has not been written *)
(* to a final status at that version.  The cancels and the claims on their *)
(* way to an engine hold only fresh tokens.                                *)
Fresh(j) ==
  /\ j.version <= version[j.id]
  /\ version[j.id] = j.version => status[j.id] \in {"PENDING", "RUNNING"}

Outstanding == cancels \cup UNION {batch[t] : t \in {u \in Txns : pc[u] = "launching"}}

TokensFresh == \A j \in Outstanding : Fresh(j)

LEMMA OutstandingJobs == ASSUME TypeOK PROVE Outstanding \subseteq Jobs
BY DEF TypeOK, Outstanding

(* Without a new version a step can only make the row PENDING.             *)
Advances(x) ==
  \/ version[x] < version'[x]
  \/ version'[x] = version[x] /\ status'[x] \in {status[x], "PENDING"}

LEMMA WriteAdvances ==
  ASSUME IInv, NEW x \in Execs, NEW st, Write(x, st) \/ UNCHANGED rows
  PROVE  \A y \in Execs : Advances(y)
<1>1. CASE Write(x, st)  BY <1>1 DEF Write, Advances, IInv, TypeOK
<1>2. CASE UNCHANGED rows  BY <1>2 DEF rows, Advances
<1>3. QED  BY <1>1, <1>2

(* What a step of each kind adds to the tokens, and does to the rows.      *)
LEMMA TokenStep ==
  ASSUME IInv, IInv', Next
  PROVE  /\ \A x \in Execs : Advances(x)
         /\ \A j \in Outstanding' : \/ j \in Outstanding
                                    \/ version'[j.id] = j.version /\ status'[j.id] = "RUNNING"
<1> DEFINE Goal == /\ \A x \in Execs : Advances(x)
                   /\ \A j \in Outstanding' :
                        \/ j \in Outstanding
                        \/ version'[j.id] = j.version /\ status'[j.id] = "RUNNING"
<1>1. ASSUME NEW x \in Execs, Trigger(x) PROVE Goal
  <2>1. \A y \in Execs : Advances(y)
    BY <1>1, DispatchAssumption DEF Trigger, Advances, IInv, TypeOK, AbsentIsZero
  <2>2. Outstanding' = Outstanding  BY <1>1 DEF Trigger, Outstanding, worker
  <2>3. QED  BY <2>1, <2>2
<1>2. ASSUME NEW x \in Execs, Push(x) PROVE Goal
  BY <1>2 DEF Push, Outstanding, Advances, worker, rows
<1>3. ASSUME NEW x \in Execs, CancelRead(x) PROVE Goal
  <2>1. \A y \in Execs : Advances(y)  BY <1>3 DEF CancelRead, Advances, rows
  <2>2. \A j \in Outstanding' : j \in Outstanding \/ j = [id |-> x, version |-> version[x]]
    BY <1>3 DEF CancelRead, Outstanding, worker
  <2>3. version'[x] = version[x] /\ status'[x] = "RUNNING"
    BY <1>3 DEF CancelRead, rows
  <2>4. QED  BY <2>1, <2>2, <2>3
<1>4. ASSUME NEW c \in cancels, CancelWrite(c) PROVE Goal
  <2>1. \A y \in Execs : Advances(y)
    BY <1>4, WriteAdvances DEF CancelWrite, Update, IInv, TypeOK, Jobs
  <2>2. Outstanding' \subseteq Outstanding
    BY <1>4 DEF CancelWrite, Outstanding, worker
  <2>3. QED  BY <2>1, <2>2
<1>5. ASSUME NEW w \in Workers, Poll(w) \/ Pop(w) \/ AcquireByID(w) PROVE Goal
  <2>1. \A y \in Execs : Advances(y)
    BY <1>5 DEF Poll, Pop, AcquireByID, Advances, rows
  <2>2. cancels' = cancels  BY <1>5 DEF Poll, Pop, AcquireByID
  <2>3. \A t \in Txns : pc'[t] = "launching" => pc[t] = "launching" /\ batch'[t] = batch[t]
    BY <1>5 DEF Poll, Pop, AcquireByID, Lock, IInv, TypeOK
  <2>4. QED  BY <2>1, <2>2, <2>3 DEF Outstanding
<1>6. ASSUME NEW t \in Txns, Claim(t) PROVE Goal
  <2>1. /\ \A x \in Execs :
             \/ /\ x \in MatchingIds(t)
                /\ status'[x] = "RUNNING" /\ version'[x] = version[x] + 1
             \/ /\ x \notin MatchingIds(t)
                /\ status'[x] = status[x] /\ version'[x] = version[x]
        /\ \A k \in batch'[t] :
             k.id \in Execs /\ k.id \in MatchingIds(t) /\ k.version = version'[k.id]
        /\ \A u \in Txns \ {t} : batch'[u] = batch[u] /\ pc'[u] = pc[u]
    BY <1>6, ClaimEffect DEF Jobs
  <2>2. \A x \in Execs : version[x] \in Nat  BY DEF IInv, TypeOK
  <2>3. \A x \in Execs : Advances(x)  BY <2>1, <2>2 DEF Advances
  <2>4. cancels' = cancels  BY <1>6 DEF Claim
  <2>5. \A j \in Outstanding' : j \in Outstanding \/ j \in batch'[t]
    BY <2>1, <2>4 DEF Outstanding
  <2>6. \A k \in batch'[t] : version'[k.id] = k.version /\ status'[k.id] = "RUNNING"
    BY <2>1
  <2>7. QED  BY <2>3, <2>5, <2>6
<1>7. ASSUME NEW t \in Txns, Abort(t) PROVE Goal
  <2>1. \A y \in Execs : Advances(y)  BY <1>7 DEF Abort, Advances, rows
  <2>2. cancels' = cancels /\ \A u \in Txns : pc'[u] = "launching" =>
          pc[u] = "launching" /\ batch'[u] = batch[u]
    BY <1>7 DEF Abort, IInv, TypeOK
  <2>3. QED  BY <2>1, <2>2 DEF Outstanding
<1>8. ASSUME NEW t \in Txns, NEW j \in batch[t], Launch(t, j) \/ WorkflowMissing(t, j)
      PROVE  Goal
  <2>1. HandOver(t, j)  BY <1>8 DEF Launch, WorkflowMissing
  <2>2. \A u \in Txns : pc'[u] = "launching" =>
          pc[u] = "launching" /\ batch'[u] \subseteq batch[u]
    BY <2>1, HandOverEffect
  <2>3. cancels' = cancels  BY <1>8 DEF Launch, WorkflowMissing
  <2>4. j.id \in Execs  BY DEF IInv, TypeOK, Jobs
  <2>5. Write(j.id, "FAILED") \/ UNCHANGED rows
    BY <1>8 DEF Launch, WorkflowMissing, Update
  <2>6. \A y \in Execs : Advances(y)  BY <2>4, <2>5, WriteAdvances
  <2>7. QED  BY <2>2, <2>3, <2>6 DEF Outstanding
<1>9. ASSUME NEW w \in Workers, Recover(w) \/ Restart(w) PROVE Goal
  BY <1>9 DEF Recover, Restart, Outstanding, Advances, worker, rows, IInv, TypeOK
<1>10. ASSUME NEW w \in Workers, Crash(w) PROVE Goal
  <2>1. \A y \in Execs : Advances(y)  BY <1>10 DEF Crash, Advances, rows
  <2>2. cancels' = cancels /\ \A u \in Txns : pc'[u] = "launching" =>
          pc[u] = "launching" /\ batch'[u] = batch[u]
    BY <1>10 DEF Crash, IInv, TypeOK
  <2>3. QED  BY <2>1, <2>2 DEF Outstanding
<1>11. ASSUME NEW x \in Execs, Age(x) PROVE Goal
  BY <1>11 DEF Age, Outstanding, Advances, worker
<1>12. ASSUME NEW r \in runs, Engine(r) PROVE Goal
  <2>1. r.id \in Execs  BY DEF IInv, TypeOK, Runs
  <2>2. \E st \in Statuses : Write(r.id, st) \/ UNCHANGED rows
    BY <1>12 DEF Engine, EngineFinish, EngineRefused, EngineInterim, FinalStatuses,
                 InterimStatuses, Statuses
  <2>3. \A y \in Execs : Advances(y)  BY <2>1, <2>2, WriteAdvances
  <2>4. UNCHANGED <<cancels, worker>>
    BY <1>12 DEF Engine, EngineFinish, EngineRefused, EngineInterim
  <2>5. QED  BY <2>3, <2>4 DEF Outstanding, worker
<1> HIDE DEF Goal
<1>13. ASSUME NEW w \in Workers, Loop(w) PROVE Goal
  <2>1. ASSUME NEW k \in {"poll", "redis"}, Claim(<<w, k>>) \/ Abort(<<w, k>>) PROVE Goal
    BY <2>1, <1>6, <1>7, TxnsOfWorkers
  <2>2. ASSUME NEW k \in {"poll", "redis"}, NEW j \in batch[<<w, k>>],
               Launch(<<w, k>>, j) \/ WorkflowMissing(<<w, k>>, j)
        PROVE  Goal
    BY <2>2, <1>8, TxnsOfWorkers
  <2>3. QED  BY <1>5, <1>13, <2>1, <2>2 DEF Loop
<1>14. ASSUME Api PROVE Goal
  BY <1>1, <1>2, <1>3, <1>4, <1>14 DEF Api
<1>15. Goal  BY <1>9, <1>10, <1>11, <1>12, <1>13, <1>14 DEF Next
<1>16. QED  BY <1>15 DEF Goal

LEMMA TokensStayFresh == IInv /\ IInv' /\ TokensFresh /\ [Next]_vars => TokensFresh'
<1> SUFFICES ASSUME IInv, IInv', TokensFresh, [Next]_vars, NEW j \in Outstanding'
             PROVE  Fresh(j)'
  BY DEF TokensFresh
<1>1. CASE Next
  <2>1. j \in Jobs  BY OutstandingJobs DEF IInv, Outstanding, TypeOK
  <2>2. j.id \in Execs /\ j.version \in Nat  BY <2>1 DEF Jobs
  <2>3. version[j.id] \in Nat /\ version'[j.id] \in Nat
    BY <2>2 DEF IInv, TypeOK
  <2>4. CASE j \in Outstanding
    BY <1>1, <2>2, <2>3, <2>4, TokenStep DEF TokensFresh, Fresh, Advances
  <2>5. CASE version'[j.id] = j.version /\ status'[j.id] = "RUNNING"
    BY <2>3, <2>5 DEF Fresh
  <2>6. QED  BY <1>1, <2>4, <2>5, TokenStep
<1>2. CASE UNCHANGED vars  BY <1>2 DEF vars, Outstanding, TokensFresh, Fresh
<1>3. QED  BY <1>1, <1>2

(* Only a live run disturbs a finished execution.  A claim and the sweep   *)
(* take rows that are PENDING and RUNNING, and a late cancel or the FAILED *)
(* mark of a missing workflow carries a version from before the end, so    *)
(* that its compare-and-set is refused.                                    *)
THEOREM FinishedStaysFinished == Spec => OnlyRunsReviveFinished
<1>1. Init => TokensFresh
  BY DEF Init, TokensFresh, Outstanding
<1>2. IInv /\ TokensFresh /\ [Next]_vars =>
        [\A x \in Execs : status[x] \in Terminal /\ status'[x] # status[x]
            => \E r \in runs : r.id = x]_vars
  <2> SUFFICES ASSUME IInv, TokensFresh, Next, NEW x \in Execs,
                      status[x] \in Terminal, status'[x] # status[x],
                      ~ \E r \in runs : r.id = x
               PROVE  FALSE
    BY DEF vars
  <2>1. status[x] \notin {"ABSENT", "PENDING", "RUNNING"}  BY DEF Terminal
  <2>2. ~ \E y \in Execs : Trigger(y) \/ Push(y) \/ CancelRead(y) \/ Age(y)
    BY <2>1 DEF Trigger, Push, CancelRead, Age, rows, IInv, TypeOK
  <2>3. ~ \E c \in cancels : CancelWrite(c)
    <3> SUFFICES ASSUME NEW c \in cancels, CancelWrite(c) PROVE FALSE  OBVIOUS
    <3>1. Fresh(c) /\ c.id \in Execs
      BY DEF TokensFresh, Outstanding, IInv, TypeOK, Jobs
    <3>2. c.id = x /\ version[x] = c.version
      BY DEF CancelWrite, Update, Write, rows, IInv, TypeOK
    <3>3. QED  BY <2>1, <3>1, <3>2 DEF Fresh
  <2>4. ~ \E w \in Workers : \/ Poll(w) \/ Pop(w) \/ AcquireByID(w)
                             \/ Recover(w) \/ Crash(w) \/ Restart(w)
    BY <2>1 DEF Poll, Pop, AcquireByID, Recover, Crash, Restart, Stuck, rows
  <2>5. ~ \E t \in Txns : Claim(t) \/ Abort(t)
    <3> SUFFICES ASSUME NEW t \in Txns, Claim(t) \/ Abort(t) PROVE FALSE  OBVIOUS
    <3>1. CASE Claim(t)
      <4>1. status'[x] = status[x] \/ status[x] = "PENDING"  BY <3>1, ClaimEffect
      <4>2. QED  BY <2>1, <4>1
    <3>2. CASE Abort(t)  BY <3>2 DEF Abort, rows
    <3>3. QED  BY <3>1, <3>2
  <2>6. ~ \E t \in Txns : \E j \in batch[t] : Launch(t, j) \/ WorkflowMissing(t, j)
    <3> SUFFICES ASSUME NEW t \in Txns, NEW j \in batch[t],
                        Launch(t, j) \/ WorkflowMissing(t, j)
                 PROVE  FALSE
      OBVIOUS
    <3>1. WorkflowMissing(t, j)  BY DEF Launch, rows
    <3>2. pc[t] = "launching"  BY <3>1 DEF WorkflowMissing, HandOver
    <3>3. Fresh(j) /\ j.id \in Execs
      BY <3>2 DEF TokensFresh, Outstanding, IInv, TypeOK, Jobs
    <3>4. j.id = x /\ version[x] = j.version
      BY <3>1, <3>3 DEF WorkflowMissing, Update, Write, rows, IInv, TypeOK
    <3>5. QED  BY <2>1, <3>3, <3>4 DEF Fresh
  <2>7. ~ \E r \in runs : Engine(r)
    <3> SUFFICES ASSUME NEW r \in runs, Engine(r) PROVE FALSE  OBVIOUS
    <3>1. \E st : Write(r.id, st) \/ UNCHANGED rows
      BY DEF Engine, EngineFinish, EngineRefused, EngineInterim
    <3>2. r.id # x  OBVIOUS
    <3>3. status'[x] = status[x]  BY <3>1, <3>2 DEF Write, rows, IInv, TypeOK
    <3>4. QED  BY <3>3
  <2>8. QED
    BY <2>2, <2>3, <2>4, <2>5, <2>6, <2>7, TxnsOfWorkers DEF Next, Api, Loop
<1>3. QED
  BY <1>1, <1>2, Invariance, TokensStayFresh, PTL DEF Spec, OnlyRunsReviveFinished

---------------------------------------------------------------------------
(* The refinement.  A step changes the permits through two things only:    *)
(* which rows are PENDING, and which loops are launching which execution.  *)
Launchers(x) == {t \in Txns : Launching(t, x)}

LEMMA FiniteLaunchers ==
  \A x : IsFiniteSet(Launchers(x)) /\ Cardinality(Launchers(x)) \in Nat
<1>1. IsFiniteSet({"poll", "redis"})
  <2>1. IsFiniteSet({"poll"}) /\ {"poll", "redis"} = {"poll"} \cup {"redis"}
    BY FS_Singleton
  <2>2. QED  BY <2>1, FS_AddElement
<1>2. IsFiniteSet(Txns)  BY <1>1, FS_Product, DispatchAssumption DEF Txns
<1>3. \A x : Launchers(x) \subseteq Txns  BY DEF Launchers
<1>4. QED  BY <1>2, <1>3, FS_Subset, FS_CardinalityType

LEMMA TakenValue ==
  /\ Taken \in [Execs -> Nat]
  /\ \A x \in Execs : Taken[x] = Cardinality(Launchers(x))
BY FiniteLaunchers DEF Taken, Launchers

LEMMA TakenNext ==
  /\ Taken' \in [Execs -> Nat]
  /\ \A x \in Execs :
       Cardinality(Launchers(x)') \in Nat /\ Taken'[x] = Cardinality(Launchers(x)')
<1>1. (\A x : IsFiniteSet(Launchers(x)) /\ Cardinality(Launchers(x)) \in Nat)'
  BY FiniteLaunchers, PTL
<1>2. (/\ Taken \in [Execs -> Nat]
       /\ \A x \in Execs : Taken[x] = Cardinality(Launchers(x)))'
  BY TakenValue, PTL
<1>3. QED  BY <1>1, <1>2

LEMMA SameTaken ==
  ASSUME \A x \in Execs : Launchers(x)' = Launchers(x)
  PROVE  Taken' = Taken
<1>1. \A x \in Execs : Taken'[x] = Taken[x]  BY TakenValue, TakenNext
<1>2. QED  BY <1>1, TakenValue, TakenNext

(* No row becomes PENDING and nobody claims: permits are lost at most.     *)
LEMMA FewerLaunchers ==
  ASSUME \A x \in Execs : status'[x] = "PENDING" => status[x] = "PENDING",
         \A x \in Execs : Launchers(x)' \subseteq Launchers(x),
         UNCHANGED launches
  PROVE  Abstract!Lose
<1>1. \A x \in Execs : Cardinality(Launchers(x)') <= Cardinality(Launchers(x))
  BY FiniteLaunchers, FS_Subset
<1>2. \A x \in Execs : Taken'[x] <= Taken[x]
  BY <1>1, TakenValue, TakenNext, FiniteLaunchers
<1>3. Waiting' \in SUBSET Waiting  BY DEF Waiting
<1>4. QED  BY <1>2, <1>3, TakenNext DEF Abstract!Lose

(* Rows become PENDING and the launchers stay.                             *)
LEMMA MorePending ==
  ASSUME \A x \in Execs : status[x] = "PENDING" => status'[x] = "PENDING",
         \A x \in Execs : Launchers(x)' = Launchers(x),
         UNCHANGED launches
  PROVE  Abstract!Grant
<1>1. Taken' = Taken  BY SameTaken
<1>2. Waiting \subseteq Waiting' /\ Waiting' \in SUBSET Execs  BY DEF Waiting
<1>3. QED  BY <1>1, <1>2 DEF Abstract!Grant

(* A claim takes the permits of the rows it has locked: that they are      *)
(* PENDING, and all of them match, is what ClaimNeverConflicts says.       *)
LEMMA ClaimTakes ==
  ASSUME IInv, NEW t \in Txns, Claim(t)
  PROVE  MatchingIds(t) \in SUBSET Execs /\ Abstract!Take(MatchingIds(t))
<1>1. /\ \A x \in Execs :
           \/ /\ x \in MatchingIds(t) /\ status[x] = "PENDING" /\ status'[x] = "RUNNING"
           \/ x \notin MatchingIds(t) /\ status'[x] = status[x]
      /\ \A k \in batch'[t] : k.id \in MatchingIds(t)
      /\ \A x \in MatchingIds(t) : \E k \in batch'[t] : k.id = x
      /\ pc'[t] = IF batch'[t] = {} THEN "idle" ELSE "launching"
      /\ pc[t] = "locked"
      /\ \A u \in Txns \ {t} : batch'[u] = batch[u] /\ pc'[u] = pc[u]
  BY ClaimEffect
<1>2. MatchingIds(t) \subseteq Execs
  BY DEF MatchingIds, Matching, IInv, TypeOK, Jobs
<1>3. ASSUME NEW x \in Execs
      PROVE  Taken'[x] = IF x \in MatchingIds(t) THEN Taken[x] + 1 ELSE Taken[x]
  <2>1. CASE x \in MatchingIds(t)
    <3>1. Launchers(x)' = Launchers(x) \cup {t} /\ t \notin Launchers(x)
      BY <1>1, <2>1 DEF Launchers, Launching
    <3>2. Cardinality(Launchers(x)') = Cardinality(Launchers(x)) + 1
      BY <3>1, FiniteLaunchers, FS_AddElement
    <3>3. QED  BY <2>1, <3>2, TakenValue, TakenNext, FiniteLaunchers
  <2>2. CASE x \notin MatchingIds(t)
    <3>1. Launchers(x)' = Launchers(x)
      BY <1>1, <2>2 DEF Launchers, Launching
    <3>2. QED  BY <2>2, <3>1, TakenValue, TakenNext
  <2>3. QED  BY <2>1, <2>2
<1>4. Taken' = [x \in Execs |-> IF x \in MatchingIds(t) THEN Taken[x] + 1 ELSE Taken[x]]
  BY <1>3, TakenNext
<1>5. MatchingIds(t) \subseteq Waiting /\ Waiting' = Waiting \ MatchingIds(t)
  BY <1>1, <1>2 DEF Waiting
<1>6. UNCHANGED launches  BY DEF Claim
<1>7. QED  BY <1>2, <1>4, <1>5, <1>6 DEF Abstract!Take

(* A launch uses the permit of its launcher up.                            *)
LEMMA LaunchDispatches ==
  ASSUME IInv, NEW t \in Txns, NEW j \in batch[t], Launch(t, j)
  PROVE  j.id \in Execs /\ Abstract!Dispatch(j.id)
<1>1. /\ pc[t] = "launching" /\ j \in Jobs /\ batch'[t] = batch[t] \ {j}
      /\ pc'[t] = IF batch'[t] = {} THEN "idle" ELSE "launching"
      /\ \A u \in Txns \ {t} : batch'[u] = batch[u] /\ pc'[u] = pc[u]
  BY HandOverEffect DEF Launch
<1>2. j.id \in Execs /\ \A k \in batch[t] : k.id = j.id => k = j
  BY <1>1 DEF IInv, OneJobPerExecution, Jobs
<1>3. Waiting' = Waiting  BY DEF Launch, rows, Waiting
<1>4. t \in Launchers(j.id) /\ Launchers(j.id)' = Launchers(j.id) \ {t}
  BY <1>1, <1>2 DEF Launchers, Launching
<1>5. Cardinality(Launchers(j.id)') = Cardinality(Launchers(j.id)) - 1
      /\ Cardinality(Launchers(j.id)) > 0
  <2>1. Launchers(j.id) # {}  BY <1>4
  <2>2. Cardinality(Launchers(j.id)) # 0  BY <2>1, FiniteLaunchers, FS_EmptySet
  <2>3. Cardinality(Launchers(j.id) \ {t}) = Cardinality(Launchers(j.id)) - 1
    BY <1>4, FiniteLaunchers, FS_RemoveElement
  <2>4. QED  BY <1>4, <2>2, <2>3, FiniteLaunchers
<1>6. Taken[j.id] > 0 /\ Taken'[j.id] = Taken[j.id] - 1
  BY <1>2, <1>5, TakenValue, TakenNext, FiniteLaunchers
<1>7. ASSUME NEW x \in Execs, x # j.id PROVE Taken'[x] = Taken[x]
  <2>1. Launchers(x)' = Launchers(x)
    BY <1>1, <1>7 DEF Launchers, Launching
  <2>2. QED  BY <2>1, TakenValue, TakenNext
<1>8. Taken' = [Taken EXCEPT ![j.id] = @ - 1]
  BY <1>2, <1>6, <1>7, TakenValue, TakenNext
<1>9. launches' = [launches EXCEPT ![j.id] = @ + 1]  BY DEF Launch
<1>10. QED  BY <1>2, <1>3, <1>6, <1>8, <1>9 DEF Abstract!Dispatch

LEMMA StepRefines ==
  ASSUME IInv, Next PROVE Abstract!Next \/ UNCHANGED <<Waiting, Taken, launches>>
<1> DEFINE Goal == Abstract!Next \/ UNCHANGED <<Waiting, Taken, launches>>
<1>1. ASSUME Abstract!Lose \/ Abstract!Grant PROVE Goal  BY <1>1 DEF Abstract!Next
<1>2. ASSUME NEW x \in Execs, Trigger(x) PROVE Goal
  <2>1. \A y \in Execs : status[y] = "PENDING" => status'[y] = "PENDING"
    BY <1>2 DEF Trigger, IInv, TypeOK
  <2>2. UNCHANGED launches /\ \A y \in Execs : Launchers(y)' = Launchers(y)
    BY <1>2 DEF Trigger, worker, Launchers, Launching
  <2>3. QED  BY <1>1, <2>1, <2>2, MorePending
<1>3. ASSUME NEW x \in Execs, Push(x) \/ CancelRead(x) \/ Age(x) PROVE Goal
  BY <1>1, <1>3, MorePending
  DEF Push, CancelRead, Age, rows, worker, Launchers, Launching
<1>4. ASSUME NEW x \in Execs, NEW st \in Statuses \ {"PENDING"},
             Write(x, st) \/ UNCHANGED rows, UNCHANGED <<worker, launches>>
      PROVE  Goal
  <2>1. \A y \in Execs : status'[y] = "PENDING" => status[y] = "PENDING"
    BY <1>4 DEF Write, rows, IInv, TypeOK
  <2>2. \A y \in Execs : Launchers(y)' \subseteq Launchers(y)
    BY <1>4 DEF worker, Launchers, Launching
  <2>3. QED  BY <1>1, <1>4, <2>1, <2>2, FewerLaunchers
<1>5. ASSUME NEW c \in cancels, CancelWrite(c) PROVE Goal
  BY <1>4, <1>5 DEF CancelWrite, Update, IInv, TypeOK, Jobs, Statuses
<1>6. ASSUME NEW w \in Workers, Poll(w) \/ Pop(w) \/ AcquireByID(w) PROVE Goal
  <2>1. UNCHANGED <<status, launches>>  BY <1>6 DEF Poll, Pop, AcquireByID, rows
  <2>2. \A t \in Txns : \/ pc'[t] = pc[t] /\ batch'[t] = batch[t]
                        \/ pc'[t] # "launching" /\ pc[t] # "launching"
    BY <1>6 DEF Poll, Pop, AcquireByID, Lock, IInv, TypeOK
  <2>3. \A y \in Execs : Launchers(y)' = Launchers(y)
    BY <2>2 DEF Launchers, Launching
  <2>4. QED  BY <1>1, <2>1, <2>3, MorePending
<1>7. ASSUME NEW t \in Txns, Claim(t) PROVE Goal  BY <1>7, ClaimTakes DEF Abstract!Next
<1>8. ASSUME NEW t \in Txns, Abort(t) PROVE Goal
  <2>1. UNCHANGED <<status, launches>>  BY <1>8 DEF Abort, rows
  <2>2. \A u \in Txns : \/ pc'[u] = pc[u] /\ batch'[u] = batch[u]
                        \/ pc'[u] # "launching" /\ pc[u] # "launching"
    BY <1>8 DEF Abort, IInv, TypeOK
  <2>3. \A y \in Execs : Launchers(y)' = Launchers(y)
    BY <2>2 DEF Launchers, Launching
  <2>4. QED  BY <1>1, <2>1, <2>3, MorePending
<1>9. ASSUME NEW t \in Txns, NEW j \in batch[t], Launch(t, j) PROVE Goal
  BY <1>9, LaunchDispatches DEF Abstract!Next
<1>10. ASSUME NEW t \in Txns, NEW j \in batch[t], WorkflowMissing(t, j) PROVE Goal
  <2>1. \A u \in Txns : pc'[u] = "launching" =>
          pc[u] = "launching" /\ batch'[u] \subseteq batch[u]
    BY <1>10, HandOverEffect DEF WorkflowMissing
  <2>2. \A y \in Execs : Launchers(y)' \subseteq Launchers(y)
    BY <2>1 DEF Launchers, Launching
  <2>3. \A y \in Execs : status'[y] = "PENDING" => status[y] = "PENDING"
    BY <1>10 DEF WorkflowMissing, Update, Write, rows, IInv, TypeOK
  <2>4. UNCHANGED launches  BY <1>10 DEF WorkflowMissing
  <2>5. QED  BY <1>1, <2>2, <2>3, <2>4, FewerLaunchers
<1>11. ASSUME NEW w \in Workers, Recover(w) PROVE Goal
  <2>1. \A y \in Execs : status[y] = "PENDING" => status'[y] = "PENDING"
    BY <1>11 DEF Recover, IInv, TypeOK
  <2>2. UNCHANGED launches /\ \A y \in Execs : Launchers(y)' = Launchers(y)
    BY <1>11 DEF Recover, worker, Launchers, Launching
  <2>3. QED  BY <1>1, <2>1, <2>2, MorePending
<1>12. ASSUME NEW w \in Workers, Crash(w) PROVE Goal
  <2>1. \A u \in Txns : pc'[u] = "launching" =>
          pc[u] = "launching" /\ batch'[u] = batch[u]
    BY <1>12 DEF Crash, IInv, TypeOK
  <2>2. \A y \in Execs : Launchers(y)' \subseteq Launchers(y)
    BY <2>1 DEF Launchers, Launching
  <2>3. UNCHANGED <<status, launches>>  BY <1>12 DEF Crash, rows
  <2>4. QED  BY <1>1, <2>2, <2>3, FewerLaunchers
<1>13. ASSUME NEW w \in Workers, Restart(w) PROVE Goal
  BY <1>1, <1>13, MorePending DEF Restart, rows, worker, Launchers, Launching
<1>14. ASSUME NEW r \in runs, Engine(r) PROVE Goal
  <2>1. r.id \in Execs  BY DEF IInv, TypeOK, Runs
  <2>2. /\ \E st \in Statuses \ {"PENDING"} : Write(r.id, st) \/ UNCHANGED rows
        /\ UNCHANGED <<worker, launches>>
    BY <1>14 DEF Engine, EngineFinish, EngineRefused, EngineInterim, FinalStatuses,
                 InterimStatuses, Statuses
  <2>3. QED  BY <1>4, <2>1, <2>2
<1> HIDE DEF Goal
<1>15. ASSUME NEW w \in Workers, Loop(w) PROVE Goal
  <2>1. ASSUME NEW k \in {"poll", "redis"}, Claim(<<w, k>>) \/ Abort(<<w, k>>) PROVE Goal
    BY <2>1, <1>7, <1>8, TxnsOfWorkers
  <2>2. ASSUME NEW k \in {"poll", "redis"}, NEW j \in batch[<<w, k>>],
               Launch(<<w, k>>, j) \/ WorkflowMissing(<<w, k>>, j)
        PROVE  Goal
    BY <2>2, <1>9, <1>10, TxnsOfWorkers
  <2>3. QED  BY <1>6, <1>15, <2>1, <2>2 DEF Loop
<1>16. ASSUME Api PROVE Goal  BY <1>2, <1>3, <1>5, <1>16 DEF Api
<1>17. Goal  BY <1>3, <1>11, <1>12, <1>13, <1>14, <1>15, <1>16 DEF Next
<1>18. QED  BY <1>17 DEF Goal

(* Each stay of an execution in PENDING feeds at most one engine: the two  *)
(* loops of every worker, the API and the sweep together implement         *)
(* DispatchPermits.                                                        *)
THEOREM DispatcherRefines == Spec => EachPermitDispatchesOnce
<1>1. Init => Abstract!Init
  <2> SUFFICES ASSUME Init PROVE Abstract!Init  OBVIOUS
  <2>1. \A x \in Execs : status[x] # "PENDING" /\ Launchers(x) = {}
    BY DEF Init, Launchers, Launching
  <2>2. \A x \in Execs : Taken[x] = 0  BY <2>1, TakenValue, FS_EmptySet
  <2>3. Waiting = {}  BY <2>1 DEF Waiting
  <2>4. QED  BY <2>2, <2>3, TakenValue DEF Init, Abstract!Init
<1>2. IInv /\ [Next]_vars => [Abstract!Next]_<<Waiting, Taken, launches>>
  <2>1. CASE UNCHANGED vars
    BY <2>1 DEF vars, Waiting, Taken, Launching
  <2>2. QED  BY <2>1, StepRefines
<1>3. QED
  BY <1>1, <1>2, Invariance, PTL DEF Spec, EachPermitDispatchesOnce, Abstract!Spec

---------------------------------------------------------------------------
(* The contract of the executions.                                         *)

Running(x) == \E r \in runs : r.id = x

LEMMA OwnedIs ==
  /\ \A x \in Execs : x \in Owned <=> Running(x) \/ Launchers(x) # {}
  /\ \A x \in Execs : x \in Owned' <=> Running(x)' \/ Launchers(x)' # {}
  /\ Owned \subseteq Execs /\ Owned' \subseteq Execs
BY DEF Owned, InHand, Running, Launchers

LEMMA OwnedSame ==
  ASSUME \A x \in Execs : Running(x)' <=> Running(x),
         \A x \in Execs : Launchers(x)' = Launchers(x)
  PROVE  Owned' = Owned
BY OwnedIs

(* An owner of x leaves.                                                   *)
LEMMA OwnedLess ==
  ASSUME NEW x \in Execs,
         \A y \in Execs \ {x} : /\ Running(y)' <=> Running(y)
                                /\ Launchers(y)' = Launchers(y),
         Running(x)' => Running(x), Launchers(x)' \subseteq Launchers(x)
  PROVE  Owned' \in {Owned, Owned \ {x}}
<1>1. \A y \in Execs \ {x} : y \in Owned' <=> y \in Owned  BY OwnedIs
<1>2. x \in Owned' => x \in Owned  BY OwnedIs
<1>3. CASE x \in Owned'
  <2>1. Owned' = Owned  BY <1>1, <1>2, <1>3, OwnedIs
  <2>2. QED  BY <2>1
<1>4. CASE x \notin Owned'
  <2>1. Owned' = Owned \ {x}  BY <1>1, <1>4, OwnedIs
  <2>2. QED  BY <2>1
<1>5. QED  BY <1>3, <1>4

LEMMA WriteIsRowEdit ==
  ASSUME IInv, NEW x \in Execs, NEW st, Write(x, st)
  PROVE  Rows!SetStatus({x}, st) /\ Rows!CountUp({x})
BY DEF Write, Rows!SetStatus, Rows!CountUp, IInv, TypeOK

(* A claim owns what it has claimed.                                       *)
LEMMA ClaimOwns ==
  ASSUME IInv, NEW t \in Txns, Claim(t)
  PROVE  MatchingIds(t) \in SUBSET Execs /\ Rows!Claim(MatchingIds(t))
<1>1. /\ \A x \in Execs :
           \/ /\ x \in MatchingIds(t) /\ status[x] = "PENDING"
              /\ status'[x] = "RUNNING" /\ version'[x] = version[x] + 1
           \/ /\ x \notin MatchingIds(t)
              /\ status'[x] = status[x] /\ version'[x] = version[x]
      /\ \A k \in batch'[t] : k.id \in MatchingIds(t)
      /\ \A x \in MatchingIds(t) : \E k \in batch'[t] : k.id = x
      /\ pc'[t] = IF batch'[t] = {} THEN "idle" ELSE "launching"
      /\ pc[t] = "locked"
      /\ \A u \in Txns \ {t} : batch'[u] = batch[u] /\ pc'[u] = pc[u]
  BY ClaimEffect
<1>2. MatchingIds(t) \subseteq Execs
  BY DEF MatchingIds, Matching, IInv, TypeOK, Jobs
<1>3. Rows!SetStatus(MatchingIds(t), "RUNNING") /\ Rows!CountUp(MatchingIds(t))
  BY <1>1 DEF Claim, Rows!SetStatus, Rows!CountUp
<1>4. ASSUME NEW x \in Execs
      PROVE  x \in Owned' <=> x \in Owned \/ x \in MatchingIds(t)
  <2>1. Running(x)' <=> Running(x)  BY DEF Claim, Running
  <2>2. CASE x \in MatchingIds(t)
    <3>1. t \in Launchers(x)'  BY <1>1, <2>2 DEF Launchers, Launching
    <3>2. QED  BY <2>2, <3>1, OwnedIs
  <2>3. CASE x \notin MatchingIds(t)
    <3>1. Launchers(x)' = Launchers(x)  BY <1>1, <2>3 DEF Launchers, Launching
    <3>2. QED  BY <2>1, <2>3, <3>1, OwnedIs
  <2>4. QED  BY <2>2, <2>3
<1>5. Owned' = Owned \cup MatchingIds(t)  BY <1>2, <1>4, OwnedIs
<1>6. QED  BY <1>1, <1>2, <1>3, <1>5 DEF Rows!Claim

(* A run writes its row, or leaves it.                                     *)
LEMMA EngineMarks == ASSUME IInv, NEW r \in runs, Engine(r) PROVE Rows!Next
<1>1. r.id \in Execs  BY DEF IInv, TypeOK, Runs
<1>2. /\ UNCHANGED worker /\ (runs' = runs \/ runs' = runs \ {r})
      /\ UNCHANGED rows \/ \E st \in Rows!Marks : Write(r.id, st)
  <2>1. CASE EngineRefused(r)  BY <2>1 DEF EngineRefused
  <2>2. CASE \E st \in FinalStatuses : EngineFinish(r, st)
    BY <2>2 DEF EngineFinish, FinalStatuses, Rows!Marks
  <2>3. CASE \E st \in InterimStatuses : EngineInterim(r, st)
    BY <2>3 DEF EngineInterim, InterimStatuses, Rows!Marks
  <2>4. QED  BY <2>1, <2>2, <2>3 DEF Engine
<1>3. \A y \in Execs : Launchers(y)' = Launchers(y)
  BY <1>2 DEF worker, Launchers, Launching
<1>4. /\ \A y \in Execs \ {r.id} : Running(y)' <=> Running(y)
      /\ Running(r.id)' => Running(r.id)
  BY <1>2 DEF Running
<1>5. Owned' \in {Owned, Owned \ {r.id}}  BY <1>1, <1>3, <1>4, OwnedLess
<1>6. CASE UNCHANGED rows
  <2>1. Rows!Leave  BY <1>5, <1>6 DEF Rows!Leave, rows
  <2>2. QED  BY <2>1 DEF Rows!Next
<1>7. ASSUME NEW st \in Rows!Marks, Write(r.id, st) PROVE Rows!Next
  <2>1. r.id \in {x \in Execs : \E q \in runs : q.id = x}  BY <1>1
  <2>2. Rows!Mark(r.id, st)  BY <1>1, <1>5, <1>7, <2>1, WriteIsRowEdit DEF Rows!Mark
  <2>3. QED  BY <1>1, <2>2 DEF Rows!Next
<1>8. QED  BY <1>2, <1>6, <1>7

LEMMA HandOverOwns ==
  ASSUME IInv, TokensFresh,
         NEW t \in Txns, NEW j \in batch[t], Launch(t, j) \/ WorkflowMissing(t, j)
  PROVE  Rows!Next \/ UNCHANGED <<status, version, Owned>>
<1>1. /\ pc[t] = "launching" /\ j \in Jobs /\ batch'[t] = batch[t] \ {j}
      /\ pc'[t] = IF batch'[t] = {} THEN "idle" ELSE "launching"
      /\ \A u \in Txns \ {t} : batch'[u] = batch[u] /\ pc'[u] = pc[u]
  BY HandOverEffect DEF Launch, WorkflowMissing
<1>2. j.id \in Execs /\ \A k \in batch[t] : k.id = j.id => k = j
  BY <1>1 DEF IInv, OneJobPerExecution, Jobs
<1>3. t \in Launchers(j.id) /\ Launchers(j.id)' = Launchers(j.id) \ {t}
  BY <1>1, <1>2 DEF Launchers, Launching
<1>4. \A y \in Execs \ {j.id} : Launchers(y)' = Launchers(y)
  BY <1>1 DEF Launchers, Launching
<1>5. CASE Launch(t, j)
  <2> DEFINE r == [worker |-> t[1], id |-> j.id, version |-> j.version]
  <2>1. runs' = runs \cup {r} /\ r.id = j.id  BY <1>5 DEF Launch
  <2> HIDE DEF r
  <2>2. Running(j.id)' /\ \A y \in Execs \ {j.id} : Running(y)' <=> Running(y)
    BY <2>1 DEF Running
  <2>3. \A y \in Execs : y \in Owned' <=> y \in Owned
    BY <1>3, <1>4, <2>2, OwnedIs
  <2>4. Owned' = Owned  BY <2>3, OwnedIs
  <2>5. QED  BY <1>5, <2>4 DEF Launch, rows
<1>6. CASE WorkflowMissing(t, j)
  <2>1. \A y \in Execs : Running(y)' <=> Running(y)
    BY <1>6 DEF WorkflowMissing, Running
  <2>2. Owned' \in {Owned, Owned \ {j.id}}
    BY <1>2, <1>3, <1>4, <2>1, OwnedLess
  <2>3. CASE version[j.id] = j.version /\ Write(j.id, "FAILED")
    <3>1. j.id \in Owned  BY <1>2, <1>3, OwnedIs
    <3>2. status[j.id] \in {"RUNNING", "PENDING"}
      BY <1>1, <2>3 DEF TokensFresh, Outstanding, Fresh
    <3>3. Rows!Fail(j.id)
      BY <1>2, <2>2, <2>3, <3>1, <3>2, WriteIsRowEdit DEF Rows!Fail
    <3>4. QED  BY <1>2, <3>3 DEF Rows!Next
  <2>4. CASE UNCHANGED rows
    <3>1. Rows!Leave  BY <2>2, <2>4 DEF Rows!Leave, rows
    <3>2. QED  BY <3>1 DEF Rows!Next
  <2>5. QED  BY <1>6, <2>3, <2>4 DEF WorkflowMissing, Update
<1>7. QED  BY <1>5, <1>6

LEMMA StepKeepsContract ==
  ASSUME IInv, TokensFresh, Next
  PROVE  Rows!Next \/ UNCHANGED <<status, version, Owned>>
<1> DEFINE Goal == Rows!Next \/ UNCHANGED <<status, version, Owned>>
<1>1. ASSUME UNCHANGED <<worker, runs>> PROVE Owned' = Owned
  BY <1>1, OwnedSame DEF worker, Running, Launchers, Launching
<1>2. ASSUME NEW x \in Execs, Trigger(x) PROVE Goal
  <2>1. /\ Rows!SetStatus({x}, "PENDING") /\ version'[x] = WorkflowVersion
        /\ version' = [version EXCEPT ![x] = version'[x]]
    BY <1>2 DEF Trigger, Rows!SetStatus, IInv, TypeOK
  <2>2. Owned' = Owned  BY <1>1, <1>2 DEF Trigger
  <2>3. Rows!Insert(x)
    BY <1>2, <2>1, <2>2, DispatchAssumption DEF Trigger, Rows!Insert
  <2>4. QED  BY <2>3 DEF Rows!Next
<1>3. ASSUME NEW x \in Execs, Push(x) \/ CancelRead(x) \/ Age(x) PROVE Goal
  BY <1>1, <1>3 DEF Push, CancelRead, Age, rows
<1>4. ASSUME NEW c \in cancels, CancelWrite(c) PROVE Goal
  <2>1. Owned' = Owned  BY <1>1, <1>4 DEF CancelWrite
  <2>2. Fresh(c) /\ c.id \in Execs
    BY DEF TokensFresh, Outstanding, IInv, TypeOK, Jobs
  <2>3. CASE version[c.id] = c.version /\ Write(c.id, "CANCELLED")
    <3>1. Rows!Cancel(c.id)
      BY <2>1, <2>2, <2>3, WriteIsRowEdit DEF Fresh, Rows!Cancel
    <3>2. QED  BY <2>2, <3>1 DEF Rows!Next
  <2>4. CASE UNCHANGED rows  BY <2>1, <2>4 DEF rows
  <2>5. QED  BY <1>4, <2>3, <2>4 DEF CancelWrite, Update
<1>5. ASSUME NEW w \in Workers, Poll(w) \/ Pop(w) \/ AcquireByID(w) PROVE Goal
  <2>1. UNCHANGED <<status, version, runs>>
    BY <1>5 DEF Poll, Pop, AcquireByID, rows
  <2>2. \A t \in Txns : \/ pc'[t] = pc[t] /\ batch'[t] = batch[t]
                        \/ pc'[t] # "launching" /\ pc[t] # "launching"
    BY <1>5 DEF Poll, Pop, AcquireByID, Lock, IInv, TypeOK
  <2>3. \A y \in Execs : Launchers(y)' = Launchers(y)
    BY <2>2 DEF Launchers, Launching
  <2>4. Owned' = Owned  BY <2>1, <2>3, OwnedSame DEF Running
  <2>5. QED  BY <2>1, <2>4
<1>6. ASSUME NEW t \in Txns, Claim(t) PROVE Goal  BY <1>6, ClaimOwns DEF Rows!Next
<1>7. ASSUME NEW t \in Txns, Abort(t) PROVE Goal
  <2>1. UNCHANGED <<status, version, runs>>  BY <1>7 DEF Abort, rows
  <2>2. \A u \in Txns : \/ pc'[u] = pc[u] /\ batch'[u] = batch[u]
                        \/ pc'[u] # "launching" /\ pc[u] # "launching"
    BY <1>7 DEF Abort, IInv, TypeOK
  <2>3. \A y \in Execs : Launchers(y)' = Launchers(y)
    BY <2>2 DEF Launchers, Launching
  <2>4. Owned' = Owned  BY <2>1, <2>3, OwnedSame DEF Running
  <2>5. QED  BY <2>1, <2>4
<1>8. ASSUME NEW t \in Txns, NEW j \in batch[t], Launch(t, j) \/ WorkflowMissing(t, j)
      PROVE  Goal
  BY <1>8, HandOverOwns
<1>9. ASSUME NEW w \in Workers, Recover(w) PROVE Goal
  <2>1. Rows!SetStatus(Stuck, "PENDING")  BY <1>9 DEF Recover, Rows!SetStatus
  <2>2. Owned' = Owned  BY <1>1, <1>9 DEF Recover
  <2>3. Stuck \in SUBSET Execs /\ \A x \in Stuck : status[x] = "RUNNING"  BY DEF Stuck
  <2>4. Rows!Recover(Stuck)  BY <1>9, <2>1, <2>2, <2>3 DEF Recover, Rows!Recover
  <2>5. QED  BY <2>3, <2>4 DEF Rows!Next
<1>10. ASSUME NEW w \in Workers, Crash(w) PROVE Goal
  <2>1. \A u \in Txns : pc'[u] = "launching" =>
          pc[u] = "launching" /\ batch'[u] = batch[u]
    BY <1>10 DEF Crash, IInv, TypeOK
  <2>2. \A y \in Execs : Launchers(y)' \subseteq Launchers(y)
    BY <2>1 DEF Launchers, Launching
  <2>3. \A y \in Execs : Running(y)' => Running(y)  BY <1>10 DEF Crash, Running
  <2>4. Owned' \in SUBSET Owned  BY <2>2, <2>3, OwnedIs
  <2>5. Rows!Leave  BY <1>10, <2>4 DEF Crash, rows, Rows!Leave
  <2>6. QED  BY <2>5 DEF Rows!Next
<1>11. ASSUME NEW w \in Workers, Restart(w) PROVE Goal
  BY <1>1, <1>11 DEF Restart, rows
<1>12. ASSUME NEW r \in runs, Engine(r) PROVE Goal  BY <1>12, EngineMarks
<1> HIDE DEF Goal
<1>13. ASSUME NEW w \in Workers, Loop(w) PROVE Goal
  <2>1. ASSUME NEW k \in {"poll", "redis"}, Claim(<<w, k>>) \/ Abort(<<w, k>>) PROVE Goal
    BY <2>1, <1>6, <1>7, TxnsOfWorkers
  <2>2. ASSUME NEW k \in {"poll", "redis"}, NEW j \in batch[<<w, k>>],
               Launch(<<w, k>>, j) \/ WorkflowMissing(<<w, k>>, j)
        PROVE  Goal
    BY <2>2, <1>8, TxnsOfWorkers
  <2>3. QED  BY <1>5, <1>13, <2>1, <2>2 DEF Loop
<1>14. ASSUME Api PROVE Goal  BY <1>2, <1>3, <1>4, <1>14 DEF Api
<1>15. Goal  BY <1>3, <1>9, <1>10, <1>11, <1>12, <1>13, <1>14 DEF Next
<1>16. QED  BY <1>15 DEF Goal

(* The dispatcher and the API keep to the contract of the executions: a    *)
(* late cancel, and the FAILED mark of a claim whose workflow is missing,  *)
(* change a row only while it is RUNNING or put back by the sweep, never   *)
(* one that has been finished, suspended or cancelled in between.          *)
THEOREM DispatcherKeepsContract == Spec => RowsKeepTheContract
<1>1. Init => Rows!Init /\ TokensFresh
  <2> SUFFICES ASSUME Init PROVE Rows!Init /\ TokensFresh  OBVIOUS
  <2>1. \A x \in Execs : Launchers(x) = {} /\ ~Running(x)
    BY DEF Init, Launchers, Launching, Running
  <2>2. Owned = {}  BY <2>1, OwnedIs
  <2>3. {x \in Execs : \E r \in runs : r.id = x} = {}  BY DEF Init
  <2>4. QED  BY <2>2, <2>3 DEF Init, Rows!Init, TokensFresh, Outstanding
<1>2. IInv /\ TokensFresh /\ [Next]_vars => [Rows!Next]_<<status, version, Owned>>
  <2>1. CASE UNCHANGED vars
    BY <2>1 DEF vars, Owned, InHand, Launching
  <2>2. QED  BY <2>1, StepKeepsContract
<1>3. QED
  BY <1>1, <1>2, Invariance, TokensStayFresh, PTL DEF Spec, RowsKeepTheContract, Rows!Spec
---------------------------------------------------------------------------
(* Without the sweep.                                                      *)

(* RecoverStuckJobs puts no row back.                                      *)
NotRecovered == \A w \in Workers : ~ Recover(w)

(* What an execution has used of the one permit it gets from Trigger.      *)
ToCome(x) == IF status[x] \in {"ABSENT", "PENDING"} THEN 1 ELSE 0

OnePermit ==
  /\ \A x \in Execs : launches[x] \in Nat /\ launches[x] + Taken[x] + ToCome(x) <= 1
  /\ \A r \in runs : launches[r.id] >= 1
  /\ \A r, s \in runs : r.id = s.id => r = s

(* Only Trigger and the sweep make a row PENDING, and rows are never       *)
(* deleted.                                                                *)
LEMMA PendingComesFrom ==
  ASSUME IInv, Next, NotRecovered, NEW x \in Execs,
         status'[x] \in {"ABSENT", "PENDING"}
  PROVE  status[x] \in {"ABSENT", status'[x]}
<1> DEFINE Goal == status[x] \in {"ABSENT", status'[x]}
<1>1. ASSUME UNCHANGED status PROVE Goal  BY <1>1
<1>2. ASSUME NEW y \in Execs, Trigger(y) \/ Push(y) \/ CancelRead(y) \/ Age(y) PROVE Goal
  BY <1>2 DEF Trigger, Push, CancelRead, Age, rows, IInv, TypeOK
<1>3. ASSUME NEW y \in Execs, NEW st \in Statuses \ {"ABSENT", "PENDING"},
             Write(y, st) \/ UNCHANGED rows
      PROVE  Goal
  BY <1>3 DEF Write, rows, IInv, TypeOK
<1>4. ASSUME NEW c \in cancels, CancelWrite(c) PROVE Goal
  BY <1>3, <1>4 DEF CancelWrite, Update, IInv, TypeOK, Jobs, Statuses
<1>5. ASSUME NEW w \in Workers, Poll(w) \/ Pop(w) \/ AcquireByID(w) \/ Crash(w) \/ Restart(w)
      PROVE  Goal
  BY <1>1, <1>5 DEF Poll, Pop, AcquireByID, Crash, Restart, rows
<1>6. ASSUME NEW t \in Txns, Claim(t) \/ Abort(t) PROVE Goal
  <2>1. CASE Claim(t)  BY <2>1 DEF Claim
  <2>2. CASE Abort(t)  BY <1>1, <2>2 DEF Abort, rows
  <2>3. QED  BY <1>6, <2>1, <2>2
<1>7. ASSUME NEW t \in Txns, NEW j \in batch[t], Launch(t, j) \/ WorkflowMissing(t, j)
      PROVE  Goal
  BY <1>1, <1>7 DEF Launch, WorkflowMissing, Update, Write, rows, IInv, TypeOK
<1>8. ASSUME NEW r \in runs, Engine(r) PROVE Goal
  <2>1. r.id \in Execs  BY DEF IInv, TypeOK, Runs
  <2>2. \E st \in Statuses \ {"ABSENT", "PENDING"} : Write(r.id, st) \/ UNCHANGED rows
    BY <1>8 DEF Engine, EngineFinish, EngineRefused, EngineInterim, FinalStatuses,
                InterimStatuses, Statuses
  <2>3. QED  BY <1>3, <2>1, <2>2
<1> HIDE DEF Goal
<1>9. Goal
  BY <1>2, <1>4, <1>5, <1>6, <1>7, <1>8, TxnsOfWorkers DEF Next, Api, Loop, NotRecovered
<1>10. QED  BY <1>9 DEF Goal

(* The permit moves from the row to a claim and from there to a launch.    *)
LEMMA PermitStep ==
  ASSUME IInv, Next, NotRecovered, OnePermit, NEW x \in Execs
  PROVE  launches'[x] \in Nat /\ launches'[x] + Taken'[x] + ToCome(x)' <= 1
<1> DEFINE Goal == launches'[x] \in Nat /\ launches'[x] + Taken'[x] + ToCome(x)' <= 1
<1>1. /\ launches \in [Execs -> Nat] /\ launches[x] \in Nat /\ Taken[x] \in Nat
      /\ Taken'[x] \in Nat /\ launches[x] + Taken[x] + ToCome(x) <= 1
  BY TakenValue, TakenNext DEF IInv, TypeOK, OnePermit
<1>2. ToCome(x) \in {0, 1} /\ ToCome(x)' \in {0, 1} /\ ToCome(x)' <= ToCome(x)
  BY PendingComesFrom DEF ToCome
<1>3. ASSUME UNCHANGED <<Taken, launches>> PROVE Goal  BY <1>1, <1>2, <1>3
<1>4. ASSUME Abstract!Lose PROVE Goal  BY <1>1, <1>2, <1>4 DEF Abstract!Lose
<1>5. ASSUME NEW X \in SUBSET Execs, Abstract!Take(X) PROVE Goal
  <2>1. UNCHANGED launches  BY <1>5 DEF Abstract!Take
  <2>2. CASE x \in X
    <3>1. Taken'[x] = Taken[x] + 1  BY <1>5, <2>2, TakenValue DEF Abstract!Take
    <3>2. status[x] = "PENDING" /\ status'[x] # "PENDING"
      BY <1>5, <2>2 DEF Abstract!Take, Waiting
    <3>3. status'[x] # "ABSENT"  BY <3>2, PendingComesFrom
    <3>4. ToCome(x) = 1 /\ ToCome(x)' = 0  BY <3>2, <3>3 DEF ToCome
    <3>5. QED  BY <1>1, <2>1, <3>1, <3>4
  <2>3. CASE x \notin X
    <3>1. Taken'[x] = Taken[x]  BY <1>5, <2>3, TakenValue DEF Abstract!Take
    <3>2. QED  BY <1>1, <1>2, <2>1, <3>1
  <2>4. QED  BY <2>2, <2>3
<1>6. ASSUME NEW y \in Execs, Abstract!Dispatch(y) PROVE Goal
  <2>1. CASE x = y
    <3>1. Taken[x] > 0 /\ Taken'[x] = Taken[x] - 1 /\ launches'[x] = launches[x] + 1
      BY <1>1, <1>6, <2>1, TakenValue DEF Abstract!Dispatch
    <3>2. QED  BY <1>1, <1>2, <3>1
  <2>2. CASE x # y
    <3>1. Taken'[x] = Taken[x] /\ launches'[x] = launches[x]
      BY <1>1, <1>6, <2>2, TakenValue DEF Abstract!Dispatch
    <3>2. QED  BY <1>1, <1>2, <3>1
  <2>3. QED  BY <2>1, <2>2
<1>7. Abstract!Grant => UNCHANGED <<Taken, launches>>  BY DEF Abstract!Grant
<1> HIDE DEF Goal
<1>8. Goal  BY <1>3, <1>4, <1>5, <1>6, <1>7, StepRefines DEF Abstract!Next
<1>9. QED  BY <1>8 DEF Goal

(* The new run of a launch is the first of its execution.                  *)
LEMMA RunsStep ==
  ASSUME IInv, Next, OnePermit
  PROVE  /\ \A r \in runs' : launches'[r.id] >= 1
         /\ \A r, s \in runs' : r.id = s.id => r = s
<1> DEFINE Goal == /\ \A r \in runs' : launches'[r.id] >= 1
                   /\ \A r, s \in runs' : r.id = s.id => r = s
<1>1. ASSUME runs' \in SUBSET runs, UNCHANGED launches PROVE Goal  BY <1>1 DEF OnePermit
<1>2. ASSUME NEW t \in Txns, NEW j \in batch[t], Launch(t, j) PROVE Goal
  <2>1. j.id \in Execs /\ Launching(t, j.id)
    BY <1>2 DEF Launch, HandOver, Launching, IInv, TypeOK, Jobs
  <2>2. t \in Launchers(j.id)  BY <2>1 DEF Launchers
  <2>3. Taken[j.id] \in Nat /\ Taken[j.id] # 0
    BY <2>1, <2>2, FiniteLaunchers, TakenValue, FS_EmptySet
  <2>4. launches[j.id] = 0
    BY <2>1, <2>3 DEF OnePermit, ToCome
  <2>5. \A r \in runs : r.id # j.id  BY <2>4 DEF OnePermit
  <2>6. \A r \in runs : r.id \in Execs  BY DEF IInv, TypeOK, Runs
  <2>7. \A r \in runs : launches'[r.id] = launches[r.id]
    BY <1>2, <2>5, <2>6 DEF Launch, IInv, TypeOK
  <2>8. launches'[j.id] = 1  BY <1>2, <2>1, <2>4 DEF Launch, IInv, TypeOK
  <2>9. \A r \in runs' : r \in runs \/ r = [worker |-> t[1], id |-> j.id, version |-> j.version]
    BY <1>2 DEF Launch
  <2>10. \A r \in runs' : launches'[r.id] >= 1  BY <2>7, <2>8, <2>9 DEF OnePermit
  <2>11. \A r, s \in runs' : r.id = s.id => r = s  BY <2>5, <2>9 DEF OnePermit
  <2>12. QED  BY <2>10, <2>11
<1>3. ASSUME NEW t \in Txns, NEW j \in batch[t], WorkflowMissing(t, j) PROVE Goal
  BY <1>1, <1>3 DEF WorkflowMissing
<1>4. ASSUME NEW t \in Txns, Claim(t) \/ Abort(t) PROVE Goal
  BY <1>1, <1>4 DEF Claim, Abort
<1>5. ASSUME NEW w \in Workers,
             Poll(w) \/ Pop(w) \/ AcquireByID(w) \/ Recover(w) \/ Crash(w) \/ Restart(w)
      PROVE  Goal
  BY <1>1, <1>5 DEF Poll, Pop, AcquireByID, Recover, Crash, Restart
<1>6. ASSUME NEW x \in Execs, Trigger(x) \/ Push(x) \/ CancelRead(x) \/ Age(x) PROVE Goal
  BY <1>1, <1>6 DEF Trigger, Push, CancelRead, Age
<1>7. ASSUME NEW c \in cancels, CancelWrite(c) PROVE Goal  BY <1>1, <1>7 DEF CancelWrite
<1>8. ASSUME NEW r \in runs, Engine(r) PROVE Goal
  BY <1>1, <1>8 DEF Engine, EngineFinish, EngineRefused, EngineInterim
<1> HIDE DEF Goal
<1>9. Goal
  BY <1>2, <1>3, <1>4, <1>5, <1>6, <1>7, <1>8, TxnsOfWorkers DEF Next, Api, Loop
<1>10. QED  BY <1>9 DEF Goal

(* As long as the sweep puts nothing back, an execution is given to one    *)
(* engine at most, however many workers poll and pop, and no two runs of   *)
(* one execution are ever alive: what module Engine calls OneRunEach.      *)
THEOREM LaunchedOnce ==
  Spec /\ [][NotRecovered]_vars =>
    [](/\ \A x \in Execs : launches[x] <= 1
       /\ \A r, s \in runs : r.id = s.id => r = s)
<1> DEFINE Once == /\ \A x \in Execs : launches[x] <= 1
                   /\ \A r, s \in runs : r.id = s.id => r = s
<1>1. Init => OnePermit
  <2> SUFFICES ASSUME Init PROVE OnePermit  OBVIOUS
  <2>1. \A x \in Execs : Launchers(x) = {}  BY DEF Init, Launchers, Launching
  <2>2. \A x \in Execs : Taken[x] = 0  BY <2>1, TakenValue, FS_EmptySet
  <2>3. QED  BY <2>2 DEF Init, OnePermit, ToCome
<1>2. IInv /\ OnePermit /\ [Next]_vars /\ [NotRecovered]_vars => OnePermit'
  <2> SUFFICES ASSUME IInv, OnePermit, [Next]_vars, [NotRecovered]_vars PROVE OnePermit'
    OBVIOUS
  <2>1. CASE UNCHANGED vars
    <3>1. UNCHANGED <<launches, Taken, runs, status>>  BY <2>1 DEF vars, Taken, Launching
    <3>2. QED  BY <3>1 DEF OnePermit, ToCome
  <2>2. CASE Next /\ NotRecovered
    BY <2>2, PermitStep, RunsStep DEF OnePermit
  <2>3. QED  BY <2>1, <2>2
<1>3. IInv /\ OnePermit => Once
  <2> SUFFICES ASSUME IInv, OnePermit, NEW x \in Execs PROVE launches[x] <= 1
    BY DEF OnePermit
  <2>1. Taken[x] \in Nat /\ ToCome(x) \in {0, 1}  BY TakenValue DEF ToCome
  <2>2. QED  BY <2>1 DEF OnePermit
<1> HIDE DEF Once
<1>4. Spec /\ [][NotRecovered]_vars => []Once
  BY <1>1, <1>2, <1>3, Invariance, PTL DEF Spec
<1>5. QED  BY <1>4 DEF Once
=============================================================================
