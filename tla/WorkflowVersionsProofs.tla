----------------------- MODULE WorkflowVersionsProofs -----------------------
(***************************************************************************)
(* Theorems about WorkflowVersions, for any number of clients and versions *)
(* and any number of attempts of the language model.                       *)
(***************************************************************************)
EXTENDS WorkflowVersions, WellFoundedInduction, TLAPS

(* The one current version is the newest, and the first is never missing.  *)
NewestIsCurrent ==
  exists # {} =>
    /\ 1 \in exists
    /\ \E m \in exists : current = {m} /\ \A v \in exists : v <= m

Lockless == Ended \cup {"ask", "create", "lock", "lock current", "delete"}

(* Where a request holds no row, where it holds the row of its base and    *)
(* where also that of its target.                                          *)
LocksOf(c) ==
  /\ pc[c] \in Lockless => \A v \in Versions : lockedBy[v] # c
  /\ pc[c] \in {"lock", "insert", "commit update"} => base[c] # MaxVersion
  /\ pc[c] \in {"insert", "commit update", "lock target", "commit rollback"}
       => base[c] \in current \cap active /\ lockedBy[base[c]] = c
  /\ pc[c] = "commit update" => base[c] + 1 \notin exists
  /\ pc[c] = "commit rollback" => target[c] \in current \cap active

LocksRight == \A c \in Clients : LocksOf(c)

(* The rows a Delete has locked and has still to lock are all there were,  *)
(* and newer ones may have come since.                                     *)
Taken(c) == todo[c] \cup {v \in Versions : lockedBy[v] = c}

DeleteOf(c) ==
  /\ pc[c] \in {"lock rows", "commit delete"} =>
       /\ Taken(c) # {} /\ Taken(c) \subseteq exists
       /\ \A v \in exists \ Taken(c) : \A w \in Taken(c) : w < v
  /\ pc[c] = "commit delete" => todo[c] = {}

DeletesRight == \A c \in Clients : DeleteOf(c)

IInv == TypeOK /\ NewestIsCurrent /\ LocksRight /\ DeletesRight /\ CurrentIsListed

USE VersionsAssumption

LEMMA NextAttemptIsNat ==
  ASSUME NEW a \in Nat, NEW m \in Nat \ {0}
  PROVE  (a \div m + 1) * m \in Nat
<1>1. a \div m \in Nat
  OBVIOUS
<1> QED
  BY <1>1

LEMMA CallsArePositive == Attempts * ModelCalls \in Nat \ {0}
  OBVIOUS

LEMMA InitIInv == Init => IInv
<1> SUFFICES ASSUME Init PROVE IInv
  OBVIOUS
<1>1. TypeOK
  BY CallsArePositive DEF Init, TypeOK, Versions, Places, Ended
<1>2. NewestIsCurrent /\ CurrentIsListed
  BY DEF Init, NewestIsCurrent, CurrentIsListed, Found, Listed
<1>3. LocksRight
  BY DEF Init, LocksRight, LocksOf, Ended
<1>4. DeletesRight
  BY DEF Init, DeletesRight, DeleteOf, Ended
<1> QED
  BY <1>1, <1>2, <1>3, <1>4 DEF IInv

(* A step of c takes or frees rows for c alone.                            *)
Beside(c) ==
  \A d \in Clients \ {c} :
    /\ pc'[d] = pc[d] /\ base'[d] = base[d] /\ target'[d] = target[d] /\ todo'[d] = todo[d]
    /\ \A v \in Versions : lockedBy'[v] = d <=> lockedBy[v] = d

(* As long as it changes no row of the table, the others are where they    *)
(* were, and so are the rows.                                              *)
LEMMA OthersKeep ==
  ASSUME IInv, NEW c \in Clients, Beside(c), UNCHANGED table
  PROVE  /\ \A d \in Clients \ {c} : LocksOf(d)' /\ DeleteOf(d)'
         /\ NewestIsCurrent' /\ CurrentIsListed'
<1>1. exists' = exists /\ current' = current /\ active' = active
  BY DEF table
<1>2. ASSUME NEW d \in Clients \ {c} PROVE LocksOf(d)' /\ DeleteOf(d)'
  <2>1. /\ pc'[d] = pc[d] /\ base'[d] = base[d] /\ target'[d] = target[d] /\ todo'[d] = todo[d]
        /\ \A v \in Versions : lockedBy'[v] = d <=> lockedBy[v] = d
    BY DEF Beside
  <2>2. LocksOf(d) /\ DeleteOf(d) /\ base[d] \in Versions
    BY DEF IInv, LocksRight, DeletesRight, TypeOK
  <2>3. LocksOf(d)'
    BY <1>1, <2>1, <2>2 DEF LocksOf
  <2>4. Taken(d)' = Taken(d)
    BY <2>1 DEF Taken
  <2>5. DeleteOf(d)'
    BY <1>1, <2>1, <2>2, <2>4 DEF DeleteOf
  <2> QED
    BY <2>3, <2>5
<1>3. NewestIsCurrent' /\ CurrentIsListed'
  BY <1>1 DEF IInv, NewestIsCurrent, CurrentIsListed, Found, Listed
<1> QED
  BY <1>2, <1>3

(* What c lets go of, and what it takes.                                   *)
LEMMA ReleaseFrees ==
  ASSUME NEW c \in Clients, Release(c)
  PROVE  /\ \A v \in Versions : lockedBy'[v] # c
         /\ \A d \in Clients \ {c}, v \in Versions : lockedBy'[v] = d <=> lockedBy[v] = d
<1>1. \A v \in Versions : lockedBy'[v] = IF lockedBy[v] = c THEN NoClient ELSE lockedBy[v]
  BY DEF Release, Unlocked
<1> QED
  BY <1>1

LEMMA TakingIsOwn ==
  ASSUME TypeOK, NEW c \in Clients, NEW v \in Versions, lockedBy[v] \in {NoClient, c},
         lockedBy' = [lockedBy EXCEPT ![v] = c]
  PROVE  /\ \A w \in Versions : lockedBy'[w] = IF w = v THEN c ELSE lockedBy[w]
         /\ \A d \in Clients \ {c}, w \in Versions : lockedBy'[w] = d <=> lockedBy[w] = d
<1>1. \A w \in Versions : lockedBy'[w] = IF w = v THEN c ELSE lockedBy[w]
  BY DEF TypeOK
<1> QED
  BY <1>1

(* Every step goes to one place, and leaves the others theirs.             *)
LEMMA GoGoes ==
  ASSUME TypeOK, NEW c \in Clients, NEW p, Go(c, p)
  PROVE  pc'[c] = p /\ \A d \in Clients \ {c} : pc'[d] = pc[d]
  BY DEF Go, TypeOK

(* A step that changes no row and brings c where a request holds no row.   *)
LEMMA LocklessKeeps ==
  ASSUME IInv, NEW c \in Clients, NEW p \in Lockless,
         TypeOK', Go(c, p), UNCHANGED table,
         \A d \in Clients \ {c} : base'[d] = base[d] /\ target'[d] = target[d] /\ todo'[d] = todo[d],
         p = "lock" => base'[c] # MaxVersion,
         Release(c) \/ (pc[c] \in Lockless /\ UNCHANGED lockedBy)
  PROVE  IInv'
<1>1. pc'[c] = p /\ \A d \in Clients \ {c} : pc'[d] = pc[d]
  BY GoGoes DEF IInv
<1>2. /\ \A v \in Versions : lockedBy'[v] # c
      /\ \A d \in Clients \ {c}, v \in Versions : lockedBy'[v] = d <=> lockedBy[v] = d
  <2>1. CASE Release(c)
    BY <2>1, ReleaseFrees
  <2>2. CASE pc[c] \in Lockless /\ UNCHANGED lockedBy
    BY <2>2 DEF IInv, LocksRight, LocksOf
  <2> QED
    BY <2>1, <2>2
<1>3. Beside(c)
  BY <1>1, <1>2 DEF Beside
<1>4. LocksOf(c)' /\ DeleteOf(c)'
  BY <1>1, <1>2 DEF LocksOf, DeleteOf, Lockless, Ended
<1> QED
  BY <1>3, <1>4, OthersKeep DEF IInv, LocksRight, DeletesRight

(* The steps that take one row and change none.                            *)
LEMMA TakeKeeps ==
  ASSUME IInv, NEW c \in Clients, NEW p \in Places, NEW v \in Versions,
         TypeOK', Go(c, p), UNCHANGED <<table, base, target>>,
         \A d \in Clients \ {c} : todo'[d] = todo[d],
         lockedBy[v] \in {NoClient, c}, lockedBy' = [lockedBy EXCEPT ![v] = c],
         LocksOf(c)', DeleteOf(c)'
  PROVE  IInv'
<1>1. Beside(c)
  BY GoGoes, TakingIsOwn DEF IInv, Beside
<1>2. UNCHANGED table
  BY DEF table
<1> QED
  BY <1>1, <1>2, OthersKeep DEF IInv, LocksRight, DeletesRight

LEMMA GetForUpdateKeeps ==
  ASSUME IInv, NEW c \in Clients, NEW v \in Versions, NEW p, TypeOK',
         GetForUpdate(c, v), Go(c, p), UNCHANGED <<table, base, target, todo>>,
         \/ pc[c] = "lock" /\ p = "insert" /\ v = base[c]
         \/ pc[c] = "lock current" /\ p = "lock target" /\ v = base[c]
         \/ pc[c] = "lock target" /\ p = "commit rollback" /\ v = target[c]
  PROVE  IInv'
<1>1. /\ v \in current \cap active /\ lockedBy[v] \in {NoClient, c}
      /\ lockedBy' = [lockedBy EXCEPT ![v] = c]
  BY DEF GetForUpdate, Matches
<1>2. \A w \in Versions : lockedBy'[w] = IF w = v THEN c ELSE lockedBy[w]
  BY <1>1, TakingIsOwn DEF IInv
<1>3. pc'[c] = p
  BY GoGoes DEF IInv
<1>4. LocksOf(c) /\ base[c] \in Versions
  BY DEF IInv, LocksRight, TypeOK
<1>5. LocksOf(c)' /\ DeleteOf(c)'
  BY <1>1, <1>2, <1>3, <1>4 DEF LocksOf, DeleteOf, table, Lockless, Ended
<1>6. p \in Places
  BY DEF Places, InTransaction
<1> QED
  BY <1>1, <1>5, <1>6, TakeKeeps

---------------------------------------------------------------------------
(* Types.                                                                  *)

LEMMA RequestTypes ==
  ASSUME TypeOK, NEW c \in Clients, Request(c) \/ Abort(c) PROVE TypeOK'
<1>1. ASSUME NEW p \in Places, NEW v \in Versions, NEW w \in Versions, Accept(c, p, v, w)
      PROVE  TypeOK'
  BY <1>1 DEF Accept, Go, TypeOK, table
<1>2. 1 \in Versions
  BY DEF Versions
<1>3. {"create", "ask", "lock", "lock current", "delete", "failed"} \subseteq Places
  BY DEF Places, Ended, InTransaction
<1>4. CASE Request(c)
  BY <1>1, <1>2, <1>3, <1>4 DEF Request, Create, CreateFromText, Update, Rollback, Delete
<1>5. CASE Abort(c)
  BY <1>2, <1>3, <1>5 DEF Abort, Go, Release, Unlocked, TypeOK, table
<1> QED
  BY <1>4, <1>5

LEMMA AskTypes == ASSUME TypeOK, NEW c \in Clients, Ask(c) PROVE TypeOK'
<1>1. ASSUME NEW n \in Nat, AskAgain(c, n)
      PROVE  pc' \in [Clients -> Places] /\ asked' \in [Clients -> 0 .. Attempts * ModelCalls - 1]
  <2>1. CASE n < Attempts * ModelCalls
    <3>1. n \in 0 .. Attempts * ModelCalls - 1
      BY <2>1, CallsArePositive
    <3> QED
      BY <1>1, <2>1, <3>1 DEF AskAgain, Go, TypeOK, Places
  <2>2. CASE ~(n < Attempts * ModelCalls)
    <3>1. 0 \in 0 .. Attempts * ModelCalls - 1
      BY CallsArePositive
    <3> QED
      BY <1>1, <2>2, <3>1 DEF AskAgain, Go, TypeOK, Places, Ended
  <2> QED
    BY <2>1, <2>2
<1>2. asked[c] \in Nat
  BY CallsArePositive DEF TypeOK
<1>3. NextCall(c) \in Nat /\ NextAttempt(c) \in Nat
  BY <1>2, NextAttemptIsNat DEF NextCall, NextAttempt
<1>4. CASE asked' = [asked EXCEPT ![c] = 0] /\ Go(c, "create")
  <2>1. 0 \in 0 .. Attempts * ModelCalls - 1
    BY CallsArePositive
  <2> QED
    BY <1>4, <2>1 DEF Ask, Go, TypeOK, Places, table
<1>5. CASE AskAgain(c, NextCall(c)) \/ AskAgain(c, NextAttempt(c))
  BY <1>1, <1>3, <1>5 DEF Ask, TypeOK, table
<1> QED
  BY <1>4, <1>5 DEF Ask

LEMMA LockTypes ==
  ASSUME TypeOK, LocksRight, NEW c \in Clients,
         \/ CreateFirst(c) \/ LockRow(c) \/ InsertNext(c) \/ CommitUpdate(c)
         \/ LockCurrent(c) \/ LockTarget(c) \/ CommitRollback(c)
         \/ Snapshot(c) \/ LockNextRow(c) \/ CommitDelete(c)
  PROVE  TypeOK'
<1>1. Unlocked(c) \in [Versions -> Clients \cup {NoClient}]
  BY DEF Unlocked, TypeOK
<1>2. base[c] \in Versions /\ target[c] \in Versions /\ 1 \in Versions
  BY DEF TypeOK, Versions
<1>3. /\ \A p \in Places : Go(c, p) => pc' \in [Clients -> Places]
      /\ \A v \in Versions : [lockedBy EXCEPT ![v] = c] \in [Versions -> Clients \cup {NoClient}]
      /\ {"done", "conflict", "failed", "insert", "commit update", "lock target", "commit rollback",
          "lock rows", "commit delete"} \subseteq Places
  BY DEF Go, TypeOK, Places, Ended, InTransaction
<1>4. CASE CreateFirst(c)
  <2>1. pc' \in [Clients -> Places]
    BY <1>3, <1>4 DEF CreateFirst
  <2>2. exists' \subseteq Versions /\ current' \subseteq exists' /\ active' \subseteq exists'
    BY <1>2, <1>4 DEF CreateFirst, Inserted, TypeOK, table
  <2> QED
    BY <1>4, <2>1, <2>2 DEF CreateFirst, TypeOK
<1>5. CASE LockRow(c) \/ LockCurrent(c) \/ LockTarget(c)
  <2>1. pc' \in [Clients -> Places] /\ lockedBy' \in [Versions -> Clients \cup {NoClient}]
    BY <1>1, <1>2, <1>3, <1>5 DEF LockRow, LockCurrent, LockTarget, GetForUpdate, NoRow, Release
  <2>2. UNCHANGED <<oneCurrent, table, base, target, todo, asked>>
    BY <1>5 DEF LockRow, LockCurrent, LockTarget
  <2> QED
    BY <2>1, <2>2 DEF TypeOK, table
<1>6. CASE InsertNext(c)
  <2>1. pc' \in [Clients -> Places] /\ lockedBy' \in [Versions -> Clients \cup {NoClient}]
    BY <1>1, <1>3, <1>6 DEF InsertNext, Release, TypeOK
  <2> QED
    BY <1>6, <2>1 DEF InsertNext, TypeOK, table
<1>7. CASE CommitUpdate(c)
  <2>1. pc' \in [Clients -> Places] /\ lockedBy' \in [Versions -> Clients \cup {NoClient}]
    BY <1>1, <1>3, <1>7 DEF CommitUpdate, Move, Release
  <2>2. base[c] + 1 \in Versions
    <3>1. pc[c] = "commit update" /\ LocksOf(c)
      BY <1>7 DEF CommitUpdate, Move, LocksRight
    <3>2. base[c] # MaxVersion
      BY <3>1 DEF LocksOf
    <3> QED
      BY <1>2, <3>2 DEF Versions
  <2>3. exists' \subseteq Versions /\ current' \subseteq exists' /\ active' \subseteq exists'
    BY <1>7, <2>2 DEF CommitUpdate, Inserted, TypeOK
  <2> QED
    BY <1>7, <2>1, <2>3 DEF CommitUpdate, TypeOK
<1>8. CASE CommitRollback(c)
  <2>1. pc' \in [Clients -> Places] /\ lockedBy' \in [Versions -> Clients \cup {NoClient}]
    BY <1>1, <1>3, <1>8 DEF CommitRollback, Move, Release
  <2>2. pc[c] = "commit rollback" /\ target[c] \in current
    BY <1>8 DEF CommitRollback, Move, LocksRight, LocksOf
  <2>3. current' \subseteq exists
    BY <1>8, <2>2 DEF CommitRollback, TypeOK
  <2> QED
    BY <1>8, <2>1, <2>3 DEF CommitRollback, TypeOK
<1>9. CASE Snapshot(c)
  BY <1>3, <1>9 DEF Snapshot, TypeOK, table
<1>10. CASE LockNextRow(c)
  <2>1. PICK v \in todo[c] : /\ lockedBy' = [lockedBy EXCEPT ![v] = c]
                             /\ todo' = [todo EXCEPT ![c] = @ \ {v}]
                             /\ Go(c, IF todo[c] = {v} THEN "commit delete" ELSE "lock rows")
    BY <1>10 DEF LockNextRow
  <2>2. v \in Versions
    BY DEF TypeOK
  <2>3. pc' \in [Clients -> Places] /\ lockedBy' \in [Versions -> Clients \cup {NoClient}]
    BY <1>3, <2>1, <2>2
  <2>4. todo' \in [Clients -> SUBSET Versions]
    BY <2>1 DEF TypeOK
  <2> QED
    BY <1>10, <2>3, <2>4 DEF LockNextRow, TypeOK, table
<1>11. CASE CommitDelete(c)
  <2>1. pc' \in [Clients -> Places] /\ lockedBy' \in [Versions -> Clients \cup {NoClient}]
    BY <1>1, <1>3, <1>11 DEF CommitDelete, Move, Release
  <2> QED
    BY <1>11, <2>1 DEF CommitDelete, TypeOK
<1> QED
  BY <1>4, <1>5, <1>6, <1>7, <1>8, <1>9, <1>10, <1>11

LEMMA NextTypes == ASSUME IInv, Next PROVE TypeOK'
<1>1. ASSUME NEW c \in Clients, Request(c) \/ Abort(c) \/ Proceed(c) PROVE TypeOK'
  BY <1>1, RequestTypes, AskTypes, LockTypes DEF IInv, Proceed
<1> QED
  BY <1>1 DEF Next

---------------------------------------------------------------------------
(* Steps.                                                                  *)

LEMMA RequestKeeps ==
  ASSUME IInv, TypeOK', NEW c \in Clients, Request(c) PROVE IInv'
<1>1. ASSUME NEW p \in {"create", "ask", "lock", "lock current", "delete"},
             NEW v \in Versions, NEW w, Accept(c, p, v, w), p = "lock" => v # MaxVersion
      PROVE  IInv'
  <2>1. /\ pc[c] \in Lockless /\ p \in Lockless /\ Go(c, p)
        /\ UNCHANGED <<table, lockedBy, todo>>
    BY <1>1 DEF Accept, Lockless
  <2>2. /\ \A d \in Clients \ {c} : base'[d] = base[d] /\ target'[d] = target[d] /\ todo'[d] = todo[d]
        /\ base'[c] = v
    BY <1>1 DEF Accept, IInv, TypeOK
  <2>3. UNCHANGED table
    BY <2>1 DEF table
  <2> QED
    BY <1>1, <2>1, <2>2, <2>3, LocklessKeeps
<1>2. 1 \in Versions
  BY DEF Versions
<1> QED
  BY <1>1, <1>2 DEF Request, Create, CreateFromText, Update, Rollback, Delete

LEMMA AbortKeeps ==
  ASSUME IInv, TypeOK', NEW c \in Clients, Abort(c) PROVE IInv'
<1>1. /\ Go(c, "failed") /\ Release(c) /\ UNCHANGED <<table>>
      /\ \A d \in Clients \ {c} : base'[d] = base[d] /\ target'[d] = target[d] /\ todo'[d] = todo[d]
      /\ "failed" \in Lockless
  BY DEF Abort, Lockless, Ended, IInv, TypeOK
<1>2. UNCHANGED table
  BY <1>1 DEF table
<1> QED
  BY <1>1, <1>2, LocklessKeeps

LEMMA AskKeeps ==
  ASSUME IInv, TypeOK', NEW c \in Clients, Ask(c) PROVE IInv'
<1>1. /\ pc[c] \in Lockless /\ UNCHANGED <<table, lockedBy, base, target, todo>>
      /\ \E p \in {"ask", "create", "failed"} : Go(c, p)
  BY DEF Ask, AskAgain, Lockless
<1>2. PICK p \in {"ask", "create", "failed"} : Go(c, p)
  BY <1>1
<1>3. UNCHANGED table /\ p \in Lockless
  BY <1>1 DEF table, Lockless, Ended
<1> QED
  BY <1>1, <1>2, <1>3, LocklessKeeps

LEMMA LockKeeps ==
  ASSUME IInv, TypeOK', NEW c \in Clients, LockRow(c) \/ LockCurrent(c) \/ LockTarget(c)
  PROVE  IInv'
<1>1. UNCHANGED <<table, base, target, todo>> /\ UNCHANGED table
  BY DEF LockRow, LockCurrent, LockTarget, table
<1>2. base[c] \in Versions /\ target[c] \in Versions
  BY DEF IInv, TypeOK
<1>3. ASSUME NEW v, NoRow(c, v) PROVE IInv'
  BY <1>1, <1>3, LocklessKeeps DEF NoRow, Lockless, Ended
<1>4. CASE LockRow(c)
  BY <1>1, <1>2, <1>3, <1>4, GetForUpdateKeeps DEF LockRow
<1>5. CASE LockCurrent(c)
  BY <1>1, <1>2, <1>3, <1>5, GetForUpdateKeeps DEF LockCurrent
<1>6. CASE LockTarget(c)
  BY <1>1, <1>2, <1>3, <1>6, GetForUpdateKeeps DEF LockTarget
<1> QED
  BY <1>4, <1>5, <1>6

LEMMA InsertNextKeeps ==
  ASSUME IInv, TypeOK', NEW c \in Clients, InsertNext(c) PROVE IInv'
<1>1. UNCHANGED <<table, base, target, todo>> /\ UNCHANGED table /\ pc[c] = "insert"
  BY DEF InsertNext, table
<1>2. CASE Refused(base[c] + 1)
  BY <1>1, <1>2, LocklessKeeps DEF InsertNext, Lockless, Ended
<1>3. CASE ~Refused(base[c] + 1)
  <2>1. Go(c, "commit update") /\ UNCHANGED lockedBy /\ base[c] + 1 \notin exists
    BY <1>3 DEF InsertNext, Refused
  <2>2. pc'[c] = "commit update" /\ \A d \in Clients \ {c} : pc'[d] = pc[d]
    BY <2>1, GoGoes DEF IInv
  <2>3. Beside(c)
    BY <1>1, <2>1, <2>2 DEF Beside
  <2>4. LocksOf(c)
    BY DEF IInv, LocksRight
  <2>5. LocksOf(c)' /\ DeleteOf(c)'
    BY <1>1, <2>1, <2>2, <2>4 DEF LocksOf, DeleteOf, Lockless, Ended, table
  <2> QED
    BY <1>1, <2>3, <2>5, OthersKeep DEF IInv, LocksRight, DeletesRight
<1> QED
  BY <1>2, <1>3

LEMMA SnapshotKeeps ==
  ASSUME IInv, TypeOK', NEW c \in Clients, Snapshot(c) PROVE IInv'
<1>1. /\ UNCHANGED <<table, lockedBy, base, target>> /\ UNCHANGED table /\ pc[c] = "delete"
      /\ todo' = [todo EXCEPT ![c] = exists]
  BY DEF Snapshot, table
<1>2. pc[c] \in Lockless /\ \A d \in Clients \ {c} : todo'[d] = todo[d]
  BY <1>1 DEF Lockless, IInv, TypeOK
<1>3. CASE exists = {}
  BY <1>1, <1>2, <1>3, LocklessKeeps DEF Snapshot, Lockless, Ended
<1>4. CASE exists # {}
  <2>1. Go(c, "lock rows") /\ todo'[c] = exists
    BY <1>1, <1>4 DEF Snapshot, IInv, TypeOK
  <2>2. pc'[c] = "lock rows" /\ \A d \in Clients \ {c} : pc'[d] = pc[d]
    BY <2>1, GoGoes DEF IInv
  <2>3. Beside(c)
    BY <1>1, <1>2, <2>2 DEF Beside
  <2>4. \A v \in Versions : lockedBy[v] # c
    BY <1>2 DEF IInv, LocksRight, LocksOf
  <2>5. Taken(c)' = exists
    BY <1>1, <2>1, <2>4 DEF Taken
  <2>6. LocksOf(c)' /\ DeleteOf(c)'
    BY <1>1, <1>4, <2>2, <2>5 DEF LocksOf, DeleteOf, Lockless, Ended, table
  <2> QED
    BY <1>1, <2>3, <2>6, OthersKeep DEF IInv, LocksRight, DeletesRight
<1> QED
  BY <1>3, <1>4

LEMMA LockNextRowKeeps ==
  ASSUME IInv, TypeOK', NEW c \in Clients, LockNextRow(c) PROVE IInv'
<1>1. PICK v \in todo[c] : /\ lockedBy[v] = NoClient
                           /\ lockedBy' = [lockedBy EXCEPT ![v] = c]
                           /\ todo' = [todo EXCEPT ![c] = @ \ {v}]
                           /\ Go(c, IF todo[c] = {v} THEN "commit delete" ELSE "lock rows")
  BY DEF LockNextRow
<1>2. /\ v \in Versions /\ todo'[c] = todo[c] \ {v} /\ \A d \in Clients \ {c} : todo'[d] = todo[d]
      /\ UNCHANGED <<table, base, target>> /\ pc[c] = "lock rows"
  <2>1. UNCHANGED <<table, base, target>> /\ pc[c] = "lock rows"
    BY DEF LockNextRow
  <2>2. todo \in [Clients -> SUBSET Versions]
    BY DEF IInv, TypeOK
  <2> QED
    BY <1>1, <2>1, <2>2
<1>3. \A w \in Versions : lockedBy'[w] = IF w = v THEN c ELSE lockedBy[w]
  <2>1. lockedBy \in [Versions -> Clients \cup {NoClient}]
    BY DEF IInv, TypeOK
  <2>2. lockedBy' = [lockedBy EXCEPT ![v] = c]
    BY <1>1
  <2> QED
    BY <1>2, <2>1, <2>2
<1>4. Taken(c)' = Taken(c)
  BY <1>1, <1>2, <1>3 DEF Taken
<1>5. PICK p \in {"commit delete", "lock rows"} : Go(c, p) /\ (p = "commit delete" => todo[c] = {v})
  BY <1>1
<1>6. pc'[c] = p
  BY <1>5, GoGoes DEF IInv
<1>7. DeleteOf(c)
  BY DEF IInv, DeletesRight
<1>8. DeleteOf(c)'
  BY <1>2, <1>4, <1>5, <1>6, <1>7 DEF DeleteOf, table
<1>9. LocksOf(c)'
  BY <1>6 DEF LocksOf, Lockless, Ended
<1>10. p \in Places
  BY DEF Places, InTransaction
<1> QED
  BY <1>1, <1>2, <1>5, <1>8, <1>9, <1>10, TakeKeeps

(* Two requests never hold the current row at once.                        *)
LEMMA CurrentIsOne ==
  ASSUME IInv, NEW v \in current
  PROVE  /\ current = {v} /\ 1 \in exists /\ v \in exists /\ v \in Versions
         /\ \A w \in exists : w <= v
  BY DEF IInv, NewestIsCurrent, TypeOK

LEMMA CommitRollbackKeeps ==
  ASSUME IInv, TypeOK', NEW c \in Clients, CommitRollback(c) PROVE IInv'
<1>1. /\ pc[c] = "commit rollback" /\ Go(c, "done") /\ Release(c)
      /\ current' = (current \ {base[c]}) \cup {target[c]}
      /\ UNCHANGED <<exists, active, base, target, todo>>
  BY DEF CommitRollback, Move
<1>2. base[c] \in current /\ target[c] \in current
  BY <1>1 DEF IInv, LocksRight, LocksOf
<1>3. current' = current
  BY <1>1, <1>2, CurrentIsOne
<1> QED
  BY <1>1, <1>3, LocklessKeeps DEF table, Lockless, Ended

LEMMA CreateFirstKeeps ==
  ASSUME IInv, TypeOK', NEW c \in Clients, CreateFirst(c) PROVE IInv'
<1>1. UNCHANGED <<lockedBy, base, target, todo>> /\ pc[c] = "create" /\ pc[c] \in Lockless
  BY DEF CreateFirst, Lockless
<1>2. CASE Refused(1)
  BY <1>1, <1>2, LocklessKeeps DEF CreateFirst, Lockless, Ended
<1>3. CASE ~Refused(1)
  <2>1. Go(c, "done") /\ exists' = exists \cup {1} /\ active' = active \cup {1}
        /\ current' = current \cup {1} /\ 1 \notin exists
    BY <1>3 DEF CreateFirst, Inserted, Refused
  <2>2. exists = {} /\ current = {} /\ active = {}
    BY <2>1 DEF IInv, NewestIsCurrent, TypeOK
  <2>3. NewestIsCurrent' /\ CurrentIsListed'
    BY <2>1, <2>2 DEF NewestIsCurrent, CurrentIsListed, Found, Listed
  <2>4. ASSUME NEW d \in Clients PROVE LocksOf(d)' /\ DeleteOf(d)'
    <3>1. LocksOf(d) /\ DeleteOf(d)
      BY DEF IInv, LocksRight, DeletesRight
    <3>2. pc[d] \notin {"insert", "commit update", "lock target", "commit rollback",
                       "lock rows", "commit delete"}
      BY <2>2, <3>1 DEF LocksOf, DeleteOf
    <3>3. pc'[d] = pc[d] \/ (pc'[d] = "done" /\ pc[d] \in Lockless)
      <4>1. pc'[c] = "done" /\ \A e \in Clients \ {c} : pc'[e] = pc[e]
        BY <2>1, GoGoes DEF IInv
      <4> QED
        BY <1>1, <4>1
    <3> QED
      BY <1>1, <3>1, <3>2, <3>3 DEF LocksOf, DeleteOf, Lockless, Ended
  <2> QED
    BY <2>3, <2>4 DEF IInv, LocksRight, DeletesRight
<1> QED
  BY <1>2, <1>3

LEMMA CommitUpdateKeeps ==
  ASSUME IInv, TypeOK', NEW c \in Clients, CommitUpdate(c) PROVE IInv'
<1> DEFINE m == base[c]
<1>1. /\ pc[c] = "commit update" /\ Go(c, "done") /\ Release(c)
      /\ exists' = exists \cup {m + 1} /\ active' = active \cup {m + 1}
      /\ current' = (current \ {m}) \cup {m + 1}
      /\ UNCHANGED <<base, target, todo>>
  BY DEF CommitUpdate, Move, Inserted
<1>2. m \in current /\ lockedBy[m] = c
  BY <1>1 DEF IInv, LocksRight, LocksOf
<1>3. current = {m} /\ 1 \in exists /\ m \in Versions /\ \A w \in exists : w <= m
  BY <1>2, CurrentIsOne
<1>4. exists \subseteq Nat /\ m \in Nat
  BY <1>3 DEF IInv, TypeOK, Versions
<1> HIDE DEF m
<1>5. current' = {m + 1}
  BY <1>1, <1>3
<1>6. NewestIsCurrent' /\ CurrentIsListed'
  <2>1. ASSUME NEW w \in exists' PROVE w <= m + 1
    <3>1. CASE w \in exists
      <4>1. w \in Nat /\ w <= m
        BY <1>3, <1>4, <3>1
      <4> QED
        BY <1>4, <4>1
    <3>2. CASE w = m + 1
      BY <1>4, <3>2
    <3> QED
      BY <1>1, <3>1, <3>2
  <2> QED
    BY <1>1, <1>3, <1>5, <2>1 DEF NewestIsCurrent, CurrentIsListed, Found, Listed
<1>7. pc'[c] = "done" /\ \A d \in Clients \ {c} : pc'[d] = pc[d]
  BY <1>1, GoGoes DEF IInv
<1>8. /\ \A v \in Versions : lockedBy'[v] # c
      /\ \A d \in Clients \ {c}, v \in Versions : lockedBy'[v] = d <=> lockedBy[v] = d
  BY <1>1, ReleaseFrees
<1>9. LocksOf(c)' /\ DeleteOf(c)'
  BY <1>7, <1>8 DEF LocksOf, DeleteOf, Lockless, Ended
<1>10. ASSUME NEW d \in Clients \ {c} PROVE LocksOf(d)' /\ DeleteOf(d)'
  <2>1. LocksOf(d) /\ DeleteOf(d)
    BY DEF IInv, LocksRight, DeletesRight
  <2>2. pc[d] \notin {"insert", "commit update", "lock target", "commit rollback"}
    BY <1>2, <1>3, <2>1 DEF LocksOf
  <2>3. LocksOf(d)'
    BY <1>1, <1>7, <1>8, <2>1, <2>2 DEF LocksOf
  <2>4. Taken(d)' = Taken(d)
    BY <1>1, <1>8 DEF Taken
  <2>5. CASE pc[d] \in {"lock rows", "commit delete"}
    <3>1. /\ Taken(d) # {} /\ Taken(d) \subseteq exists
          /\ \A v \in exists \ Taken(d) : \A w \in Taken(d) : w < v
      BY <2>1, <2>5 DEF DeleteOf
    <3>2. ASSUME NEW v \in exists' \ Taken(d), NEW w \in Taken(d) PROVE w < v
      <4>1. CASE v \in exists
        BY <3>1, <4>1
      <4>2. CASE v = m + 1
        <5>1. w \in exists
          BY <3>1
        <5>2. w \in Nat /\ w <= m
          BY <1>3, <1>4, <5>1
        <5> QED
          BY <1>4, <4>2, <5>2
      <4> QED
        BY <1>1, <4>1, <4>2
    <3> QED
      BY <1>1, <1>7, <2>1, <2>3, <2>4, <3>1, <3>2 DEF DeleteOf
  <2>6. CASE pc[d] \notin {"lock rows", "commit delete"}
    BY <1>7, <2>3, <2>6 DEF DeleteOf
  <2> QED
    BY <2>5, <2>6
<1> QED
  BY <1>6, <1>9, <1>10 DEF IInv, LocksRight, DeletesRight

LEMMA CommitDeleteKeeps ==
  ASSUME IInv, TypeOK', NEW c \in Clients, CommitDelete(c) PROVE IInv'
<1>1. /\ pc[c] = "commit delete" /\ Go(c, "done") /\ Release(c)
      /\ active' = {v \in active : lockedBy[v] # c}
      /\ UNCHANGED <<exists, current, base, target, todo>>
  BY DEF CommitDelete, Move
<1>2. pc'[c] = "done" /\ \A d \in Clients \ {c} : pc'[d] = pc[d]
  BY <1>1, GoGoes DEF IInv
<1>3. /\ \A v \in Versions : lockedBy'[v] # c
      /\ \A d \in Clients \ {c}, v \in Versions : lockedBy'[v] = d <=> lockedBy[v] = d
  BY <1>1, ReleaseFrees
<1>4. LocksOf(c)' /\ DeleteOf(c)'
  BY <1>2, <1>3 DEF LocksOf, DeleteOf, Lockless, Ended
<1>5. NewestIsCurrent'
  BY <1>1 DEF IInv, NewestIsCurrent
<1>6. CurrentIsListed'
  <2> SUFFICES ASSUME active' # {} PROVE current \subseteq active'
    BY <1>1 DEF CurrentIsListed, Found, Listed
  <2>1. active # {} /\ current \subseteq active /\ exists # {} /\ active \subseteq exists
        /\ exists \subseteq Nat
    <3>1. active # {}
      BY <1>1
    <3>2. active \subseteq exists /\ exists \subseteq Nat
      BY DEF IInv, TypeOK, Versions
    <3> QED
      BY <3>1, <3>2 DEF IInv, CurrentIsListed, Found, Listed
  <2>2. PICK m \in exists : current = {m} /\ \A v \in exists : v <= m
    BY <2>1 DEF IInv, NewestIsCurrent
  <2>3. \A v \in exists \ Taken(c) : \A w \in Taken(c) : w < v
    BY <1>1 DEF IInv, DeletesRight, DeleteOf
  <2>4. Taken(c) = {v \in Versions : lockedBy[v] = c}
    BY <1>1 DEF IInv, DeletesRight, DeleteOf, Taken
  <2>5. PICK v \in active : lockedBy[v] # c
    BY <1>1
  <2>6. v \in exists \ Taken(c)
    BY <2>1, <2>4, <2>5
  <2>7. m \notin Taken(c)
    BY <2>1, <2>2, <2>3, <2>6
  <2>8. lockedBy[m] # c
    BY <2>2, <2>4, <2>7 DEF IInv, TypeOK
  <2> QED
    BY <1>1, <2>1, <2>2, <2>8
<1>7. ASSUME NEW d \in Clients \ {c} PROVE LocksOf(d)' /\ DeleteOf(d)'
  <2>1. LocksOf(d) /\ DeleteOf(d) /\ base[d] \in Versions
    BY DEF IInv, LocksRight, DeletesRight, TypeOK
  <2>2. base[d] \in current /\ target[d] \in current => target[d] = base[d]
    BY CurrentIsOne
  <2>3. LocksOf(d)'
    BY <1>1, <1>2, <1>3, <2>1, <2>2 DEF LocksOf
  <2>4. Taken(d)' = Taken(d)
    BY <1>1, <1>3 DEF Taken
  <2>5. DeleteOf(d)'
    BY <1>1, <1>2, <2>1, <2>4 DEF DeleteOf
  <2> QED
    BY <2>3, <2>5
<1> QED
  BY <1>4, <1>5, <1>6, <1>7 DEF IInv, LocksRight, DeletesRight

LEMMA StutterKeeps == ASSUME IInv, UNCHANGED vars PROVE IInv'
<1>1. /\ oneCurrent' = oneCurrent /\ exists' = exists /\ current' = current /\ active' = active
      /\ lockedBy' = lockedBy /\ pc' = pc /\ base' = base /\ target' = target
      /\ todo' = todo /\ asked' = asked
  BY DEF vars, table
<1>2. TypeOK' /\ NewestIsCurrent' /\ CurrentIsListed'
  BY <1>1 DEF IInv, TypeOK, NewestIsCurrent, CurrentIsListed, Found, Listed
<1>3. LocksRight'
  BY <1>1 DEF IInv, LocksRight, LocksOf
<1>4. DeletesRight'
  <2>1. \A c : Taken(c)' = Taken(c)
    BY <1>1 DEF Taken
  <2> QED
    BY <1>1, <2>1 DEF IInv, DeletesRight, DeleteOf
<1> QED
  BY <1>2, <1>3, <1>4 DEF IInv

LEMMA NextIInv == IInv /\ [Next]_vars => IInv'
<1> SUFFICES ASSUME IInv, [Next]_vars PROVE IInv'
  OBVIOUS
<1>1. ASSUME NEW c \in Clients, Next, Request(c) \/ Abort(c) \/ Proceed(c) PROVE IInv'
  <2>1. TypeOK'
    BY <1>1, NextTypes
  <2>2. CASE Request(c) \/ Abort(c)
    BY <2>1, <2>2, RequestKeeps, AbortKeeps
  <2>3. CASE Proceed(c)
    BY <2>1, <2>3, CreateFirstKeeps, AskKeeps, LockKeeps, InsertNextKeeps, CommitUpdateKeeps,
       CommitRollbackKeeps, SnapshotKeeps, LockNextRowKeeps, CommitDeleteKeeps DEF Proceed
  <2> QED
    BY <1>1, <2>2, <2>3
<1>2. CASE Next
  BY <1>1, <1>2 DEF Next
<1> QED
  BY <1>2, StutterKeeps

LEMMA SpecIInv == Spec => []IInv
  BY InitIInv, NextIInv, PTL DEF Spec

(* The table, the locks and the requests keep their shape.                 *)
THEOREM TypeCorrect == Spec => []TypeOK
<1>1. IInv => TypeOK
  BY DEF IInv
<1> QED
  BY <1>1, SpecIInv, PTL

(* A workflow that exists has exactly one current version, whatever Create,*)
(* Update, Rollback and Delete meet.                                       *)
THEOREM OneVersionIsCurrent == Spec => []ExactlyOneCurrent
<1>1. IInv => ExactlyOneCurrent
  BY DEF IInv, NewestIsCurrent, ExactlyOneCurrent, Found
<1> QED
  BY <1>1, SpecIInv, PTL

(* No Delete leaves old versions active without the current one.           *)
THEOREM CurrentStaysListed == Spec => []CurrentIsListed
<1>1. IInv => CurrentIsListed
  BY DEF IInv
<1> QED
  BY <1>1, SpecIInv, PTL

(* No request brings back a workflow all of whose versions are deleted.    *)
THEOREM DeletedStaysDeleted == Spec => DeletedForGood
<1>1. ASSUME IInv, [Next]_vars, exists # {}, active = {} PROVE active' = {}
  <2>1. ASSUME NEW c \in Clients, Request(c) \/ Abort(c) PROVE active' = active
    BY <2>1 DEF Request, Create, CreateFromText, Update, Rollback, Delete, Accept, Abort, table
  <2>2. ASSUME NEW c \in Clients, Proceed(c) PROVE active' \subseteq active
    <3>1. CASE CreateFirst(c)
      <4>1. Refused(1)
        BY <1>1 DEF IInv, NewestIsCurrent, Refused
      <4> QED
        BY <3>1, <4>1 DEF CreateFirst, table
    <3>2. ~CommitUpdate(c)
      <4>1. LocksOf(c) /\ active = {}
        BY <1>1 DEF IInv, LocksRight
      <4> QED
        BY <4>1 DEF LocksOf, CommitUpdate, Move
    <3>3. CASE CommitDelete(c)
      BY <3>3 DEF CommitDelete
    <3>4. CASE Ask(c) \/ LockRow(c) \/ InsertNext(c) \/ LockCurrent(c) \/ LockTarget(c)
               \/ CommitRollback(c) \/ Snapshot(c) \/ LockNextRow(c)
      BY <3>4 DEF Ask, LockRow, InsertNext, LockCurrent, LockTarget, CommitRollback, Snapshot,
                  LockNextRow, table
    <3> QED
      BY <2>2, <3>1, <3>2, <3>3, <3>4 DEF Proceed
  <2>3. CASE UNCHANGED vars
    BY <1>1, <2>3 DEF vars, table
  <2> QED
    BY <1>1, <2>1, <2>2, <2>3 DEF Next
<1>2. IInv /\ [Next]_vars => [exists # {} /\ active = {} => active' = {}]_vars
  BY <1>1
<1> QED
  BY <1>2, SpecIInv, PTL DEF Spec, DeletedForGood

---------------------------------------------------------------------------
(* Who waits for whom.                                                     *)

(* Who holds a row and asks for one of another is a Delete: the only other *)
(* request that asks for a second row is a Rollback, and that one is       *)
(* current, as is the row it holds.                                        *)
LEMMA HolderThatAwaits ==
  ASSUME IInv, NEW c \in Clients, NEW v \in Versions, lockedBy[v] = c,
         NEW w \in Awaits(c), lockedBy[w] # c
  PROVE  pc[c] = "lock rows"
<1>1. LocksOf(c)
  BY DEF IInv, LocksRight
<1>2. pc[c] \notin Lockless
  BY <1>1 DEF LocksOf
<1>3. pc[c] # "lock target"
  <2> SUFFICES ASSUME pc[c] = "lock target" PROVE FALSE
    OBVIOUS
  <2>1. w = target[c] /\ Matches(w)
    BY DEF Awaits
  <2>2. base[c] \in current /\ lockedBy[base[c]] = c
    BY <1>1 DEF LocksOf
  <2>3. w = base[c]
    BY <2>1, <2>2, CurrentIsOne DEF Matches
  <2> QED
    BY <2>2, <2>3
<1> QED
  BY <1>2, <1>3 DEF Awaits, Lockless

(* The row locks of Update and Rollback (workflow.go) never make a circle, *)
(* with each other or with Deletes, in whatever order these take the rows, *)
(* for any number of requests and versions.                                *)
THEOREM OnlyDeletesCanDeadlock == Spec => []OnlyDeletesDeadlock
<1>1. IInv => OnlyDeletesDeadlock
  <2> SUFFICES ASSUME IInv, NEW c \in Clients, NEW C \in SUBSET Clients, c \in C, Circle(C)
               PROVE  pc[c] = "lock rows"
    BY DEF OnlyDeletesDeadlock, Deadlocked
  <2>1. PICK d \in C, e \in C : WaitsFor(c, d) /\ WaitsFor(e, c)
    BY DEF Circle
  <2>2. PICK w \in Awaits(c) : lockedBy[w] # c
    BY <2>1 DEF WaitsFor
  <2>3. PICK v \in Awaits(e) : lockedBy[v] = c
    BY <2>1 DEF WaitsFor
  <2>4. v \in Versions
    BY DEF Awaits
  <2> QED
    BY <2>2, <2>3, <2>4, HolderThatAwaits
<1> QED
  BY <1>1, SpecIInv, PTL

---------------------------------------------------------------------------
(* The history of the workflow.                                            *)

NoGaps == \A m \in current : exists = 1 .. m

LEMMA EmptyHistory == ASSUME IInv, exists = {} PROVE current = {} /\ active = {}
  BY DEF IInv, TypeOK

LEMMA BeginsHistory ==
  ASSUME IInv, NEW c \in Clients, CreateFirst(c), ~Refused(1)
  PROVE  History!Begin /\ NoGaps'
<1>1. exists = {} /\ current = {} /\ active = {}
  BY EmptyHistory DEF IInv, NewestIsCurrent, Refused
<1>2. exists' = {1} /\ current' = {1} /\ active' = {1}
  BY <1>1 DEF CreateFirst, Inserted
<1>3. 1 .. 1 = {1}
  OBVIOUS
<1> QED
  BY <1>1, <1>2, <1>3 DEF History!Begin, NoGaps

LEMMA EditsHistory ==
  ASSUME IInv, NoGaps, NEW c \in Clients, CommitUpdate(c)
  PROVE  History!Edit /\ NoGaps'
<1> DEFINE m == base[c]
<1>1. /\ pc[c] = "commit update"
      /\ exists' = exists \cup {m + 1} /\ active' = active \cup {m + 1}
      /\ current' = (current \ {m}) \cup {m + 1}
  BY DEF CommitUpdate, Move, Inserted
<1>2. m \in current /\ m \in active
  BY <1>1 DEF IInv, LocksRight, LocksOf
<1>3. current = {m} /\ m \in Versions
  BY <1>2, CurrentIsOne
<1>4. exists = 1 .. m
  BY <1>2 DEF NoGaps
<1> HIDE DEF m
<1>5. exists' = 1 .. m + 1 /\ m + 1 \notin exists
  <2>1. m \in Nat
    BY <1>3 DEF Versions
  <2>2. (1 .. m) \cup {m + 1} = 1 .. m + 1 /\ m + 1 \notin 1 .. m
    BY <2>1
  <2> QED
    BY <1>1, <1>4, <2>2
<1>6. current' = {m + 1}
  BY <1>1, <1>3
<1>7. History!Edit
  BY <1>1, <1>2, <1>3, <1>5, <1>6 DEF History!Edit
<1> QED
  BY <1>5, <1>6, <1>7 DEF NoGaps

LEMMA SomeIsLast ==
  ASSUME NEW n \in Nat, NEW T \in SUBSET (0 .. n), T # {}
  PROVE  \E k \in T : \A w \in T : w <= k
<1> DEFINE Below == OpToRel(<, Nat)
           U == {n - w : w \in T}
<1>1. U \subseteq Nat /\ U # {}
  <2>1. \A w \in T : n - w \in Nat
    OBVIOUS
  <2>2. PICK w : w \in T
    OBVIOUS
  <2>3. n - w \in U
    BY <2>2
  <2> QED
    BY <2>1, <2>3
<1>2. PICK x \in U : \A y \in U : ~(<<y, x>> \in Below)
  BY <1>1, NatLessThanWellFounded, WFMin
<1>3. \A y \in U : ~(y < x)
  BY <1>1, <1>2 DEF OpToRel
<1>4. PICK k \in T : x = n - k
  OBVIOUS
<1>5. ASSUME NEW w \in T PROVE w <= k
  <2>1. ~(n - w < n - k) /\ w \in Nat /\ k \in Nat
    BY <1>3, <1>4
  <2> QED
    BY <2>1
<1> QED
  BY <1>5

(* Where a Delete was asked for before an Update committed, the last       *)
(* version it takes is the one before.                                     *)
LEMMA DeletesHistory ==
  ASSUME IInv, NEW c \in Clients, CommitDelete(c)
  PROVE  History!Delete
<1>1. /\ pc[c] = "commit delete" /\ UNCHANGED <<exists, current>>
      /\ active' = {v \in active : lockedBy[v] # c}
  BY DEF CommitDelete, Move
<1>2. /\ todo[c] = {} /\ Taken(c) # {} /\ Taken(c) \subseteq exists
      /\ \A v \in exists \ Taken(c) : \A w \in Taken(c) : w < v
  BY <1>1 DEF IInv, DeletesRight, DeleteOf
<1>3. Taken(c) = {v \in Versions : lockedBy[v] = c}
  BY <1>2 DEF Taken
<1>4. exists \subseteq Versions /\ active \subseteq exists
  BY DEF IInv, TypeOK
<1>5. PICK k \in Taken(c) : \A w \in Taken(c) : w <= k
  <2> DEFINE T == Taken(c)
  <2>1. Versions \subseteq 0 .. MaxVersion /\ MaxVersion \in Nat
    BY DEF Versions
  <2>2. T \in SUBSET (0 .. MaxVersion) /\ T # {}
    BY <1>2, <1>4, <2>1
  <2> HIDE DEF T
  <2>3. \E k \in T : \A w \in T : w <= k
    BY <2>1, <2>2, SomeIsLast
  <2> QED
    BY <2>3 DEF T
<1>6. ASSUME NEW v \in active PROVE lockedBy[v] # c <=> v > k
  <2>1. v \in Versions /\ k \in Versions
    BY <1>2, <1>4
  <2>2. CASE v \in Taken(c)
    BY <1>3, <1>5, <2>1, <2>2 DEF Versions
  <2>3. CASE v \notin Taken(c)
    BY <1>2, <1>3, <1>4, <2>1, <2>3 DEF Versions
  <2> QED
    BY <2>2, <2>3
<1>7. active' = {v \in active : v > k} /\ k \in exists
  BY <1>1, <1>2, <1>6
<1> QED
  BY <1>1, <1>7 DEF History!Delete

LEMMA HistoryStep ==
  ASSUME IInv, NoGaps, [Next]_vars
  PROVE  [History!Next]_<<exists, current, active>> /\ NoGaps'
<1>1. ASSUME UNCHANGED table PROVE UNCHANGED <<exists, current, active>> /\ NoGaps'
  BY <1>1 DEF table, NoGaps
<1>2. ASSUME NEW c \in Clients, Request(c) \/ Abort(c) PROVE UNCHANGED table
  BY <1>2 DEF Request, Create, CreateFromText, Update, Rollback, Delete, Accept, Abort
<1>3. ASSUME NEW c \in Clients, CommitRollback(c) PROVE UNCHANGED table
  <2>1. base[c] \in current /\ target[c] \in current
    BY <1>3 DEF CommitRollback, Move, IInv, LocksRight, LocksOf
  <2> QED
    BY <1>3, <2>1, CurrentIsOne DEF CommitRollback, table
<1>4. ASSUME NEW c \in Clients, Proceed(c)
      PROVE  [History!Next]_<<exists, current, active>> /\ NoGaps'
  <2>1. CASE CreateFirst(c)
    BY <1>1, <2>1, BeginsHistory DEF CreateFirst, History!Next
  <2>2. CASE CommitUpdate(c)
    BY <2>2, EditsHistory DEF History!Next
  <2>3. CASE CommitDelete(c)
    <3>1. NoGaps'
      BY <2>3 DEF CommitDelete, NoGaps
    <3> QED
      BY <2>3, <3>1, DeletesHistory DEF History!Next
  <2>4. CASE CommitRollback(c)
    BY <1>1, <1>3, <2>4
  <2>5. CASE \/ Ask(c) \/ LockRow(c) \/ InsertNext(c) \/ LockCurrent(c) \/ LockTarget(c)
             \/ Snapshot(c) \/ LockNextRow(c)
    BY <1>1, <2>5 DEF Ask, LockRow, InsertNext, LockCurrent, LockTarget, Snapshot, LockNextRow
  <2> QED
    BY <1>4, <2>1, <2>2, <2>3, <2>4, <2>5 DEF Proceed
<1>5. CASE UNCHANGED vars
  BY <1>1, <1>5 DEF vars
<1> QED
  BY <1>1, <1>2, <1>4, <1>5 DEF Next

(* Create, Update, Rollback and Delete (workflow.go) implement the history *)
(* of VersionHistory, for any number of requests and versions.             *)
THEOREM RequestsMakeOneHistory == Spec => OneHistory
<1>1. Init => History!Init /\ NoGaps
  BY DEF Init, History!Init, NoGaps
<1>2. IInv /\ NoGaps /\ [Next]_vars => [History!Next]_<<exists, current, active>> /\ NoGaps'
  BY HistoryStep
<1> QED
  BY <1>1, <1>2, SpecIInv, PTL DEF Spec, OneHistory, History!Spec
=============================================================================
