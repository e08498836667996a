-------------------------- MODULE RateLimiterProofs --------------------------
(***************************************************************************)
(* Proofs about RateLimiter, for any number of addresses and requests, any *)
(* capacities and rates, and any time.                                     *)
(*                                                                         *)
(* TypeCorrect is inductive.  The two others follow from one equation: in  *)
(* the second it is asked in, a bucket has its capacity less what has been *)
(* spent.  A key that expires must have been full by then, which is where  *)
(* the assumption on Ttl is used.                                          *)
(***************************************************************************)
EXTENDS RateLimiter, TLAPS

LEMMA KeysAre == Scopes \subseteq Keys /\ Global \in Keys
  BY DEF Keys

LEMMA Parameters ==
  /\ MaxTime \in Nat
  /\ Skew \in Nat
  /\ Ttl \in Nat
  /\ \A k \in Keys : /\ Capacity[k] \in Nat \ {0}
                     /\ Rate[k] \in Nat \ {0}
                     /\ Capacity[k] <= Rate[k] * Ttl
                     /\ Ttl > 0
<1>1. SUFFICES ASSUME NEW k \in Keys PROVE Capacity[k] <= Rate[k] * Ttl => Ttl > 0
  BY RateAssumption DEF RateAssumption
<1>2. Capacity[k] \in Nat \ {0} /\ Rate[k] \in Nat \ {0} /\ Ttl \in Nat
  BY RateAssumption DEF RateAssumption
<1>3. Ttl = 0 => Rate[k] * Ttl = 0
  BY <1>2
<1> QED BY <1>2, <1>3

(* What Least and Most return.                                             *)
LEMMA LeastMost ==
  ASSUME NEW m \in Int, NEW n \in Int
  PROVE  /\ Least(m, n) \in Int
         /\ Least(m, n) <= m
         /\ Least(m, n) <= n
         /\ Least(m, n) \in {m, n}
         /\ Most(m, n) \in Int
         /\ Most(m, n) >= m
         /\ Most(m, n) >= n
         /\ Most(m, n) \in {m, n}
  BY DEF Least, Most

LEMMA Products ==
  ASSUME NEW m \in Nat, NEW n \in Nat
  PROVE  m * n \in Nat
  BY Z3

(* A second more is the rate more.                                         *)
LEMMA OneMore ==
  ASSUME NEW m \in Int, NEW n \in Int
  PROVE  (m + 1) * n = m * n + n
  BY Z3

(* What a bucket has in second t lies between nothing and its capacity.    *)
LEMMA RefilledBounds ==
  ASSUME TypeOK, NEW k \in Keys, NEW t \in Int
  PROVE  Refilled(k, t) \in Nat /\ Refilled(k, t) <= Capacity[k]
<1> DEFINE gained == Most(0, t - last_refill[k])
<1>1. Capacity[k] \in Nat /\ Rate[k] \in Nat
  BY Parameters
<1>2. tokens[k] \in Nat /\ last_refill[k] \in Int
  BY DEF TypeOK
<1>3. gained \in Nat
  BY <1>2, LeastMost DEF Most
<1>4. gained * Rate[k] \in Nat
  BY <1>1, <1>3, Products
<1> HIDE DEF gained
<1>5. Least(Capacity[k], tokens[k] + gained * Rate[k]) \in Nat
  BY <1>1, <1>2, <1>4 DEF Least
<1>6. Least(Capacity[k], tokens[k] + gained * Rate[k]) <= Capacity[k]
  BY <1>1, <1>2, <1>4 DEF Least
<1>7. Refilled(k, t) = IF now < expires[k] THEN Least(Capacity[k], tokens[k] + gained * Rate[k])
                                           ELSE Capacity[k]
  BY DEF Refilled, gained
<1> QED BY <1>1, <1>5, <1>6, <1>7

---------------------------------------------------------------------------

LEMMA TypeAllow ==
  ASSUME TypeOK, NEW k \in Keys, NEW t \in Readings, NEW allowed \in BOOLEAN,
         Allow(k, t, allowed), from' \in [Requests -> Scopes \cup {Nobody}]
  PROVE  TypeOK'
<1>1. t \in 0 .. MaxTime + Skew
  BY DEF Readings
<1>2. Refilled(k, t) \in Nat /\ Refilled(k, t) <= Capacity[k]
  BY <1>1, Parameters, RefilledBounds
<1>3. allowed => Refilled(k, t) >= 1
  BY DEF Allow, Enough
<1> DEFINE left == Refilled(k, t) - (IF allowed THEN 1 ELSE 0)
<1>4. left \in Nat /\ left <= Capacity[k]
  BY <1>2, <1>3, Parameters
<1>5. tokens' = [tokens EXCEPT ![k] = left]
  BY DEF Allow
<1> HIDE DEF left
<1>6. tokens' \in [Keys -> Nat] /\ \A j \in Keys : tokens'[j] <= Capacity[j]
  BY <1>4, <1>5 DEF TypeOK
<1>7. last_refill' \in [Keys -> 0 .. MaxTime + Skew]
  BY <1>1 DEF TypeOK, Allow
<1>8. now + Ttl \in 0 .. MaxTime + Ttl
  BY Parameters DEF TypeOK
<1>9. expires' \in [Keys -> 0 .. MaxTime + Ttl]
  BY <1>8 DEF TypeOK, Allow
<1>10. spent' \in [Keys -> Nat]
  <2>1. spent[k] + 1 \in Nat
    BY DEF TypeOK
  <2>2. spent' = spent \/ spent' = [spent EXCEPT ![k] = spent[k] + 1]
    BY DEF Allow
  <2> QED BY <2>1, <2>2 DEF TypeOK
<1>11. skewed' \in BOOLEAN
  BY DEF TypeOK, Allow
<1>12. now' \in 0 .. MaxTime
  BY DEF TypeOK, Allow
<1> QED BY <1>6, <1>7, <1>9, <1>10, <1>11, <1>12 DEF TypeOK

LEMMA TypeStep ==
  ASSUME TypeOK, [Next]_vars
  PROVE  TypeOK'
<1>1. ASSUME NEW r \in Requests, NEW s \in Scopes, AskGlobal(r, s) PROVE TypeOK'
  <2>1. from' \in [Requests -> Scopes \cup {Nobody}]
    BY <1>1 DEF AskGlobal, TypeOK
  <2> QED BY <1>1, <2>1, TypeAllow, KeysAre DEF AskGlobal
<1>2. ASSUME NEW r \in Requests, AskScope(r) PROVE TypeOK'
  <2>1. from' \in [Requests -> Scopes \cup {Nobody}]
    BY <1>2 DEF AskScope, TypeOK
  <2>2. from[r] \in Keys
    BY <1>2, KeysAre DEF AskScope, TypeOK
  <2> QED BY <1>2, <2>1, <2>2, TypeAllow DEF AskScope
<1>3. ASSUME NEW r \in Requests, FailOpen(r) PROVE TypeOK'
  BY <1>3 DEF FailOpen, GoesOn, TypeOK, bucket
<1>4. ASSUME NEW r \in Requests, AnswerLost(r) PROVE TypeOK'
  <2>1. from' \in [Requests -> Scopes \cup {Nobody}]
    BY <1>4 DEF AnswerLost, GoesOn, TypeOK
  <2>2. Asked(r) \in Keys
    BY KeysAre DEF Asked, TypeOK
  <2> QED BY <1>4, <2>1, <2>2, TypeAllow DEF AnswerLost
<1>5. CASE Tick
  <2>1. now' \in 0 .. MaxTime
    BY <1>5, Parameters DEF Tick, TypeOK
  <2>2. \A k \in Keys : Most(0, spent[k] - Rate[k]) \in Nat
    BY Parameters DEF TypeOK, Most
  <2>3. spent' \in [Keys -> Nat]
    BY <1>5, <2>2 DEF Tick
  <2> QED BY <1>5, <2>1, <2>3 DEF Tick, TypeOK, bucket
<1>6. CASE UNCHANGED vars
  BY <1>6 DEF TypeOK, vars, bucket
<1> QED BY <1>1, <1>2, <1>3, <1>5, <1>6, <1>4 DEF Next

LEMMA TypeInit ==
  ASSUME Init
  PROVE  TypeOK
<1>1. 0 \in 0 .. MaxTime /\ 0 \in 0 .. MaxTime + Skew /\ 0 \in 0 .. MaxTime + Ttl
  BY Parameters
<1>2. \A k \in Keys : 0 <= Capacity[k]
  BY Parameters
<1> QED BY <1>1, <1>2 DEF Init, TypeOK

(* The shape of the state: no bucket overflows.                            *)
THEOREM TypeCorrect == Spec => []TypeOK
<1>1. Init => TypeOK
  BY TypeInit
<1>2. TypeOK /\ [Next]_vars => TypeOK'
  BY TypeStep
<1> QED BY <1>1, <1>2, PTL DEF Spec

---------------------------------------------------------------------------

(* As long as the seconds are right, a bucket has what is left of its      *)
(* capacity, and its key expires Ttl seconds after it was last asked.      *)
ExactAt(k) ==
  /\ last_refill[k] <= now
  /\ now < expires[k] => expires[k] = last_refill[k] + Ttl
  /\ Refilled(k, now) = Capacity[k] - spent[k]

Exact == ~skewed => \A k \in Keys : ExactAt(k)

LEMMA ExactInit ==
  ASSUME Init
  PROVE  Exact
<1>1. SUFFICES ASSUME NEW k \in Keys PROVE ExactAt(k)
  BY DEF Exact
<1>2. now = 0 /\ last_refill[k] = 0 /\ expires[k] = 0 /\ spent[k] = 0
  BY DEF Init
<1>3. Refilled(k, now) = Capacity[k]
  BY <1>2 DEF Refilled
<1> QED BY <1>2, <1>3, Parameters DEF ExactAt

(* A bucket depends on nothing but its own fields and the time.            *)
LEMMA ExactElsewhere ==
  ASSUME NEW k \in Keys, ExactAt(k), UNCHANGED now,
         tokens'[k] = tokens[k], last_refill'[k] = last_refill[k],
         expires'[k] = expires[k], spent'[k] = spent[k]
  PROVE  ExactAt(k)'
  BY DEF ExactAt, Refilled, Least, Most

LEMMA ExactAllow ==
  ASSUME TypeOK, Exact, NEW k \in Keys, NEW t \in Readings, NEW allowed \in BOOLEAN,
         Allow(k, t, allowed)
  PROVE  Exact'
<1>1. SUFFICES ASSUME ~skewed', NEW j \in Keys PROVE ExactAt(j)'
  BY DEF Exact
<1>2. ~skewed /\ t = now /\ now' = now
  BY <1>1 DEF Allow
<1>3. ExactAt(j) /\ ExactAt(k)
  BY <1>2 DEF Exact
<1>4. CASE j # k
  <2>1. /\ tokens'[j] = tokens[j]
        /\ last_refill'[j] = last_refill[j]
        /\ expires'[j] = expires[j]
        /\ spent'[j] = spent[j]
    BY <1>4 DEF Allow, TypeOK
  <2> QED BY <1>2, <1>3, <2>1, ExactElsewhere
<1>5. CASE j = k
  <2> DEFINE one == IF allowed THEN 1 ELSE 0
             left == Refilled(k, now) - one
  <2>1. /\ tokens'[k] = left
        /\ last_refill'[k] = now
        /\ expires'[k] = now + Ttl
    BY <1>2 DEF Allow, TypeOK
  <2>2. spent'[k] = spent[k] + one
    BY <1>1 DEF Allow, TypeOK
  <2>3. /\ Capacity[k] \in Nat
        /\ Rate[k] \in Nat
        /\ Ttl \in Nat
        /\ Ttl > 0
        /\ now \in Nat
        /\ spent[k] \in Nat
    BY Parameters DEF TypeOK
  <2>4. left = Capacity[k] - spent'[k]
    BY <1>3, <2>2, <2>3 DEF ExactAt
  <2>5. left <= Capacity[k] /\ left \in Int
    BY <2>2, <2>3, <2>4
  <2>6. Refilled(k, now)' = left
    <3>1. now' < expires'[k]
      BY <1>2, <2>1, <2>3
    <3>2. Most(0, now' - last_refill'[k]) = 0
      BY <1>2, <2>1, <2>3 DEF Most
    <3>3. 0 * Rate[k] = 0
      BY <2>3
    <3>4. Refilled(k, now)' = Least(Capacity[k], tokens'[k] + 0 * Rate[k])
      BY <3>1, <3>2 DEF Refilled
    <3>5. tokens'[k] + 0 * Rate[k] = left
      BY <2>1, <2>5, <3>3
    <3> HIDE DEF left
    <3> QED BY <2>3, <2>5, <3>4, <3>5 DEF Least
  <2> HIDE DEF left
  <2>7. ExactAt(k)'
    BY <1>2, <2>1, <2>3, <2>4, <2>6 DEF ExactAt
  <2> QED BY <1>5, <2>7
<1> QED BY <1>4, <1>5

(* When a second passes a bucket gains its rate, up to its capacity; and   *)
(* one whose key expires is full by then.                                  *)
LEMMA ExactTick ==
  ASSUME TypeOK, Exact, Tick
  PROVE  Exact'
<1>1. SUFFICES ASSUME ~skewed, NEW k \in Keys PROVE ExactAt(k)'
  BY DEF Exact, Tick
<1>2. ExactAt(k)
  BY <1>1 DEF Exact
<1>3. /\ Capacity[k] \in Nat
      /\ Rate[k] \in Nat
      /\ Ttl \in Nat
      /\ Capacity[k] <= Rate[k] * Ttl
      /\ tokens[k] \in Nat
      /\ now \in Nat
      /\ spent[k] \in Nat
      /\ last_refill[k] \in Int
      /\ expires[k] \in Int
  BY Parameters DEF TypeOK
<1>4. /\ now' = now + 1
      /\ tokens' = tokens
      /\ last_refill' = last_refill
      /\ expires' = expires
      /\ spent'[k] = Most(0, spent[k] - Rate[k])
  BY DEF Tick, bucket
<1>5. last_refill[k] <= now
  BY <1>2 DEF ExactAt
<1>6. last_refill'[k] <= now'
  BY <1>3, <1>4, <1>5
<1>7. CASE ~ now < expires[k]
  <2>1. ~ now' < expires'[k]
    BY <1>3, <1>4, <1>7
  <2>2. Refilled(k, now) = Capacity[k]
    BY <1>7 DEF Refilled
  <2>3. spent[k] = 0
    BY <1>2, <1>3, <2>2 DEF ExactAt
  <2>4. spent'[k] = 0
    BY <1>3, <1>4, <2>3 DEF Most
  <2>5. Refilled(k, now)' = Capacity[k]
    BY <2>1 DEF Refilled
  <2> QED BY <1>3, <1>6, <2>1, <2>4, <2>5 DEF ExactAt
<1>8. CASE now < expires[k]
  <2> DEFINE since == now - last_refill[k]
             gain == since * Rate[k]
  <2>1. since \in Nat
    BY <1>3, <1>5
  <2>2. gain \in Nat
    BY <1>3, <2>1, Products
  <2>3. (since + 1) * Rate[k] = gain + Rate[k]
    BY <1>3, <2>1, OneMore
  <2>4. /\ Most(0, now - last_refill[k]) = since
        /\ Most(0, now' - last_refill'[k]) = since + 1
    BY <1>3, <1>4, <2>1 DEF Most
  <2>5. Least(Capacity[k], tokens[k] + gain) = Capacity[k] - spent[k]
    BY <1>2, <1>8, <2>4 DEF ExactAt, Refilled
  <2>6. expires[k] = last_refill[k] + Ttl
    BY <1>2, <1>8 DEF ExactAt
  <2>7. now' < expires'[k] =>
          Refilled(k, now)' = Least(Capacity[k], tokens[k] + (gain + Rate[k]))
    BY <1>4, <2>3, <2>4 DEF Refilled
  <2>8. ~ now' < expires'[k] => since + 1 = Ttl
    <3>1. ~ now' < expires'[k] => now + 1 = last_refill[k] + Ttl
      BY <1>3, <1>4, <1>8, <2>6
    <3> QED BY <1>3, <3>1
  <2>9. ~ now' < expires'[k] => gain + Rate[k] = Ttl * Rate[k]
    BY <2>3, <2>8
  <2>10. Ttl * Rate[k] = Rate[k] * Ttl
    BY <1>3
  <2>11. ~ now' < expires'[k] => Capacity[k] <= gain + Rate[k]
    BY <1>3, <2>9, <2>10
  <2>12. ~ now' < expires'[k] => Refilled(k, now)' = Capacity[k]
    BY DEF Refilled
  <2> HIDE DEF since, gain
  <2>13. Least(Capacity[k], tokens[k] + (gain + Rate[k])) = Capacity[k] - spent'[k]
    <3> DEFINE c == Capacity[k]
               r == Rate[k]
               n == tokens[k] + gain
               s == spent[k]
    <3>1. c \in Nat /\ r \in Nat /\ n \in Nat /\ s \in Nat
      BY <1>3, <2>2
    <3>2. Least(c, n) = c - s
      BY <2>5
    <3>3. tokens[k] + (gain + Rate[k]) = n + r
      BY <1>3, <2>2
    <3>4. spent'[k] = Most(0, s - r)
      BY <1>4
    <3> HIDE DEF c, r, n, s
    <3>5. Least(c, n + r) = c - Most(0, s - r)
      BY <3>1, <3>2 DEF Least, Most
    <3> QED BY <3>3, <3>4, <3>5 DEF c
  <2>14. Capacity[k] <= gain + Rate[k] =>
           Least(Capacity[k], tokens[k] + (gain + Rate[k])) = Capacity[k]
    BY <1>3, <2>2 DEF Least
  <2>15. Refilled(k, now)' = Capacity[k] - spent'[k]
    BY <2>7, <2>11, <2>12, <2>13, <2>14
  <2> QED BY <1>4, <1>6, <2>6, <2>15 DEF ExactAt
<1> QED BY <1>7, <1>8

LEMMA ExactStep ==
  ASSUME TypeOK, Exact, [Next]_vars
  PROVE  Exact'
<1>1. ASSUME NEW r \in Requests, NEW s \in Scopes, AskGlobal(r, s) PROVE Exact'
  BY <1>1, ExactAllow, KeysAre DEF AskGlobal
<1>2. ASSUME NEW r \in Requests, AskScope(r) PROVE Exact'
  <2>1. from[r] \in Keys
    BY <1>2, KeysAre DEF AskScope, TypeOK
  <2> QED BY <1>2, <2>1, ExactAllow DEF AskScope
<1>3. ASSUME UNCHANGED <<now, bucket, skewed, spent>> PROVE Exact'
  BY <1>3 DEF Exact, ExactAt, Refilled, Least, Most, bucket
<1>4. ASSUME NEW r \in Requests, FailOpen(r) PROVE Exact'
  <2>1. UNCHANGED <<now, bucket, skewed, spent>>
    BY <1>4 DEF FailOpen
  <2> QED BY <1>3, <2>1
<1>5. ASSUME NEW r \in Requests, AnswerLost(r) PROVE Exact'
  <2>1. Asked(r) \in Keys
    BY KeysAre DEF Asked, TypeOK
  <2> QED BY <1>5, <2>1, ExactAllow DEF AnswerLost
<1>6. CASE Tick
  BY <1>6, ExactTick
<1>7. CASE UNCHANGED vars
  BY <1>3, <1>7 DEF vars
<1> QED BY <1>1, <1>2, <1>4, <1>6, <1>7, <1>5 DEF Next

LEMMA ExactAlways == Spec => [](TypeOK /\ Exact)
<1>1. Init => TypeOK /\ Exact
  BY TypeInit, ExactInit
<1>2. TypeOK /\ Exact /\ [Next]_vars => (TypeOK /\ Exact)'
  BY TypeStep, ExactStep
<1> QED BY <1>1, <1>2, PTL DEF Spec

(* While the clocks agree, no bucket allows more requests than its         *)
(* capacity and its rate make, whenever its key expires.                   *)
THEOREM BudgetIsKept == Spec => []WithinBudget
<1>1. TypeOK /\ Exact => WithinBudget
  <2>1. SUFFICES ASSUME TypeOK, Exact, ~skewed, NEW k \in Keys
                 PROVE  spent[k] <= Capacity[k]
    BY DEF WithinBudget
  <2>2. Refilled(k, now) \in Nat /\ now \in Int
    BY <2>1, RefilledBounds DEF TypeOK
  <2>3. Refilled(k, now) = Capacity[k] - spent[k]
    BY <2>1 DEF Exact, ExactAt
  <2>4. Capacity[k] \in Nat /\ spent[k] \in Nat
    BY <2>1, Parameters DEF TypeOK
  <2> QED BY <2>2, <2>3, <2>4
<1> QED BY <1>1, ExactAlways, PTL

(* And none refuses a request they leave room for.                         *)
THEOREM RoomIsUsed == Spec => []RefusedOnlyWhenSpent
<1>1. TypeOK /\ Exact => RefusedOnlyWhenSpent
  <2>1. SUFFICES ASSUME TypeOK, Exact, ~skewed, NEW k \in Keys
                 PROVE  Enough(k, now) <=> spent[k] < Capacity[k]
    BY DEF RefusedOnlyWhenSpent
  <2>2. Refilled(k, now) = Capacity[k] - spent[k]
    BY <2>1 DEF Exact, ExactAt
  <2>3. Capacity[k] \in Nat /\ spent[k] \in Nat
    BY <2>1, Parameters DEF TypeOK
  <2>4. Capacity[k] - spent[k] >= 1 <=> spent[k] < Capacity[k]
    BY <2>3
  <2> QED BY <2>2, <2>4 DEF Enough
<1> QED BY <1>1, ExactAlways, PTL
=============================================================================
