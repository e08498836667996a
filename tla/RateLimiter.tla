---------------------------- MODULE RateLimiter ----------------------------
(***************************************************************************)
(* The limit on requests: RateLimiter of internal/handler/middleware.go,   *)
(* which asks two buckets for every request, and the script of             *)
(* pkg/redis/redis.go, which Redis runs as one step.  A bucket is a key    *)
(* that expires when it has not been asked for Ttl seconds.                *)
(*                                                                         *)
(* A server reads its clock before the call travels to Redis: the second   *)
(* it sends may be off from the one in which the script runs.              *)
(***************************************************************************)
EXTENDS Integers

CONSTANTS
  Scopes,    (* The addresses that requests come from.                     *)
  Global,    (* "rate_limit:global"                                        *)
  Requests,  (* As many requests as may be under way at once.              *)
  Nobody,
  Capacity,  (* key -> ARGV[1] of the script.                              *)
  Rate,      (* key -> ARGV[2], what a bucket gains in a second.           *)
  Ttl,       (* EXPIRE                                                     *)
  Skew,      (* How far the second that is sent may be off.                *)
  MaxTime    (* A bound: the last second.                                  *)

Keys == Scopes \cup {Global}

ASSUME RateAssumption ==
  /\ Capacity \in [Keys -> Nat \ {0}]
  /\ Rate \in [Keys -> Nat \ {0}]
  /\ Ttl \in Nat
  /\ Skew \in Nat
  /\ MaxTime \in Nat
  /\ \A k \in Keys : Capacity[k] <= Rate[k] * Ttl

VARIABLES
  now,
  tokens,      (* key -> the field tokens,                                 *)
  last_refill, (* the field last_refill,                                   *)
  expires,     (* and when the key expires; 0 before there is one.         *)
  from,        (* request -> whose bucket it has yet to ask, or Nobody.    *)
  skewed,      (* Whether a second ever was off.                           *)
  spent        (* What a bucket that kept to the rate would have lost,     *)
               (* counted until then.                                      *)

bucket == <<tokens, last_refill, expires>>
vars == <<now, bucket, from, skewed, spent>>

Least(m, n) == IF m <= n THEN m ELSE n
Most(m, n) == IF m <= n THEN n ELSE m

Init ==
  /\ now = 0
  /\ tokens = [k \in Keys |-> 0]
  /\ last_refill = [k \in Keys |-> 0]
  /\ expires = [k \in Keys |-> 0]
  /\ from = [r \in Requests |-> Nobody]
  /\ spent = [k \in Keys |-> 0]
  /\ skewed = FALSE

---------------------------------------------------------------------------
(* The script.                                                             *)

(* A slip: what a bucket gains is not held to its capacity.                *)
Overfull(k, t) ==
  IF now < expires[k] THEN tokens[k] + Most(0, t - last_refill[k]) * Rate[k]
                      ELSE Capacity[k]

(* A slip: the second that has begun counts as elapsed.                    *)
BegunSeconds(k, t) ==
  IF now < expires[k]
  THEN Least(Capacity[k], tokens[k] + (Most(0, t - last_refill[k]) + 1) * Rate[k])
  ELSE Capacity[k]

(* The tokens of k in second t: all of them when there is no key.          *)
Refilled(k, t) ==
  IF now < expires[k]
  THEN Least(Capacity[k], tokens[k] + Most(0, t - last_refill[k]) * Rate[k])
  ELSE Capacity[k]

(* A slip: > for >=.                                                       *)
MoreThanOne(k, t) == Refilled(k, t) > 1

Enough(k, t) == Refilled(k, t) >= 1

(* Allow: whether or not there is a token, the bucket is as of second t,   *)
(* also of one that is before last_refill, and lives on.                   *)
Allow(k, t, allowed) ==
  /\ allowed = Enough(k, t)
  /\ tokens' = [tokens EXCEPT ![k] = Refilled(k, t) - (IF allowed THEN 1 ELSE 0)]
  /\ last_refill' = [last_refill EXCEPT ![k] = t]
  /\ expires' = [expires EXCEPT ![k] = now + Ttl]
  /\ skewed' = (skewed \/ t # now)
  /\ spent' = IF allowed /\ ~skewed' THEN [spent EXCEPT ![k] = @ + 1] ELSE spent
  /\ UNCHANGED now

---------------------------------------------------------------------------
(* The middleware.                                                         *)

(* The seconds that servers may send now.                                  *)
Readings == {t \in 0 .. MaxTime + Skew : now - Skew <= t /\ t <= now + Skew}

AskGlobal(r, s) ==
  /\ from[r] = Nobody
  /\ \E t \in Readings, allowed \in BOOLEAN :
       /\ Allow(Global, t, allowed)
       /\ from' = IF allowed THEN [from EXCEPT ![r] = s] ELSE from

(* Whatever it answers, the token of the global bucket is gone.            *)
AskScope(r) ==
  /\ from[r] # Nobody
  /\ \E t \in Readings, allowed \in BOOLEAN : Allow(from[r], t, allowed)
  /\ from' = [from EXCEPT ![r] = Nobody]

(* An error of Redis is logged, and the request goes on, to its own bucket *)
(* or to its handler.                                                      *)
GoesOn(r) ==
  \/ \E s \in Scopes : from[r] = Nobody /\ from' = [from EXCEPT ![r] = s]
  \/ from[r] # Nobody /\ from' = [from EXCEPT ![r] = Nobody]

(* The script has not run.                                                 *)
FailOpen(r) ==
  /\ GoesOn(r)
  /\ UNCHANGED <<now, bucket, skewed, spent>>

Asked(r) == IF from[r] = Nobody THEN Global ELSE from[r]

(* It has run, and only its answer is lost: the client asks again, or      *)
(* returns the error.                                                      *)
AnswerLost(r) ==
  /\ \E t \in Readings, allowed \in BOOLEAN : Allow(Asked(r), t, allowed)
  /\ GoesOn(r) \/ UNCHANGED from

(* A second passes, in which every bucket may gain its rate.               *)
Tick ==
  /\ now < MaxTime
  /\ now' = now + 1
  /\ spent' = [k \in Keys |-> Most(0, spent[k] - Rate[k])]
  /\ UNCHANGED <<bucket, from, skewed>>

Next ==
  \/ \E r \in Requests :
       \/ \E s \in Scopes : AskGlobal(r, s)
       \/ AskScope(r)
       \/ FailOpen(r)
       \/ AnswerLost(r)
  \/ Tick

Spec == Init /\ [][Next]_vars

---------------------------------------------------------------------------
(* No bucket holds more than its capacity, and the second it is of is one  *)
(* that a server may have sent.                                            *)
TypeOK ==
  /\ now \in 0 .. MaxTime
  /\ tokens \in [Keys -> Nat]
  /\ \A k \in Keys : tokens[k] <= Capacity[k]
  /\ last_refill \in [Keys -> 0 .. MaxTime + Skew]
  /\ expires \in [Keys -> 0 .. MaxTime + Ttl]
  /\ from \in [Requests -> Scopes \cup {Nobody}]
  /\ spent \in [Keys -> Nat]
  /\ skewed \in BOOLEAN

(* As long as the seconds that are sent are right, no window of time sees  *)
(* a bucket give more tokens than its capacity and its rate make, though   *)
(* its key expires and comes back full.  A request that goes on after an   *)
(* error of Redis is beyond this: it may have had no token.                *)
WithinBudget ==
  ~skewed => \A k \in Keys : spent[k] <= Capacity[k]

(* And no bucket refuses a request it has room for.  A token that was      *)
(* given and had no use, because its answer was lost or the other bucket   *)
(* refused, leaves none.                                                   *)
RefusedOnlyWhenSpent ==
  ~skewed => \A k \in Keys : Enough(k, now) <=> spent[k] < Capacity[k]
=============================================================================
