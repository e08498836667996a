--------------------------- MODULE SessionsProofs ---------------------------
(***************************************************************************)
(* Sessions, for any number of clients and tokens and any durations.       *)
(***************************************************************************)
EXTENDS Sessions, TLAPS

(* Moments are kept apart from their bound: a sum of two is a number.      *)
TimesOK ==
  /\ now \in Nat
  /\ refEnds \in Nat
  /\ accEnds \in [Tokens -> Nat]
  /\ storedEnds \in Nat
  /\ revokedEnds \in [Tokens -> Nat]

(* Every moment that is kept is at most one duration from now.             *)
Near ==
  /\ now <= MaxTime
  /\ refEnds <= now + RefreshTokenExp
  /\ storedEnds <= now + RefreshTokenExp
  /\ \A t \in Tokens : accEnds[t] <= now + AccessTokenExp
  /\ \A t \in Tokens : revokedEnds[t] <= now + AccessTokenExp

ShapeOK ==
  /\ stored \in Tokens \cup {NoToken}
  /\ handed \subseteq Tokens
  /\ pc \in [Clients -> Places]
  /\ acc \in [Clients -> Tokens \cup {NoToken}]
  /\ fresh \in [Clients -> Tokens \cup {NoToken}]
  /\ overlapped \in BOOLEAN
  /\ loggedOut \in BOOLEAN
  /\ \A c \in Clients :
       /\ pc[c] \in {"revoke read", "revoke own", "delete session"} => acc[c] \in Tokens
       /\ pc[c] \in {"store login", "store fresh"} => fresh[c] \in Tokens

(* What is named anywhere has been generated.                              *)
Generated ==
  /\ stored # NoToken => accEnds[stored] # 0
  /\ \A t \in handed : accEnds[t] # 0
  /\ \A c \in Clients : acc[c] # NoToken => accEnds[acc[c]] # 0
  /\ \A c \in Clients : fresh[c] # NoToken => accEnds[fresh[c]] # 0
  /\ \A t \in Tokens : revokedEnds[t] # 0 => accEnds[t] # 0

Outlived == \A t \in Tokens : revokedEnds[t] # 0 => accEnds[t] <= revokedEnds[t]

TInv == TimesOK /\ Near /\ ShapeOK /\ Generated /\ Outlived

LEMMA Sums ==
  ASSUME SessionsAssumption, now \in Nat
  PROVE  /\ now + AccessTokenExp \in Nat /\ now + AccessTokenExp # 0
         /\ now + RefreshTokenExp \in Nat /\ now + RefreshTokenExp # 0
         /\ 0 <= now + RefreshTokenExp
BY DEF SessionsAssumption

LEMMA InitTInv == ASSUME SessionsAssumption, Init PROVE TInv
<1> USE DEF SessionsAssumption, Init
<1>1. TimesOK /\ Near
  BY DEF TimesOK, Near
<1>2. ShapeOK
  BY DEF ShapeOK, Places
<1>3. Generated /\ Outlived
  BY DEF Generated, Outlived
<1> QED BY <1>1, <1>2, <1>3 DEF TInv

LEMMA FailTInv == ASSUME SessionsAssumption, TInv, NEW c \in Clients, Fail(c) PROVE TInv'
<1>1. TimesOK' /\ Near' /\ Outlived'
  BY DEF TInv, TimesOK, Near, Outlived, Fail, tokens, keys
<1>2. ShapeOK'
  BY DEF TInv, ShapeOK, Places, Fail, Ends, tokens, keys, history
<1>3. Generated'
  BY DEF TInv, ShapeOK, Generated, Fail, Ends, tokens, keys
<1> QED BY <1>1, <1>2, <1>3 DEF TInv

LEMMA TickTInv == ASSUME SessionsAssumption, TInv, Tick PROVE TInv'
<1>1. TimesOK' /\ Near' /\ Outlived'
  BY DEF SessionsAssumption, TInv, TimesOK, Near, Outlived, Tick, tokens, keys
<1>2. ShapeOK' /\ Generated'
  BY DEF TInv, ShapeOK, Generated, Tick, tokens, keys, history
<1> QED BY <1>1, <1>2 DEF TInv

(* A new token is one that nothing names.                                  *)
LEMMA GenerateTimes ==
  ASSUME SessionsAssumption, TInv, NEW c \in Clients, Generate(c), now' = now
  PROVE  /\ accEnds' \in [Tokens -> Nat]
         /\ \A t \in Tokens : accEnds'[t] <= now + AccessTokenExp
         /\ \A t \in Tokens : accEnds[t] # 0 => accEnds'[t] = accEnds[t]
         /\ \A t \in Tokens : accEnds'[t] # accEnds[t] => accEnds[t] = 0 /\ accEnds'[t] # 0
         /\ \E t \in Tokens :
              fresh' = [fresh EXCEPT ![c] = t] /\ accEnds'[t] # 0
<1>1. PICK t \in Tokens :
        /\ accEnds[t] = 0
        /\ accEnds' = [accEnds EXCEPT ![t] = now + AccessTokenExp]
        /\ fresh' = [fresh EXCEPT ![c] = t]
  BY DEF Generate
<1>2. now + AccessTokenExp \in Nat /\ now + AccessTokenExp # 0
  BY DEF SessionsAssumption, TInv, TimesOK
<1>3. accEnds' \in [Tokens -> Nat] /\ accEnds'[t] = now + AccessTokenExp
  BY <1>1, <1>2 DEF TInv, TimesOK
<1>4. \A s \in Tokens : s # t => accEnds'[s] = accEnds[s]
  BY <1>1 DEF TInv, TimesOK
<1>5. \A s \in Tokens : accEnds'[s] <= now + AccessTokenExp
  BY <1>2, <1>3, <1>4 DEF TInv, Near
<1> QED BY <1>1, <1>2, <1>3, <1>4, <1>5

LEMMA LoginTInv ==
  ASSUME SessionsAssumption, TInv, NEW c \in Clients, Login(c) PROVE TInv'
<1>0. Generate(c) /\ now' = now
  BY DEF Login
<1>1. TimesOK' /\ Near' /\ Outlived'
  <2>1. refEnds' \in Nat /\ refEnds' <= now + RefreshTokenExp
    <3>1. refEnds' = now + RefreshTokenExp /\ now \in Nat
      BY DEF Login, TInv, TimesOK
    <3> QED BY <3>1, Sums
  <2>2. TimesOK' /\ Near'
    BY <1>0, <2>1, GenerateTimes DEF Login, TInv, TimesOK, Near, keys
  <2>3. Outlived'
    BY <1>0, GenerateTimes DEF Login, TInv, Outlived, Generated, keys
  <2> QED BY <2>2, <2>3
<1>2. ShapeOK'
  <2>1. PICK t \in Tokens : fresh' = [fresh EXCEPT ![c] = t]
    BY <1>0, GenerateTimes
  <2> QED BY <2>1 DEF Login, Begins, TInv, ShapeOK, Places, keys
<1>3. Generated'
  <2>1. PICK t \in Tokens : fresh' = [fresh EXCEPT ![c] = t] /\ accEnds'[t] # 0
    BY <1>0, GenerateTimes
  <2> QED BY <1>0, <2>1, GenerateTimes DEF Login, TInv, ShapeOK, Generated, keys
<1> QED BY <1>1, <1>2, <1>3 DEF TInv

LEMMA RevokeReadTInv ==
  ASSUME SessionsAssumption, TInv, NEW c \in Clients, RevokeRead(c) PROVE TInv'
<1>0. Generate(c) /\ now' = now /\ Revoke(c)
  BY DEF RevokeRead
<1>1. acc[c] \in Tokens /\ accEnds[acc[c]] # 0 /\ now + AccessTokenExp \in Nat
  <2>1. acc[c] \in Tokens
    BY DEF RevokeRead, Move, TInv, ShapeOK
  <2>2. accEnds[acc[c]] # 0
    BY <2>1 DEF TInv, Generated, SessionsAssumption
  <2> QED BY <2>1, <2>2, Sums DEF TInv, TimesOK
<1>2. TimesOK' /\ Near'
  <2>1. /\ revokedEnds' \in [Tokens -> Nat]
        /\ \A s \in Tokens : revokedEnds'[s] <= now + AccessTokenExp
    BY <1>0, <1>1 DEF Revoke, TInv, TimesOK, Near
  <2>2. UNCHANGED <<now, refEnds, storedEnds>>
    BY DEF RevokeRead
  <2> QED BY <1>0, <2>1, <2>2, GenerateTimes DEF TInv, TimesOK, Near
<1>3. Outlived'
  BY <1>0, <1>1, GenerateTimes DEF Revoke, TInv, TimesOK, Outlived, Generated
<1>4. ShapeOK'
  <2>1. PICK t \in Tokens : fresh' = [fresh EXCEPT ![c] = t]
    BY <1>0, GenerateTimes
  <2> QED BY <2>1 DEF RevokeRead, Move, TInv, ShapeOK, Places, history
<1>5. Generated'
  <2>1. PICK t \in Tokens : fresh' = [fresh EXCEPT ![c] = t] /\ accEnds'[t] # 0
    BY <1>0, GenerateTimes
  <2>2. \A d \in Clients : fresh'[d] # NoToken => accEnds'[fresh'[d]] # 0
    BY <1>0, <2>1, GenerateTimes DEF TInv, ShapeOK, Generated
  <2>3. \A s \in Tokens : revokedEnds'[s] # 0 => accEnds'[s] # 0
    BY <1>0, <1>1, GenerateTimes DEF Revoke, TInv, TimesOK, Generated
  <2> QED BY <1>0, <2>2, <2>3, GenerateTimes DEF RevokeRead, TInv, ShapeOK, Generated
<1> QED BY <1>2, <1>3, <1>4, <1>5 DEF TInv

(* The two steps that store the session and hand out its token.            *)
LEMMA StoreTInv ==
  ASSUME SessionsAssumption, TInv, NEW c \in Clients, StoreLogin(c) \/ StoreFresh(c)
  PROVE  TInv'
<1>1. fresh[c] \in Tokens
  BY DEF StoreLogin, StoreFresh, TInv, ShapeOK
<1>2. /\ stored' = fresh[c]
      /\ storedEnds' = now + RefreshTokenExp
      /\ handed' \in {handed, handed \cup {fresh[c]}}
      /\ UNCHANGED <<now, refEnds, accEnds, revokedEnds, history>>
      /\ Ends(c)
  BY DEF StoreLogin, StoreFresh, Store
<1>3. TimesOK' /\ Near' /\ Outlived'
  BY <1>2 DEF SessionsAssumption, TInv, TimesOK, Near, Outlived
<1>4. ShapeOK'
  BY <1>1, <1>2 DEF Ends, TInv, ShapeOK, Places, history
<1>5. Generated'
  <2>1. accEnds[fresh[c]] # 0
    BY <1>1 DEF SessionsAssumption, TInv, Generated
  <2> QED BY <1>1, <1>2, <2>1 DEF Ends, TInv, ShapeOK, Generated
<1> QED BY <1>3, <1>4, <1>5 DEF TInv

LEMMA RefreshTInv ==
  ASSUME SessionsAssumption, TInv, NEW c \in Clients, Refresh(c) \/ ReadSession(c)
  PROVE  TInv'
<1>1. TimesOK' /\ Near' /\ Outlived'
  BY DEF Refresh, ReadSession, TInv, TimesOK, Near, Outlived, tokens, keys
<1>2. Session # NoToken => Session \in Tokens /\ accEnds[Session] # 0
  BY DEF Session, TInv, ShapeOK, Generated
<1>3. ShapeOK'
  <2>1. CASE Refresh(c)
    BY <2>1 DEF Refresh, Begins, TInv, ShapeOK, Places, tokens, keys
  <2>2. CASE ReadSession(c)
    BY <1>2, <2>2 DEF ReadSession, Move, TInv, ShapeOK, Places, tokens, keys, history
  <2> QED BY <2>1, <2>2
<1>4. Generated'
  BY <1>2 DEF Refresh, ReadSession, TInv, ShapeOK, Generated, tokens, keys
<1> QED BY <1>1, <1>3, <1>4 DEF TInv

LEMMA LogoutTInv ==
  ASSUME SessionsAssumption, TInv, NEW c \in Clients, NEW t \in Tokens, Logout(c, t)
  PROVE  TInv'
<1>1. TimesOK' /\ Near' /\ Outlived'
  BY DEF Logout, TInv, TimesOK, Near, Outlived, tokens, keys
<1>2. ShapeOK'
  BY DEF Logout, Begins, TInv, ShapeOK, Places, tokens, keys
<1>3. Generated'
  BY DEF Logout, TInv, ShapeOK, Generated, tokens, keys
<1> QED BY <1>1, <1>2, <1>3 DEF TInv

LEMMA DeleteTInv ==
  ASSUME SessionsAssumption, TInv, NEW c \in Clients, DeleteSession(c)
  PROVE  TInv'
<1>1. TimesOK' /\ Near' /\ Outlived'
  <2>1. storedEnds' = 0 /\ UNCHANGED <<now, refEnds, accEnds, revokedEnds>>
    BY DEF DeleteSession, tokens
  <2>2. 0 <= now + RefreshTokenExp
    BY Sums DEF TInv, TimesOK
  <2> QED BY <2>1, <2>2 DEF TInv, TimesOK, Near, Outlived
<1>2. ShapeOK'
  BY DEF DeleteSession, Move, TInv, ShapeOK, Places, tokens
<1>3. Generated'
  BY DEF DeleteSession, TInv, ShapeOK, Generated, tokens
<1> QED BY <1>1, <1>2, <1>3 DEF TInv

LEMMA RevokeOwnTInv ==
  ASSUME SessionsAssumption, TInv, NEW c \in Clients, RevokeOwn(c) PROVE TInv'
<1>1. acc[c] \in Tokens /\ accEnds[acc[c]] # 0 /\ now + AccessTokenExp \in Nat
  <2>1. acc[c] \in Tokens
    BY DEF RevokeOwn, TInv, ShapeOK
  <2>2. accEnds[acc[c]] # 0
    BY <2>1 DEF TInv, Generated, SessionsAssumption
  <2> QED BY <2>1, <2>2, Sums DEF TInv, TimesOK
<1>2. TimesOK' /\ Near' /\ Outlived'
  <2>1. /\ revokedEnds' = [revokedEnds EXCEPT ![acc[c]] = now + AccessTokenExp]
        /\ UNCHANGED <<now, refEnds, accEnds, storedEnds>>
    BY DEF RevokeOwn, Revoke, tokens
  <2>2. /\ revokedEnds' \in [Tokens -> Nat]
        /\ \A s \in Tokens : revokedEnds'[s] \in {revokedEnds[s], now + AccessTokenExp}
    BY <1>1, <2>1 DEF TInv, TimesOK
  <2>3. /\ \A s \in Tokens : revokedEnds'[s] <= now + AccessTokenExp
        /\ \A s \in Tokens : revokedEnds'[s] # 0 => accEnds[s] <= revokedEnds'[s]
    BY <1>1, <2>2 DEF TInv, Near, Outlived
  <2> QED BY <2>1, <2>2, <2>3 DEF TInv, TimesOK, Near, Outlived
<1>3. ShapeOK'
  BY DEF RevokeOwn, Ends, TInv, ShapeOK, Places, tokens, history
<1>4. Generated'
  BY <1>1 DEF RevokeOwn, Revoke, Ends, TInv, TimesOK, ShapeOK, Generated, tokens
<1> QED BY <1>2, <1>3, <1>4 DEF TInv

LEMMA StepTInv ==
  ASSUME SessionsAssumption, TInv, [Next]_vars PROVE TInv'
<1>1. CASE UNCHANGED vars
  BY <1>1 DEF TInv, TimesOK, Near, ShapeOK, Generated, Outlived, vars, tokens, keys, history
<1>2. CASE Tick BY <1>2, TickTInv
<1>3. ASSUME NEW c \in Clients, Step(c) PROVE TInv'
  BY <1>3, LoginTInv, StoreTInv, RefreshTInv, RevokeReadTInv, LogoutTInv, DeleteTInv,
     RevokeOwnTInv, FailTInv DEF Step
<1> QED BY <1>1, <1>2, <1>3 DEF Next

LEMMA TInvAlways == Spec => []TInv
<1>1. Init => TInv BY InitTInv, SessionsAssumption
<1>2. TInv /\ [Next]_vars => TInv' BY StepTInv, SessionsAssumption
<1> QED BY <1>1, <1>2, PTL DEF Spec

(* The tokens, the keys and the requests keep their shape, and no moment   *)
(* is further away than the longer of the two durations.                   *)
THEOREM TypeCorrect == Spec => []TypeOK
<1>1. TInv => TypeOK
  <2>1. ASSUME TInv PROVE TypeOK
    <3>1. now \in 0 .. MaxTime /\ MaxTime \in Nat
      BY <2>1, SessionsAssumption DEF SessionsAssumption, TInv, TimesOK, Near
    <3>2. AccessTokenExp \in Nat /\ RefreshTokenExp \in Nat
      BY SessionsAssumption DEF SessionsAssumption
    <3>3. ASSUME NEW n \in Nat, n <= now + AccessTokenExp \/ n <= now + RefreshTokenExp
          PROVE  n \in Times
      BY <3>1, <3>2, <3>3 DEF Times
    <3>4. /\ refEnds \in Times /\ storedEnds \in Times
          /\ accEnds \in [Tokens -> Times] /\ revokedEnds \in [Tokens -> Times]
      BY <2>1, <3>3 DEF TInv, TimesOK, Near
    <3> QED BY <2>1, <3>1, <3>4 DEF TypeOK, TInv, ShapeOK
  <2> QED BY <2>1
<1> QED BY <1>1, TInvAlways, PTL

(* A revoked token stays revoked until it expires.                         *)
THEOREM RevokedStaysRevoked == Spec => []RevokedWhileItLives
<1>1. TInv => RevokedWhileItLives
  BY DEF TInv, TimesOK, Outlived, RevokedWhileItLives, Live, Blacklisted
<1> QED BY <1>1, TInvAlways, PTL

---------------------------------------------------------------------------
(* The requests of a session that never overlap.                           *)

OneAtATime ==
  \A c, d \in Clients : pc[c] # "idle" /\ pc[d] # "idle" => c = d

(* Where the one request is tells what the keys hold.                      *)
Sequential(c) ==
  /\ pc[c] = "store login" => handed = {} /\ ~loggedOut
  /\ pc[c] = "read session" => handed # {}
  /\ pc[c] \in {"revoke read", "store fresh"} =>
       stored # NoToken /\ stored = acc[c] /\ handed # {}
  /\ pc[c] = "store fresh" => revokedEnds[acc[c]] # 0

(* What is handed out has been revoked once or is what the session stores. *)
Accounted == stored # NoToken => \A t \in handed : t = stored \/ revokedEnds[t] # 0

SInv ==
  /\ handed # {} => refEnds # 0
  /\ loggedOut => handed # {}
  /\ refEnds = 0 => \A c \in Clients : pc[c] = "idle"
  /\ ~overlapped =>
       /\ OneAtATime
       /\ \A c \in Clients : Sequential(c)
       /\ Accounted
       /\ loggedOut => stored = NoToken

(* Who logs out has a token.                                               *)
Holds == \A c \in Clients : pc[c] = "delete session" => handed # {}

LEMMA InitSInv == ASSUME SessionsAssumption, Init PROVE SInv /\ Holds
BY DEF Init, SInv, Holds, OneAtATime, Sequential, Accounted

(* A request that begins, none being under way, is the only one.           *)
LEMMA BeginsAlone ==
  ASSUME TInv, SInv, NEW c \in Clients, NEW place, Begins(c, place), ~overlapped'
  PROVE  /\ ~overlapped
         /\ pc'[c] = place
         /\ \A d \in Clients : d # c => pc'[d] = "idle"
         /\ OneAtATime'
<1>1. ~overlapped /\ \A d \in Clients : pc[d] = "idle"
  BY DEF Begins, TInv, ShapeOK
<1>2. pc'[c] = place /\ \A d \in Clients : d # c => pc'[d] = "idle"
  BY <1>1 DEF Begins, TInv, ShapeOK
<1> QED BY <1>1, <1>2 DEF OneAtATime

(* A request that goes on, not having overlapped, is the only one.         *)
LEMMA GoesAlone ==
  ASSUME TInv, SInv, NEW c \in Clients, NEW to, pc[c] # "idle",
         pc' = [pc EXCEPT ![c] = to], ~overlapped
  PROVE  /\ pc'[c] = to
         /\ \A d \in Clients : d # c => pc'[d] = "idle"
         /\ OneAtATime'
<1>1. \A d \in Clients : d # c => pc[d] = "idle"
  BY DEF SInv, OneAtATime
<1>2. pc'[c] = to /\ \A d \in Clients : d # c => pc'[d] = "idle"
  BY <1>1 DEF TInv, ShapeOK
<1> QED BY <1>2 DEF OneAtATime

LEMMA LoginSInv ==
  ASSUME SessionsAssumption, TInv, SInv, NEW c \in Clients, Login(c) PROVE SInv'
<1>1. refEnds' # 0 /\ refEnds = 0 /\ handed = {} /\ ~loggedOut
      /\ UNCHANGED <<handed, stored, revokedEnds, loggedOut>>
  BY Sums DEF Login, SInv, keys, TInv, TimesOK
<1>2. ASSUME ~overlapped'
      PROVE  OneAtATime' /\ (\A d \in Clients : Sequential(d)') /\ Accounted'
  <2>1. /\ pc'[c] = "store login" /\ OneAtATime'
        /\ \A d \in Clients : d # c => pc'[d] = "idle"
    BY <1>2, BeginsAlone DEF Login
  <2> QED BY <1>1, <2>1 DEF Sequential, Accounted
<1> QED BY <1>1, <1>2 DEF SInv

LEMMA StoreSInv ==
  ASSUME SessionsAssumption, TInv, SInv, NEW c \in Clients, StoreLogin(c) \/ StoreFresh(c)
  PROVE  SInv'
<1>1. /\ pc[c] \in {"store login", "store fresh"}
      /\ stored' = fresh[c]
      /\ handed' \in {handed, handed \cup {fresh[c]}}
      /\ pc' = [pc EXCEPT ![c] = "idle"]
      /\ UNCHANGED <<refEnds, revokedEnds, overlapped, loggedOut>>
  BY DEF StoreLogin, StoreFresh, Store, Ends, history
<1>2. refEnds # 0
  BY <1>1 DEF SInv
<1>3. ASSUME ~overlapped
      PROVE  /\ OneAtATime' /\ (\A d \in Clients : Sequential(d)') /\ Accounted'
             /\ ~loggedOut
  <2>1. /\ pc'[c] = "idle" /\ OneAtATime'
        /\ \A d \in Clients : d # c => pc'[d] = "idle"
    BY <1>1, <1>3, GoesAlone
  <2>2. Sequential(c) /\ Accounted /\ (loggedOut => stored = NoToken)
    BY <1>3 DEF SInv
  <2>3. ~loggedOut /\ \A t \in handed : revokedEnds[t] # 0
    BY <1>1, <2>2 DEF Sequential, Accounted
  <2>4. \A d \in Clients : pc'[d] = "idle"
    BY <2>1
  <2> QED BY <1>1, <2>1, <2>3, <2>4 DEF Sequential, Accounted
<1> QED BY <1>1, <1>2, <1>3 DEF SInv

LEMMA RefreshSInv ==
  ASSUME SessionsAssumption, TInv, SInv, NEW c \in Clients, Refresh(c) PROVE SInv'
<1>1. handed # {} /\ UNCHANGED <<refEnds, handed, stored, revokedEnds, loggedOut>>
  BY DEF Refresh, tokens, keys
<1>2. ASSUME ~overlapped'
      PROVE  ~overlapped /\ OneAtATime' /\ \A d \in Clients : Sequential(d)'
  <2>1. /\ pc'[c] = "read session" /\ OneAtATime' /\ ~overlapped
        /\ \A d \in Clients : d # c => pc'[d] = "idle"
    BY <1>2, BeginsAlone DEF Refresh
  <2> QED BY <1>1, <2>1 DEF Sequential
<1> QED BY <1>1, <1>2 DEF SInv, Accounted

LEMMA ReadSInv ==
  ASSUME SessionsAssumption, TInv, SInv, NEW c \in Clients, ReadSession(c) PROVE SInv'
<1>1. /\ pc[c] = "read session" /\ pc' = [pc EXCEPT ![c] = "revoke read"]
      /\ Session # NoToken /\ acc' = [acc EXCEPT ![c] = Session]
      /\ UNCHANGED <<refEnds, handed, stored, revokedEnds, overlapped, loggedOut>>
  BY DEF ReadSession, Move, tokens, keys, history
<1>2. refEnds # 0
  BY <1>1 DEF SInv
<1>3. ASSUME ~overlapped
      PROVE  OneAtATime' /\ \A d \in Clients : Sequential(d)'
  <2>1. /\ pc'[c] = "revoke read" /\ OneAtATime'
        /\ \A d \in Clients : d # c => pc'[d] = "idle"
    BY <1>1, <1>3, GoesAlone
  <2>2. acc'[c] = stored /\ stored # NoToken
    BY <1>1 DEF Session, TInv, ShapeOK
  <2>3. handed # {}
    BY <1>1, <1>3 DEF SInv, Sequential
  <2> QED BY <1>1, <2>1, <2>2, <2>3 DEF Sequential
<1> QED BY <1>1, <1>2, <1>3 DEF SInv, Accounted

LEMMA RevokeReadSInv ==
  ASSUME SessionsAssumption, TInv, SInv, NEW c \in Clients, RevokeRead(c) PROVE SInv'
<1>1. /\ pc[c] = "revoke read" /\ pc' = [pc EXCEPT ![c] = "store fresh"]
      /\ revokedEnds' = [revokedEnds EXCEPT ![acc[c]] = now + AccessTokenExp]
      /\ UNCHANGED <<refEnds, handed, stored, acc, overlapped, loggedOut>>
  BY DEF RevokeRead, Move, Revoke, history
<1>2. acc[c] \in Tokens /\ refEnds # 0
  BY <1>1 DEF SInv, TInv, ShapeOK
<1>3. revokedEnds'[acc[c]] # 0 /\ \A t \in Tokens : revokedEnds[t] # 0 => revokedEnds'[t] # 0
  <2>1. now + AccessTokenExp # 0
    BY Sums DEF TInv, TimesOK
  <2> QED BY <1>1, <1>2, <2>1 DEF TInv, TimesOK
<1>4. ASSUME ~overlapped
      PROVE  OneAtATime' /\ (\A d \in Clients : Sequential(d)') /\ Accounted'
  <2>1. /\ pc'[c] = "store fresh" /\ OneAtATime'
        /\ \A d \in Clients : d # c => pc'[d] = "idle"
    BY <1>1, <1>4, GoesAlone
  <2>2. stored # NoToken /\ stored = acc[c] /\ handed # {}
    BY <1>1, <1>4 DEF SInv, Sequential
  <2>3. Accounted'
    BY <1>1, <1>3, <1>4 DEF SInv, Accounted, TInv, ShapeOK
  <2> QED BY <1>1, <1>3, <2>1, <2>2, <2>3 DEF Sequential
<1> QED BY <1>1, <1>2, <1>4 DEF SInv

LEMMA LogoutSInv ==
  ASSUME SessionsAssumption, TInv, SInv, NEW c \in Clients, NEW t \in Tokens, Logout(c, t)
  PROVE  SInv'
<1>1. handed # {} /\ UNCHANGED <<refEnds, handed, stored, revokedEnds, loggedOut>>
  BY DEF Logout, tokens, keys
<1>2. ASSUME ~overlapped'
      PROVE  ~overlapped /\ OneAtATime' /\ \A d \in Clients : Sequential(d)'
  <2>1. /\ pc'[c] = "delete session" /\ OneAtATime' /\ ~overlapped
        /\ \A d \in Clients : d # c => pc'[d] = "idle"
    BY <1>2, BeginsAlone DEF Logout
  <2> QED BY <1>1, <2>1 DEF Sequential
<1> QED BY <1>1, <1>2 DEF SInv, Accounted

LEMMA DeleteSInv ==
  ASSUME SessionsAssumption, TInv, SInv, Holds, NEW c \in Clients, DeleteSession(c)
  PROVE  SInv'
<1>1. /\ pc[c] = "delete session" /\ pc' = [pc EXCEPT ![c] = "revoke own"]
      /\ stored' = NoToken
      /\ UNCHANGED <<refEnds, handed, revokedEnds, acc, overlapped>>
  BY DEF DeleteSession, Move, tokens
<1>2. ASSUME ~overlapped
      PROVE  OneAtATime' /\ \A d \in Clients : Sequential(d)'
  <2>1. /\ pc'[c] = "revoke own" /\ OneAtATime'
        /\ \A d \in Clients : d # c => pc'[d] = "idle"
    BY <1>1, <1>2, GoesAlone
  <2>2. handed # {}
    BY <1>1 DEF Holds
  <2> QED BY <1>1, <2>1, <2>2 DEF Sequential
<1>3. handed' # {}
  BY <1>1 DEF Holds
<1> QED BY <1>1, <1>2, <1>3 DEF SInv, Accounted

LEMMA EndSInv ==
  ASSUME SessionsAssumption, TInv, SInv, NEW c \in Clients, pc[c] # "idle",
         pc' = [pc EXCEPT ![c] = "idle"],
         \A t \in Tokens : revokedEnds[t] # 0 => revokedEnds'[t] # 0,
         UNCHANGED <<refEnds, handed, stored, overlapped, loggedOut>>
  PROVE  SInv'
<1>1. refEnds # 0
  BY DEF SInv
<1>2. ASSUME ~overlapped
      PROVE  OneAtATime' /\ (\A d \in Clients : Sequential(d)') /\ Accounted'
  <2>1. /\ pc'[c] = "idle" /\ OneAtATime'
        /\ \A d \in Clients : d # c => pc'[d] = "idle"
    BY <1>2, GoesAlone
  <2>2. Accounted'
    BY <1>2 DEF SInv, Accounted, TInv, ShapeOK
  <2>3. \A d \in Clients : pc'[d] = "idle"
    BY <2>1
  <2> QED BY <2>1, <2>2, <2>3 DEF Sequential
<1> QED BY <1>1, <1>2 DEF SInv

LEMMA RevokeOwnSInv ==
  ASSUME SessionsAssumption, TInv, SInv, NEW c \in Clients, RevokeOwn(c) PROVE SInv'
<1>1. now + AccessTokenExp # 0 /\ now + AccessTokenExp \in Nat
  BY Sums DEF TInv, TimesOK
<1>2. \A t \in Tokens : revokedEnds[t] # 0 => revokedEnds'[t] # 0
  <2>1. /\ acc[c] \in Tokens
        /\ revokedEnds' = [revokedEnds EXCEPT ![acc[c]] = now + AccessTokenExp]
    BY DEF RevokeOwn, Revoke, TInv, ShapeOK
  <2> QED BY <1>1, <2>1 DEF TInv, TimesOK
<1> QED BY <1>2, EndSInv DEF RevokeOwn, Ends, tokens, history

LEMMA FailSInv ==
  ASSUME SessionsAssumption, TInv, SInv, NEW c \in Clients, Fail(c) PROVE SInv'
BY EndSInv DEF Fail, Ends, tokens, keys, history

LEMMA StepHolds ==
  ASSUME TInv, Holds, [Next]_vars PROVE Holds'
<1>1. handed \subseteq handed'
  BY DEF Next, Step, Tick, Login, StoreLogin, Refresh, ReadSession, RevokeRead, StoreFresh,
     Logout, DeleteSession, RevokeOwn, Fail, vars, tokens
<1>2. ASSUME NEW d \in Clients, pc'[d] = "delete session", pc[d] # "delete session"
      PROVE  handed # {}
  <2>1. pc' # pc
    BY <1>2
  <2>2. PICK c \in Clients : Step(c)
    BY <2>1 DEF Next, Tick, vars
  <2>3. ASSUME NEW t \in Tokens, Logout(c, t) PROVE handed # {}
    BY <2>3 DEF Logout
  <2>4. CASE ~\E t \in Tokens : Logout(c, t)
    <3>1. \E place : pc' = [pc EXCEPT ![c] = place] /\ place # "delete session"
      BY <2>2, <2>4 DEF Step, Login, StoreLogin, Refresh, ReadSession, RevokeRead, StoreFresh,
         DeleteSession, RevokeOwn, Fail, Begins, Move, Ends
    <3> QED BY <1>2, <3>1 DEF TInv, ShapeOK
  <2> QED BY <2>3, <2>4
<1> QED BY <1>1, <1>2 DEF Holds

LEMMA StepSInv ==
  ASSUME SessionsAssumption, TInv, SInv, Holds, [Next]_vars PROVE SInv'
<1>1. CASE UNCHANGED vars
  BY <1>1 DEF SInv, OneAtATime, Sequential, Accounted, vars, tokens, keys, history
<1>2. CASE Tick
  BY <1>2 DEF Tick, SInv, OneAtATime, Sequential, Accounted, tokens, keys, history
<1>3. ASSUME NEW c \in Clients, Step(c) PROVE SInv'
  BY <1>3, LoginSInv, StoreSInv, RefreshSInv, ReadSInv, RevokeReadSInv, LogoutSInv, DeleteSInv,
     RevokeOwnSInv, FailSInv DEF Step
<1> QED BY <1>1, <1>2, <1>3 DEF Next

LEMMA SInvAlways == Spec => [](TInv /\ SInv /\ Holds)
<1>1. Init => TInv /\ SInv /\ Holds
  BY InitTInv, InitSInv, SessionsAssumption
<1>2. TInv /\ SInv /\ Holds /\ [Next]_vars => (TInv /\ SInv /\ Holds)'
  BY StepTInv, StepSInv, StepHolds, SessionsAssumption
<1> QED BY <1>1, <1>2, PTL DEF Spec

(* Requests that do not overlap leave no token that lives, is not revoked, *)
(* and that the next Refresh would not revoke.                             *)
THEOREM TokensFollowOneAnother == Spec => []OneTokenAtATime
<1>1. TInv /\ SInv => OneTokenAtATime
  <2>1. ASSUME TInv, SInv, ~overlapped, Session # NoToken, NEW t \in handed, Live(t)
        PROVE  t = Session \/ Blacklisted(t)
    <3>1. Session = stored /\ stored # NoToken
      BY <2>1 DEF Session
    <3>2. t = stored \/ revokedEnds[t] # 0
      BY <2>1, <3>1 DEF SInv, Accounted
    <3>3. revokedEnds[t] # 0 => Blacklisted(t)
      <4>1. t \in Tokens
        BY <2>1 DEF TInv, ShapeOK
      <4>2. /\ now \in Nat /\ accEnds[t] \in Nat /\ revokedEnds[t] \in Nat
            /\ revokedEnds[t] # 0 => accEnds[t] <= revokedEnds[t]
            /\ now < accEnds[t]
        BY <2>1, <4>1 DEF TInv, TimesOK, Outlived, Live
      <4> QED BY <4>2 DEF Blacklisted
    <3> QED BY <3>1, <3>2, <3>3
  <2> QED BY <2>1 DEF OneTokenAtATime
<1> QED BY <1>1, SInvAlways, PTL

(* Nothing brings back a session that a Logout has ended, unless it        *)
(* overlapped with another request.                                        *)
THEOREM LogoutEndsTheSession == Spec => []LoggedOutForGood
<1>1. SInv => LoggedOutForGood
  BY DEF SInv, LoggedOutForGood, Session
<1> QED BY <1>1, SInvAlways, PTL
=============================================================================
