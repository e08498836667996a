------------------------------ MODULE Sessions ------------------------------
(***************************************************************************)
(* The session that one Login makes: its access tokens, its refresh token, *)
(* and the two kinds of keys that Redis keeps about them, "rt" of the      *)
(* refresh token and "blacklist" of each access token.  Login, Refresh and *)
(* Logout are those of internal/services/user.go, behind the checks of     *)
(* authMiddleware in internal/handler/router.go.  Sessions share no key.   *)
(*                                                                         *)
(* Each call of Redis is a step, which may fail, and of which the answer   *)
(* may be lost; keys and tokens expire as time passes.                     *)
(***************************************************************************)
EXTENDS Integers

CONSTANTS
  Clients,       (* Those who hold the tokens, with one request at a time. *)
  Tokens,        (* The acc_uuids the session may come to use.             *)
  NoToken,
  AccessTokenExp, RefreshTokenExp,
  MaxTime        (* A bound: the last moment.                              *)

ASSUME SessionsAssumption ==
  /\ NoToken \notin Tokens
  /\ AccessTokenExp \in Nat \ {0}
  /\ RefreshTokenExp \in Nat \ {0}
  /\ MaxTime \in Nat

VARIABLES
  now,
  refEnds,     (* exp of the refresh token; 0 before there is one.         *)
  accEnds,     (* token -> its exp; 0 of one that is not in use.           *)
  stored,      (* acc_uuid in the value of the key rt, or NoToken.         *)
  storedEnds,  (* When the key rt expires.                                 *)
  revokedEnds, (* token -> when its key blacklist expires; 0 without one.  *)
  handed,      (* The access tokens that were answered to a client.        *)
  pc,          (* Where the request of each client is.                     *)
  acc,         (* The access token it found or was made with,              *)
  fresh,       (* and the one it has generated.                            *)
  overlapped,  (* Whether two requests ever were under way at once.        *)
  loggedOut    (* Whether a Logout has deleted the key rt.                 *)

tokens == <<refEnds, accEnds, handed>>
keys == <<stored, storedEnds, revokedEnds>>
history == <<overlapped, loggedOut>>
vars == <<now, tokens, keys, pc, acc, fresh, history>>

Times == 0 .. MaxTime + AccessTokenExp + RefreshTokenExp

Places ==
  {"idle", "store login", "read session", "revoke read", "store fresh",
   "delete session", "revoke own"}

Init ==
  /\ now = 0
  /\ refEnds = 0
  /\ accEnds = [t \in Tokens |-> 0]
  /\ stored = NoToken
  /\ storedEnds = 0
  /\ revokedEnds = [t \in Tokens |-> 0]
  /\ handed = {}
  /\ pc = [c \in Clients |-> "idle"]
  /\ acc = [c \in Clients |-> NoToken]
  /\ fresh = [c \in Clients |-> NoToken]
  /\ overlapped = FALSE
  /\ loggedOut = FALSE

---------------------------------------------------------------------------
(* What Redis and the parser of tokens answer.                             *)

Session == IF now < storedEnds THEN stored ELSE NoToken
Blacklisted(t) == now < revokedEnds[t]
Live(t) == now < accEnds[t]

(* authMiddleware takes an access token that has a key blacklist: an empty *)
(* value, which a missing key has, is answered "token has been revoked".   *)
Accepted(t) == Live(t) /\ Blacklisted(t)

Store(c) ==
  /\ stored' = fresh[c]
  /\ storedEnds' = now + RefreshTokenExp

(* A slip: the key expires a moment before a token may that is just made.  *)
RevokeBriefly(c) ==
  revokedEnds' = [revokedEnds EXCEPT ![acc[c]] = now + AccessTokenExp - 1]

Revoke(c) ==
  revokedEnds' = [revokedEnds EXCEPT ![acc[c]] = now + AccessTokenExp]

Generate(c) ==
  \E t \in Tokens :
    /\ accEnds[t] = 0
    /\ accEnds' = [accEnds EXCEPT ![t] = now + AccessTokenExp]
    /\ fresh' = [fresh EXCEPT ![c] = t]

(* The request is answered.  What it knew is gone.                         *)
Ends(c) ==
  /\ pc' = [pc EXCEPT ![c] = "idle"]
  /\ acc' = [acc EXCEPT ![c] = NoToken]
  /\ fresh' = [fresh EXCEPT ![c] = NoToken]

Begins(c, place) ==
  /\ pc[c] = "idle"
  /\ pc' = [pc EXCEPT ![c] = place]
  /\ overlapped' = (overlapped \/ \E d \in Clients : pc[d] # "idle")

Move(c, from, to) ==
  /\ pc[c] = from
  /\ pc' = [pc EXCEPT ![c] = to]

---------------------------------------------------------------------------
Tick ==
  /\ now < MaxTime
  /\ now' = now + 1
  /\ UNCHANGED <<tokens, keys, pc, acc, fresh, history>>

(* A call of Redis fails, or a check of the values does.                   *)
Fail(c) ==
  /\ pc[c] # "idle"
  /\ Ends(c)
  /\ UNCHANGED <<now, tokens, keys, history>>

(* The tokens are generated, and then stored before they are handed out.   *)
Login(c) ==
  /\ refEnds = 0
  /\ Begins(c, "store login")
  /\ refEnds' = now + RefreshTokenExp
  /\ Generate(c)
  /\ UNCHANGED <<now, handed, keys, acc, loggedOut>>

StoreLogin(c) ==
  /\ pc[c] = "store login"
  /\ Store(c)
  /\ \E lost \in BOOLEAN : handed' = IF lost THEN handed ELSE handed \cup {fresh[c]}
  /\ Ends(c)
  /\ UNCHANGED <<now, refEnds, accEnds, revokedEnds, history>>

(* The middleware looks at the refresh token, and whether its key is there.*)
Refresh(c) ==
  /\ handed # {}
  /\ now < refEnds
  /\ Session # NoToken
  /\ Begins(c, "read session")
  /\ UNCHANGED <<now, tokens, keys, acc, fresh, loggedOut>>

ReadSession(c) ==
  /\ Session # NoToken
  /\ Move(c, "read session", "revoke read")
  /\ acc' = [acc EXCEPT ![c] = Session]
  /\ UNCHANGED <<now, tokens, keys, fresh, history>>

(* A slip: the access token that was read is left as it is.                *)
GenerateOnly(c) ==
  /\ Move(c, "revoke read", "store fresh")
  /\ Generate(c)
  /\ UNCHANGED <<now, refEnds, handed, keys, acc, history>>

(* The next access token is generated as soon as the last one is revoked.  *)
RevokeRead(c) ==
  /\ Move(c, "revoke read", "store fresh")
  /\ Revoke(c)
  /\ Generate(c)
  /\ UNCHANGED <<now, refEnds, handed, stored, storedEnds, acc, history>>

StoreFresh(c) ==
  /\ pc[c] = "store fresh"
  /\ Store(c)
  /\ \E lost \in BOOLEAN : handed' = IF lost THEN handed ELSE handed \cup {fresh[c]}
  /\ Ends(c)
  /\ UNCHANGED <<now, refEnds, accEnds, revokedEnds, history>>

Logout(c, t) ==
  /\ t \in handed
  /\ Accepted(t)
  /\ Begins(c, "delete session")
  /\ acc' = [acc EXCEPT ![c] = t]
  /\ UNCHANGED <<now, tokens, keys, fresh, loggedOut>>

(* A slip: the key of the access token is deleted, not that of the session.*)
DeleteOther(c) ==
  /\ Move(c, "delete session", "revoke own")
  /\ revokedEnds' = [revokedEnds EXCEPT ![acc[c]] = 0]
  /\ loggedOut' = TRUE
  /\ UNCHANGED <<now, tokens, stored, storedEnds, acc, fresh, overlapped>>

DeleteSession(c) ==
  /\ Move(c, "delete session", "revoke own")
  /\ stored' = NoToken
  /\ storedEnds' = 0
  /\ loggedOut' = TRUE
  /\ UNCHANGED <<now, tokens, revokedEnds, acc, fresh, overlapped>>

RevokeOwn(c) ==
  /\ pc[c] = "revoke own"
  /\ Revoke(c)
  /\ Ends(c)
  /\ UNCHANGED <<now, tokens, stored, storedEnds, history>>

---------------------------------------------------------------------------
Step(c) ==
  \/ Login(c) \/ StoreLogin(c)
  \/ Refresh(c) \/ ReadSession(c) \/ RevokeRead(c) \/ StoreFresh(c)
  \/ \E t \in Tokens : Logout(c, t)
  \/ DeleteSession(c) \/ RevokeOwn(c)
  \/ Fail(c)

Next == Tick \/ \E c \in Clients : Step(c)

Spec == Init /\ [][Next]_vars

---------------------------------------------------------------------------
(* The tokens, the keys and the requests keep their shape.                 *)
TypeOK ==
  /\ now \in 0 .. MaxTime
  /\ refEnds \in Times
  /\ accEnds \in [Tokens -> Times]
  /\ stored \in Tokens \cup {NoToken}
  /\ storedEnds \in Times
  /\ revokedEnds \in [Tokens -> Times]
  /\ handed \subseteq Tokens
  /\ pc \in [Clients -> Places]
  /\ acc \in [Clients -> Tokens \cup {NoToken}]
  /\ fresh \in [Clients -> Tokens \cup {NoToken}]
  /\ overlapped \in BOOLEAN
  /\ loggedOut \in BOOLEAN
  /\ \A c \in Clients :
       /\ pc[c] \in {"revoke read", "revoke own", "delete session"} => acc[c] \in Tokens
       /\ pc[c] \in {"store login", "store fresh"} => fresh[c] \in Tokens

(* What is revoked stays so as long as it lives: no key blacklist expires  *)
(* before the token it is about, whenever Refresh or Logout has set it.    *)
RevokedWhileItLives ==
  \A t \in Tokens : revokedEnds[t] # 0 /\ Live(t) => Blacklisted(t)

(* While the session lasts, every access token that a client still holds   *)
(* is either revoked or the one that the next Refresh will revoke, even if *)
(* calls of Redis fail or their answers are lost: unless two requests of   *)
(* the session overlapped, which may leave a token that none will revoke.  *)
OneTokenAtATime ==
  ~overlapped /\ Session # NoToken =>
    \A t \in handed : Live(t) => t = Session \/ Blacklisted(t)

(* After a Logout the session is gone, unless it overlapped with a Refresh,*)
(* which stores the key again when it has read it before.                  *)
LoggedOutForGood ==
  loggedOut /\ ~overlapped => Session = NoToken
=============================================================================
