---------------------------- MODULE Broadcaster ----------------------------
(***************************************************************************)
(* SSEBroadcaster of internal/broadcaster/sse.go and the handler of        *)
(* internal/handler/sse.go: requests register a channel with the           *)
(* broadcaster, one goroutine per tenant listens to Redis and passes what  *)
(* it hears to the channels of the tenant.                                 *)
(*                                                                         *)
(* What an event says is left out: an inbox and a channel are the numbers  *)
(* of events they hold.  Heartbeats change nothing.  Register and          *)
(* Unregister hold the write lock from begin to end and call nothing that  *)
(* waits, so each is one step; a delivery holds the read lock over many.   *)
(***************************************************************************)
EXTENDS Integers, FiniteSets

CONSTANTS
  Clients,    (* Requests to the event stream, each with its channel.      *)
  Tenants,
  TenantOf,   (* The tenant of each request.                               *)
  Buffer,     (* The capacity of a client's channel.                       *)
  Events,     (* A bound: how many events are published.                   *)
  Failures    (* A bound: how often the connection to Redis is lost.       *)

ASSUME BroadcasterAssumption ==
  /\ TenantOf \in [Clients -> Tenants]
  /\ Buffer \in Nat \ {0}
  /\ Events \in Nat
  /\ Failures \in Nat

(* A listener is named after the client whose Register started it.         *)
VARIABLES
  handler,        (* Where the handler of each request is.                 *)
  buffered,       (* How many events the channel of each client holds.     *)
  closed,         (* The clients whose channel is closed.                  *)
  tenantClients,  (* tenant -> its registered clients.                     *)
  subscriptions,  (* tenant -> the listener that its cancel function ends. *)
  cancelled,      (* The listeners whose context is cancelled.             *)
  listener,       (* Where each listenRedis is.                            *)
  inbox,          (* How many events its Redis connection holds.           *)
  todo,           (* The clients the delivery under way has not reached.   *)
  readers,        (* The listeners that hold the read lock.                *)
  events,         (* What is left of Events.                               *)
  failures        (* What is left of Failures.                             *)

registry == <<closed, tenantClients, subscriptions, cancelled>>
vars == <<handler, buffered, registry, listener, inbox, todo, readers, events, failures>>

HandlerPlaces == {"new", "serving", "leaving", "gone"}

ListenerPlaces ==
  {"none", "loop", "subscribe", "select", "deliver", "send", "pause", "ended"}

Without(f, k) == [i \in DOMAIN f \ {k} |-> f[i]]

With(f, k, v) == [i \in DOMAIN f \cup {k} |-> IF i = k THEN v ELSE f[i]]

(* sync.RWMutex: a writer excludes everybody, and a writer's section is    *)
(* one step here, so that it only has to find no reader.                   *)
WriteLock == readers = {}

Init ==
  /\ handler = [c \in Clients |-> "new"]
  /\ buffered = [c \in Clients |-> 0]
  /\ closed = {}
  /\ tenantClients = [t \in {} |-> {}]
  /\ subscriptions = [t \in {} |-> {}]
  /\ cancelled = {}
  /\ listener = [c \in Clients |-> "none"]
  /\ inbox = [c \in Clients |-> 0]
  /\ todo = [c \in Clients |-> {}]
  /\ readers = {}
  /\ events = Events
  /\ failures = Failures

---------------------------------------------------------------------------
(* The handler of a request.                                               *)

(* The first client of a tenant starts its listener.                       *)
Register(c) ==
  LET t == TenantOf[c] IN
  /\ handler[c] = "new"
  /\ WriteLock
  /\ handler' = [handler EXCEPT ![c] = "serving"]
  /\ IF t \in DOMAIN tenantClients
     THEN /\ tenantClients' = [tenantClients EXCEPT ![t] = @ \cup {c}]
          /\ UNCHANGED <<subscriptions, listener>>
     ELSE /\ tenantClients' = With(tenantClients, t, {c})
          /\ subscriptions' = With(subscriptions, t, c)
          /\ listener' = [listener EXCEPT ![c] = "loop"]
  /\ UNCHANGED <<buffered, closed, cancelled, inbox, todo, readers, events, failures>>

(* An event is written to the response.                                    *)
Receive(c) ==
  /\ handler[c] = "serving"
  /\ buffered[c] > 0
  /\ buffered' = [buffered EXCEPT ![c] = @ - 1]
  /\ UNCHANGED <<handler, registry, listener, inbox, todo, readers, events, failures>>

(* The request's context ends, and the handler returns to its deferred     *)
(* Unregister.                                                             *)
Leave(c) ==
  /\ handler[c] = "serving"
  /\ handler' = [handler EXCEPT ![c] = "leaving"]
  /\ UNCHANGED <<buffered, registry, listener, inbox, todo, readers, events, failures>>

(* A slip: the channel is closed without the lock.                         *)
UnregisterUnlocked(c) ==
  LET t == TenantOf[c] IN
  /\ handler[c] = "leaving"
  /\ handler' = [handler EXCEPT ![c] = "gone"]
  /\ closed' = closed \cup {c}
  /\ IF tenantClients[t] = {c}
     THEN /\ tenantClients' = Without(tenantClients, t)
          /\ cancelled' = cancelled \cup {subscriptions[t]}
          /\ subscriptions' = Without(subscriptions, t)
     ELSE /\ tenantClients' = [tenantClients EXCEPT ![t] = @ \ {c}]
          /\ UNCHANGED <<cancelled, subscriptions>>
  /\ UNCHANGED <<buffered, listener, inbox, todo, readers, events, failures>>

(* A slip: the entry of the tenant stays when its last client leaves.      *)
UnregisterKeepingTenant(c) ==
  LET t == TenantOf[c] IN
  /\ handler[c] = "leaving"
  /\ WriteLock
  /\ handler' = [handler EXCEPT ![c] = "gone"]
  /\ closed' = closed \cup {c}
  /\ tenantClients' = [tenantClients EXCEPT ![t] = @ \ {c}]
  /\ IF tenantClients[t] = {c}
     THEN /\ cancelled' = cancelled \cup {subscriptions[t]}
          /\ subscriptions' = Without(subscriptions, t)
     ELSE UNCHANGED <<cancelled, subscriptions>>
  /\ UNCHANGED <<buffered, listener, inbox, todo, readers, events, failures>>

(* A slip: the subscription is forgotten, not cancelled.                   *)
UnregisterWithoutCancel(c) ==
  LET t == TenantOf[c] IN
  /\ handler[c] = "leaving"
  /\ WriteLock
  /\ handler' = [handler EXCEPT ![c] = "gone"]
  /\ closed' = closed \cup {c}
  /\ IF tenantClients[t] = {c}
     THEN /\ tenantClients' = Without(tenantClients, t)
          /\ subscriptions' = Without(subscriptions, t)
     ELSE /\ tenantClients' = [tenantClients EXCEPT ![t] = @ \ {c}]
          /\ UNCHANGED subscriptions
  /\ UNCHANGED <<buffered, cancelled, listener, inbox, todo, readers, events, failures>>

(* The channel is closed, and the last client of a tenant takes the        *)
(* subscription with it.                                                   *)
Unregister(c) ==
  LET t == TenantOf[c] IN
  /\ handler[c] = "leaving"
  /\ WriteLock
  /\ handler' = [handler EXCEPT ![c] = "gone"]
  /\ closed' = closed \cup {c}
  /\ IF tenantClients[t] = {c}
     THEN /\ tenantClients' = Without(tenantClients, t)
          /\ cancelled' = cancelled \cup {subscriptions[t]}
          /\ subscriptions' = Without(subscriptions, t)
     ELSE /\ tenantClients' = [tenantClients EXCEPT ![t] = @ \ {c}]
          /\ UNCHANGED <<cancelled, subscriptions>>
  /\ UNCHANGED <<buffered, listener, inbox, todo, readers, events, failures>>

---------------------------------------------------------------------------
(* listenRedis.                                                            *)

Move(l, from, to) ==
  /\ listener[l] = from
  /\ listener' = [listener EXCEPT ![l] = to]

(* A cancelled context is noticed at the top of the loop and in the three  *)
(* selects.  It is one of two ready cases where an event is waiting too.   *)
Stop(l) ==
  /\ l \in cancelled
  /\ \E p \in {"loop", "select", "pause"} : Move(l, p, "ended")
  /\ inbox' = [inbox EXCEPT ![l] = 0]
  /\ UNCHANGED <<handler, buffered, registry, todo, readers, events, failures>>

Check(l) ==
  /\ l \notin cancelled
  /\ Move(l, "loop", "subscribe")
  /\ UNCHANGED <<handler, buffered, registry, inbox, todo, readers, events, failures>>

(* The context may have been cancelled since it was checked.               *)
Subscribe(l) ==
  /\ Move(l, "subscribe", "select")
  /\ UNCHANGED <<handler, buffered, registry, inbox, todo, readers, events, failures>>

(* No subscription, or a connection found closed once what it held has     *)
(* been taken: the listener pauses.                                        *)
Disconnect(l) ==
  /\ failures > 0
  /\ failures' = failures - 1
  /\ inbox[l] = 0
  /\ \E p \in {"subscribe", "select"} : Move(l, p, "pause")
  /\ UNCHANGED <<handler, buffered, registry, inbox, todo, readers, events>>

(* The pause is over.                                                      *)
Reconnect(l) ==
  /\ Move(l, "pause", "loop")
  /\ UNCHANGED <<handler, buffered, registry, inbox, todo, readers, events, failures>>

(* An event is taken from the connection ...                               *)
Take(l) ==
  /\ Move(l, "select", "deliver")
  /\ inbox[l] > 0
  /\ inbox' = [inbox EXCEPT ![l] = @ - 1]
  /\ UNCHANGED <<handler, buffered, registry, todo, readers, events, failures>>

(* ... broadcastLocal locks the registry for reading ...                   *)
Deliver(l) ==
  LET t == TenantOf[l] IN
  /\ Move(l, "deliver", "send")
  /\ readers' = readers \cup {l}
  /\ todo' = [todo EXCEPT ![l] = IF t \in DOMAIN tenantClients THEN tenantClients[t] ELSE {}]
  /\ UNCHANGED <<handler, buffered, registry, inbox, events, failures>>

(* A slip: the delivery waits for a client whose channel is full.          *)
SendBlocking(l, c) ==
  /\ listener[l] = "send"
  /\ c \in todo[l]
  /\ buffered[c] < Buffer
  /\ buffered' = [buffered EXCEPT ![c] = @ + 1]
  /\ todo' = [todo EXCEPT ![l] = @ \ {c}]
  /\ UNCHANGED <<handler, registry, listener, inbox, readers, events, failures>>

(* ... offers it to each client, in any order: a full channel misses it    *)
(* ...                                                                     *)
Send(l, c) ==
  /\ listener[l] = "send"
  /\ c \in todo[l]
  /\ buffered' = [buffered EXCEPT ![c] = IF @ < Buffer THEN @ + 1 ELSE @]
  /\ todo' = [todo EXCEPT ![l] = @ \ {c}]
  /\ UNCHANGED <<handler, registry, listener, inbox, readers, events, failures>>

(* A slip: the read lock is not released.                                  *)
DeliveredStillLocked(l) ==
  /\ todo[l] = {}
  /\ Move(l, "send", "select")
  /\ UNCHANGED <<handler, buffered, registry, inbox, todo, readers, events, failures>>

(* ... and unlocks.                                                        *)
Delivered(l) ==
  /\ todo[l] = {}
  /\ Move(l, "send", "select")
  /\ readers' = readers \ {l}
  /\ UNCHANGED <<handler, buffered, registry, inbox, todo, events, failures>>

---------------------------------------------------------------------------
Connected(t) ==
  {l \in Clients : TenantOf[l] = t /\ listener[l] \in {"select", "deliver", "send"}}

(* Some worker or API server publishes an event of a tenant, and Redis     *)
(* passes it to the connections of the tenant, at most once to each.       *)
Publish(t) ==
  /\ events > 0
  /\ events' = events - 1
  /\ \E reached \in SUBSET Connected(t) :
       inbox' = [l \in Clients |-> IF l \in reached THEN inbox[l] + 1 ELSE inbox[l]]
  /\ UNCHANGED <<handler, buffered, registry, listener, todo, readers, failures>>

Handle(c) == Register(c) \/ Receive(c) \/ Leave(c) \/ Unregister(c)

Listen(l) ==
  \/ Stop(l) \/ Check(l) \/ Subscribe(l) \/ Reconnect(l)
  \/ Take(l) \/ Deliver(l) \/ (\E c \in Clients : Send(l, c)) \/ Delivered(l)

Next ==
  \/ \E c \in Clients : Handle(c) \/ Listen(c) \/ Disconnect(c)
  \/ \E t \in Tenants : Publish(t)

Spec == Init /\ [][Next]_vars

(* Goroutines are scheduled, and one that waits for a free lock gets it.   *)
(* Nothing is assumed of the clients, of Redis or of the publishers.       *)
FairSpec ==
  /\ Spec
  /\ \A c \in Clients : WF_vars(Unregister(c)) /\ WF_vars(Listen(c))

---------------------------------------------------------------------------
(* The shape of the state: a channel holds no more than its capacity, and  *)
(* a listener holds the read lock exactly while it delivers.               *)
TypeOK ==
  /\ handler \in [Clients -> HandlerPlaces]
  /\ buffered \in [Clients -> 0..Buffer]
  /\ closed \subseteq Clients
  /\ DOMAIN tenantClients \subseteq Tenants
  /\ \A t \in DOMAIN tenantClients : tenantClients[t] \subseteq Clients
  /\ DOMAIN subscriptions \subseteq Tenants
  /\ \A t \in DOMAIN subscriptions : subscriptions[t] \in Clients
  /\ cancelled \subseteq Clients
  /\ listener \in [Clients -> ListenerPlaces]
  /\ inbox \in [Clients -> Nat]
  /\ todo \in [Clients -> SUBSET Clients]
  /\ readers = {l \in Clients : listener[l] = "send"}
  /\ events \in 0..Events
  /\ failures \in 0..Failures

(* No event is ever sent on a closed channel, which would end the process, *)
(* and none reaches a client of another tenant: a client that leaves while *)
(* a delivery is under way waits for it.                                   *)
NoSendOnClosed ==
  \A l \in Clients : /\ todo[l] \cap closed = {}
                     /\ \A c \in todo[l] : TenantOf[c] = TenantOf[l]

Serving(t) == {c \in Clients : TenantOf[c] = t /\ handler[c] \in {"serving", "leaving"}}

Alive(t) ==
  {l \in Clients : TenantOf[l] = t /\ l \notin cancelled /\ listener[l] \notin {"none", "ended"}}

(* A tenant with clients has exactly one listener that nobody has          *)
(* cancelled, the one its subscription ends, and a tenant without has      *)
(* none, however its clients come and go.                                  *)
ServedByOneListener ==
  \A t \in Tenants :
    IF Serving(t) = {}
    THEN t \notin DOMAIN tenantClients /\ Alive(t) = {}
    ELSE /\ t \in DOMAIN tenantClients /\ tenantClients[t] = Serving(t)
         /\ t \in DOMAIN subscriptions /\ Alive(t) = {subscriptions[t]}

(* A client that has gone away is unregistered: no delivery keeps it       *)
(* waiting, not even one to a client that does not read.                   *)
LeaversLeave == \A c \in Clients : handler[c] = "leaving" ~> handler[c] = "gone"

Orphan(l) ==
  /\ listener[l] \notin {"none", "ended"}
  /\ \A t \in DOMAIN subscriptions : subscriptions[t] # l

(* A listener that is no tenant's subscription any more ends, and its      *)
(* goroutine and its connection with it.                                   *)
OrphansEnd == \A l \in Clients : Orphan(l) ~> listener[l] = "ended"
=============================================================================
