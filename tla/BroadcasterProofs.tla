------------------------- MODULE BroadcasterProofs -------------------------
(***************************************************************************)
(* Theorems about Broadcaster, for every set of clients and tenants and    *)
(* every bound on events and failures.                                     *)
(***************************************************************************)
EXTENDS Broadcaster, TLAPS

(* The registry says who is being served, and each of its tenants has a    *)
(* subscription.                                                           *)
RegistryRight ==
  /\ closed = {c \in Clients : handler[c] = "gone"}
  /\ DOMAIN tenantClients = {t \in Tenants : Serving(t) # {}}
  /\ DOMAIN subscriptions = DOMAIN tenantClients
  /\ \A t \in DOMAIN tenantClients : tenantClients[t] = Serving(t)

(* The listeners that are at work and not cancelled are those of the       *)
(* subscriptions; only a cancelled one ends; a client that has not         *)
(* registered has started none.                                            *)
ListenersRight ==
  /\ \A t \in DOMAIN subscriptions : subscriptions[t] \in Alive(t)
  /\ \A t \in Tenants : \A l \in Alive(t) : t \in DOMAIN subscriptions /\ l = subscriptions[t]
  /\ \A l \in Clients : listener[l] = "ended" => l \in cancelled
  /\ \A l \in cancelled : listener[l] # "none"
  /\ \A c \in Clients : handler[c] = "new" => listener[c] = "none"

(* A delivery still has to reach only clients that are being served.       *)
DeliveriesRight ==
  \A l \in Clients : /\ todo[l] \subseteq Serving(TenantOf[l])
                     /\ listener[l] # "send" => todo[l] = {}

IInv == TypeOK /\ RegistryRight /\ ListenersRight /\ DeliveriesRight

USE BroadcasterAssumption

LEMMA InitIInv == Init => IInv
<1> SUFFICES ASSUME Init PROVE IInv
  OBVIOUS
<1>1. TypeOK
  BY DEF Init, TypeOK, HandlerPlaces, ListenerPlaces
<1>2. RegistryRight
  BY DEF Init, RegistryRight, Serving
<1>3. ListenersRight
  BY DEF Init, ListenersRight, Alive
<1>4. DeliveriesRight
  BY DEF Init, DeliveriesRight
<1> QED
  BY <1>1, <1>2, <1>3, <1>4 DEF IInv

(* The first or a further client of a tenant registers.                    *)
LEMMA RegisterKeeps ==
  ASSUME IInv, NEW c \in Clients, Register(c)
  PROVE  IInv'
<1> DEFINE t == TenantOf[c]
<1> USE DEF IInv
<1>0. /\ handler' = [handler EXCEPT ![c] = "serving"]
      /\ handler[c] = "new" /\ t \in Tenants
      /\ UNCHANGED <<buffered, closed, cancelled, inbox, todo, readers, events, failures>>
  BY DEF Register
<1>1. Serving(t)' = Serving(t) \cup {c}
  BY <1>0 DEF Serving, TypeOK
<1>2. \A u \in Tenants \ {t} : Serving(u)' = Serving(u)
  BY <1>0 DEF Serving, TypeOK
<1>3. listener[c] = "none" /\ c \notin cancelled
  BY <1>0 DEF ListenersRight
<1>4. listener' = listener \/ listener' = [listener EXCEPT ![c] = "loop"]
  BY DEF Register
<1>5. TypeOK'
  <2>1. DOMAIN tenantClients' \subseteq Tenants
        /\ \A u \in DOMAIN tenantClients' : tenantClients'[u] \subseteq Clients
    BY <1>0 DEF Register, TypeOK, With
  <2>2. DOMAIN subscriptions' \subseteq Tenants
        /\ \A u \in DOMAIN subscriptions' : subscriptions'[u] \in Clients
    BY <1>0 DEF Register, TypeOK, With
  <2>3. readers' = {l \in Clients : listener'[l] = "send"}
    BY <1>0, <1>3, <1>4 DEF TypeOK
  <2> QED
    BY <1>0, <1>4, <2>1, <2>2, <2>3 DEF TypeOK, HandlerPlaces, ListenerPlaces
<1>6. RegistryRight'
  <2>1. closed' = {d \in Clients : handler'[d] = "gone"}
    BY <1>0 DEF RegistryRight, TypeOK
  <2>2. /\ DOMAIN tenantClients' = DOMAIN tenantClients \cup {t}
        /\ DOMAIN subscriptions' = DOMAIN subscriptions \cup {t}
    BY DEF Register, With, RegistryRight, TypeOK
  <2>3. \A u \in Tenants : u \in DOMAIN tenantClients' <=> Serving(u)' # {}
    BY <1>1, <1>2, <2>2 DEF RegistryRight
  <2>4. DOMAIN tenantClients' = {u \in Tenants : Serving(u)' # {}}
    BY <1>0, <2>2, <2>3 DEF RegistryRight
  <2>5. tenantClients'[t] = Serving(t)'
    BY <1>1 DEF Register, With, RegistryRight
  <2>6. \A u \in DOMAIN tenantClients' \ {t} : tenantClients'[u] = Serving(u)'
    BY <1>2, <2>2 DEF Register, With, RegistryRight
  <2> QED
    BY <2>1, <2>2, <2>4, <2>5, <2>6 DEF RegistryRight
<1>7. ListenersRight'
  <2>1. CASE t \in DOMAIN tenantClients
    BY <1>0, <2>1 DEF Register, ListenersRight, Alive, TypeOK
  <2>2. CASE t \notin DOMAIN tenantClients
    <3>1. /\ listener' = [listener EXCEPT ![c] = "loop"]
          /\ subscriptions' = With(subscriptions, t, c)
      BY <2>2 DEF Register
    <3>2. Alive(t) = {}
      BY <1>0, <2>2 DEF ListenersRight, RegistryRight
    <3>3. Alive(t)' = {c}
      BY <1>0, <1>3, <3>1, <3>2 DEF Alive, TypeOK
    <3>4. \A u \in Tenants \ {t} : Alive(u)' = Alive(u)
      BY <1>0, <3>1 DEF Alive, TypeOK
    <3>5. \A u \in DOMAIN subscriptions' : subscriptions'[u] \in Alive(u)'
      BY <3>1, <3>3, <3>4 DEF ListenersRight, With, TypeOK
    <3>6. \A u \in Tenants : \A l \in Alive(u)' :
            u \in DOMAIN subscriptions' /\ l = subscriptions'[u]
      BY <3>1, <3>3, <3>4 DEF ListenersRight, With
    <3> QED
      BY <1>0, <1>3, <3>1, <3>5, <3>6 DEF ListenersRight, TypeOK
  <2> QED
    BY <2>1, <2>2
<1>8. DeliveriesRight'
  BY <1>0, <1>1, <1>2, <1>3, <1>4 DEF DeliveriesRight, TypeOK
<1> QED
  BY <1>5, <1>6, <1>7, <1>8

(* A client leaves: no delivery is under way, because it holds the write   *)
(* lock.                                                                   *)
LEMMA UnregisterKeeps ==
  ASSUME IInv, NEW c \in Clients, Unregister(c)
  PROVE  IInv'
<1> DEFINE t == TenantOf[c]
<1> USE DEF IInv
<1>0. /\ handler' = [handler EXCEPT ![c] = "gone"]
      /\ handler[c] = "leaving" /\ t \in Tenants
      /\ closed' = closed \cup {c}
      /\ UNCHANGED <<buffered, listener, inbox, todo, readers, events, failures>>
  BY DEF Unregister
<1>1. Serving(t)' = Serving(t) \ {c} /\ c \in Serving(t)
  BY <1>0 DEF Serving, TypeOK
<1>2. \A u \in Tenants \ {t} : Serving(u)' = Serving(u)
  BY <1>0 DEF Serving, TypeOK
<1>3. /\ t \in DOMAIN tenantClients /\ tenantClients[t] = Serving(t)
      /\ t \in DOMAIN subscriptions
  BY <1>0, <1>1 DEF RegistryRight
<1>4. subscriptions[t] \in Alive(t) /\ Alive(t) = {subscriptions[t]}
  BY <1>0, <1>3 DEF ListenersRight
<1>5. \A l \in Clients : listener[l] # "send" /\ todo[l] = {}
  BY DEF Unregister, WriteLock, TypeOK, DeliveriesRight
<1>6. TypeOK'
  <2>1. DOMAIN tenantClients' \subseteq Tenants
        /\ \A u \in DOMAIN tenantClients' : tenantClients'[u] \subseteq Clients
    BY DEF Unregister, TypeOK, Without
  <2>2. /\ DOMAIN subscriptions' \subseteq Tenants
        /\ \A u \in DOMAIN subscriptions' : subscriptions'[u] \in Clients
        /\ cancelled' \subseteq Clients
    BY <1>3 DEF Unregister, TypeOK, Without
  <2> QED
    BY <1>0, <2>1, <2>2 DEF TypeOK, HandlerPlaces
<1>7. RegistryRight'
  <2>1. closed' = {d \in Clients : handler'[d] = "gone"}
    BY <1>0 DEF RegistryRight, TypeOK
  <2>2. CASE tenantClients[t] = {c}
    <3>1. Serving(t)' = {}
      BY <1>1, <1>3, <2>2
    <3> QED
      BY <1>0, <1>2, <1>3, <2>1, <2>2, <3>1 DEF Unregister, RegistryRight, Without
  <2>3. CASE tenantClients[t] # {c}
    <3>1. Serving(t)' # {}
      BY <1>1, <1>3, <2>3
    <3> QED
      BY <1>0, <1>1, <1>2, <1>3, <2>1, <2>3, <3>1 DEF Unregister, RegistryRight
  <2> QED
    BY <2>2, <2>3
<1>8. ListenersRight'
  <2>1. CASE tenantClients[t] = {c}
    <3>1. /\ cancelled' = cancelled \cup {subscriptions[t]}
          /\ subscriptions' = Without(subscriptions, t)
      BY <2>1 DEF Unregister
    <3>2. Alive(t)' = {}
      BY <1>0, <1>4, <3>1 DEF Alive
    <3>3. \A u \in Tenants \ {t} : Alive(u)' = Alive(u)
      BY <1>0, <1>4, <3>1 DEF Alive
    <3>4. \A u \in DOMAIN subscriptions' : subscriptions'[u] \in Alive(u)'
      BY <3>1, <3>3 DEF ListenersRight, Without, TypeOK
    <3>5. \A u \in Tenants : \A l \in Alive(u)' :
            u \in DOMAIN subscriptions' /\ l = subscriptions'[u]
      BY <3>1, <3>2, <3>3 DEF ListenersRight, Without
    <3>6. listener[subscriptions[t]] # "none"
      BY <1>4 DEF Alive
    <3> QED
      BY <1>0, <3>1, <3>4, <3>5, <3>6 DEF ListenersRight, TypeOK
  <2>2. CASE tenantClients[t] # {c}
    BY <1>0, <2>2 DEF Unregister, ListenersRight, Alive, TypeOK
  <2> QED
    BY <2>1, <2>2
<1>9. DeliveriesRight'
  BY <1>0, <1>5 DEF DeliveriesRight
<1> QED
  BY <1>6, <1>7, <1>8, <1>9

(* A listener moves from one place of its loop to another.                 *)
LEMMA MoveKeeps ==
  ASSUME IInv, NEW l \in Clients, NEW p \in ListenerPlaces, NEW q \in ListenerPlaces,
         Move(l, p, q), p \notin {"none", "ended"}, q # "none",
         q = "ended" => l \in cancelled,
         UNCHANGED <<handler, registry>>
  PROVE  RegistryRight' /\ ListenersRight'
<1> USE DEF IInv
<1>1. RegistryRight'
  BY DEF RegistryRight, registry, Serving
<1>2. \A u \in Tenants : Alive(u)' = Alive(u)
  BY DEF Move, Alive, registry, TypeOK
<1>3. ListenersRight'
  BY <1>2 DEF ListenersRight, Move, registry, TypeOK
<1> QED
  BY <1>1, <1>3

(* The steps of a listener and the faults of its connection.               *)
LEMMA ListenKeeps ==
  ASSUME IInv, NEW l \in Clients, Listen(l) \/ Disconnect(l)
  PROVE  IInv'
<1> USE DEF IInv
<1> DEFINE Quiet(p, q) ==
      /\ Move(l, p, q) /\ p # "send" /\ q # "send"
      /\ UNCHANGED <<handler, buffered, registry, todo, readers, events>>
      /\ failures' \in 0..Failures
      /\ inbox' \in [Clients -> Nat]
<1>1. ASSUME NEW p \in ListenerPlaces \ {"none", "ended"}, NEW q \in ListenerPlaces \ {"none"},
             Quiet(p, q), q = "ended" => l \in cancelled
      PROVE  IInv'
  <2>1. RegistryRight' /\ ListenersRight'
    BY <1>1, MoveKeeps
  <2>2. TypeOK'
    BY <1>1 DEF TypeOK, Move, registry, ListenerPlaces
  <2>3. DeliveriesRight'
    BY <1>1 DEF DeliveriesRight, Move, Serving, TypeOK
  <2> QED
    BY <2>1, <2>2, <2>3
<1>2. CASE Stop(l)
  <2>1. PICK p \in {"loop", "select", "pause"} : Move(l, p, "ended")
    BY <1>2 DEF Stop
  <2>2. Quiet(p, "ended") /\ l \in cancelled
    BY <1>2, <2>1 DEF Stop, TypeOK
  <2> HIDE DEF Quiet
  <2> QED
    BY <1>1, <2>2 DEF ListenerPlaces
<1>3. CASE Check(l)
  <2>1. Quiet("loop", "subscribe")
    BY <1>3 DEF Check, TypeOK
  <2> HIDE DEF Quiet
  <2> QED
    BY <1>1, <2>1 DEF ListenerPlaces
<1>4. CASE Subscribe(l)
  <2>1. Quiet("subscribe", "select")
    BY <1>4 DEF Subscribe, TypeOK
  <2> HIDE DEF Quiet
  <2> QED
    BY <1>1, <2>1 DEF ListenerPlaces
<1>5. CASE Disconnect(l)
  <2>1. PICK p \in {"subscribe", "select"} : Move(l, p, "pause")
    BY <1>5 DEF Disconnect
  <2>2. Quiet(p, "pause")
    BY <1>5, <2>1 DEF Disconnect, TypeOK
  <2> HIDE DEF Quiet
  <2> QED
    BY <1>1, <2>2 DEF ListenerPlaces
<1>6. CASE Reconnect(l)
  <2>1. Quiet("pause", "loop")
    BY <1>6 DEF Reconnect, TypeOK
  <2> HIDE DEF Quiet
  <2> QED
    BY <1>1, <2>1 DEF ListenerPlaces
<1>7. CASE Take(l)
  <2>1. Quiet("select", "deliver")
    BY <1>7 DEF Take, TypeOK
  <2> HIDE DEF Quiet
  <2> QED
    BY <1>1, <2>1 DEF ListenerPlaces
<1>8. CASE Deliver(l)
  <2>1. RegistryRight' /\ ListenersRight'
    BY <1>8, MoveKeeps DEF Deliver, ListenerPlaces
  <2>2. TenantOf[l] \in DOMAIN tenantClients
          => tenantClients[TenantOf[l]] = Serving(TenantOf[l])
    BY DEF RegistryRight
  <2>3. todo'[l] \subseteq Serving(TenantOf[l])
    BY <1>8, <2>2 DEF Deliver, TypeOK
  <2>4. TypeOK'
    <3>1. todo' \in [Clients -> SUBSET Clients]
      BY <1>8, <2>3 DEF Deliver, TypeOK, Serving
    <3>2. readers' = {k \in Clients : listener'[k] = "send"}
      BY <1>8 DEF Deliver, Move, TypeOK
    <3> QED
      BY <1>8, <3>1, <3>2 DEF Deliver, Move, TypeOK, registry, ListenerPlaces
  <2>5. DeliveriesRight'
    BY <1>8, <2>3 DEF Deliver, Move, DeliveriesRight, Serving, TypeOK
  <2> QED
    BY <2>1, <2>4, <2>5
<1>9. ASSUME NEW c \in Clients, Send(l, c)
      PROVE  IInv'
  <2>1. RegistryRight' /\ ListenersRight'
    BY <1>9 DEF Send, RegistryRight, ListenersRight, Serving, Alive, registry
  <2>2. TypeOK'
    BY <1>9 DEF Send, TypeOK, registry
  <2>3. DeliveriesRight'
    BY <1>9 DEF Send, DeliveriesRight, Serving, TypeOK
  <2> QED
    BY <2>1, <2>2, <2>3
<1>10. CASE Delivered(l)
  <2>1. RegistryRight' /\ ListenersRight'
    BY <1>10, MoveKeeps DEF Delivered, ListenerPlaces
  <2>2. readers' = {k \in Clients : listener'[k] = "send"}
    BY <1>10 DEF Delivered, Move, TypeOK
  <2>3. TypeOK'
    BY <1>10, <2>2 DEF Delivered, Move, TypeOK, registry, ListenerPlaces
  <2>4. DeliveriesRight'
    BY <1>10 DEF Delivered, Move, DeliveriesRight, Serving, TypeOK
  <2> QED
    BY <2>1, <2>3, <2>4
<1> QED
  BY <1>2, <1>3, <1>4, <1>5, <1>6, <1>7, <1>8, <1>9, <1>10 DEF Listen

(* What clients and publishers do beside.                                  *)
LEMMA OthersKeep ==
  ASSUME IInv,
         \/ \E c \in Clients : Receive(c) \/ Leave(c)
         \/ \E t \in Tenants : Publish(t)
         \/ UNCHANGED vars
  PROVE  IInv'
<1> USE DEF IInv
<1>1. \A t : Serving(t)' = Serving(t) /\ Alive(t)' = Alive(t)
  BY DEF Receive, Leave, Publish, vars, registry, Serving, Alive, TypeOK
<1>2. RegistryRight'
  BY <1>1 DEF RegistryRight, Receive, Leave, Publish, vars, registry, TypeOK
<1>3. ListenersRight'
  BY <1>1 DEF ListenersRight, Receive, Leave, Publish, vars, registry, TypeOK
<1>4. DeliveriesRight'
  BY <1>1 DEF DeliveriesRight, Receive, Leave, Publish, vars
<1>5. TypeOK'
  <2>1. ASSUME NEW c \in Clients, Receive(c) PROVE TypeOK'
    BY <2>1 DEF Receive, TypeOK, registry
  <2>2. ASSUME NEW c \in Clients, Leave(c) PROVE TypeOK'
    BY <2>2 DEF Leave, TypeOK, registry, HandlerPlaces
  <2>3. ASSUME NEW t \in Tenants, Publish(t) PROVE TypeOK'
    BY <2>3 DEF Publish, TypeOK, registry
  <2>4. CASE UNCHANGED vars
    BY <2>4 DEF vars, TypeOK, registry
  <2> QED
    BY <2>1, <2>2, <2>3, <2>4
<1> QED
  BY <1>2, <1>3, <1>4, <1>5

LEMMA NextIInv == IInv /\ [Next]_vars => IInv'
<1> SUFFICES ASSUME IInv, [Next]_vars PROVE IInv'
  OBVIOUS
<1>1. ASSUME NEW c \in Clients, Handle(c) PROVE IInv'
  BY <1>1, RegisterKeeps, UnregisterKeeps, OthersKeep DEF Handle
<1>2. ASSUME NEW l \in Clients, Listen(l) \/ Disconnect(l) PROVE IInv'
  BY <1>2, ListenKeeps
<1> QED
  BY <1>1, <1>2, OthersKeep DEF Next

LEMMA SpecIInv == Spec => []IInv
  BY InitIInv, NextIInv, PTL DEF Spec

(* The broadcaster's state keeps its shape, and a listener holds the read  *)
(* lock exactly while it delivers.                                         *)
THEOREM TypeCorrect == Spec => []TypeOK
<1>1. IInv => TypeOK
  BY DEF IInv
<1> QED
  BY <1>1, SpecIInv, PTL

(* Whoever comes and goes while a delivery is under way, no event is sent  *)
(* on a closed channel or to another tenant's client.                      *)
THEOREM ChannelsAreOpen == Spec => []NoSendOnClosed
<1>1. IInv => NoSendOnClosed
  BY DEF IInv, NoSendOnClosed, DeliveriesRight, RegistryRight, Serving
<1> QED
  BY <1>1, SpecIInv, PTL

(* A tenant with clients has one listener in force, the one it will        *)
(* cancel, and a tenant without has none.                                  *)
THEOREM OneListenerPerTenant == Spec => []ServedByOneListener
<1>1. IInv => ServedByOneListener
  <2> SUFFICES ASSUME IInv, NEW t \in Tenants
               PROVE  IF Serving(t) = {}
                      THEN t \notin DOMAIN tenantClients /\ Alive(t) = {}
                      ELSE /\ t \in DOMAIN tenantClients /\ tenantClients[t] = Serving(t)
                           /\ t \in DOMAIN subscriptions /\ Alive(t) = {subscriptions[t]}
    BY DEF ServedByOneListener
  <2>1. CASE Serving(t) = {}
    BY <2>1 DEF IInv, RegistryRight, ListenersRight
  <2>2. CASE Serving(t) # {}
    <3>1. /\ t \in DOMAIN tenantClients /\ tenantClients[t] = Serving(t)
          /\ t \in DOMAIN subscriptions
      BY <2>2 DEF IInv, RegistryRight
    <3>2. Alive(t) = {subscriptions[t]}
      BY <3>1 DEF IInv, ListenersRight
    <3> QED
      BY <2>2, <3>1, <3>2
  <2> QED
    BY <2>1, <2>2
<1> QED
  BY <1>1, SpecIInv, PTL
=============================================================================
