-------------------------- MODULE ConnectionsProofs --------------------------
(* Proofs about Connections, for any clients and addresses.

   CInv is inductive.  Everything rests on one fact: an object of a WebSocket
   class is never released (KeptByTimer), so its address stays its own.        *)
EXTENDS Connections, TLAPS

LEMMA InitInv == Init => CInv
<1> SUFFICES ASSUME Init PROVE CInv
  OBVIOUS
<1>1. TypeOK
  <2>1. session \in [Addresses -> Session \cup {Free}]
    BY DEF Init
  <2>2. sender \in [target: Addresses, map: 1..4] \cup {Idle}
    BY DEF Init
  <2>3. stage \in [Clients -> {"away", "backlog", "detect", "http", "websocket", "closed"}]
    BY DEF Init
  <2>4. /\ peer \in [Clients -> {"up", "gone"}]
        /\ registry \in [Kinds -> SUBSET Addresses] /\ subscribers \in SUBSET Addresses
    BY DEF Init
  <2>5. setUp \in 0..4 /\ acceptor \in {"closed", "listening", "accepting"}
    BY DEF Init
  <2>6. terminated \in BOOLEAN /\ listeners \in BOOLEAN /\ isInitialized \in BOOLEAN
    BY DEF Init
  <2> QED
    BY <2>1, <2>2, <2>3, <2>4, <2>5, <2>6 DEF TypeOK
<1>2. \A a \in Addresses : IsFree(a)
  BY DEF Init, IsFree
<1>3. \A a \in Addresses : ~session[a].moved /\ session[a].conn = None
  BY DEF Init, Free
<1>4. NoDangling /\ StreamOwned
  BY <1>2, <1>3, ConnectionConstants DEF Init, NoDangling, StreamOwned, WebSocketKinds, Kinds
<1>5. SetUpInv /\ OwnerInv /\ SubscriberInv /\ SearchInv
  BY <1>2 DEF Init, SetUpInv, OwnerInv, SubscriberInv, SearchInv
<1> QED
  BY <1>1, <1>4, <1>5 DEF CInv

-----------------------------------------------------------------------------
(* A handler that ends with Continue changes one object's operation, or frees an
   object of class SslHttpSession.                                             *)
LEMMA ContinueObject ==
  ASSUME TypeOK, NEW a \in Addresses, ~IsFree(a), NEW op \in Operations, Continue(a, op)
  PROVE  /\ session' \in [Addresses -> Session \cup {Free}]
         /\ \A b \in Addresses : b # a => session'[b] = session[b]
         /\ \/ session'[a] = Free /\ session[a].kind = "SslHttpSession"
            \/ /\ session'[a] # Free /\ session'[a].kind = session[a].kind
               /\ session'[a].conn = session[a].conn
               /\ session'[a].moved = session[a].moved /\ session'[a].op = op
<1> DEFINE s == session[a]
           t == [s EXCEPT !.op = op]
<1>1. s \in Session /\ s # Free
  BY DEF TypeOK, IsFree
<1>2. /\ t \in Session /\ t.kind = s.kind /\ t.conn = s.conn
      /\ t.moved = s.moved /\ t.op = op
  BY <1>1 DEF Session
<1>3. t # Free
  <2>1. t.kind \in Kinds /\ "free" \notin Kinds
    BY <1>2 DEF Session, Kinds, HttpKinds, WebSocketKinds
  <2>2. Free.kind = "free"
    BY DEF Free
  <2> QED
    BY <2>1, <2>2
<1>4. session' = [session EXCEPT ![a] = Left(t)]
  BY DEF Continue
<1> HIDE DEF t
<1>5. Left(t) = t \/ (Left(t) = Free /\ s.kind = "SslHttpSession")
  BY <1>2 DEF Left, KeptByTimer
<1>6. session'[a] = Left(t)
  BY <1>4 DEF TypeOK
<1> QED
  BY <1>2, <1>3, <1>4, <1>5, <1>6 DEF TypeOK

(* A new object at a free address. *)
LEMMA NewObject ==
  ASSUME TypeOK, NEW a \in Addresses, NEW kind \in Kinds, NEW c \in Clients,
         NEW op \in Operations
  PROVE  /\ Object(kind, c, op) \in Session /\ Object(kind, c, op) # Free
         /\ Object(kind, c, op).kind = kind /\ Object(kind, c, op).conn = c
         /\ Object(kind, c, op).op = op /\ ~Object(kind, c, op).moved
<1>1. "free" \notin Kinds
  BY DEF Kinds, HttpKinds, WebSocketKinds
<1> QED
  BY <1>1 DEF Object, Session, Free

(* The upgrade: the new session is another object than the old one, which is
   left without an operation or released.                                      *)
LEMMA UpgradeObjects ==
  ASSUME TypeOK, NEW a \in Addresses, NEW b \in Addresses, OnUpgrade(a, b)
  PROVE  /\ a # b /\ IsFree(b) /\ ~IsFree(a) /\ ~session[a].moved
         /\ session[a].kind \in HttpKinds /\ session[a].conn \in Clients
         /\ session' \in [Addresses -> Session \cup {Free}]
         /\ \A d \in Addresses : d \notin {a, b} => session'[d] = session[d]
         /\ session'[b] = Object(UpgradeOf(session[a].kind), session[a].conn, "accept")
         /\ \/ session'[a] = Free
            \/ /\ session'[a] # Free /\ session'[a].kind = session[a].kind
               /\ session'[a].conn = session[a].conn
               /\ session'[a].moved /\ session'[a].op = "none"
<1> DEFINE s == session[a]
           t == [s EXCEPT !.op = ReadNoMore, !.moved = TRUE]
<1>1. s.op = "read" /\ s.kind \in HttpKinds /\ ~s.moved /\ session[b] = Free
  BY DEF OnUpgrade, Waits, IsFree
<1>2. s # Free /\ s \in Session /\ a # b
  BY <1>1 DEF Free, TypeOK
<1>3. /\ t \in Session /\ t.kind = s.kind /\ t.conn = s.conn
      /\ t.moved = TRUE /\ t.op = "none"
  BY <1>2 DEF Session, ReadNoMore, Operations
<1>4. t # Free
  BY <1>3 DEF Free
<1>5. session' = [session EXCEPT ![a] = Left(t), ![b] = Object(UpgradeOf(s.kind), s.conn, "accept")]
  BY DEF OnUpgrade
<1> HIDE DEF t
<1>6. Left(t) = t \/ Left(t) = Free
  BY DEF Left
<1>7. session'[a] = Left(t) /\ session'[b] = Object(UpgradeOf(s.kind), s.conn, "accept")
  BY <1>2, <1>5 DEF TypeOK
<1>8. s.conn \in Clients /\ UpgradeOf(s.kind) \in Kinds /\ "accept" \in Operations
  BY <1>2 DEF Session, UpgradeOf, Kinds, WebSocketKinds, Operations
<1>9. Object(UpgradeOf(s.kind), s.conn, "accept") \in Session
  BY <1>8, NewObject
<1>10. session' \in [Addresses -> Session \cup {Free}]
  BY <1>3, <1>5, <1>6, <1>9 DEF TypeOK
<1>11. \A d \in Addresses : d \notin {a, b} => session'[d] = session[d]
  BY <1>5 DEF TypeOK
<1> QED
  BY <1>1, <1>2, <1>3, <1>4, <1>6, <1>7, <1>8, <1>10, <1>11 DEF IsFree

-----------------------------------------------------------------------------
(* What a step may do to the objects and the registry *)

(* An object that waits for something is no free address. *)
LEMMA WaitingIsObject ==
  ASSUME TypeOK, NEW a \in Addresses, NEW kinds \in SUBSET Kinds, NEW op, Waits(a, kinds, op)
  PROVE  /\ ~IsFree(a) /\ session[a] \in Session /\ session[a].kind \in kinds
         /\ session[a].conn \in Clients /\ session[a].op = op
<1>1. "free" \notin Kinds
  BY DEF Kinds, HttpKinds, WebSocketKinds
<1>2. session[a].kind # "free"
  BY <1>1 DEF Waits
<1> QED
  BY <1>2 DEF Waits, IsFree, TypeOK, Free, Session

(* Addresses of WebSocket sessions stay theirs; only new sessions are added. *)
KeepsWebSockets ==
  /\ \A a \in Addresses :
       session[a].kind \in WebSocketKinds => session'[a].kind = session[a].kind
  /\ \A kind \in WebSocketKinds, a \in Addresses :
       a \in registry'[kind] =>
         \/ a \in registry[kind]
         \/ IsFree(a) /\ session'[a].kind = kind

(* The steps that touch neither the objects nor the registry *)
Elsewhere ==
  \/ HttpThread \/ Sending
  \/ \E c \in Clients : ListenerStep(c) \/ Connect(c) \/ PeerEnds(c)
  \/ \E a \in Addresses : HandleRequest(a)
  \/ \E a \in subscribers : SendToConnection(a)

LEMMA ElsewhereKeeps == Elsewhere => UNCHANGED sessions
BY DEF Elsewhere, HttpThread, AddListener, LoadCertData, Listen, Start, SetUpFails, Step, Sending,
       LookFurther, Found, NotFound, ListenerStep, OnAccept, OnAcceptError, Connect, PeerEnds,
       HandleRequest, SendToConnection, sessions, server, sockets

(* Handlers that change the operation of one object, and perhaps remove it from
   the registry                                                                *)
Handles(a) ==
  \/ OnHandshake(a) \/ OnHandshakeError(a) \/ OnReadEnd(a)
  \/ OnShutdown(a) \/ OnShutdownError(a) \/ OnAcceptWebSocket(a) \/ OnWebSocketEnd(a)

LEMMA HandlesObject ==
  ASSUME TypeOK, NEW a \in Addresses, Handles(a)
  PROVE  /\ ~IsFree(a) /\ session[a].conn \in Clients
         /\ \E op \in Operations : Continue(a, op)
         /\ registry' \in [Kinds -> SUBSET Addresses]
         /\ \A kind \in Kinds : registry'[kind] \subseteq registry[kind]
         /\ stage' = stage \/ stage' = [stage EXCEPT ![session[a].conn] = "closed"]
         /\ UNCHANGED <<server, peer, delivery>>
<1>1. PICK kinds \in SUBSET Kinds, o \in Operations : Waits(a, kinds, o)
  <2>1. HttpKinds \in SUBSET Kinds /\ WebSocketKinds \in SUBSET Kinds
    BY DEF Kinds
  <2>2. {"handshake", "read", "shutdown", "accept"} \subseteq Operations
    BY DEF Operations
  <2> QED
    BY <2>1, <2>2 DEF Handles, OnHandshake, OnHandshakeError, OnReadEnd, OnShutdown,
       OnShutdownError, OnAcceptWebSocket, OnWebSocketEnd
<1>2. ~IsFree(a) /\ session[a].conn \in Clients /\ session[a].kind \in Kinds
  BY <1>1, WaitingIsObject
<1>3. \E op \in Operations : Continue(a, op)
  <2>1. "read" \in Operations /\ "none" \in Operations /\ "shutdown" \in Operations
    BY DEF Operations
  <2> QED
    BY <2>1 DEF Handles, OnHandshake, OnHandshakeError, OnReadEnd, OnShutdown,
       OnShutdownError, OnAcceptWebSocket, OnWebSocketEnd
<1>4. registry' = registry \/ RemoveClient(a)
  BY DEF Handles, OnHandshake, OnHandshakeError, OnReadEnd, OnShutdown, OnShutdownError,
     OnAcceptWebSocket, OnWebSocketEnd
<1>5. /\ registry' \in [Kinds -> SUBSET Addresses]
      /\ \A kind \in Kinds : registry'[kind] \subseteq registry[kind]
  BY <1>2, <1>4 DEF RemoveClient, TypeOK
<1>6. /\ stage' = stage \/ stage' = [stage EXCEPT ![session[a].conn] = "closed"]
      /\ UNCHANGED <<server, peer, delivery>>
  BY DEF Handles, OnHandshake, OnHandshakeError, OnReadEnd, OnShutdown, OnShutdownError,
     OnAcceptWebSocket, OnWebSocketEnd, Goes, sockets
<1> QED
  BY <1>2, <1>3, <1>5, <1>6

(* The start of an HTTP session *)
Starts(c, a) ==
  \/ NewHttpSession(c, a, "SslHttpSession", "handshake")
  \/ NewHttpSession(c, a, "PlainHttpSession", "read")

LEMMA StartsObject ==
  ASSUME TypeOK, NEW a \in Addresses, NEW c \in Clients, Starts(c, a)
  PROVE  /\ IsFree(a)
         /\ session' \in [Addresses -> Session \cup {Free}]
         /\ \A b \in Addresses : b # a => session'[b] = session[b]
         /\ session'[a] # Free /\ session'[a].conn = c /\ ~session'[a].moved
         /\ registry' \in [Kinds -> SUBSET Addresses]
         /\ \A kind \in WebSocketKinds : registry'[kind] = registry[kind]
         /\ stage' = [stage EXCEPT ![c] = "http"]
<1>1. PICK kind \in HttpKinds, op \in {"handshake", "read"} : NewHttpSession(c, a, kind, op)
  BY DEF Starts, HttpKinds
<1>2. kind \in Kinds /\ kind \notin WebSocketKinds /\ op \in Operations
  BY DEF Kinds, HttpKinds, WebSocketKinds, Operations
<1>3. /\ Object(kind, c, op) \in Session /\ Object(kind, c, op) # Free
      /\ Object(kind, c, op).conn = c /\ ~Object(kind, c, op).moved
  BY <1>2, NewObject
<1>4. session' = [session EXCEPT ![a] = Object(kind, c, op)]
  BY <1>1 DEF NewHttpSession
<1>5. registry' = [registry EXCEPT ![kind] = @ \cup {a}]
  BY <1>1 DEF NewHttpSession, AddClient
<1>6. /\ registry' \in [Kinds -> SUBSET Addresses]
      /\ \A k \in WebSocketKinds : registry'[k] = registry[k]
  BY <1>2, <1>5 DEF TypeOK, Kinds
<1>7. IsFree(a) /\ stage' = [stage EXCEPT ![c] = "http"]
  BY <1>1 DEF NewHttpSession, Goes
<1>8. /\ session' \in [Addresses -> Session \cup {Free}]
      /\ session'[a] = Object(kind, c, op)
      /\ \A b \in Addresses : b # a => session'[b] = session[b]
  BY <1>3, <1>4 DEF TypeOK
<1> QED
  BY <1>3, <1>6, <1>7, <1>8

(* Every step is of one of these kinds. *)
LEMMA StepKinds ==
  ASSUME Next
  PROVE  \/ Elsewhere
         \/ \E c \in Clients : OnDetect(c) /\ UNCHANGED sessions
         \/ \E c \in Clients, a \in Addresses : OnDetect(c) /\ Starts(c, a)
         \/ \E a \in Addresses : Handles(a)
         \/ \E a, b \in Addresses : OnUpgrade(a, b)
BY DEF Next, Elsewhere, Handles, Starts, SessionStep, OnDetect

LEMMA StepKeepsWebSockets ==
  ASSUME TypeOK, Next
  PROVE  KeepsWebSockets
<1>1. WebSocketKinds \subseteq Kinds
  BY DEF Kinds
<1>2. CASE UNCHANGED sessions
  BY <1>2 DEF sessions, KeepsWebSockets
<1>3. ASSUME NEW c \in Clients, NEW a \in Addresses, Starts(c, a)
      PROVE  KeepsWebSockets
  <2>1. IsFree(a) /\ (\A b \in Addresses : b # a => session'[b] = session[b])
    BY <1>3, StartsObject
  <2>2. session[a].kind \notin WebSocketKinds
    BY <2>1 DEF IsFree, Free, WebSocketKinds
  <2>3. \A kind \in WebSocketKinds : registry'[kind] = registry[kind]
    BY <1>3, StartsObject
  <2> QED
    BY <2>1, <2>2, <2>3 DEF KeepsWebSockets
<1>4. ASSUME NEW a \in Addresses, Handles(a)
      PROVE  KeepsWebSockets
  <2>1. PICK op \in Operations : Continue(a, op)
    BY <1>4, HandlesObject
  <2>2. /\ \A b \in Addresses : b # a => session'[b] = session[b]
        /\ session[a].kind \in WebSocketKinds => session'[a].kind = session[a].kind
    <3>1. ~IsFree(a)
      BY <1>4, HandlesObject
    <3> QED
      BY <2>1, <3>1, ContinueObject DEF WebSocketKinds
  <2>3. \A kind \in WebSocketKinds : registry'[kind] \subseteq registry[kind]
    BY <1>1, <1>4, HandlesObject
  <2> QED
    BY <2>2, <2>3 DEF KeepsWebSockets
<1>5. ASSUME NEW a \in Addresses, NEW b \in Addresses, OnUpgrade(a, b)
      PROVE  KeepsWebSockets
  <2> DEFINE kind == UpgradeOf(session[a].kind)
  <2>1. /\ IsFree(b) /\ session[a].kind \in HttpKinds /\ session[a].conn \in Clients
        /\ \A d \in Addresses : d \notin {a, b} => session'[d] = session[d]
        /\ session'[b] = Object(kind, session[a].conn, "accept")
    BY <1>5, UpgradeObjects
  <2>2. session[a].kind \notin WebSocketKinds /\ session[b].kind \notin WebSocketKinds
    BY <2>1 DEF IsFree, Free, WebSocketKinds, HttpKinds
  <2>3. session'[b].kind = kind
    BY <2>1 DEF Object
  <2>4. kind \in Kinds /\ registry' = [registry EXCEPT ![kind] = @ \cup {b}]
    BY <1>5 DEF OnUpgrade, AddClient, NewId, UpgradeOf, Kinds, WebSocketKinds
  <2>5. ASSUME NEW k \in WebSocketKinds, NEW d \in Addresses, d \in registry'[k]
        PROVE  d \in registry[k] \/ (IsFree(d) /\ session'[d].kind = k)
    BY <1>1, <2>1, <2>3, <2>4, <2>5 DEF TypeOK
  <2> HIDE DEF kind
  <2> QED
    BY <2>1, <2>2, <2>5 DEF KeepsWebSockets
<1> QED
  BY <1>2, <1>3, <1>4, <1>5, StepKinds, ElsewhereKeeps

(* NoDangling: what is registered stays an object of its class. *)
LEMMA StepNoDangling ==
  ASSUME TypeOK, TypeOK', NoDangling, Next
  PROVE  NoDangling'
<1> SUFFICES ASSUME NEW kind \in WebSocketKinds, NEW a \in registry'[kind]
             PROVE  session'[a].kind = kind
  BY DEF NoDangling
<1>1. a \in Addresses
  BY DEF TypeOK, Kinds
<1>2. KeepsWebSockets
  BY StepKeepsWebSockets
<1>3. CASE a \in registry[kind]
  BY <1>1, <1>2, <1>3 DEF KeepsWebSockets, NoDangling
<1> QED
  BY <1>1, <1>2, <1>3 DEF KeepsWebSockets

-----------------------------------------------------------------------------
(* Who subscribes has a WebSocket session, whose address stays its own: a map that
   has been looked in without success needs no second look.                    *)
LEMMA StepDelivery ==
  ASSUME TypeOK, SubscriberInv, SearchInv, Next
  PROVE  SubscriberInv' /\ SearchInv'
<1>1. KeepsWebSockets
  BY StepKeepsWebSockets
<1>2. WebSocketKinds \subseteq Kinds /\ Free.kind \notin WebSocketKinds
  BY DEF Kinds, Free, WebSocketKinds
<1>3. CASE UNCHANGED delivery
  <2>1. SubscriberInv'
    BY <1>1, <1>3 DEF SubscriberInv, delivery, KeepsWebSockets, TypeOK
  <2>2. ASSUME sender # Idle, NEW i \in 1 .. (sender.map - 1), Search[i] \in WebSocketKinds
        PROVE  sender.target \notin registry'[Search[i]]
    BY <1>1, <1>2, <2>2 DEF SearchInv, SubscriberInv, KeepsWebSockets, TypeOK, IsFree
  <2> QED
    BY <1>3, <2>1, <2>2 DEF SearchInv, delivery
<1>4. ASSUME NEW a \in Addresses, HandleRequest(a)
      PROVE  SubscriberInv' /\ SearchInv'
  <2>1. session[a].kind \in WebSocketKinds /\ UNCHANGED <<session, registry, sender>>
    BY <1>4 DEF HandleRequest, Waits, sessions
  <2>2. subscribers' \subseteq subscribers \cup {a}
    BY <1>4 DEF HandleRequest
  <2> QED
    BY <2>1, <2>2 DEF SubscriberInv, SearchInv
<1>5. ASSUME NEW a \in subscribers, SendToConnection(a)
      PROVE  SubscriberInv' /\ SearchInv'
  <2>1. /\ UNCHANGED <<session, registry, subscribers>>
        /\ sender'.target = a /\ sender'.map = 1
    BY <1>5 DEF SendToConnection, sessions
  <2>2. 1 .. (sender'.map - 1) = {}
    BY <2>1
  <2> QED
    BY <2>1, <2>2 DEF SubscriberInv, SearchInv
<1>6. CASE LookFurther
  <2>1. /\ UNCHANGED <<session, registry, subscribers>> /\ sender # Idle /\ ~IsFound
        /\ sender \in [target: Addresses, map: 1..4]
        /\ sender' = [sender EXCEPT !.map = @ + 1]
    BY <1>6 DEF LookFurther, sessions, TypeOK
  <2>2. sender'.target = sender.target /\ sender'.map = sender.map + 1
    BY <2>1
  <2>3. ASSUME NEW i \in 1 .. (sender'.map - 1), Search[i] \in WebSocketKinds
        PROVE  sender.target \notin registry[Search[i]]
    <3>1. i \in 1 .. (sender.map - 1) \/ i = sender.map
      BY <2>1, <2>2
    <3> QED
      BY <2>1, <2>3, <3>1 DEF SearchInv, IsFound
  <2> QED
    BY <2>1, <2>2, <2>3 DEF SubscriberInv, SearchInv
<1>7. CASE Found \/ NotFound
  <2>1. sender' = Idle /\ subscribers' \subseteq subscribers /\ UNCHANGED session
    BY <1>7 DEF Found, NotFound, sessions
  <2> QED
    BY <2>1 DEF SubscriberInv, SearchInv
<1>8. \/ UNCHANGED delivery
      \/ \E a \in Addresses : HandleRequest(a)
      \/ \E a \in subscribers : SendToConnection(a)
      \/ LookFurther \/ Found \/ NotFound
  <2>1. ASSUME NEW a \in Addresses, Handles(a) PROVE UNCHANGED delivery
    BY <2>1, HandlesObject
  <2>2. ASSUME NEW c \in Clients, OnDetect(c) PROVE UNCHANGED delivery
    BY <2>2 DEF OnDetect
  <2>3. ASSUME NEW a \in Addresses, NEW b \in Addresses, OnUpgrade(a, b) PROVE UNCHANGED delivery
    BY <2>3 DEF OnUpgrade
  <2>4. CASE Elsewhere
    BY <2>4 DEF Elsewhere, HttpThread, AddListener, LoadCertData, Listen, Start, SetUpFails, Step,
       Sending, ListenerStep, OnAccept, OnAcceptError, Connect, PeerEnds
  <2> QED
    BY <2>1, <2>2, <2>3, <2>4, StepKinds
<1> QED
  BY <1>3, <1>4, <1>5, <1>6, <1>7, <1>8

-----------------------------------------------------------------------------
(* The socket of a connection goes from the listener to one session, and from
   that to the one it is upgraded to.                                          *)

Owned == StreamOwned /\ OwnerInv

LEMMA StepOwned ==
  ASSUME TypeOK, TypeOK', Owned, Next
  PROVE  Owned'
<1> DEFINE early == {"away", "backlog", "detect"}
<1> USE DEF Owned
(* Nothing but stage changes, and no stage goes back. *)
<1>1. ASSUME UNCHANGED session,
             \A c \in Clients : stage'[c] \in early => stage[c] \in early
      PROVE  Owned'
  <2>1. \A a \in Addresses : ~IsFree(a) => session[a].conn \in Clients
    BY DEF TypeOK, IsFree, Session
  <2> QED
    BY <1>1, <2>1 DEF StreamOwned, OwnerInv, IsFree
<1>2. CASE Elsewhere
  <2>1. UNCHANGED session
    BY <1>2, ElsewhereKeeps DEF sessions
  <2>2. \/ UNCHANGED stage
        \/ \E c \in Clients : stage[c] \in early /\ stage' = [stage EXCEPT ![c] = "detect"]
        \/ \E c \in Clients : stage[c] \in early /\ stage' = [stage EXCEPT ![c] = "closed"]
        \/ \E c \in Clients : stage[c] \in early /\ stage' = [stage EXCEPT ![c] = "backlog"]
    BY <1>2 DEF Elsewhere, HttpThread, AddListener, LoadCertData, Listen, Start, SetUpFails, Step,
       Sending, LookFurther, Found, NotFound, ListenerStep, OnAccept, OnAcceptError, Connect,
       PeerEnds, HandleRequest, SendToConnection, sockets, Goes
  <2>3. \A c \in Clients : stage'[c] \in early => stage[c] \in early
    BY <2>2 DEF TypeOK
  <2> QED
    BY <1>1, <2>1, <2>3
<1>3. ASSUME NEW c \in Clients, OnDetect(c), UNCHANGED sessions
      PROVE  Owned'
  <2>1. stage' = [stage EXCEPT ![c] = "closed"] \/ stage' = [stage EXCEPT ![c] = "http"]
    BY <1>3 DEF OnDetect, NewHttpSession, Goes
  <2>2. \A d \in Clients : stage'[d] \in early => stage[d] \in early
    BY <2>1 DEF TypeOK
  <2> QED
    BY <1>1, <1>3, <2>2 DEF sessions
<1>4. ASSUME NEW c \in Clients, NEW a \in Addresses, OnDetect(c), Starts(c, a)
      PROVE  Owned'
  <2>1. /\ IsFree(a) /\ \A b \in Addresses : b # a => session'[b] = session[b]
        /\ session'[a] # Free /\ session'[a].conn = c /\ ~session'[a].moved
        /\ stage' = [stage EXCEPT ![c] = "http"]
    BY <1>4, StartsObject
  <2>2. stage[c] = "detect"
    BY <1>4 DEF OnDetect
  <2>3. \A b \in Addresses : ~IsFree(b) => session[b].conn # c /\ session[b].conn \in Clients
    BY <2>2 DEF OwnerInv, TypeOK, IsFree, Session
  <2>4. OwnerInv'
    BY <2>1, <2>3 DEF OwnerInv, IsFree, TypeOK
  <2>5. StreamOwned'
    BY <2>1, <2>3 DEF StreamOwned, IsFree
  <2> QED
    BY <2>4, <2>5
<1>5. ASSUME NEW a \in Addresses, Handles(a)
      PROVE  Owned'
  <2>1. PICK op \in Operations : Continue(a, op)
    BY <1>5, HandlesObject
  <2>2. ~IsFree(a) /\ session[a].conn \in Clients
    BY <1>5, HandlesObject
  <2>3. /\ \A b \in Addresses : b # a => session'[b] = session[b]
        /\ \/ session'[a] = Free
           \/ /\ session'[a] # Free /\ session'[a].conn = session[a].conn
              /\ session'[a].moved = session[a].moved /\ session'[a].op = op
    BY <2>1, <2>2, ContinueObject
  <2>4. stage' = stage \/ stage' = [stage EXCEPT ![session[a].conn] = "closed"]
    BY <1>5, HandlesObject
  <2>5. \A c \in Clients : stage'[c] \in early => stage[c] \in early
    BY <2>2, <2>4 DEF TypeOK
  <2>6. OwnerInv'
    <3>1. \A b \in Addresses : ~IsFree(b) => session[b].conn \in Clients
      BY DEF TypeOK, IsFree, Session
    <3> QED
      BY <2>2, <2>3, <2>5, <3>1 DEF OwnerInv, IsFree
  <2>7. ~session[a].moved
    <3>1. session[a].op # "none"
      BY <1>5 DEF Handles, OnHandshake, OnHandshakeError, OnReadEnd, OnShutdown, OnShutdownError,
         OnAcceptWebSocket, OnWebSocketEnd, Waits
    <3> QED
      BY <3>1 DEF StreamOwned
  <2>8. \A b \in Addresses : session'[b].moved => session'[b].op = "none"
    <3>1. ~Free.moved
      BY DEF Free
    <3> QED
      BY <2>3, <2>7, <3>1 DEF StreamOwned
  <2>9. ASSUME NEW b \in Addresses, session'[b] # Free, ~session'[b].moved
        PROVE  session[b] # Free /\ ~session[b].moved /\ session'[b].conn = session[b].conn
    BY <2>2, <2>3, <2>7, <2>9 DEF IsFree
  <2>10. StreamOwned'
    BY <2>8, <2>9 DEF StreamOwned, IsFree
  <2> QED
    BY <2>6, <2>10
<1>6. ASSUME NEW a \in Addresses, NEW b \in Addresses, OnUpgrade(a, b)
      PROVE  Owned'
  <2> DEFINE c == session[a].conn
             new == Object(UpgradeOf(session[a].kind), c, "accept")
  <2>1. /\ a # b /\ IsFree(b) /\ ~IsFree(a) /\ ~session[a].moved /\ c \in Clients
        /\ \A d \in Addresses : d \notin {a, b} => session'[d] = session[d]
        /\ session'[b] = new
        /\ \/ session'[a] = Free
           \/ /\ session'[a] # Free /\ session'[a].conn = c
              /\ session'[a].moved /\ session'[a].op = "none"
    BY <1>6, UpgradeObjects
  <2>2. new # Free /\ new.conn = c /\ ~new.moved
    <3>1. new.kind \in WebSocketKinds
      BY DEF Object, UpgradeOf, WebSocketKinds
    <3> QED
      BY <3>1 DEF Object, Free, WebSocketKinds
  <2>3. stage' = [stage EXCEPT ![c] = "websocket"]
    BY <1>6 DEF OnUpgrade, Goes
  <2>4. \A d \in Addresses : ~IsFree(d) => session[d].conn \in Clients
    BY DEF TypeOK, IsFree, Session
  <2> HIDE DEF new
  <2>5. OwnerInv'
    BY <2>1, <2>2, <2>3, <2>4 DEF OwnerInv, IsFree, TypeOK
  <2>6. \A d \in Addresses :
          ~IsFree(d) /\ ~session[d].moved /\ session[d].conn = c => d = a
    BY <2>1 DEF StreamOwned
  <2>7. ~Free.moved
    BY DEF Free
  <2>8. StreamOwned'
    BY <2>1, <2>2, <2>6, <2>7 DEF StreamOwned, IsFree
  <2> QED
    BY <2>5, <2>8
<1> QED
  BY <1>2, <1>3, <1>4, <1>5, <1>6, StepKinds

-----------------------------------------------------------------------------
(* Nothing leaves the backlog before the acceptor accepts, and it does not before
   httpRunServer has done its steps.                                           *)
LEMMA StepSetUp ==
  ASSUME TypeOK, TypeOK', SetUpInv, Next
  PROVE  SetUpInv'
<1>1. CASE HttpThread
  <2>1. UNCHANGED <<session, stage>>
    BY <1>1 DEF HttpThread, AddListener, LoadCertData, Listen, Start, SetUpFails, Step, sockets, sessions
  <2>2. CASE SetUpFails
    BY <2>1, <2>2 DEF SetUpFails, SetUpInv, IsSetUp, IsFree
  <2>3. CASE AddListener
    <3>1. /\ setUp' = setUp + 1 /\ setUp = 0 /\ listeners' = TRUE
          /\ UNCHANGED <<isInitialized, acceptor>>
      BY <2>3 DEF AddListener, Step, SetUpOrder, TypeOK
    <3> QED
      BY <2>1, <3>1 DEF SetUpInv, IsSetUp, IsFree
  <2>4. CASE LoadCertData
    <3>1. /\ setUp' = setUp + 1 /\ setUp = 1 /\ isInitialized' = TRUE
          /\ UNCHANGED <<listeners, acceptor>>
      BY <2>4 DEF LoadCertData, Step, SetUpOrder, TypeOK
    <3> QED
      BY <2>1, <3>1 DEF SetUpInv, IsSetUp, IsFree
  <2>5. CASE Listen
    <3>1. /\ setUp' = setUp + 1 /\ setUp = 2 /\ acceptor' = "listening"
          /\ UNCHANGED <<listeners, isInitialized>>
      BY <2>5 DEF Listen, Step, SetUpOrder, TypeOK
    <3> QED
      BY <2>1, <3>1 DEF SetUpInv, IsSetUp, IsFree
  <2>6. CASE Start
    <3>1. /\ setUp' = setUp + 1 /\ setUp = 3 /\ acceptor' = "accepting"
          /\ UNCHANGED <<listeners, isInitialized>>
      BY <2>6 DEF Start, Step, SetUpOrder, TypeOK
    <3> QED
      BY <2>1, <3>1 DEF SetUpInv, IsSetUp, IsFree
  <2> QED
    BY <1>1, <2>2, <2>3, <2>4, <2>5, <2>6 DEF HttpThread
<1>2. CASE ~HttpThread
  <2>1. UNCHANGED server
    <3>1. ASSUME NEW a \in Addresses, Handles(a) PROVE UNCHANGED server
      BY <3>1, HandlesObject
    <3>2. ASSUME NEW c \in Clients, ListenerStep(c) PROVE UNCHANGED server
      BY <3>2 DEF ListenerStep, OnAccept, OnAcceptError, AcceptAgain, server
    <3>3. ASSUME NEW a \in Addresses, NEW b \in Addresses, OnUpgrade(a, b) PROVE UNCHANGED server
      BY <3>3 DEF OnUpgrade
    <3> QED
      BY <1>2, <3>1, <3>2, <3>3, StepKinds DEF Elsewhere, Sending, LookFurther, Found, NotFound,
         Connect, PeerEnds, HandleRequest, SendToConnection, OnDetect
  <2>2. UNCHANGED <<setUp, listeners, isInitialized, acceptor>>
    BY <2>1 DEF server
  (* Sessions come from sessions and from connections that were accepted. *)
  <2>3. ASSUME NEW c \in Clients, stage'[c] \notin {"away", "backlog"}
        PROVE  IsSetUp
    <3>1. CASE stage[c] \notin {"away", "backlog"}
      BY <3>1 DEF SetUpInv
    <3>2. CASE acceptor = "accepting"
      BY <3>2 DEF SetUpInv
    <3>3. CASE \E a \in Addresses : ~IsFree(a)
      BY <3>3 DEF SetUpInv
    <3>4. CASE \E d \in Clients : stage[d] \notin {"away", "backlog"}
      BY <3>4 DEF SetUpInv
    <3>5. \/ stage'[c] = stage[c] \/ acceptor = "accepting"
          \/ (\E a \in Addresses : ~IsFree(a))
          \/ (\E d \in Clients : stage[d] \notin {"away", "backlog"})
      <4>1. ASSUME NEW a \in Addresses, Handles(a) PROVE \E b \in Addresses : ~IsFree(b)
        BY <4>1, HandlesObject
      <4>2. ASSUME NEW d \in Clients, ListenerStep(d) PROVE acceptor = "accepting"
        BY <4>2 DEF ListenerStep, OnAccept, OnAcceptError
      <4>3. ASSUME NEW a \in Addresses, NEW b \in Addresses, OnUpgrade(a, b)
            PROVE  \E d \in Addresses : ~IsFree(d)
        BY <4>3, UpgradeObjects
      <4>4. ASSUME NEW d \in Clients, Connect(d) PROVE stage'[c] = stage[c]
        <5>1. stage' = [stage EXCEPT ![d] = "backlog"]
          BY <4>4 DEF Connect, Goes
        <5> QED
          BY <2>3, <5>1 DEF TypeOK
      <4>5. ASSUME NEW d \in Clients, OnDetect(d) PROVE stage[d] \notin {"away", "backlog"}
        BY <4>5 DEF OnDetect
      <4> QED
        BY <1>2, <4>1, <4>2, <4>3, <4>4, <4>5, StepKinds DEF Elsewhere, Sending, LookFurther,
           Found, NotFound, PeerEnds, HandleRequest, SendToConnection, sockets
    <3> QED
      BY <2>3, <3>1, <3>2, <3>3, <3>4, <3>5
  <2>4. ASSUME NEW a \in Addresses, session'[a] # Free
        PROVE  IsSetUp
    <3>1. CASE ~IsFree(a)
      BY <3>1 DEF SetUpInv
    <3>2. CASE IsFree(a)
      <4>1. ASSUME NEW b \in Addresses, ~IsFree(b) PROVE IsSetUp
        BY <4>1 DEF SetUpInv
      <4>2. ASSUME NEW c \in Clients, OnDetect(c) PROVE IsSetUp
        BY <4>2 DEF OnDetect, SetUpInv
      <4>3. ASSUME UNCHANGED sessions PROVE FALSE
        BY <2>4, <3>2, <4>3 DEF IsFree, sessions
      <4>4. ASSUME NEW b \in Addresses, Handles(b) PROVE IsSetUp
        BY <4>1, <4>4, HandlesObject
      <4>5. ASSUME NEW d \in Addresses, NEW b \in Addresses, OnUpgrade(d, b) PROVE IsSetUp
        BY <4>1, <4>5, UpgradeObjects
      <4> QED
        BY <4>2, <4>3, <4>4, <4>5, StepKinds, ElsewhereKeeps
    <3> QED
      BY <3>1, <3>2
  <2> QED
    BY <2>2, <2>3, <2>4 DEF SetUpInv, IsSetUp, IsFree
<1> QED
  BY <1>1, <1>2

-----------------------------------------------------------------------------
LEMMA StepTypes ==
  ASSUME TypeOK, Next
  PROVE  TypeOK'
<1>1. session' \in [Addresses -> Session \cup {Free}] /\ registry' \in [Kinds -> SUBSET Addresses]
  <2>1. CASE UNCHANGED sessions
    BY <2>1 DEF sessions, TypeOK
  <2>2. ASSUME NEW a \in Addresses, Handles(a)
        PROVE  /\ session' \in [Addresses -> Session \cup {Free}]
               /\ registry' \in [Kinds -> SUBSET Addresses]
    <3>1. PICK op \in Operations : Continue(a, op)
      BY <2>2, HandlesObject
    <3>2. ~IsFree(a)
      BY <2>2, HandlesObject
    <3> QED
      BY <2>2, <3>1, <3>2, HandlesObject, ContinueObject
  <2>3. ASSUME NEW a \in Addresses, NEW b \in Addresses, OnUpgrade(a, b)
        PROVE  /\ session' \in [Addresses -> Session \cup {Free}]
               /\ registry' \in [Kinds -> SUBSET Addresses]
    <3>1. session' \in [Addresses -> Session \cup {Free}]
      BY <2>3, UpgradeObjects
    <3>2. UpgradeOf(session[a].kind) \in Kinds
      BY DEF UpgradeOf, Kinds, WebSocketKinds
    <3> QED
      BY <2>3, <3>1, <3>2 DEF OnUpgrade, AddClient, NewId, TypeOK
  <2> QED
    BY <2>1, <2>2, <2>3, StepKinds, ElsewhereKeeps, StartsObject
<1>2. stage' \in [Clients -> {"away", "backlog", "detect", "http", "websocket", "closed"}]
  <2>1. ASSUME NEW c \in Clients, NEW to \in {"backlog", "detect", "http", "websocket", "closed"},
               stage' = [stage EXCEPT ![c] = to]
        PROVE  stage' \in [Clients -> {"away", "backlog", "detect", "http", "websocket", "closed"}]
    BY <2>1 DEF TypeOK
  <2>2. CASE Elsewhere
    BY <2>1, <2>2 DEF Elsewhere, HttpThread, AddListener, LoadCertData, Listen, Start, SetUpFails,
       Step, Sending, LookFurther, Found, NotFound, ListenerStep, OnAccept, OnAcceptError, Connect,
       PeerEnds, HandleRequest, SendToConnection, sockets, Goes, TypeOK
  <2>3. ASSUME NEW c \in Clients, OnDetect(c)
        PROVE  stage' = [stage EXCEPT ![c] = "http"] \/ stage' = [stage EXCEPT ![c] = "closed"]
    BY <2>3 DEF OnDetect, NewHttpSession, Goes
  <2>4. ASSUME NEW a \in Addresses, Handles(a)
        PROVE  stage' = stage \/ \E c \in Clients : stage' = [stage EXCEPT ![c] = "closed"]
    BY <2>4, HandlesObject
  <2>5. ASSUME NEW a \in Addresses, NEW b \in Addresses, OnUpgrade(a, b)
        PROVE  \E c \in Clients : stage' = [stage EXCEPT ![c] = "websocket"]
    <3>1. session[a].conn \in Clients
      BY <2>5, UpgradeObjects
    <3> QED
      BY <2>5, <3>1 DEF OnUpgrade, Goes
  <2>6. stage' = stage => stage' \in [Clients -> {"away", "backlog", "detect", "http", "websocket", "closed"}]
    BY DEF TypeOK
  <2> QED
    BY <2>1, <2>2, <2>3, <2>4, <2>5, <2>6, StepKinds
<1>3. peer' \in [Clients -> {"up", "gone"}]
  <2>1. UNCHANGED peer \/ \E c \in Clients : PeerEnds(c)
    <3>1. ASSUME NEW a \in Addresses, Handles(a) PROVE UNCHANGED peer
      BY <3>1, HandlesObject
    <3> QED
      BY <3>1, StepKinds DEF Elsewhere, HttpThread, AddListener, LoadCertData, Listen, Start,
         SetUpFails, Step, Sending, LookFurther, Found, NotFound, ListenerStep, OnAccept,
         OnAcceptError, Connect, HandleRequest, SendToConnection, OnDetect, OnUpgrade, sockets
  <2> QED
    BY <2>1 DEF PeerEnds, TypeOK
<1>4. UNCHANGED server \/ HttpThread
  <2>1. ASSUME NEW a \in Addresses, Handles(a) PROVE UNCHANGED server
    BY <2>1, HandlesObject
  <2>2. ASSUME NEW c \in Clients, ListenerStep(c) PROVE UNCHANGED server
    BY <2>2 DEF ListenerStep, OnAccept, OnAcceptError, AcceptAgain, server
  <2> QED
    BY <2>1, <2>2, StepKinds DEF Elsewhere, Sending, LookFurther, Found, NotFound, Connect,
       PeerEnds, HandleRequest, SendToConnection, OnDetect, OnUpgrade
<1>5. /\ setUp' \in 0..4 /\ acceptor' \in {"closed", "listening", "accepting"}
  BY <1>4 DEF server, HttpThread, AddListener, LoadCertData, Listen, Start, SetUpFails, Step, TypeOK
<1>6. /\ terminated' \in BOOLEAN /\ listeners' \in BOOLEAN /\ isInitialized' \in BOOLEAN
  BY <1>4 DEF server, HttpThread, AddListener, LoadCertData, Listen, Start, SetUpFails, Step, TypeOK
<1>7. subscribers' \in SUBSET Addresses /\ sender' \in [target: Addresses, map: 1..4] \cup {Idle}
  <2>1. ASSUME NEW a \in Addresses, Handles(a) PROVE UNCHANGED delivery
    BY <2>1, HandlesObject
  <2>2. CASE UNCHANGED delivery
    BY <2>2 DEF delivery, TypeOK
  <2>3. ASSUME NEW a \in Addresses, HandleRequest(a)
        PROVE  /\ subscribers' \in SUBSET Addresses
               /\ sender' \in [target: Addresses, map: 1..4] \cup {Idle}
    BY <2>3 DEF HandleRequest, TypeOK
  <2>4. ASSUME NEW a \in subscribers, SendToConnection(a)
        PROVE  /\ subscribers' \in SUBSET Addresses
               /\ sender' \in [target: Addresses, map: 1..4] \cup {Idle}
    BY <2>4 DEF SendToConnection, TypeOK
  <2>5. CASE LookFurther
    <3>1. sender \in [target: Addresses, map: 1..4] /\ sender.map < 4
      BY <2>5 DEF LookFurther, MoreMaps, TypeOK
    <3>2. sender.map + 1 \in 1..4
      BY <3>1
    <3> QED
      BY <2>5, <3>1, <3>2 DEF LookFurther, TypeOK
  <2>6. CASE Found \/ NotFound
    BY <2>6 DEF Found, NotFound, TypeOK
  <2> QED
    BY <2>1, <2>2, <2>3, <2>4, <2>5, <2>6, StepKinds DEF Elsewhere, HttpThread, AddListener,
       LoadCertData, Listen, Start, SetUpFails, Step, Sending, ListenerStep, OnAccept,
       OnAcceptError, Connect, PeerEnds, OnDetect, OnUpgrade
<1> QED
  BY <1>1, <1>2, <1>3, <1>5, <1>6, <1>7 DEF TypeOK

LEMMA StutterInv == CInv /\ UNCHANGED vars => CInv'
BY DEF CInv, vars, server, sockets, sessions, delivery, TypeOK, NoDangling, StreamOwned, SetUpInv,
   OwnerInv, SubscriberInv, SearchInv, IsSetUp, IsFree, Idle, Free

LEMMA Inductive == CInv /\ [Next]_vars => CInv'
<1> SUFFICES ASSUME CInv, Next PROVE CInv'
  BY StutterInv
<1> USE DEF CInv
<1>1. TypeOK'
  BY StepTypes
<1>2. NoDangling'
  BY <1>1, StepNoDangling
<1>3. StreamOwned' /\ OwnerInv'
  BY <1>1, StepOwned DEF Owned
<1>4. SetUpInv'
  BY <1>1, StepSetUp
<1>5. SubscriberInv' /\ SearchInv'
  BY StepDelivery
<1> QED
  BY <1>1, <1>2, <1>3, <1>4, <1>5

LEMMA Invariant == Spec => []CInv
BY InitInv, Inductive, PTL DEF Spec

(* Every variable keeps its type, for any clients and addresses. *)
THEOREM ConnectionTypes == Spec => []TypeOK
BY Invariant, PTL DEF CInv

(* SendToConnection and the registry: an address found in a WebSocket map is that
   of a live object of the class the code casts it to.                         *)
THEOREM RegistryNeverDangles == Spec => []NoDangling
BY Invariant, PTL DEF CInv

(* onRead and release_stream: one session at a time works on a stream. *)
THEOREM OneOwnerOfAStream == Spec => []StreamOwned
BY Invariant, PTL DEF CInv

(* httpRunServer has done its part before anybody reads what it sets. *)
THEOREM UsedWhenSetUp == Spec => []SetUpBeforeUse
<1>1. CInv => SetUpBeforeUse
  <2> SUFFICES ASSUME CInv, sender # Idle PROVE IsSetUp
    BY DEF CInv, SetUpBeforeUse, SetUpInv, IsSetUp
  <2>1. sender.target \in Addresses /\ session[sender.target].kind \in WebSocketKinds
    BY DEF CInv, TypeOK, SubscriberInv
  <2>2. ~IsFree(sender.target)
    BY <2>1 DEF IsFree, Free, WebSocketKinds
  <2> QED
    BY <2>1, <2>2 DEF CInv, SetUpInv
<1> QED
  BY <1>1, Invariant, PTL

(* SendToConnection: a look-up that ends without writing to the session has looked
   in both WebSocket maps, and what was not in them has not come back.         *)
THEOREM LookUpReaches == Spec => ConnectedIsReached
<1>1. CInv /\ [Next]_vars =>
        [NotFound \/ (Found /\ Search[sender.map] \in HttpKinds) =>
           ~Registered(sender.target)]_vars
  <2> SUFFICES ASSUME CInv, sender # Idle, sender.map \in {3, 4}
               PROVE  ~Registered(sender.target)
    <3>1. CInv /\ sender # Idle => sender.map \in 1..4
      BY DEF CInv, TypeOK
    <3>2. CInv /\ NotFound => sender # Idle /\ sender.map \in {3, 4}
      BY <3>1 DEF NotFound, MoreMaps
    <3>3. CInv /\ Found /\ Search[sender.map] \in HttpKinds
            => sender # Idle /\ sender.map \in {3, 4}
      BY <3>1 DEF Found, Search, HttpKinds
    <3> QED
      BY <3>2, <3>3
  <2>1. 1 \in 1 .. (sender.map - 1) /\ 2 \in 1 .. (sender.map - 1)
    OBVIOUS
  <2>2. /\ sender.target \notin registry["PlainWebsocketSession"]
        /\ sender.target \notin registry["SslWebsocketSession"]
    BY <2>1 DEF CInv, SearchInv, Search, WebSocketKinds
  <2> QED
    BY <2>2 DEF Registered, WebSocketKinds
<1> QED
  BY <1>1, Invariant, PTL DEF Spec, ConnectedIsReached
=============================================================================
