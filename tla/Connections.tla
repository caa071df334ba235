------------------------------ MODULE Connections ------------------------------
(* WebSockHttpFlexServer: how it is set up, how a TCP connection becomes an HTTP
   and then a WebSocket session, the four registries, and SendToConnection.

   The io thread runs one handler at a time, the http thread of main sets the
   server up, the subscription thread calls SendToConnection.  A session object
   is known by its address, which is also its connection id.  The address can be
   used again when nothing refers to the object any more: no operation that is
   under way, and no timer, which onTimer starts anew for ever.

   Left out: time-outs (2^32 - 1 seconds) and what is written on a WebSocket
   (module WebSocketSession).  A request over HTTP is read and ignored, so the
   queue of HTTP responses stays empty.                                        *)
EXTENDS Naturals, Sequences, FiniteSets

CONSTANTS
  Clients,       \* peers; each connects at most once
  Addresses,     \* addresses of session objects
  AllowInsecure, \* allowInsecureConns
  None           \* no client, no address

WebSocketKinds == {"PlainWebsocketSession", "SslWebsocketSession"}
HttpKinds      == {"PlainHttpSession", "SslHttpSession"}
Kinds          == WebSocketKinds \cup HttpKinds

(* Memory does not run out: a client needs an HTTP and a WebSocket session. *)
ASSUME ConnectionConstants ==
  /\ None \notin Clients \cup Addresses
  /\ IsFiniteSet(Clients) /\ IsFiniteSet(Addresses)
  /\ 2 * Cardinality(Clients) <= Cardinality(Addresses)
  /\ AllowInsecure \in BOOLEAN

VARIABLES
  setUp,         \* the steps of httpRunServer done
  terminated,    \* an exception has ended the process
  listeners,     \* a command processor is in listeners_
  isInitialized, \* isInitialized
  acceptor,      \* closed, listening, or with an async_accept under way
  stage,         \* where each connection is
  peer,          \* up, or gone: the stream ends or fails
  session,       \* the session object at each address
  registry,      \* the addresses in connPlainWebSock_, ...
  subscribers,   \* connection ids the subscription handler knows
  sender         \* SendToConnection: the id and the map it looks in

server   == <<setUp, terminated, listeners, isInitialized, acceptor>>
sockets  == <<stage, peer>>
sessions == <<session, registry>>
delivery == <<subscribers, sender>>
vars     == <<server, sockets, sessions, delivery>>

(* An object: its class, its connection, the operation it waits for, and whether
   a WebSocket session has taken over its stream.                              *)
Operations == {"handshake", "read", "shutdown", "accept", "none"}
Session    == [kind: Kinds, conn: Clients, op: Operations, moved: BOOLEAN]
Free       == [kind |-> "free", conn |-> None, op |-> "none", moved |-> FALSE]
Idle       == [target |-> None, map |-> 0]

TypeOK ==
  /\ setUp \in 0..4 /\ terminated \in BOOLEAN
  /\ listeners \in BOOLEAN /\ isInitialized \in BOOLEAN
  /\ acceptor \in {"closed", "listening", "accepting"}
  /\ stage \in [Clients -> {"away", "backlog", "detect", "http", "websocket", "closed"}]
  /\ peer \in [Clients -> {"up", "gone"}]
  /\ session \in [Addresses -> Session \cup {Free}]
  /\ registry \in [Kinds -> SUBSET Addresses]
  /\ subscribers \in SUBSET Addresses
  /\ sender \in [target: Addresses, map: 1..4] \cup {Idle}

Init ==
  /\ setUp = 0 /\ terminated = FALSE
  /\ listeners = FALSE /\ isInitialized = FALSE
  /\ acceptor = "closed"
  /\ stage = [c \in Clients |-> "away"]
  /\ peer = [c \in Clients |-> "up"]
  /\ session = [a \in Addresses |-> Free]
  /\ registry = [k \in Kinds |-> {}]
  /\ subscribers = {}
  /\ sender = Idle

-----------------------------------------------------------------------------
(* httpRunServer *)

(* Mutation: the io thread is started before the listener is added. *)
ListenerLast == <<"LoadCertData", "Listen", "Start", "AddListener">>
SetUpOrder   == <<"AddListener", "LoadCertData", "Listen", "Start">>

Step(name) ==
  /\ ~terminated /\ setUp < 4 /\ SetUpOrder[setUp + 1] = name
  /\ setUp' = setUp + 1
  /\ UNCHANGED <<terminated, sockets, sessions, delivery>>

AddListener  == Step("AddListener") /\ listeners' = TRUE /\ UNCHANGED <<isInitialized, acceptor>>
LoadCertData == Step("LoadCertData") /\ isInitialized' = TRUE /\ UNCHANGED <<listeners, acceptor>>

(* BeastListener: from now on the system queues connections. *)
Listen == Step("Listen") /\ acceptor' = "listening" /\ UNCHANGED <<listeners, isInitialized>>

Start ==
  /\ isInitialized
  /\ Step("Start")
  /\ acceptor' = "accepting"
  /\ UNCHANGED <<listeners, isInitialized>>

(* No certificate or key, or no such address: the exception leaves the thread. *)
SetUpFails ==
  /\ ~terminated /\ setUp < 4 /\ SetUpOrder[setUp + 1] \in {"LoadCertData", "Listen"}
  /\ terminated' = TRUE
  /\ UNCHANGED <<setUp, listeners, isInitialized, acceptor, sockets, sessions, delivery>>

-----------------------------------------------------------------------------
(* Session objects *)

Object(kind, c, op) == [kind |-> kind, conn |-> c, op |-> op, moved |-> FALSE]
IsFree(a)           == session[a] = Free

(* onTimer is commented out in run() of SslHttpSession. *)
KeptByTimer(s) == s.kind # "SslHttpSession"

(* What is left of an object when its handler has returned. *)
Left(s) == IF s.op = "none" /\ ~KeptByTimer(s) THEN Free ELSE s

Continue(a, op) == session' = [session EXCEPT ![a] = Left([session[a] EXCEPT !.op = op])]

AddClient(kind, a) == registry' = [registry EXCEPT ![kind] = @ \cup {a}]
RemoveClient(a)    == registry' = [registry EXCEPT ![session[a].kind] = @ \ {a}]

Goes(c, to) == stage' = [stage EXCEPT ![c] = to]

Waits(a, kinds, op) == session[a].kind \in kinds /\ session[a].op = op
Peer(a)             == peer[session[a].conn]

-----------------------------------------------------------------------------
(* BeastListener and DetectSession *)

OnAccept(c) ==
  /\ acceptor = "accepting"
  /\ stage[c] = "backlog"
  /\ Goes(c, "detect")
  /\ UNCHANGED <<server, peer, sessions, delivery>>

(* Mutation: after an error no other connection is accepted. *)
AcceptNoMore == acceptor' = "listening"
AcceptAgain  == UNCHANGED acceptor

(* The client has gone before it was accepted. *)
OnAcceptError(c) ==
  /\ acceptor = "accepting"
  /\ stage[c] = "backlog" /\ peer[c] = "gone"
  /\ Goes(c, "closed")
  /\ AcceptAgain
  /\ UNCHANGED <<setUp, terminated, listeners, isInitialized, peer, sessions, delivery>>

NewHttpSession(c, a, kind, op) ==
  /\ IsFree(a)
  /\ session' = [session EXCEPT ![a] = Object(kind, c, op)]
  /\ AddClient(kind, a)
  /\ Goes(c, "http")

OnDetect(c) ==
  /\ stage[c] = "detect"
  /\ \/ \E a \in Addresses :
          \/ NewHttpSession(c, a, "SslHttpSession", "handshake")
          \/ AllowInsecure /\ NewHttpSession(c, a, "PlainHttpSession", "read")
     \/ /\ peer[c] # "up" \/ ~AllowInsecure \* an error, or a plain connection
        /\ Goes(c, "closed")
        /\ UNCHANGED sessions
  /\ UNCHANGED <<server, peer, delivery>>

-----------------------------------------------------------------------------
(* HTTP sessions.  Neither a request that is no upgrade nor a failed read other
   than the end of the stream changes anything: another read is started.       *)

OnHandshake(a) ==
  /\ Waits(a, HttpKinds, "handshake")
  /\ Continue(a, "read")
  /\ UNCHANGED <<server, sockets, registry, delivery>>

(* The error is logged, nothing is removed. *)
OnHandshakeError(a) ==
  /\ Waits(a, HttpKinds, "handshake") /\ Peer(a) # "up"
  /\ Continue(a, "none")
  /\ Goes(session[a].conn, "closed")
  /\ UNCHANGED <<server, peer, registry, delivery>>

(* doEof: the plain session shuts its sending side and keeps the socket. *)
OnReadEnd(a) ==
  /\ Waits(a, HttpKinds, "read") /\ Peer(a) # "up"
  /\ Continue(a, IF session[a].kind = "SslHttpSession" THEN "shutdown" ELSE "none")
  /\ UNCHANGED <<server, sockets, registry, delivery>>

OnShutdown(a) ==
  /\ Waits(a, HttpKinds, "shutdown")
  /\ RemoveClient(a)
  /\ Continue(a, "none")
  /\ Goes(session[a].conn, "closed")
  /\ UNCHANGED <<server, peer, delivery>>

OnShutdownError(a) ==
  /\ Waits(a, HttpKinds, "shutdown")
  /\ Continue(a, "none")
  /\ Goes(session[a].conn, "closed")
  /\ UNCHANGED <<server, peer, registry, delivery>>

UpgradeOf(kind) ==
  IF kind = "SslHttpSession" THEN "SslWebsocketSession" ELSE "PlainWebsocketSession"

(* Mutation: the session goes on to read from the stream it has given away. *)
ReadOn    == "read"
ReadNoMore == "none"

(* Mutation: the connection keeps its id when it is upgraded. *)
SameId(a, b) == a
NewId(a, b)  == b

(* release_stream and makeWebsocketSession, whose run() adds the client. *)
OnUpgrade(a, b) ==
  LET http == session[a]  kind == UpgradeOf(http.kind) IN
  /\ Waits(a, HttpKinds, "read") /\ ~http.moved
  /\ IsFree(b)
  /\ session' = [session EXCEPT
       ![a] = Left([http EXCEPT !.op = ReadNoMore, !.moved = TRUE]),
       ![b] = Object(kind, http.conn, "accept")]
  /\ AddClient(kind, NewId(a, b))
  /\ Goes(http.conn, "websocket")
  /\ UNCHANGED <<server, peer, delivery>>

-----------------------------------------------------------------------------
(* WebSocket sessions *)

OnAcceptWebSocket(a) ==
  /\ Waits(a, WebSocketKinds, "accept")
  /\ Continue(a, "read")
  /\ UNCHANGED <<server, sockets, registry, delivery>>

(* HandleRequest: the command processor subscribes the session's channel, or
   unsubscribes it.                                                            *)
HandleRequest(a) ==
  /\ Waits(a, WebSocketKinds, "read")
  /\ listeners
  /\ subscribers' \in {subscribers \cup {a}, subscribers \ {a}}
  /\ UNCHANGED <<server, sockets, sessions, sender>>

(* The first operation that meets the end of the stream removes the client; what
   is still under way then is aborted, without effect.                         *)
OnWebSocketEnd(a) ==
  /\ \/ Waits(a, WebSocketKinds, "accept")
     \/ Waits(a, WebSocketKinds, "read") /\ Peer(a) # "up"
  /\ RemoveClient(a)
  /\ Continue(a, "none")
  /\ Goes(session[a].conn, "closed")
  /\ UNCHANGED <<server, peer, delivery>>

-----------------------------------------------------------------------------
(* SendToConnection: each map is looked in under its own mutex. *)

(* Mutation: the HTTP sessions are looked at first. *)
HttpFirst == <<"PlainHttpSession", "SslHttpSession", "PlainWebsocketSession", "SslWebsocketSession">>
Search    == <<"PlainWebsocketSession", "SslWebsocketSession", "PlainHttpSession", "SslHttpSession">>

(* Mutation: one map too many. *)
OneMore(map)  == map <= 4
MoreMaps(map) == map < 4

IsFound == sender.target \in registry[Search[sender.map]]

SendToConnection(a) ==
  /\ sender = Idle
  /\ sender' = [target |-> a, map |-> 1]
  /\ UNCHANGED <<server, sockets, sessions, subscribers>>

LookFurther ==
  /\ sender # Idle /\ ~IsFound /\ MoreMaps(sender.map)
  /\ sender' = [sender EXCEPT !.map = @ + 1]
  /\ UNCHANGED <<server, sockets, sessions, subscribers>>

(* A WebSocket session is written to before its mutex is released. *)
Found ==
  /\ sender # Idle /\ IsFound
  /\ sender' = Idle
  /\ UNCHANGED <<server, sockets, sessions, subscribers>>

(* The hint to the subscription handler, which unsubscribes the channel. *)
NotFound ==
  /\ sender # Idle /\ ~IsFound /\ ~MoreMaps(sender.map)
  /\ sender' = Idle
  /\ subscribers' = subscribers \ {sender.target}
  /\ UNCHANGED <<server, sockets, sessions>>

-----------------------------------------------------------------------------
(* Peers *)

Connect(c) ==
  /\ acceptor # "closed" /\ stage[c] = "away"
  /\ Goes(c, "backlog")
  /\ UNCHANGED <<server, peer, sessions, delivery>>

PeerEnds(c) ==
  /\ stage[c] \notin {"away", "closed"} /\ peer[c] = "up"
  /\ peer' = [peer EXCEPT ![c] = "gone"]
  /\ UNCHANGED <<server, stage, sessions, delivery>>

-----------------------------------------------------------------------------
HttpThread == AddListener \/ LoadCertData \/ Listen \/ Start \/ SetUpFails

ListenerStep(c) == OnAccept(c) \/ OnAcceptError(c)

SessionStep(a) ==
  \/ OnHandshake(a) \/ OnHandshakeError(a) \/ OnReadEnd(a)
  \/ OnShutdown(a) \/ OnShutdownError(a)
  \/ \E b \in Addresses : OnUpgrade(a, b)
  \/ OnAcceptWebSocket(a) \/ HandleRequest(a) \/ OnWebSocketEnd(a)

Sending == LookFurther \/ Found \/ NotFound

Next ==
  /\ ~terminated
  /\ \/ HttpThread \/ Sending
     \/ \E c \in Clients : ListenerStep(c) \/ OnDetect(c) \/ Connect(c) \/ PeerEnds(c)
     \/ \E a \in Addresses : SessionStep(a)
     \/ \E a \in subscribers : SendToConnection(a)

(* The http thread goes on, and the io thread accepts who waits.  Clients owe
   nothing.                                                                    *)
Fairness == WF_vars(HttpThread) /\ \A c \in Clients : WF_vars(ListenerStep(c))

Spec     == Init /\ [][Next]_vars
FairSpec == Spec /\ Fairness

-----------------------------------------------------------------------------
(* Properties *)

Registered(a) == \E kind \in WebSocketKinds : a \in registry[kind]

(* SendToConnection turns a connection id back into a pointer and writes to it:
   what it finds in a WebSocket map is an object of that class, still there.   *)
NoDangling ==
  \A kind \in WebSocketKinds : \A a \in registry[kind] : session[a].kind = kind

(* A stream has one owner: release_stream moves it, and the session that gave it
   away starts no operation on it.                                             *)
StreamOwned ==
  /\ \A a \in Addresses : session[a].moved => session[a].op = "none"
  /\ \A a, b \in Addresses :
       /\ ~IsFree(a) /\ ~IsFree(b) /\ session[a].conn = session[b].conn
       /\ ~session[a].moved /\ ~session[b].moved
       => a = b

(* isInitialized and listeners_ have no lock: nobody reads them before httpRunServer
   has set them, or SendToConnection would throw and requests go unanswered.   *)
SetUpBeforeUse ==
  (\E a \in Addresses : ~IsFree(a)) \/ sender # Idle => isInitialized /\ listeners

(* A connected session is reached, though the maps are looked in one by one, each
   under its own mutex, and HTTP maps hold addresses of objects long gone.     *)
ConnectedIsReached ==
  [][NotFound \/ (Found /\ Search[sender.map] \in HttpKinds) =>
       ~Registered(sender.target)]_vars

(* Whoever connects is accepted, whatever happened to those before. *)
ClientsAccepted == \A c \in Clients : stage[c] = "backlog" ~> stage[c] # "backlog"

-----------------------------------------------------------------------------
(* The inductive invariant behind them *)

IsSetUp == isInitialized /\ listeners

SetUpInv ==
  /\ setUp >= 1 => listeners
  /\ setUp >= 2 => isInitialized
  /\ acceptor = "accepting" => IsSetUp
  /\ \A c \in Clients : stage[c] \notin {"away", "backlog"} => IsSetUp
  /\ \A a \in Addresses : ~IsFree(a) => IsSetUp

(* A connection has no session before TLS has been looked for. *)
OwnerInv ==
  \A a \in Addresses :
    ~IsFree(a) => stage[session[a].conn] \notin {"away", "backlog", "detect"}

(* Only WebSocket sessions subscribe, and their addresses are not used again. *)
SubscriberInv ==
  /\ \A a \in subscribers : session[a].kind \in WebSocketKinds
  /\ sender # Idle => session[sender.target].kind \in WebSocketKinds

(* What has been looked at and not found does not turn up there. *)
SearchInv ==
  sender # Idle =>
    \A i \in 1 .. (sender.map - 1) :
      Search[i] \in WebSocketKinds => sender.target \notin registry[Search[i]]

CInv ==
  /\ TypeOK /\ NoDangling /\ StreamOwned
  /\ SetUpInv /\ OwnerInv /\ SubscriberInv /\ SearchInv

-----------------------------------------------------------------------------
(* What a comment of the code says, and the code does not do *)

(* WebSockHttpFlexServer.cpp 1370: SendToConnection returns false if the connection
   is not found.  The entry of an HTTP session that has ended or was upgraded
   stays, and answers for a later session at the same address.                 *)
FoundIsConnected == [][Found => Registered(sender.target)]_vars
=============================================================================
