# Verification of kuksa-val-server

This directory keeps the TLA+ specifications of the KUKSA.val server in
`src/kuksa-val-server`, the TLC configurations that model-check them, and
theorems about them proved with TLAPS. The rest of the repository (Python
clients, viewer, feeders, examples) talks to this server and keeps no state the
server depends on.

Paths below are relative to `src/kuksa-val-server` unless they start with `src/`.

1. [The system](#1-the-system)
2. [Hard behaviours](#2-hard-behaviours)
3. [Modules](#3-modules)
4. [Runs](#4-runs)
5. [Proofs](#5-proofs)
6. [Where the code and its documents disagree](#6-where-the-code-and-its-documents-disagree)
7. [What is left out](#7-what-is-left-out)
8. [What could come next](#8-what-could-come-next)

## 1. The system

The server keeps a tree of vehicle signals (VSS). Clients connect by WebSocket
or gRPC, authorize with a token, get and set signals, change metadata, and
subscribe to signals; every set of a signal is published to its subscribers.

### Threads

| thread | how many | runs |
|---|---|---|
| io thread | 1 (`WebSockHttpFlexServer.hpp:50`, `NumOfThreads = 1`) | the handlers of all WebSocket and HTTP sessions, and the requests they read |
| gRPC threads | a pool | unary requests, and one subscribe loop for each stream |
| subscription thread | 1 | `SubscriptionHandler::subThreadRunner`: delivers events |
| MQTT thread | 1 | mosquitto's loop |

### Components

| component | state | operations | made correct by |
|---|---|---|---|
| Subscription handler (`SubscriptionHandler.cpp`) | `subscriptions` (key, id → channel) under `accessMutex`; `buffer` of events under `subMutex`; `threadRun` | `subscribe`, `unsubscribe`, `unsubscribeAll`, `publishForVSSPath`, `subThreadRunner`, start and stop | each subscriber gets each publication once, in order, and only while subscribed; no call blocks for ever; what is queued gets delivered |
| gRPC service (`grpcHandler.cpp`) | `grpcSubsMap` (context → id → stream), channels of contexts and peers | `get`, `set`, `authorize`, `subscribe` (a loop for each stream) | the map of streams and the handler's map agree; a context that ends leaves nothing behind; a channel's permissions are its own client's |
| Connection registry (`ConnectionHandler`) | four maps, of plain and TLS, WebSocket and HTTP sessions | `AddClient`, `RemoveClient`, `SendToConnection` | what is found is still there, what is connected is found |
| WebSocket session (`WebSocketSession`) | `writeQueue_`, `bufferWrite_` under `queueMutex`; timer, `ping_state_` | `onAccept`, `onRead`, `onWrite`, `write`, `onTimer`, `onPing` | responses and notifications are written whole, in order, one at a time; an ended session removes itself |
| HTTP session and listener (`BeastListener`, `DetectSession`, `HttpSession`) | acceptor, `isInitialized`, `listeners_`; the stream, until it is upgraded | set-up, `onAccept`, `onDetect`, `onHandshake`, `onRead`, `onShutdown` | the server is set up before it is used; a stream has one owner; everybody who connects is accepted. Only upgrades are served, a plain request is ignored |
| VSS database (`VssDatabase.cpp`) | `meta_tree__`, `data_tree__` under `rwMutex_` | `setSignal`, `getSignal`, `getMetaData`, `updateMetaData`, `updateJsonTree`, checks of paths | what is published is what is stored; no update is undone by another; the two trees hold the same metadata |
| Command processor (`VssCommand*.cpp`) | none | validates a request, checks access, calls the database | nothing is written before all checks have passed |
| Authorisation (`Authenticator.cpp`, `AccessChecker.cpp`, `KuksaChannel.hpp`) | permissions copied into the channel | `validate`, `isStillValid`, `resolvePermissions`, `checkReadAccess`, `checkWriteAccess` | a channel can do what the token last accepted says and nothing else |
| Paths, types, validation (`VSSPath.cpp`, `VSSTypeSanitizer.cpp`, ...) | none | conversions | a value fits its VSS type and its limits; equal paths have equal keys |
| MQTT publisher (`MQTTPublisher.cpp`) | `isConnected_` | `start`, `sendPathValue`, called by `publishForVSSPath` first | a broker that is away does not stop the setters; broker and subscribers get values in one order |
| Start, overlays, logging | none after start-up | | |

### Interaction

    WebSocket client --> WebSocketSession (io thread) --\
                                                         > command processor --> VssDatabase
    gRPC client -------> RequestServiceImpl (gRPC) -----/        |                 | rwMutex_
                            |                                    | subscribe       | publishForVSSPath
                            | grpcSubsMap                        v                 v
                            |                       SubscriptionHandler: subscriptions, accessMutex
                            |                                    | buffer, subMutex
                            |                                    v
                            +<--- stream->Write ------ subThreadRunner --- SendToConnection --> WebSocketSession.write

The locks nest as `rwMutex_` > `accessMutex` > `subMutex` on the way of a set.
The subscription thread holds `subMutex` while it delivers; for a connection
that has gone it asks for `accessMutex` as well, the other way round.

## 2. Hard behaviours

`PROJECT.json` lists the hazards line by line with the properties that would
catch each. In short:

- **Order and atomicity of notification.** Publishers, subscribers and the
  delivering thread interleave over two maps and a queue under different mutexes
  (`DeliveryOrder`, `NoStalePush`, `ImplementsNotification`, `StreamsSubscribed`,
  `StreamLostAtEndOnly`).
- **State read outside its mutex.** `buffer.size()` in the runner
  (`FrontDefined`, `SubscriberNotified`), `bufferWrite_.consume` in `onWrite`
  (`BufferStable`, `FramesInOrder`), the checks of paths before `setSignal`.
- **Blocking.** Mutexes taken in two orders, and delivery under `subMutex`
  (`GoneConnectionRemoved`, `RequestsAnswered`, `AllAnswered`).
- **Ends of connections.** Several operations of a session are under way when
  its connection ends, and only one of them is told (`GoneIsRemoved`,
  `EndIsNoticed`); a gRPC context ends with subscriptions left
  (`ContextCleared`).
- **Read, release, write back.** `updateMetaData` and `updateJsonTree` work in
  two critical sections, while `setSignal` writes whole leaves (`TreesAgree`,
  `MetadataOnly`, `PublishedIsStored`, `ReadsArePublished`).
- **Two components, one value.** A set stores in one component and notifies through
  another, while a subscriber comes, goes or still waits for an earlier value
  (`UpToDate`).
- **Addresses as identities.** A connection id is the address of a session, the
  key of a gRPC stream's channel the address of its context, and addresses are
  used again (`NoDangling`, `ConnectedIsReached`, `FoundIsConnected`,
  `StreamHasOwnChannel`).
- **Copies of permissions.** Tokens succeed each other in a channel, some of them
  refused half-way; streams and subscriptions keep copies (`PermissionsOfLastToken`,
  `ReadsGranted`, `WritesGranted`, `SubscriptionsGranted`).
- **Several paths, one status.** A gRPC call fails for some of its paths
  (`StatusTellsAll`); its paths are converted, matched and sanitised on the way
  (`NotationIrrelevant`, `StoredInRange`).
- **State without a lock of its own.** `isConnected_` of the publisher
  (`LoopStartedOnce`, `SameOrder`), `isInitialized` and `listeners_` of the
  WebSocket server (`SetUpBeforeUse`).

## 3. Modules

| module | models |
|---|---|
| `SubscriptionHandler` | the subscription handler, its thread and its callers; the gRPC subscribe loop and its stream map; registration of WebSocket sessions |
| `Notification` | what the handler promises: a publication is due at one moment to every subscription of its key, and is delivered in order |
| `HandlerNotification` | the refinement mapping of the first to the second |
| `SubscriptionHandlerProofs` | theorems about `SubscriptionHandler`, the map of streams included, and that it implements `Notification` |
| `WebSocketSession` | one WebSocket session: accept, read, write queue, their errors |
| `WebSocketSessionProofs` | theorems about `WebSocketSession` |
| `VssDatabase` | the two trees under `rwMutex_`, with the set, get, updateMetaData and updateVSSTree requests |
| `LeafStore` | what the database promises: leaves with atomic sets and updates; `VssDatabase` has the refinement mapping |
| `VssDatabaseProofs` | theorems about `VssDatabase`, and that it implements `LeafStore` |
| `MQTTPublisher` | `VssDatabase` with the MQTT publisher, which runs inside `setSignal` |
| `MQTTPublisherProofs` | that it implements `VssDatabase`, and theorems about the publisher |
| `Server` | `VssDatabase` and `SubscriptionHandler` together, with the nest of their mutexes |
| `ServerProofs` | that it implements both, and what becomes of the values |
| `Connections` | the WebSocket server: set-up, accept loop, HTTP sessions and their upgrade, the registry with reused addresses, `SendToConnection` |
| `ConnectionsProofs` | theorems about `Connections` |
| `Conversions` | pure operators: paths, queries, permission keys, sanitising of values |
| `ConversionsProofs` | lemmas about paths, keys and their matching |
| `Requests` | authorize, get, set and subscribe over WebSocket and gRPC, with the channels and their permissions |
| `RequestsProofs` | theorems about `Requests` |
| `MC...` | what TLC needs of each: symmetry, or only a name for the run |

An action is what one thread does between two operations that other threads can
observe: acquiring a mutex, blocking on it, reading shared state without it,
calling out. A critical section that takes no other mutex is one action, since
all it touches is touched under the same mutex only. Where the code holds a
mutex while it does something observable (publishing, pushing events one by one,
writing to a stream), the section has several actions and the mutex is a
variable that names its owner. `map` in `PROJECT.json` gives the lines behind
every definition.

Each module has, next to a definition it models, sometimes a variant marked
*Mutation*: the same operator with a plausible bug. No action uses it; it serves
to confirm that the property which is meant to catch the bug does.

**SubscriptionHandler.** `pc` and `call` say where each calling thread is and with
which arguments, `rpc` and `newSub` the same of `subThreadRunner`. `CallX` begins a
request, `X` is its critical section, and `publishForVSSPath` is `CallPublish`,
`Publish` (it has `accessMutex` and looks the key up) and one `Push` for each
subscription. The runner's loop is `CheckRun`, `CheckSize`, `Pop`, a delivery
(`SendToConnection`, `ConnectionGone` and `CleanUp`, or `FindStream` and
`WriteStream`, or `NoStream`), and `Wait`/`Wake`. `Wake` follows a `NotifyOne` that
came while the thread was waiting, or `SpuriousWakeup`. A gRPC stream is served by
one thread at a time; its loop subscribes and then registers the stream
(`GrpcRegister`), unsubscribes and then erases it (`GrpcErase`), and at its end
calls `unsubscribeAll` and clears the map (`GrpcClear`). The id of an event is a
model value (a uuid), its value the number of the publication. `Unreadable` are the
keys whose values `grpc_fill_value` cannot read, `targetValue` of a number: the
exception leaves the thread's function (`Terminate`), and no step follows (`Alive`).

**WebSocketSession.** `pending` is the set of asynchronous operations under way,
`iopc` the handler the io thread is in the middle of. `write()` is the operator
`Write`, used by the io thread (`Respond`) and by the subscription thread
(`SendToConnection`). `onWrite` is two actions because it empties `bufferWrite_`
before it takes `queueMutex`. The stream is external: the first operation that
meets an error gets it, and later ones end with `operation_aborted`.

**VssDatabase.** A request passes through the locations of `pc`; `rwMutex` names
the request inside `setSignal`, the only section with a call-out (publishing). A
leaf has a kind, a limit (standing for all its metadata) and, in the data tree,
a value and a target value. `node` is the copy of the leaf a request has in its
hands, `patch` the difference `updateJsonTree` has computed. Sets are numbered, and
the number is the value set. `TreeValues` are the other values there are: the defaults
that `applyDefaultValues` gives attributes, in the file's tree and in that of an
update, and what an update names itself. They are stored and published to nobody; 0 is
a value not set or not named (`Given` has both). A patch may fail, which ends the
request, with `data_tree__` behind `meta_tree__` when it is the second: `torn` remembers
those leaves.

**MQTTPublisher.** `VssDatabase` has the publication as one step, `Publish`, with
`rwMutex` held. Here the same location has steps of its own before it: `send` says
where the thread is in `sendPathValue`, from the match of the path (`MatchPath`)
through the tries of `start` (`ConnectFails`, `Connect`, `GiveUp`) to
`mosquitto_publish`; `publishForVSSPath` then is the database's `Publish`, with what
the subscribers get. All other steps of the database are taken as they are
(`QuietStep`). Nothing in the publisher's steps asks for the mutex: that only one
thread sends at a time is a result. The broker may refuse any try and lose any message.

**Server.** Here the publication inside `setSignal` is the handler's, step by step
and with `rwMutex` held: `Notify` calls `publishForVSSPath`, `NotifyAll` gets
`accessMutex` and looks the key up, `NotifyOneOf` pushes one event, `Notified` is the
return to `setSignal`, with which the database takes its `Publish`. A thread is in
one request at a time (`BeginRequest`, `Subscribing`); the steps of the runner,
of the sessions and of the database (`DatabaseStep`) are taken as they are.
`told` and `overwritten` are history: what was published, and the keys whose value
an update has replaced since. `Unreadable` is here the `targetValue` of every leaf.

**Connections.** `session` gives the object at each address: its class, its
connection, the operation it waits for, and whether an upgrade has moved its
stream away. Each handler of the io thread is an action, named for the handler. An
object is released when its handler returns with nothing under way, except where
`onTimer` keeps it (`KeptByTimer`); its address may then be taken by any new
session. `registry` is the four maps, `sender` the subscription thread's way
through them in `SendToConnection`, one map at a time. `setUp` counts the steps of
`httpRunServer` (`SetUpOrder`), any of which but the first may throw.

**Conversions.** A text is a sequence of tokens, a node of the tree the sequence
of its names. `VSSGen1Path`, `VSSPath` and `JSONPath` are the three forms that
`VSSPath::fromVSS` computes, `LeafPaths` is `getLeafPaths`, `checkSignalAccess`
has the exact key before the last matching one, and `checkAndSanitizeType` gives
the set of what can be stored, an error and an unsupported type included; integers
have the width of their type. `Requests` uses all of them.

**Requests.** A channel is a record of what a token has left in it. WebSocket
requests run on the one io thread, each in one step. A gRPC call holds a pool
thread from `CallGet`, `CallSet` or `CallSubscribe` to `Return`, and works through
its paths one step each (`GetStep`, `GetMetaDataStep`, `SetStep`), others between
them; `After` is what a path leaves in the status: `kept` counts the paths that succeed,
`lost` those whose error `processSet` writes out as text, which the call takes for a
success. `processAuthorize`, `processGet` and `processSet` are operators that give what
can come of one command.
`grpcSessionMap` and `grpcSubscribeSessionMap` have the code's names; `accepted` and
`last` remember the tokens a client was told are accepted, `callers` the sessions that
have streamed at an address: a subscription has the client that makes it, and is judged
by a channel that may be of another one of these (`JudgedAs`).

### How the modules fit together

`MQTTPublisher` refines `VssDatabase`, which refines `LeafStore`, and
`SubscriptionHandler` refines `Notification`, all proved. `Server` composes `VssDatabase` and
`SubscriptionHandler` where `publishForVSSPath` is called and refines both;
`SendToConnection` of the handler is the same call
as in `Connections`, which says what is found, and in `WebSocketSession`, which
says what becomes of the message. `Requests` decides who may do what; the critical
sections of what is then done are in `VssDatabase`.

## 4. Runs

| run | question | distinct states | result |
|---|---|---|---|
| `handler_safety` | Is every publication queued for exactly the subscriptions that exist, in order, and does no subscription of a stream lose it, through start, disconnects and stop? | 780,800 | holds |
| `session` | Do overlapping responses and notifications leave in order, each in its own frame, and does an ended session leave the registry? | 300 | holds |
| `database` | Is what subscribers and the broker are told what readers find, in one order, are sets and updates as if atomic, does no set undo an update of metadata, and is every request answered while the broker is away? | 264,600 | holds |
| `server` | Is the last value a subscriber gets the stored one, and, with all three mutexes nested, is every request answered and the queue drained by the awake runner? | 201,200 | holds |
| `connections` | Does `SendToConnection` only meet sessions that exist and all that are connected, is nothing used before it is set up, and is everybody accepted? | 120,000 | holds |
| `requests` | Is nothing read or written beyond the token last accepted, nothing subscribed beyond one that was, does every stored value fit its type, and does a status of 200 mean that no path had an error? | 77,000 | holds |
| `lost_wakeup` | Is a subscriber notified of every publication? | 260 | violated |
| `mutex_order` | Are the subscriptions of a gone connection removed? | 1,010 | violated |
| `context_end` | Does the end of a gRPC context clear its subscriptions? | 180, to the violation | violated |
| `metadata_race` | Does updateMetaData leave values alone? | 54,000, to the violation | violated |
| `stale_entry` | Is what `SendToConnection` calls found connected? | 38,600, to the violation | violated |
| `context_reuse` | Has every subscribe call a channel of its own? | 800, to the violation | violated |

### Bounds, and why they are enough

- `handler_safety`: the io thread and one gRPC thread, which suffice for any race
  between two callers, and the runner; two WebSocket sessions, one stream, two
  keys, two ids, two publications. Two ids are needed for one publication to push
  twice and for a stream to subscribe twice to a key; two publications for order. One of
  the keys is unreadable.
  The proofs need none of these bounds. Sessions and ids are symmetric.
- `session`: four messages, so that the queue holds one being written and two
  behind it while a fourth arrives; the connection may be closed or lost at any
  step.
- `database`: one leaf (the code treats leaves alike, and no property relates
  two), two threads, two sets with the values 1 and 2, limits 1 and 2, so
  that an update can make a set invalid, one update of either kind, with or without a
  value or a default of 7, at any moment;
  two tries to connect, so that the broker is found at the first, the second or
  not at all.
- `server`: two threads, so that sets contend for `rwMutex_` and one thread can
  subscribe in the middle of the other's set; two sets, so that one value can come
  late after another, and a clean-up can meet a publication; one session and one
  subscription, since `UpToDate` speaks of one at a time, and the order among several
  is in `handler_safety`. No update and no stream, to keep liveness in reach: updates
  are in `database`, streams in `handler_safety`, and `UpToDate` is proved with both.
- `connections`: two clients and the four addresses their sessions need, so that
  one client's session can take the address of the other's; TLS and plain, every
  end of a connection at every stage, `SendToConnection` to any subscriber between
  any two handlers.
- `requests`: one WebSocket client and one gRPC session on one pool thread, so that
  WebSocket requests fall between any two paths of a gRPC call; three tokens, of
  which one has no expiry, one a branch, one a key that is the beginning of
  another; a tree of two leaves, one a number with limits within its width, the
  other an array, a boolean or a string, or one of an unsupported type next to a string; paths with dots, with slashes, with both
  and with a wildcard; values inside, at and beyond the limits and the width. With one
  gRPC session, the channel of an address is used by another caller only where a call
  names no session; two sessions at one address are in `context_reuse`, and
  `SubscriptionsGranted` is proved for any number. The proofs need none of these bounds.
- `MaxPublications`, `MaxMessages`, `MaxSets`, `MaxUpdates` and `MaxSubs` are guards of the
  actions by which clients begin something, never of a step that finishes it.

`CHECK_DEADLOCK FALSE` appears where the system may stop: a handler that is
destroyed, a session or all connections that end, a server whose set-up fails, the
deadlock `mutex_order` is about (also in `server`); `Requests` states safety only, and its calls can
always be followed by others.

### Fairness

Only threads owe progress: a thread that can take a step takes it (weak
fairness of each thread's own steps), and so one that waits for a mutex gets it when
the mutex stays free. Of the environment two things are assumed, both by the
modules they concern: `SendToConnection` and `stream->Write` of gRPC return, and a
peer whose link is up takes what is sent. Clients, connections, spurious wake-ups
and, in `WebSocketSession`, the subscription thread owe nothing. In `AllAnswered` and
`RequestsAnswered` two threads contend for mutexes; as sets are bounded, ids are
used once, and a get takes its mutex for a single step, weak fairness is enough.
`AllAnswered` has the publication's own steps, `RequestsAnswered` assumes that it returns.
The latter also assumes that the calls of mosquitto
return, as `mosquitto_connect_async` and `mosquitto_publish` are asynchronous; that
connecting succeeds is not assumed. In `ClientsAccepted` the http thread goes on with
the set-up and the io thread accepts who waits; clients owe nothing.

## 5. Proofs

TLC checks the instances above; TLAPS proves the following for all values of
the constants: any number of threads, channels, keys, ids, leaves, messages. The
assumptions are those stated with the constants (`Distinct`, `Bounds`, `UnreadableKeys`,
`SessionBounds`, `DatabaseConstants`, `ServerConstants`, `PublisherConstants`, `ConnectionConstants`,
`RequestConstants`, `TreeConstants`, `TextConstants`): threads, channels and clients are distinct,
bounds are numbers, values of trees and values of sets differ, lists and the tree are
finite, leaves have a type (or an unsupported one) and a width,
the names in the text of a path are separated by dots or slashes, memory does not run out of addresses.

**SubscriptionHandlerProofs.** `ControlInv` is inductive on its own: types
(`TypeOK`), who holds which mutex as told by where threads are (`MutexInv`),
the arguments each step relies on (`CallInv`), and that ids a publisher has still
to serve are in the map (`LoopInv`). The last holds because `accessMutex` is kept
through the loop, so nobody can erase an entry under it; that is also why
`Push` queues only for existing subscriptions.

- `TypeInvariant`, `FrontAlwaysDefined`: `[]TypeOK`, `[]FrontDefined`.
- `DeliveriesInOrder`: `[]DeliveryOrder`. Order alone is not inductive: it needs
  `LatestInv`, that the publication in progress is later than anything queued, in
  flight or sent for an id it has yet to serve. A step that touches neither the
  queue nor the history (`Quiet`) preserves both (`QuietOrder`), which leaves
  `Publish`, `Push`, `Pop` and the deliveries.
- `NothingQueuedForTheUnsubscribed`: `NoStalePush`.

The second half of the module is about the two maps. `StreamsSubscribed` says that an
id with a stream is subscribed, but for one whose thread is about to drop the stream.
The inverse is weaker: between `subscribe` and the store of the stream a subscription
has none, and what `unsubscribeAll` misses at the end of a context keeps none.
`StreamLostAtEndOnly` says that nothing else takes a subscription's stream away.
A request on a stream changes the maps in two steps, with events, publications and
other streams between, so it is not inductive alone. `StreamInv` adds that a stream
has one thread (`ServeInv`), that an id is in one thread's hands and in the maps
of one stream under one key (`IdInv`), and what a thread between its two steps knows
of the id it holds (`HoldsInv`). `StillStream` disposes of all steps that touch neither
map; each of the others has a lemma.

- `StreamsStaySubscribed`: `StreamsSubscribed`.
- `StreamsLostAtEndOnly`: `StreamLostAtEndOnly`, with `ErasedInv`, that a stream is erased
  after its subscription.

Last, the refinement. A publication takes effect, for all subscriptions of
the key, when `publishForVSSPath` gets `accessMutex`: from then on it is due to the
ids its loop has yet to reach (`todo`) as to those whose event is queued. So
`Publish` maps to `Publish`, `Push` to a stutter, `Pop` to `Deliver`, which must be of
the earliest publication due: that is `DeliveryOrder` with `LatestInv`. `RegisteredInv`
gives that an id is under one key and that a new one owns nothing.

- `HandlerImplementsNotification`: `ImplementsNotification`. `Notification`
  obliges nobody to deliver, and `lost_wakeup` shows that the handler may not.

**WebSocketSessionProofs.** `SInv` is inductive: the queue holds the last
consecutive numbers written and what has been received is the rest (`QueueInv`);
a write is under way exactly when there is a frame, which is then the head of
the queue and the whole buffer (`FrameInv`); what each state of the stream allows
(`StreamInv`). One lemma for `write()`, one for each half of `onWrite`, one for a
failed write, one for the steps that do not touch the queue.

- `MessagesInOrder`, `WriterNeverStuck`, `RegisteredIsRead`, `SessionTypes`:
  `FramesInOrder`, `NeverStuck`, `EndIsNoticed`, `TypeOK`.
- `BufferKept`: `BufferStable`.

**VssDatabaseProofs.** `DInv` is inductive: `rwMutex` is held exactly by the
request inside `setSignal` (`RequestInv`); the leaf such a request has copied is
still the stored one, and after the write the answer is its value (`CopyInv`);
a patch is the difference to the tree as it is now, though it was computed in an
earlier critical section, because only the io thread changes metadata and a set
puts back the metadata it has read (`PatchInv`); every value stored or copied by
`updateMetaData` is one of a tree or a default (`Given`) or has been published, except
that of the set now publishing (`ValuesInv`); and `TreesAgree`, with `torn` for the
patches that failed.

- `MetadataAgrees`, `DatabaseTypes`: `TreesAgree`, `TypeOK`.
- `OnlyPublishedIsRead`, `PublishedValueIsStored`: `ReadsArePublished`,
  `PublishedIsStored`.
- `DatabaseImplementsLeafStore`: `ImplementsLeafStore`. A set takes effect when its
  value is published: until then the abstract leaf is the copy that `setSignal`
  has in its hands (`leafBar`), which `CopyInv` says is what the stored leaf was
  before. So `Store` is a stutter, `Publish` is `Set`, and `CopyInv` also carries the limit
  check from where it was made to there; `MetaReplace` and `ApplyData` are the
  updates, which find the mutex free (`OtherStutters` is for all other steps).
  `PatchInv` makes `ApplyData` keep the values that are not named and set kind and limit
  together;
  for `MetaReplace` there is `ValuesInv`, that the values it brings back were
  published once. `LeafStore` promises no more of `updateMetaData`, and
  `metadata_race` shows that it cannot.

**ServerProofs.** First the two refinements, from which everything above follows of
the composition. Towards the database, `Notified` is its `Publish` and the steps before
it stutter. Towards the handler, the database's steps stutter, and
`Notify` is `CallPublish` of a key the handler knows, which is a fact about the
database (`KeyPublished`).

- `ServerImplementsDatabase`, `ServerImplementsHandler`: `ServerSpec` implies the `Spec` of
  either.
- `SubscribersUpToDate`: `UpToDate`. `DeliveryOrder` says that a subscriber gets
  values in the order of publication, `PublishedIsStored` that a published value is
  the stored one; that a subscriber ends with the stored value takes more, and all
  of it is about how the two components interleave. `ServerInv` is inductive,
  next to `AllInv` of the handler and `DInv` of the database:
  `LinkInv`, that a thread publishes exactly where its set is inside `setSignal`;
  `ToldInv`, that the last publication of a key is its value, as long as no set has
  stored one it is about to publish, which is where the publication inside `rwMutex_`
  is needed; `EventInv`, that an event, queued, in flight or sent, is of
  the key its id is subscribed to; `FreshInv`, that nothing has been sent to a
  subscription in the making; `AcceptedInv`, that a session that has gone does
  not come back; and `DeliveredInv`, that a subscription that is served and
  has got or is to get anything at all misses no later publication of its key.
  `UpToDate` excepts a value that an update has replaced, which is told to nobody,
  and `Reached` the streams and sessions that are not there.

**MQTTPublisherProofs.** First the refinement: every step of the composition is a
step of `VssDatabase` or leaves its variables alone (`StepImplements`), so
`DInv` and all that follows from it hold here.

- `PublisherImplementsDatabase`, `PublisherImplementsLeafStore`:
  `PublisherSpec => Spec`, and with it `ImplementsLeafStore`.
- `PublisherTypes`, `NetworkThreadStartedOnce`: `PublisherTypeOK`, `LoopStartedOnce`.
  `LoopInv` adds that whoever is inside `sendPathValue` is publishing, and so holds
  `rwMutex` (`OneSender`), and that nobody is connecting once there is a connection.
- `SameOrderEverywhere`: `SameOrder`. `OrderInv` adds that values under way differ
  from each other and from those handed out (`DistinctInv`), and that what has been
  sent has been handed to the subscribers too, except for the last value of the
  thread that is sending (`SentInv`). The steps of the database outside the
  publication matter only by the request they may begin (`QuietEffect`).

**ConnectionsProofs.** `CInv` is inductive: the types, `NoDangling`, `StreamOwned`, the
order of the set-up (`SetUpInv`), that a connection has no session before TLS was
looked for (`OwnerInv`), that only WebSocket sessions subscribe and keep their
addresses (`SubscriberInv`), and that what was not found in a map does not turn up
there afterwards (`SearchInv`). It rests on one fact, which looks like an accident in
the code: `onTimer` keeps every WebSocket session allocated for ever.

- `ConnectionTypes`, `RegistryNeverDangles`, `OneOwnerOfAStream`, `UsedWhenSetUp`:
  `TypeOK`, `NoDangling`, `StreamOwned`, `SetUpBeforeUse`.
- `LookUpReaches`: `ConnectedIsReached`.

**ConversionsProofs.** What a key matches is a recursive function over its tokens,
`Matches`. The library's induction theorems cannot be instantiated here, so the
induction is by the least counterexample (`Least`, from the well-foundedness of
`<`): that the function exists (`TableExists`), and that its rows are the places which the
beginnings of the key can reach (`TableReaches`).

- `MatchesIsCutting`: a text matches a key exactly when it can be cut into pieces
  that the key's tokens stand for, as the regular expression of
  `checkSignalAccess` says.
- `MatchCoversSelected`: a key that matches the text of a path, with wildcards in
  either and in any notation, matches each node the path selects, because a cut of
  the text is also one of the node's own text: a wildcard of the path selects
  one name, and only a wildcard of the key can have stood for it.

**RequestsProofs.** For most of it what keys and paths mean is left unexpanded; the
argument is about which permissions are looked at. `TypeOK` is inductive. `PermissionsInv` says
of every channel that it follows the token last accepted; `StreamsInv` says of the
copies of streams that they followed some accepted token, which is all that
subscriptions need (`SubsInv`, where the token is of one of the sessions that have streamed
at the address); `CountsInv` relates, for a call under way, the paths done, kept, lost and
failed to its status, and lost ones to a leaf of an unsupported type.

- `RequestTypes`, `PermissionsAreOfLastToken`, `ReadsAreGranted`,
  `SubscriptionsAreGranted`, `StatusOfCalls`: `TypeOK`, `PermissionsOfLastToken`,
  `ReadsGranted`, `SubscriptionsGranted`, `StatusTellsAll`.
- `StoredFits`: `StoredInRange`. `SanitizedFits` says what each branch of
  `checkAndSanitizeType` lets through, the cut to the width included; `OneLeaf` that
  a path that can be written is the leaf the value was checked for, which needs a
  finite tree; `SetsStep` that a set call works through a list of paths and values.
- `WritesAreGranted`: `WritesGranted`. The code matches the text of the path, the
  property speaks of the leaf: `MatchCoversSelected` is the step between the two
  (`LeafIsGranted`), and `PermissionsInv` and `StreamsInv` say whose permissions they were.
- `NotationIsIrrelevant`: `NotationIrrelevant`: the same leaves for every text, those
  with both separators included, and the same rights for the two that have only one. A
  text with both keeps its slashes where permissions are matched, and may have fewer
  rights, or more by a key that is written the same way; what it may do to which leaf is
  in `WritesGranted` and `ReadsGranted`.

**Only model-checked.** Liveness under fairness (`AllAnswered`,
`DrainsOnceAwake`, `MessagesDelivered`, `GoneIsRemoved`, `RequestsAnswered`,
`ClientsAccepted`) is out of the prover's reach and stays with TLC, and so is
`ENABLED`. Every other property of a passing run is the statement of a theorem.

## 6. Where the code and its documents disagree

Six runs end in a violation; `findings` in `PROJECT.json` quotes the lines.

1. **Lost wake-up** (`SubscriptionHandler.cpp:186`, `:224`). The runner reads the
   queue's size without the mutex and then waits without a predicate. A push with
   its `notify_one` between the two is missed: the subscriber hears of the value
   only with the next publication. What does hold is `DrainsOnceAwake`.
2. **Lock order** (`SubscriptionHandler.cpp:218`). Cleaning up after a gone
   connection takes `accessMutex` with `subMutex` held; a publisher takes them the
   other way round, with `rwMutex_` held as well. `AllAnswered` says that nothing else
   keeps a request from its answer while the process lives.
3. **Context end** (`SubscriptionHandler.cpp:130`). `unsubscribeAll` erases the
   first entry of a channel under each key; a stream that subscribed twice to a
   key keeps the other one.
4. **Metadata update** (`VssDatabase.cpp:351`, `:383`). The leaf is copied in one
   critical section and written back in the next; a value set in between by a gRPC
   thread is lost, after its subscribers were told. (The note at line 379, that
   metadata may overwrite values, is about a request that names a value.)
5. **Stale entries of the registry** (`WebSockHttpFlexServer.cpp:842`). An HTTP
   session that is upgraded, or fails in its handshake or shutdown, stays in its
   map. When a WebSocket session has later lived at the same address and gone,
   `SendToConnection` finds the old entry and reports success; the subscription is
   not removed. What holds is `NoDangling` and `ConnectedIsReached`: nothing is
   written to a session that is gone, and nobody connected is missed.
6. **Channels of subscribe calls** (`grpcHandler.cpp:229`). The channel of a stream
   is found by the address of its context and never erased; the comment at 149 says
   every call has a context of its own. A later call at the same address gets the
   channel of an earlier one, with its permissions. `SubscriptionsGranted` says no more, for
   such an address, than that one of the sessions which streamed there was granted the
   path.

Two more the models contain as the code has them, and the properties except:

- *200 for nothing stored* (`VssCommandSet.cpp:108`, `grpcHandler.cpp:431`). When
  `setSignal` throws a `genException`, as for a datatype that is not supported,
  `processSet` returns the error as a JSON text. `contains("error")` is false of a text,
  and the gRPC client is answered 200, "Set request successfully processed". All other
  errors are objects. `StatusTellsAll` has these paths as `lost`.
- *targetValue over gRPC* (`grpcHandler.cpp:56`, `:67`). The runner calls
  `grpc_fill_value` without naming the attribute, and it reads "value". In what is published of
  a `targetValue` there is none: for a number the conversion throws, outside the `try`, out
  of `subThreadRunner`, and the process ends (`Terminate`).

Two are described here only, as no state of a model shows them: `isStillValid`
(`Authenticator.cpp:121`, "Internally check this before publishing") has no caller;
and `doc/KUKSA.val_server/jwt.md:29` says a permission can be granted to a branch,
while `checkSignalAccess` needs a "*" after it.

## 7. What is left out

- *Subscription handler*: the checks of a subscription in the database (a refused
  one changes nothing; they are in `Requests`), the MQTT call at the head of a
  publication (in `MQTTPublisher`), message text. The torn read of `buffer.size()` is
  taken as the size before or after the push; any non-zero value only sends the
  runner to wait for the pusher's mutex.
- *WebSocket session*: pings and `doTimeout`. `WEBSOCKET_TIMEOUT_VALUE` is
  2^32 - 1 seconds and every message sets the timer anew. Nor is a peer modelled that
  falls silent with its link down unreported: the code would not notice it before it sends.
  Not modelled is the stream's own state being touched by two threads at once.
- *Connections*: time-outs, as above. A read error other than the end of the stream
  starts another read and changes nothing, so that it is not an action. Errors of accept
  for want of descriptors are not told from others. A
  WebSocket session here has one operation under way; its queue and overlapping
  operations are in `WebSocketSession`.
- *Database*: parsing the tree's file, values in `meta_tree__`, time stamps,
  `VssDatabase_Record`, which writes a log line and passes the call on. An unlocked
  read sees a leaf before or after a replacement. Removed leaves do not occur:
  `updateJsonTree` drops the "remove" patches.
- *Notification*: an event that is popped when its stream or session is not there
  counts as delivered, as the code drops it there.
- *Requests*: a command on one path is one step here, its critical sections are in
  `VssDatabase`; updates of the tree and unsubscribing are in the modules of their
  own, so that limits do not change after a set here, and defaults, which are stored as
  strings and unsanitised, are no part of `StoredInRange`. Signatures are external.
  Sessions of gRPC clients that were never accepted have an empty channel and can do
  nothing.
- *Conversions*: two separators in a row, a "*" inside a name, a dot of a
  permission key that stands for a letter; floating-point numbers, which have
  limits but no width.
- *MQTT publisher*: patterns, topics, payloads, credentials; that `value` and
  `targetValue` share a topic (`SameOrder` holds of both together, since both pass
  under the mutex).
- *Not modelled at all*: the JSON schemas and the text of requests and answers
  (parsing and formatting), overlays (`updateVSSTree` before any thread runs),
  logging, OpenSSL's stream wrapper, the protocol definition, examples and clients.

## 8. What could come next

1. The MQTT publisher inside `Server`, so that broker, subscribers and readers are in
   one statement; today `SameOrder` and `UpToDate` meet at `Publish` of the database.
2. A larger tree for `requests`, with branches that permissions cover in part.
