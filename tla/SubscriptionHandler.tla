-------------------------- MODULE SubscriptionHandler --------------------------
(* The publish/subscribe core of kuksa-val-server.

   SubscriptionHandler keeps the map of subscriptions, a queue of events and one
   thread (subThreadRunner) that delivers them.  Its public operations run on
   the threads of its callers: the one io_context thread that serves every
   WebSocket session, and the pool threads of the gRPC server.  A gRPC subscribe
   call is a loop of its own (grpcHandler.cpp, subscribe) that shares a map of
   streams with the delivering thread; it is part of this module.

   A step of the model is what a thread does between two operations other
   threads can observe: taking a mutex, blocking on one, reading shared state
   without one.  A critical section that takes no other mutex is one step,
   because everything it touches is only touched under the same mutex; the
   exception, the unlocked buffer.size() of the runner, reads the queue either
   before or after the push it races with, and a torn non-zero size is harmless:
   the runner then waits for the pusher's mutex.

   Left out: the database's own checks of a subscription (a refused request
   changes nothing), JSON, log messages, and the MQTT publisher.                *)
EXTENDS Naturals, Sequences, FiniteSets

CONSTANTS
  IoThread,        \* the thread that runs io_context (NumOfThreads = 1)
  GrpcThreads,     \* threads of the gRPC server's pool
  WsChannels,      \* connIDs of WebSocket sessions, one for each session
  GrpcChannels,    \* connIDs of gRPC subscribe contexts (addresses, reusable)
  Keys,            \* the (path, attribute) pairs of subscription_keys
  Unreadable,      \* keys whose values grpc_fill_value cannot read
  Ids,             \* the uuids boost's random generator can return
  Runner,          \* the thread of subThreadRunner
  None,            \* no thread, no channel, no id
  MaxPublications, \* bound: calls of publishForVSSPath
  Destroyed        \* whether the handler's destructor runs

Callers  == {IoThread} \cup GrpcThreads
Channels == WsChannels \cup GrpcChannels

ASSUME Distinct ==
  /\ IoThread \notin GrpcThreads
  /\ Runner \notin Callers
  /\ WsChannels \cap GrpcChannels = {}
  /\ None \notin Callers \cup {Runner} \cup Channels \cup Keys \cup Ids

ASSUME Bounds ==
  MaxPublications \in Nat /\ Destroyed \in BOOLEAN

(* It looks for "value" in what is published of a targetValue. *)
ASSUME UnreadableKeys == Unreadable \subseteq Keys

VARIABLES
  subscriptions, \* key -> id -> the channel subscribed, or None
  buffer,        \* the queue of events to deliver
  accessMutex,   \* the thread that holds it, or None
  subMutex,      \* the thread that holds it, or None
  threadRun,     \* the flag isThreadRunning reads
  rpc,           \* where subThreadRunner is
  newSub,        \* the event subThreadRunner has popped
  pc,            \* where each caller is
  call,          \* the arguments of the call each caller is in
  todo,          \* ids the publish loop of a caller has still to serve
  connected,     \* WebSocket sessions in ConnectionHandler's maps
  grpcSubsMap,   \* ids with a stream, for each gRPC subscribe context
  currentSubs,   \* the subscribe loop's local map, key -> id
  life,          \* the thread that owns the handler: constructor to destructor
  issued,        \* history: ids already generated
  publications,  \* history: publishForVSSPath calls that got accessMutex
  accepted,      \* history: WebSocket sessions ever accepted
  sent           \* history: last publication handed to the client of each id

handlerVars == <<subscriptions, buffer, accessMutex, subMutex, threadRun>>
runnerVars  == <<rpc, newSub>>
callerVars  == <<pc, call, todo>>
channelVars == <<connected, grpcSubsMap, currentSubs>>
history     == <<issued, publications, accepted, sent>>
vars == <<handlerVars, runnerVars, callerVars, channelVars, life, history>>

Event   == [id: Ids, chan: Channels, key: Keys, val: Nat]
NoEvent == [id |-> None, chan |-> None, key |-> None, val |-> 0]
Call    == [key: Keys \cup {None}, id: Ids \cup {None}, chan: Channels \cup {None}]
NoCall  == [key |-> None, id |-> None, chan |-> None]

RunnerPc == {"check", "size", "lockPop", "deliver", "writing", "cleanup",
             "lockWait", "waiting", "woken", "done", "terminated"}
CallerPc == {"idle", "subscribe", "register", "unsubscribe", "erase",
             "unsubscribeAll", "clear", "publish", "loop"}

TypeOK ==
  /\ subscriptions \in [Keys -> [Ids -> Channels \cup {None}]]
  /\ buffer \in Seq(Event)
  /\ accessMutex \in Callers \cup {None}
  /\ subMutex \in {Runner, None}
  /\ threadRun \in BOOLEAN
  /\ rpc \in RunnerPc
  /\ newSub \in Event \cup {NoEvent}
  /\ pc \in [Callers -> CallerPc]
  /\ call \in [Callers -> Call]
  /\ todo \in [Callers -> SUBSET Ids]
  /\ connected \in SUBSET WsChannels
  /\ grpcSubsMap \in [GrpcChannels -> SUBSET Ids]
  /\ currentSubs \in [GrpcChannels -> [Keys -> Ids \cup {None}]]
  /\ life \in {"starting", "running", "stopping", "joining", "stopped"}
  /\ issued \in SUBSET Ids
  /\ publications \in Nat
  /\ accepted \in SUBSET WsChannels
  /\ sent \in [Ids -> Nat]

-----------------------------------------------------------------------------
(* The constructor has just created the thread; threadRun has no initialiser,
   so the new thread may read either value until startThread assigns it.       *)

Init ==
  /\ subscriptions = [k \in Keys |-> [id \in Ids |-> None]]
  /\ buffer = <<>>
  /\ accessMutex = None
  /\ subMutex = None
  /\ threadRun \in BOOLEAN
  /\ rpc = "check"
  /\ newSub = NoEvent
  /\ pc = [t \in Callers |-> "idle"]
  /\ call = [t \in Callers |-> NoCall]
  /\ todo = [t \in Callers |-> {}]
  /\ connected = {}
  /\ grpcSubsMap = [g \in GrpcChannels |-> {}]
  /\ currentSubs = [g \in GrpcChannels |-> [k \in Keys |-> None]]
  /\ life = "starting"
  /\ issued = {}
  /\ publications = 0
  /\ accepted = {}
  /\ sent = [id \in Ids |-> 0]

(* c.notify_one(): only a thread that waits already hears it. *)
NotifyOne == rpc' = IF rpc = "waiting" THEN "woken" ELSE rpc

StartThread ==
  /\ life = "starting"
  /\ life' = "running"
  /\ threadRun' = TRUE
  /\ UNCHANGED <<subscriptions, buffer, accessMutex, subMutex, runnerVars,
                 callerVars, channelVars, history>>

(* The destructor runs when nobody else holds the handler; isThreadRunning()
   is true then, as only stopThread clears the flag.                           *)
BeginStop ==
  /\ Destroyed
  /\ life = "running"
  /\ \A t \in Callers : pc[t] = "idle"
  /\ life' = "stopping"
  /\ UNCHANGED <<handlerVars, runnerVars, callerVars, channelVars, history>>

StopThread ==
  /\ life = "stopping"
  /\ subMutex = None
  /\ threadRun' = FALSE
  /\ NotifyOne
  /\ life' = "joining"
  /\ UNCHANGED <<subscriptions, buffer, accessMutex, subMutex, newSub,
                 callerVars, channelVars, history>>

Join ==
  /\ life = "joining"
  /\ rpc = "done"
  /\ life' = "stopped"
  /\ UNCHANGED <<handlerVars, runnerVars, callerVars, channelVars, history>>

-----------------------------------------------------------------------------
(* ConnectionHandler.  Both run on the io thread, between two requests.  The
   address that names a session is not used again: the handler of its timer
   waits for the timer anew each time it runs, and keeps the session allocated. *)

IoIdle == life = "running" /\ pc[IoThread] = "idle"

AddClient(w) ==
  /\ IoIdle
  /\ w \notin accepted
  /\ connected' = connected \cup {w}
  /\ accepted' = accepted \cup {w}
  /\ UNCHANGED <<handlerVars, runnerVars, callerVars, grpcSubsMap, currentSubs,
                 life, issued, publications, sent>>

RemoveClient(w) ==
  /\ IoIdle
  /\ w \in connected
  /\ connected' = connected \ {w}
  /\ UNCHANGED <<handlerVars, runnerVars, callerVars, grpcSubsMap, currentSubs,
                 life, history>>

-----------------------------------------------------------------------------
(* The operations, called by the io thread for its sessions and by a gRPC
   thread for the stream it serves.                                            *)

Subscribers(k)      == {id \in Ids : subscriptions[k][id] # None}
EntriesOf(k, ch)    == {id \in Ids : subscriptions[k][id] = ch}
Registered(id)      == \E k \in Keys : subscriptions[k][id] # None
Idle(t)             == life = "running" /\ pc[t] = "idle"
MayServe(t, ch) ==
  \/ t = IoThread /\ ch \in connected
  \/ /\ t \in GrpcThreads /\ ch \in GrpcChannels
     /\ \A u \in GrpcThreads : call[u].chan # ch

Enter(t, p, c) == pc' = [pc EXCEPT ![t] = p] /\ call' = [call EXCEPT ![t] = c]
Goto(t, p)     == pc' = [pc EXCEPT ![t] = p] /\ UNCHANGED call
Return(t)      == Enter(t, "idle", NoCall)

(* subscribe: the id is generated before the mutex is taken. *)
CallSubscribe(t, ch, k, id) ==
  /\ Idle(t) /\ MayServe(t, ch)
  /\ id \notin issued
  /\ issued' = issued \cup {id}
  /\ Enter(t, "subscribe", [key |-> k, id |-> id, chan |-> ch])
  /\ UNCHANGED <<handlerVars, runnerVars, todo, channelVars, life,
                 publications, accepted, sent>>

Subscribe(t) ==
  /\ pc[t] = "subscribe"
  /\ accessMutex = None
  /\ subscriptions' =
       [subscriptions EXCEPT ![call[t].key][call[t].id] = call[t].chan]
  /\ IF call[t].chan \in GrpcChannels THEN Goto(t, "register") ELSE Return(t)
  /\ UNCHANGED <<buffer, accessMutex, subMutex, threadRun, runnerVars, todo,
                 channelVars, life, history>>

(* The gRPC loop stores the stream only after subscribe has returned; a second
   subscription of the same key overwrites the id the loop remembers.          *)
GrpcRegister(t) ==
  LET g == call[t].chan IN
  /\ pc[t] = "register"
  /\ currentSubs' = [currentSubs EXCEPT ![g][call[t].key] = call[t].id]
  /\ grpcSubsMap' = [grpcSubsMap EXCEPT ![g] = @ \cup {call[t].id}]
  /\ Return(t)
  /\ UNCHANGED <<handlerVars, runnerVars, todo, connected, life, history>>

(* A WebSocket client names the id it was given; a gRPC client names the key
   and the loop looks the id up.                                               *)
CallUnsubscribeWs(id) ==
  /\ IoIdle
  /\ connected # {}
  /\ id \in issued
  /\ \A g \in GrpcChannels : id \notin grpcSubsMap[g]
  /\ \A t \in GrpcThreads : call[t].id # id
  /\ Enter(IoThread, "unsubscribe", [NoCall EXCEPT !.id = id])
  /\ UNCHANGED <<handlerVars, runnerVars, todo, channelVars, life, history>>

CallUnsubscribeGrpc(t, g, k) ==
  /\ t \in GrpcThreads
  /\ Idle(t) /\ MayServe(t, g)
  /\ currentSubs[g][k] # None
  /\ Enter(t, "unsubscribe", [key |-> k, id |-> currentSubs[g][k], chan |-> g])
  /\ UNCHANGED <<handlerVars, runnerVars, todo, channelVars, life, history>>

Unsubscribe(t) ==
  /\ pc[t] = "unsubscribe"
  /\ accessMutex = None
  /\ subscriptions' =
       [k \in Keys |-> [subscriptions[k] EXCEPT ![call[t].id] = None]]
  /\ IF call[t].chan \in GrpcChannels /\ Registered(call[t].id)
     THEN Goto(t, "erase")
     ELSE Return(t)
  /\ UNCHANGED <<buffer, accessMutex, subMutex, threadRun, runnerVars, todo,
                 channelVars, life, history>>

(* Mutations: the stream stays in the map; the map is cleared. *)
AllStreams(t)  == grpcSubsMap[call[t].chan]
NoStreams(t)   == {}
StreamsLeft(t) == grpcSubsMap[call[t].chan] \ {call[t].id}

(* The loop ends when it has erased its last stream. *)
GrpcErase(t) ==
  LET g == call[t].chan
      left == StreamsLeft(t) IN
  /\ pc[t] = "erase"
  /\ grpcSubsMap' = [grpcSubsMap EXCEPT ![g] = left]
  /\ currentSubs' = [currentSubs EXCEPT ![g][call[t].key] = None]
  /\ IF left = {}
     THEN Enter(t, "unsubscribeAll", [NoCall EXCEPT !.chan = g])
     ELSE Return(t)
  /\ UNCHANGED <<handlerVars, runnerVars, todo, connected, life, history>>

(* stream->Read fails: the client has gone or has closed the stream. *)
EndStream(t, g) ==
  /\ t \in GrpcThreads
  /\ Idle(t) /\ MayServe(t, g)
  /\ Enter(t, "unsubscribeAll", [NoCall EXCEPT !.chan = g])
  /\ UNCHANGED <<handlerVars, runnerVars, todo, channelVars, life, history>>

(* unsubscribeAll: find_if stops at the first entry of the channel in a key's
   (unordered) map, so at most one entry of each key is erased.                *)
EraseFirstOfEachKey(ch) ==
  \E first \in [Keys -> Ids \cup {None}] :
    /\ \A k \in Keys : IF EntriesOf(k, ch) = {} THEN first[k] = None
                                                ELSE first[k] \in EntriesOf(k, ch)
    /\ subscriptions' = [k \in Keys |-> [id \in Ids |->
                           IF id = first[k] THEN None ELSE subscriptions[k][id]]]

UnsubscribeAll(t) ==
  /\ pc[t] = "unsubscribeAll"
  /\ accessMutex = None
  /\ EraseFirstOfEachKey(call[t].chan)
  /\ Goto(t, "clear")
  /\ UNCHANGED <<buffer, accessMutex, subMutex, threadRun, runnerVars, todo,
                 channelVars, life, history>>

GrpcClear(t) ==
  LET g == call[t].chan IN
  /\ pc[t] = "clear"
  /\ grpcSubsMap' = [grpcSubsMap EXCEPT ![g] = {}]
  /\ currentSubs' = [currentSubs EXCEPT ![g] = [k \in Keys |-> None]]
  /\ Return(t)
  /\ UNCHANGED <<handlerVars, runnerVars, todo, connected, life, history>>

(* publishForVSSPath: accessMutex is held for the whole loop over the key's
   subscriptions, subMutex for one push at a time.                             *)
CallPublish(t, k) ==
  /\ Idle(t)
  /\ publications + Cardinality({u \in Callers : pc[u] = "publish"}) < MaxPublications
  /\ Enter(t, "publish", [NoCall EXCEPT !.key = k])
  /\ UNCHANGED <<handlerVars, runnerVars, todo, channelVars, life, history>>

(* Mutation: the loop runs over a copy, the mutex is released before it. *)
LoopUnlocked(t) == accessMutex' = None
LoopLocked(t)   == accessMutex' = t

Publish(t) ==
  LET ids == Subscribers(call[t].key) IN
  /\ pc[t] = "publish"
  /\ accessMutex = None
  /\ publications' = publications + 1
  /\ IF ids = {}
     THEN Return(t) /\ UNCHANGED <<accessMutex, todo>>
     ELSE /\ Goto(t, "loop")
          /\ LoopLocked(t)
          /\ todo' = [todo EXCEPT ![t] = ids]
  /\ UNCHANGED <<subscriptions, buffer, subMutex, threadRun, runnerVars,
                 channelVars, life, issued, accepted, sent>>

(* Mutation: the loop is left after the first subscription it serves. *)
LeaveLoop(t, id) == {}
StillToServe(t, id) == todo[t] \ {id}

Push(t, id) ==
  LET k == call[t].key
      left == StillToServe(t, id) IN
  /\ pc[t] = "loop"
  /\ id \in todo[t]
  /\ subMutex = None
  /\ buffer' = Append(buffer, [id |-> id, chan |-> subscriptions[k][id],
                               key |-> k, val |-> publications])
  /\ NotifyOne
  /\ todo' = [todo EXCEPT ![t] = left]
  /\ IF left = {}
     THEN accessMutex' = None /\ Return(t)
     ELSE UNCHANGED <<accessMutex, pc, call>>
  /\ UNCHANGED <<subscriptions, subMutex, threadRun, newSub, channelVars, life,
                 history>>

CallerStep(t) ==
  \/ Subscribe(t) \/ GrpcRegister(t)
  \/ Unsubscribe(t) \/ GrpcErase(t)
  \/ UnsubscribeAll(t) \/ GrpcClear(t)
  \/ Publish(t) \/ \E id \in Ids : Push(t, id)

ClientStep(t) ==
  \/ \E ch \in Channels, k \in Keys, id \in Ids : CallSubscribe(t, ch, k, id)
  \/ \E g \in GrpcChannels, k \in Keys : CallUnsubscribeGrpc(t, g, k)
  \/ \E g \in GrpcChannels : EndStream(t, g)
  \/ \E k \in Keys : CallPublish(t, k)

-----------------------------------------------------------------------------
(* subThreadRunner *)

RunnerGoto(p) == rpc' = p /\ UNCHANGED newSub
(* Mutation: the runner waits after each event instead of looking for more. *)
WaitAfterEach == rpc' = "lockWait" /\ newSub' = NoEvent
NextIteration == rpc' = "check" /\ newSub' = NoEvent

CheckRun ==
  /\ rpc = "check"
  /\ RunnerGoto(IF threadRun THEN "size" ELSE "done")
  /\ UNCHANGED <<handlerVars, callerVars, channelVars, life, history>>

(* Mutation: an off-by-one in the size check. *)
HasSize   == Len(buffer) >= 0
HasEvents == Len(buffer) > 0

(* buffer.size() is read without subMutex. *)
CheckSize ==
  /\ rpc = "size"
  /\ RunnerGoto(IF HasEvents THEN "lockPop" ELSE "lockWait")
  /\ UNCHANGED <<handlerVars, callerVars, channelVars, life, history>>

Pop ==
  /\ rpc = "lockPop"
  /\ subMutex = None
  /\ subMutex' = Runner
  /\ newSub' = Head(buffer)
  /\ buffer' = Tail(buffer)
  /\ rpc' = "deliver"
  /\ UNCHANGED <<subscriptions, accessMutex, threadRun, callerVars, channelVars,
                 life, history>>

(* Mutation: an explicit lock with a path that does not unlock. *)
KeepLocked == UNCHANGED subMutex /\ NextIteration
Unlock     == subMutex' = None /\ NextIteration

(* SendToConnection hands the message to a session that is registered. *)
SendToConnection ==
  /\ rpc = "deliver"
  /\ newSub.chan \in connected
  /\ sent' = [sent EXCEPT ![newSub.id] = newSub.val]
  /\ Unlock
  /\ UNCHANGED <<subscriptions, buffer, accessMutex, threadRun, callerVars,
                 channelVars, life, issued, publications, accepted>>

ConnectionGone ==
  /\ rpc = "deliver"
  /\ newSub.chan \in WsChannels \ connected
  /\ RunnerGoto("cleanup")
  /\ UNCHANGED <<handlerVars, callerVars, channelVars, life, history>>

(* unsubscribeAll again, called with subMutex held. *)
CleanUp ==
  /\ rpc = "cleanup"
  /\ accessMutex = None
  /\ EraseFirstOfEachKey(newSub.chan)
  /\ Unlock
  /\ UNCHANGED <<buffer, accessMutex, threadRun, callerVars, channelVars, life,
                 history>>

NoStream ==
  /\ rpc = "deliver"
  /\ newSub.chan \in GrpcChannels
  /\ newSub.id \notin grpcSubsMap[newSub.chan]
  /\ Unlock
  /\ UNCHANGED <<subscriptions, buffer, accessMutex, threadRun, callerVars,
                 channelVars, life, history>>

FindStream ==
  /\ rpc = "deliver"
  /\ newSub.chan \in GrpcChannels
  /\ newSub.id \in grpcSubsMap[newSub.chan]
  /\ RunnerGoto("writing")
  /\ UNCHANGED <<handlerVars, callerVars, channelVars, life, history>>

(* stream->Write returns when gRPC has taken the message. *)
WriteStream ==
  /\ rpc = "writing"
  /\ newSub.key \notin Unreadable
  /\ sent' = [sent EXCEPT ![newSub.id] = newSub.val]
  /\ Unlock
  /\ UNCHANGED <<subscriptions, buffer, accessMutex, threadRun, callerVars,
                 channelVars, life, issued, publications, accepted>>

(* grpc_fill_value throws out of the thread's function, and the process ends. *)
Terminate ==
  /\ rpc = "writing"
  /\ newSub.key \in Unreadable
  /\ RunnerGoto("terminated")
  /\ UNCHANGED <<handlerVars, callerVars, channelVars, life, history>>

(* c.wait(lock) has no predicate: the queue is not looked at again. *)
Wait ==
  /\ rpc = "lockWait"
  /\ subMutex = None
  /\ RunnerGoto("waiting")
  /\ UNCHANGED <<handlerVars, callerVars, channelVars, life, history>>

SpuriousWakeup ==
  /\ rpc = "waiting"
  /\ RunnerGoto("woken")
  /\ UNCHANGED <<handlerVars, callerVars, channelVars, life, history>>

Wake ==
  /\ rpc = "woken"
  /\ subMutex = None
  /\ RunnerGoto("check")
  /\ UNCHANGED <<handlerVars, callerVars, channelVars, life, history>>

RunnerStep ==
  \/ CheckRun \/ CheckSize \/ Pop
  \/ SendToConnection \/ ConnectionGone \/ CleanUp
  \/ NoStream \/ FindStream \/ WriteStream \/ Terminate
  \/ Wait \/ Wake

OwnerStep == StartThread \/ StopThread \/ Join

-----------------------------------------------------------------------------
(* No thread takes a step after the process has ended. *)
Alive == rpc # "terminated"

Next ==
  /\ Alive
  /\ \/ OwnerStep
     \/ BeginStop
     \/ \E w \in WsChannels : AddClient(w) \/ RemoveClient(w)
     \/ \E id \in Ids : CallUnsubscribeWs(id)
     \/ \E t \in Callers : ClientStep(t) \/ CallerStep(t)
     \/ RunnerStep
     \/ SpuriousWakeup

(* A thread that can run does; a thread that waits for a mutex gets it when
   nobody holds it.  Clients, connections and spurious wake-ups owe nothing.   *)
Fairness ==
  /\ WF_vars(Alive /\ OwnerStep)
  /\ WF_vars(RunnerStep)
  /\ \A t \in Callers : WF_vars(Alive /\ CallerStep(t))

Spec     == Init /\ [][Next]_vars
FairSpec == Spec /\ Fairness

-----------------------------------------------------------------------------
(* Safety *)

(* Pop's front() is never called on an empty queue, although the size was read
   before the mutex was taken: nobody but the runner takes events out.         *)
FrontDefined == rpc = "lockPop" => buffer # <<>>

(* Each client receives the publications of its subscription in the order in
   which they happened: along buffer, behind the event in the runner's hands,
   behind what has been delivered.  publishForVSSPath holds accessMutex across
   its loop, so two publishers cannot interleave their pushes.                 *)
InFlight == rpc \in {"deliver", "writing", "cleanup", "terminated"}

DeliveryOrder ==
  /\ \A i, j \in DOMAIN buffer :
       i < j /\ buffer[i].id = buffer[j].id => buffer[i].val < buffer[j].val
  /\ \A i \in DOMAIN buffer : sent[buffer[i].id] < buffer[i].val
  /\ InFlight =>
       /\ rpc # "cleanup" => sent[newSub.id] < newSub.val
       /\ \A i \in DOMAIN buffer :
            buffer[i].id = newSub.id => newSub.val < buffer[i].val

(* No common mutex guards the map of streams, which the runner looks ids up in,
   and the map of subscriptions, which publishForVSSPath serves.  An id with a
   stream is subscribed, unless the loop is about to drop that stream.         *)
StreamsSubscribed ==
  \A g \in GrpcChannels : \A id \in grpcSubsMap[g] :
    \/ \E k \in Keys : subscriptions[k][id] = g
    \/ \E t \in GrpcThreads :
         /\ call[t].chan = g
         /\ \/ pc[t] = "erase" /\ call[t].id = id
            \/ pc[t] = "clear"

(* The other way round a subscription may have no stream: its events are then
   popped and dropped.  It is so between subscribe and the store of the stream,
   and apart from that only after the end of the context has missed it
   (ContextCleared): nothing else takes the stream of a subscription away.     *)
Streamless(k, id) ==
  /\ subscriptions[k][id] \in GrpcChannels
  /\ id \notin grpcSubsMap[subscriptions[k][id]]
  /\ \A t \in GrpcThreads : pc[t] = "register" => call[t].id # id

StreamLostAtEndOnly ==
  [][\A k \in Keys, id \in Ids : Streamless(k, id)' =>
       \/ Streamless(k, id)
       \/ \E t \in GrpcThreads :
            pc[t] = "clear" /\ call[t].chan = subscriptions[k][id]]_vars

(* An event is queued only for a subscription that exists at that moment, under
   the channel that made it: once unsubscribe has returned, nothing is queued
   for the id any more, even if a publication had begun before.                *)
NoStalePush ==
  [][\A i \in DOMAIN buffer' \ DOMAIN buffer :
       /\ subscriptions[buffer'[i].key][buffer'[i].id] = buffer'[i].chan
       /\ buffer'[i].chan \in Channels]_vars

-----------------------------------------------------------------------------
(* The inductive invariant behind the safety properties *)

(* Who holds which mutex is told by where the threads are. *)
MutexInv ==
  /\ \A t \in Callers : accessMutex = t <=> pc[t] = "loop"
  /\ subMutex = Runner <=> InFlight
  /\ InFlight => newSub \in Event

(* The arguments each step of a call relies on. *)
CallInv ==
  \A t \in Callers :
    /\ pc[t] \in {"subscribe", "register", "erase", "publish", "loop"} =>
         call[t].key \in Keys
    /\ pc[t] \in {"subscribe", "register", "unsubscribe", "erase"} =>
         call[t].id \in Ids
    /\ pc[t] = "subscribe" => call[t].chan \in Channels
    /\ pc[t] = "unsubscribe" /\ call[t].chan # None => call[t].key \in Keys
    /\ pc[t] \in {"register", "erase", "unsubscribeAll", "clear"} =>
         call[t].chan \in GrpcChannels

(* The publish loop serves entries of the map that cannot go away under it. *)
LoopInv ==
  \A t \in Callers :
    /\ pc[t] # "loop" => todo[t] = {}
    /\ pc[t] = "loop" => todo[t] \subseteq Subscribers(call[t].key)

(* What makes DeliveryOrder inductive: the publication in progress is the
   latest, and nothing an unserved id has been sent or queued is as late.      *)
LatestInv ==
  /\ \A i \in DOMAIN buffer : buffer[i].val <= publications
  /\ InFlight => newSub.val <= publications
  /\ \A t \in Callers : pc[t] = "loop" => \A id \in todo[t] :
       /\ sent[id] < publications
       /\ \A i \in DOMAIN buffer : buffer[i].id = id => buffer[i].val < publications
       /\ InFlight /\ newSub.id = id => newSub.val < publications
  /\ \A id \in Ids : sent[id] <= publications

(* A gRPC thread serves one stream and a stream has one thread; only sessions
   of the WebSocket are cleaned up after.                                      *)
ServeInv ==
  /\ call[IoThread].chan \notin GrpcChannels
  /\ \A t \in GrpcThreads : call[t].chan \in GrpcChannels \cup {None}
  /\ \A t, u \in GrpcThreads :
       call[t].chan = call[u].chan /\ call[t].chan # None => t = u
  /\ rpc = "cleanup" => newSub.chan \in WsChannels

(* An id is in one thread's hands, and in the maps of one stream. *)
IdInv ==
  /\ \A t \in Callers : call[t].id \in issued \cup {None}
  /\ \A t, u \in Callers : call[t].id = call[u].id /\ call[t].id # None => t = u
  /\ \A g \in GrpcChannels : grpcSubsMap[g] \subseteq issued
  /\ \A g, h \in GrpcChannels : \A id \in grpcSubsMap[g] : id \in grpcSubsMap[h] => g = h
  /\ \A g \in GrpcChannels, k \in Keys :
       /\ currentSubs[g][k] \in grpcSubsMap[g] \cup {None}
       /\ \A j \in Keys : currentSubs[g][j] = currentSubs[g][k] /\ currentSubs[g][k] # None
                          => j = k

(* What a thread that holds an id knows of the map of streams. *)
HoldsInv ==
  /\ \A g \in GrpcChannels : call[IoThread].id \notin grpcSubsMap[g]
  /\ \A t \in GrpcThreads :
       /\ pc[t] \in {"subscribe", "register"} =>
            \A g \in GrpcChannels : call[t].id \notin grpcSubsMap[g]
       /\ pc[t] \in {"unsubscribe", "erase"} =>
            /\ call[t].chan \in GrpcChannels
            /\ call[t].id \in grpcSubsMap[call[t].chan]
            /\ call[t].id = currentSubs[call[t].chan][call[t].key]
       /\ pc[t] \notin {"subscribe", "register", "unsubscribe", "erase"} =>
            call[t].id = None
       /\ pc[t] = "register" =>
            subscriptions[call[t].key][call[t].id] = call[t].chan

(* An id is subscribed under one key at most, and owns nothing before that. *)
RegisteredInv ==
  /\ \A id \in Ids : Registered(id) => id \in issued
  /\ \A id \in Ids, j, k \in Keys :
       subscriptions[j][id] # None /\ subscriptions[k][id] # None => j = k
  /\ \A i \in DOMAIN buffer : buffer[i].id \in issued
  /\ \A t \in Callers : pc[t] = "subscribe" =>
       /\ ~Registered(call[t].id)
       /\ \A i \in DOMAIN buffer : buffer[i].id # call[t].id

(* A stream is erased after the subscription it belongs to. *)
ErasedInv ==
  \A t \in Callers : pc[t] = "erase" => ~Registered(call[t].id)

StreamInv  == ServeInv /\ IdInv /\ HoldsInv /\ StreamsSubscribed
ControlInv == TypeOK /\ MutexInv /\ CallInv /\ LoopInv /\ FrontDefined
IInv       == ControlInv /\ LatestInv /\ DeliveryOrder /\ StreamInv /\ RegisteredInv
              /\ ErasedInv

-----------------------------------------------------------------------------
(* Liveness *)

(* The runner cleans up after a gone connection: it holds subMutex and waits for
   accessMutex, whose owner is a publisher that waits for subMutex.            *)
Deadlocked == rpc = "cleanup" /\ accessMutex # None

(* Once the runner has seen an event it does not sleep before it has delivered
   all there is, unless a publication and a clean-up block each other, or an
   event that it cannot write ends the process.                                *)
DrainsOnceAwake == rpc = "lockPop" ~> buffer = <<>> \/ Deadlocked \/ ~Alive

-----------------------------------------------------------------------------
(* What tests and comments of the repository say, and the code does not do *)

(* SubscriptionHandlerTests.cpp: a client that subscribed is notified of an
   update.  The push between the runner's size check and its wait is not seen. *)
SubscriberNotified == rpc # "done" /\ buffer # <<>> ~> buffer = <<>>

(* WebSockHttpFlexServer.cpp 1370: a failed SendToConnection is the hint to
   remove any state of that connection.  The runner asks for accessMutex with
   subMutex in its hands, against the order publishForVSSPath takes them in.   *)
GoneConnectionRemoved ==
  \A w \in WsChannels, id \in Ids :
    (rpc = "cleanup" /\ newSub.chan = w /\ newSub.id = id)
      ~> \A k \in Keys : subscriptions[k][id] # w

(* grpcHandler.cpp 152: at the end of a subscribe context its subscriptions are
   cleared.  A key subscribed twice keeps one of them.                         *)
ContextCleared ==
  \A t \in Callers : pc[t] = "clear" =>
    \A k \in Keys : EntriesOf(k, call[t].chan) = {}
=============================================================================
