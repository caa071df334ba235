--------------------------------- MODULE Server ---------------------------------
(* The VSS database and the subscription handler together: setSignal publishes
   from inside its critical section, so that rwMutex_, accessMutex and subMutex
   nest on the way of a set.

   A thread is in one request at a time, of the database or of the handler; a set
   enters the handler when it publishes (Notify), is in its loop until
   publishForVSSPath returns, and then goes on in setSignal (Notified).  All other
   steps of either are taken as they are.  The keys of subscriptions are the
   leaves with their attributes.

   Left out: the MQTT publisher, which comes first in publishForVSSPath (see
   MQTTPublisher).                                                              *)
EXTENDS HandlerNotification

CONSTANTS Signals, Limits, InitLimit, TreeValues, MaxSets, MaxUpdates \* of VssDatabase

VARIABLES
  meta, data, torn, rwMutex, dbPc, req, node, patch, \* of VssDatabase
  sets, updates, published,                          \* its history
  notified,   \* the threads for which publishForVSSPath has returned
  told,       \* history: the key and the value of each publication
  overwritten \* history: keys with a value that an update has replaced

Database == INSTANCE VssDatabase WITH pc <- dbPc

ASSUME ServerConstants ==
  /\ Keys = Signals \X Database!Attrs
  /\ Unreadable \subseteq Signals \X {"targetValue"}
  /\ Limits \subseteq Nat /\ InitLimit \in Limits
  /\ MaxSets \in Nat /\ MaxUpdates \in Nat /\ MaxSets <= MaxPublications
  /\ TreeValues \subseteq Nat \ (0 .. MaxSets)

store    == <<meta, data, torn, rwMutex, dbPc, req, node, patch, sets, updates, published>>
composed == <<notified, told, overwritten>>
all      == <<vars, store, composed>>

ComposedTypeOK ==
  /\ notified \in SUBSET Callers
  /\ told \in Seq([key: Keys, val: Nat])
  /\ overwritten \in SUBSET Keys

ServerInit ==
  /\ Init /\ Database!Init
  /\ notified = {} /\ told = <<>> /\ overwritten = {}

Free(t) == dbPc[t] = "idle"
KeyOf(t) == <<req[t].sig, req[t].attr>>

-----------------------------------------------------------------------------
(* The database *)

BeginRequest(t) ==
  /\ Idle(t)
  /\ Database!ClientStep(t) \/ (t = IoThread /\ Database!ClientUpdate)
  /\ UNCHANGED <<vars, composed>>

(* The values that the last section of an update replaces: it tells nobody. *)
Replacing == {k \in Keys : data'[k[1]].value[k[2]] # data[k[1]].value[k[2]]}

DatabaseStep(t) ==
  /\ Database!QuietStep(t)
  /\ overwritten' = IF dbPc[t] \in {"replace", "applyData"}
                    THEN overwritten \cup Replacing ELSE overwritten
  /\ UNCHANGED <<vars, notified, told>>

-----------------------------------------------------------------------------
(* publishForVSSPath, called by setSignal *)

(* It returns with its last step. *)
ReturnTo(t) == notified' = IF pc'[t] = "idle" THEN notified \cup {t} ELSE notified

Notify(t) ==
  /\ dbPc[t] = "publish" /\ t \notin notified
  /\ CallPublish(t, KeyOf(t))
  /\ UNCHANGED <<store, composed>>

NotifyAll(t) ==
  /\ Publish(t)
  /\ told' = Append(told, [key |-> call[t].key, val |-> req[t].val])
  /\ overwritten' = overwritten \ {call[t].key}
  /\ ReturnTo(t)
  /\ UNCHANGED store

NotifyOneOf(t, id) ==
  /\ Push(t, id)
  /\ ReturnTo(t)
  /\ UNCHANGED <<store, told, overwritten>>

Notified(t) ==
  /\ t \in notified
  /\ Database!Publish(t)
  /\ notified' = notified \ {t}
  /\ UNCHANGED <<vars, told, overwritten>>

publishForVSSPath(t) ==
  Notify(t) \/ NotifyAll(t) \/ (\E id \in Ids : NotifyOneOf(t, id)) \/ Notified(t)

-----------------------------------------------------------------------------
(* The subscription handler *)

Elsewhere == UNCHANGED <<store, composed>>

Sessions ==
  /\ Free(IoThread)
  /\ \/ \E w \in WsChannels : AddClient(w) \/ RemoveClient(w)
     \/ \E id \in Ids : CallUnsubscribeWs(id)
  /\ Elsewhere

Subscribing(t) == Free(t) /\ ClientStep(t) /\ pc'[t] # "publish" /\ Elsewhere

HandlerStep(t) == CallerStep(t) /\ pc[t] \notin {"publish", "loop"} /\ Elsewhere

-----------------------------------------------------------------------------
ThreadStep(t) == DatabaseStep(t) \/ publishForVSSPath(t) \/ HandlerStep(t)

ServerNext ==
  /\ Alive
  /\ \/ \E t \in Callers : BeginRequest(t) \/ Subscribing(t) \/ ThreadStep(t)
     \/ Sessions
     \/ (OwnerStep \/ RunnerStep \/ SpuriousWakeup) /\ Elsewhere

ServerSpec == ServerInit /\ [][ServerNext]_all

(* As for the handler; that publishing returns is not assumed any more. *)
FairServerSpec ==
  /\ ServerSpec
  /\ WF_all(Alive /\ OwnerStep /\ Elsewhere)
  /\ WF_all(RunnerStep /\ Elsewhere)
  /\ \A t \in Callers : WF_all(Alive /\ ThreadStep(t))

-----------------------------------------------------------------------------
(* What has been published to a subscription and may still reach its client, and
   what has reached it last.                                                   *)
InHand(id) == IF InFlight /\ newSub.id = id THEN {newSub.val} ELSE {}
Due(id)    == QueuedFor(id) \cup UnservedBy(id) \cup InHand(id)
Coming(id) == Due(id) \cup {sent[id]}

(* The client of a subscription is there. *)
Reached(id, ch) ==
  ch \in connected \/ (ch \in GrpcChannels /\ id \in grpcSubsMap[ch])

(* A set has stored its value and is about to publish it. *)
Untold(t)        == dbPc[t] = "publish" /\ pc[t] # "loop" /\ t \notin notified
StoredUntold(k) == \E t \in Callers : Untold(t) /\ KeyOf(t) = k

Value(k) == data[k[1]].value[k[2]]

(* The last value a subscriber gets, of those that it has got or has still to get,
   is the one that readers find: none is missing at the end, and none comes after
   it, however sets, updates, subscriptions and deliveries overlap.  Excepted are
   a set that is about to publish, and a value that an update has replaced: one
   that it names, or an older one (MetadataOnly in VssDatabase).               *)
UpToDate ==
  \A k \in Keys, id \in Ids : \A p \in Coming(id) :
    /\ subscriptions[k][id] # None /\ Reached(id, subscriptions[k][id])
    /\ p # 0 /\ \A q \in Coming(id) : q <= p
    /\ k \notin overwritten /\ ~StoredUntold(k)
    => told[p].val = Value(k)

-----------------------------------------------------------------------------
(* The inductive invariant behind it, next to those of the two modules *)

(* A thread publishes where its set request is inside setSignal. *)
LinkInv ==
  \A t \in Callers :
    /\ t \in notified => dbPc[t] = "publish" /\ pc[t] = "idle"
    /\ pc[t] \in {"publish", "loop"} =>
         dbPc[t] = "publish" /\ t \notin notified /\ call[t].key = KeyOf(t)

(* The last publication of a key is its value. *)
ToldInv ==
  \A k \in Keys : \A i \in DOMAIN told :
    /\ told[i].key = k /\ \A j \in DOMAIN told : told[j].key = k => j <= i
    /\ k \notin overwritten /\ ~StoredUntold(k)
    => told[i].val = Value(k)

(* An event is for the one subscription its id can have. *)
OfKey(e) ==
  /\ e.val \in DOMAIN told /\ told[e.val].key = e.key
  /\ e.id \in issued
  /\ e.chan \in WsChannels => e.chan \in accepted
  /\ \A k \in Keys : subscriptions[k][e.id] # None =>
       k = e.key /\ subscriptions[k][e.id] = e.chan

EventInv ==
  /\ Len(told) = publications
  /\ \A i \in DOMAIN buffer : OfKey(buffer[i])
  /\ InFlight => OfKey(newSub)
  /\ \A t \in Callers : pc[t] = "loop" =>
       publications \in DOMAIN told /\ told[publications].key = call[t].key
  /\ \A id \in Ids : sent[id] # 0 =>
       /\ id \in issued /\ sent[id] \in DOMAIN told
       /\ \A k \in Keys : subscriptions[k][id] # None => told[sent[id]].key = k

(* Nothing has reached the client of a subscription in the making. *)
FreshInv ==
  \A t \in Callers :
    /\ pc[t] \in {"subscribe", "register"} =>
         sent[call[t].id] = 0 /\ ~ (rpc = "writing" /\ newSub.id = call[t].id)
    /\ pc[t] = "subscribe" => ~ (InFlight /\ newSub.id = call[t].id)

(* A session that has gone does not come back. *)
AcceptedInv ==
  /\ connected \subseteq accepted
  /\ \A k \in Keys, id \in Ids :
       subscriptions[k][id] \in WsChannels => subscriptions[k][id] \in accepted
  /\ \A t \in Callers : pc[t] = "subscribe" /\ call[t].chan \in WsChannels =>
       call[t].chan \in accepted
  /\ rpc = "cleanup" => newSub.chan \notin connected

(* Unless it has got nothing, a subscription that is served gets all of its key. *)
Served(k, id) ==
  /\ subscriptions[k][id] # None
  /\ \/ Reached(id, subscriptions[k][id])
     \/ \E t \in Callers : pc[t] = "register" /\ call[t].id = id
Complete(k, id) ==
  \/ Due(id) = {} /\ sent[id] = 0
  \/ \A i \in DOMAIN told : told[i].key = k => \E p \in Coming(id) : i <= p
DeliveredInv == \A k \in Keys, id \in Ids : Served(k, id) => Complete(k, id)

ServerInv ==
  /\ ComposedTypeOK /\ LinkInv /\ ToldInv
  /\ EventInv /\ FreshInv /\ AcceptedInv /\ DeliveredInv

-----------------------------------------------------------------------------
(* Every request is answered, set and get, update and subscription, through all
   three mutexes: nothing but a clean-up that meets a publication, or the end of
   the process, keeps one from that.                                           *)
AllAnswered ==
  \A t \in Callers :
    pc[t] # "idle" \/ ~Free(t) ~> (pc[t] = "idle" /\ Free(t)) \/ Deadlocked \/ ~Alive
=============================================================================
