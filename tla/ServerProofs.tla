------------------------------ MODULE ServerProofs ------------------------------
(* Theorems about Server: it is the database and the handler at once, so that what
   is proved of either holds of it, and the values the subscribers end with are
   those of the database, for any threads, leaves, channels and ids.

   DB is the database with its theorems.  Its definitions are those of Database,
   which the first lemmas make use of.                                         *)
EXTENDS Server, SubscriptionHandlerProofs

DB == INSTANCE VssDatabaseProofs WITH pc <- dbPc

-----------------------------------------------------------------------------
(* The steps of Server are steps of the database *)

LEMMA SameCallers == Database!Callers = Callers /\ DB!Callers = Callers
PROOF
  BY DEF Database!Callers, DB!Callers, Callers

LEMMA DatabaseSteps == [ServerNext]_all => [Database!Next]_(Database!vars)
PROOF
  <1>1. UNCHANGED store => UNCHANGED Database!vars
    BY DEF store, Database!vars, Database!trees, Database!request, Database!history
  <1>2. ASSUME NEW t \in Callers, BeginRequest(t)
        PROVE  Database!Next
    BY <1>2, SameCallers DEF BeginRequest, Database!Next
  <1>3. ASSUME NEW t \in Callers, DatabaseStep(t) \/ Notified(t)
        PROVE  Database!Next
    BY <1>3, SameCallers DEF DatabaseStep, Notified, Database!Next, Database!RequestStep
  <1>4. ASSUME NEW t \in Callers,
               Notify(t) \/ NotifyAll(t) \/ (\E id \in Ids : NotifyOneOf(t, id))
                 \/ HandlerStep(t) \/ Subscribing(t)
        PROVE  UNCHANGED store
    BY <1>4 DEF Notify, NotifyAll, NotifyOneOf, HandlerStep, Subscribing, Elsewhere
  <1>5. Sessions \/ Elsewhere \/ UNCHANGED all => UNCHANGED store
    BY DEF Sessions, Elsewhere, all
  <1> QED
    BY <1>1, <1>2, <1>3, <1>4, <1>5 DEF ServerNext, ThreadStep, publishForVSSPath

(* The database does in the server what it does by itself. *)
THEOREM ServerImplementsDatabase == ServerSpec => Database!Spec
PROOF
  <1>1. ServerInit => Database!Init
    BY DEF ServerInit
  <1> QED
    BY <1>1, DatabaseSteps, PTL DEF ServerSpec, Database!Spec

LEMMA DatabaseAssumptions == DB!DatabaseConstants
PROOF
  BY Distinct, ServerConstants, SameCallers DEF DB!DatabaseConstants

LEMMA SameConstants ==
  /\ Database!Attrs = DB!Attrs /\ Database!Kinds = DB!Kinds /\ Database!Metadata = DB!Metadata
  /\ Database!Fields = DB!Fields /\ Database!NoLeaf = DB!NoLeaf
  /\ Database!NoRequest = DB!NoRequest
  /\ Database!Given = DB!Given /\ Database!Description = DB!Description
PROOF
  BY DEF Database!Attrs, DB!Attrs, Database!Kinds, DB!Kinds, Database!Metadata, DB!Metadata,
     Database!Fields, DB!Fields, Database!NoLeaf, DB!NoLeaf, Database!NoRequest, DB!NoRequest,
     Database!Given, DB!Given, Database!Description, DB!Description

LEMMA SameRequests ==
  ASSUME NEW t \in Callers
  PROVE  /\ Database!ClientStep(t) => DB!ClientStep(t)
         /\ Database!ClientUpdate => DB!ClientUpdate
PROOF
  <1>1. Database!ClientStep(t) => DB!ClientStep(t)
    BY SameConstants DEF Database!ClientStep, DB!ClientStep, Database!CallSet, DB!CallSet,
       Database!CallGet, DB!CallGet, Database!Enter, DB!Enter, Database!trees, DB!trees,
       Database!history, DB!history
  <1>2. ASSUME NEW s, NEW new, NEW first, Database!CallUpdate(s, new, first)
        PROVE  DB!CallUpdate(s, new, first)
    BY <1>2, SameConstants DEF Database!CallUpdate, DB!CallUpdate, Database!Enter, DB!Enter,
       Database!trees, DB!trees
  <1>3. \A new, default :
          Database!applyDefaultValues(new, default) = DB!applyDefaultValues(new, default)
    BY DEF Database!applyDefaultValues, DB!applyDefaultValues
  <1>4. Database!ClientUpdate => DB!ClientUpdate
    BY <1>2, <1>3, SameConstants DEF Database!ClientUpdate, DB!ClientUpdate,
       Database!CallUpdateMetaData, DB!CallUpdateMetaData, Database!CallUpdateVSSTree,
       DB!CallUpdateVSSTree
  <1> QED
    BY <1>1, <1>4

LEMMA SamePublish ==
  ASSUME NEW t \in Callers
  PROVE  Database!Publish(t) => DB!Publish(t)
PROOF
  BY SameConstants DEF Database!Publish, DB!Publish, Database!Unlock, DB!Unlock,
     Database!Return, DB!Return, Database!trees, DB!trees

LEMMA SameQuietStep ==
  ASSUME NEW t \in Callers
  PROVE  Database!QuietStep(t) => DB!QuietStep(t)
PROOF
  <1> USE SameConstants DEF Database!Goto, DB!Goto, Database!Return, DB!Return,
         Database!LeafOf, DB!LeafOf, Database!trees, DB!trees, Database!history, DB!history
  <1>1. /\ Database!CheckWritable(t) => DB!CheckWritable(t)
        /\ Database!CheckAttributable(t) => DB!CheckAttributable(t)
        /\ Database!GetAttributable(t) => DB!GetAttributable(t)
        /\ Database!GetSignal(t) => DB!GetSignal(t)
    BY DEF Database!CheckWritable, DB!CheckWritable, Database!IsWritable, DB!IsWritable,
       Database!CheckAttributable, DB!CheckAttributable, Database!IsAttributable,
       DB!IsAttributable, Database!GetAttributable, DB!GetAttributable, Database!GetSignal,
       DB!GetSignal
  <1>2. Database!SetRead(t) => DB!SetRead(t)
    BY DEF Database!SetRead, DB!SetRead, Database!WithinLimit, DB!WithinLimit,
       Database!HoldLock, DB!HoldLock
  <1>3. Database!Store(t) => DB!Store(t)
    BY DEF Database!Store, DB!Store, Database!KeepForPublish, DB!KeepForPublish
  <1>4. /\ Database!MetaRead => DB!MetaRead
        /\ Database!MetaReplace => DB!MetaReplace
    BY DEF Database!MetaRead, DB!MetaRead, Database!MetaReplace, DB!MetaReplace,
       Database!Merged, DB!Merged, Database!DataMerged, DB!DataMerged,
       Database!DataReplaced, DB!DataReplaced
  <1>5. /\ Database!DiffMeta => DB!DiffMeta
        /\ Database!DiffData => DB!DiffData
    BY DEF Database!DiffMeta, DB!DiffMeta, Database!DiffData, DB!DiffData,
       Database!Differences, DB!Differences, Database!DataDifferences, DB!DataDifferences
  <1>6. /\ Database!ApplyMeta => DB!ApplyMeta
        /\ Database!ApplyData => DB!ApplyData
    BY DEF Database!ApplyMeta, DB!ApplyMeta, Database!ApplyData, DB!ApplyData,
       Database!Patched, DB!Patched, Database!DataPatched, DB!DataPatched
  <1> QED
    BY <1>1, <1>2, <1>3, <1>4, <1>5, <1>6 DEF Database!QuietStep, DB!QuietStep,
       Database!UpdateStep, DB!UpdateStep

LEMMA SameInit == Database!Init => DB!Init
PROOF
  BY SameConstants, SameCallers DEF Database!Init, DB!Init, Database!applyDefaultValues,
     DB!applyDefaultValues, Database!FileLeaf, DB!FileLeaf

LEMMA SameSteps == [Database!Next]_(Database!vars) => [DB!Next]_(DB!vars)
PROOF
  <1>1. UNCHANGED Database!vars => UNCHANGED DB!vars
    BY DEF Database!vars, DB!vars, Database!trees, DB!trees, Database!request, DB!request,
       Database!history, DB!history
  <1>2. IoThread \in Callers
    BY DEF Callers
  <1> QED
    BY <1>1, <1>2, SameCallers, SameRequests, SamePublish, SameQuietStep
       DEF Database!Next, DB!Next, Database!RequestStep, DB!RequestStep

LEMMA DatabaseHolds == ServerSpec => []DB!DInv
PROOF
  <1>1. ServerSpec => DB!Spec
    BY ServerImplementsDatabase, SameInit, SameSteps, PTL DEF Database!Spec, DB!Spec
  <1> QED
    BY <1>1, DatabaseAssumptions, DB!DatabaseInvariant, PTL

-----------------------------------------------------------------------------
(* The steps of Server are steps of the handler *)

LEMMA KeyPublished ==
  ASSUME DB!DInv, NEW t \in Callers, dbPc[t] # "idle"
  PROVE  /\ KeyOf(t) \in Keys /\ req[t].val \in Nat
         /\ KeyOf(t)[1] = req[t].sig /\ KeyOf(t)[2] = req[t].attr
PROOF
  <1>1. req[t] \in DB!Request /\ req[t].sig \in Signals
    BY SameCallers DEF DB!DInv, DB!TypeOK, DB!RequestInv
  <1>2. req[t].attr \in DB!Attrs /\ req[t].val \in Nat
    BY <1>1 DEF DB!Request
  <1> QED
    BY <1>1, <1>2, ServerConstants, SameConstants DEF KeyOf

LEMMA HandlerSteps == DB!DInv /\ [ServerNext]_all => [Next]_vars
PROOF
  <1> SUFFICES ASSUME DB!DInv, [ServerNext]_all
               PROVE  [Next]_vars
    OBVIOUS
  <1>1. ASSUME NEW t \in Callers, BeginRequest(t) \/ DatabaseStep(t) \/ Notified(t)
        PROVE  UNCHANGED vars
    BY <1>1 DEF BeginRequest, DatabaseStep, Notified
  <1>2. ASSUME NEW t \in Callers, Notify(t)
        PROVE  ClientStep(t)
    BY <1>2, KeyPublished DEF Notify, ClientStep
  <1>3. ASSUME NEW t \in Callers, Subscribing(t)
        PROVE  ClientStep(t)
    BY <1>3 DEF Subscribing
  <1>4. ASSUME NEW t \in Callers,
               NotifyAll(t) \/ (\E id \in Ids : NotifyOneOf(t, id)) \/ HandlerStep(t)
        PROVE  CallerStep(t)
    BY <1>4 DEF NotifyAll, NotifyOneOf, HandlerStep, CallerStep
  <1>5. CASE Alive /\ Sessions
    BY <1>5 DEF Sessions, Next
  <1>6. CASE UNCHANGED all
    BY <1>6 DEF all
  <1> QED
    BY <1>1, <1>2, <1>3, <1>4, <1>5, <1>6 DEF ServerNext, ThreadStep, publishForVSSPath, Next

(* And the handler does in the server what it does by itself. *)
THEOREM ServerImplementsHandler == ServerSpec => Spec
PROOF
  <1>1. ServerInit => Init
    BY DEF ServerInit
  <1> QED
    BY <1>1, HandlerSteps, DatabaseHolds, PTL DEF ServerSpec, Spec

LEMMA HandlerHolds == ServerSpec => []AllInv
PROOF
  <1> QED
    BY ServerImplementsHandler, AllInvariant, PTL

-----------------------------------------------------------------------------
(* Where the two are linked *)

(* What a step of a request does, outside its publication. *)
LEMMA QuietStepEffect ==
  ASSUME DB!DInv, NEW t \in Callers, DB!QuietStep(t)
  PROVE  /\ dbPc[t] \notin {"idle", "publish"}
         /\ dbPc'[t] = "publish" => dbPc[t] = "store" /\ req' = req
         /\ \A u \in Callers \ {t} : dbPc'[u] = dbPc[u] /\ req'[u] = req[u]
PROOF
  <1>1. dbPc \in [Callers -> DB!Locations] /\ req \in [Callers -> DB!Request]
    BY SameCallers DEF DB!DInv, DB!TypeOK
  <1>2. IoThread \in Callers
    BY DEF Callers
  <1> QED
    BY <1>1, <1>2 DEF DB!QuietStep, DB!CheckWritable, DB!CheckAttributable, DB!SetRead, DB!Store,
       DB!GetAttributable, DB!GetSignal, DB!UpdateStep, DB!MetaRead, DB!MetaReplace, DB!DiffMeta,
       DB!ApplyMeta, DB!DiffData, DB!ApplyData, DB!Goto, DB!Return

LEMMA RequestEffect ==
  ASSUME DB!DInv, NEW t \in Callers, BeginRequest(t)
  PROVE  /\ dbPc[t] = "idle" /\ dbPc'[t] # "publish" /\ data' = data
         /\ \A u \in Callers \ {t} : dbPc'[u] = dbPc[u] /\ req'[u] = req[u]
PROOF
  <1>1. dbPc \in [Callers -> DB!Locations] /\ req \in [Callers -> DB!Request]
    BY SameCallers DEF DB!DInv, DB!TypeOK
  <1>2. DB!ClientStep(t) \/ (t = IoThread /\ DB!ClientUpdate)
    BY SameRequests DEF BeginRequest
  <1>3. CASE DB!ClientStep(t)
    BY <1>1, <1>3 DEF DB!ClientStep, DB!CallSet, DB!CallGet, DB!Enter, DB!trees
  <1>4. CASE t = IoThread /\ DB!ClientUpdate
    BY <1>1, <1>4 DEF DB!ClientUpdate, DB!CallUpdateMetaData, DB!CallUpdateVSSTree,
       DB!CallUpdate, DB!Enter, DB!trees
  <1> QED
    BY <1>2, <1>3, <1>4

LEMMA NotifiedEffect ==
  ASSUME DB!DInv, NEW t \in Callers, Notified(t)
  PROVE  /\ dbPc[t] = "publish" /\ dbPc'[t] = "idle" /\ data' = data
         /\ \A u \in Callers \ {t} : dbPc'[u] = dbPc[u] /\ req'[u] = req[u]
PROOF
  <1>1. dbPc \in [Callers -> DB!Locations] /\ req \in [Callers -> DB!Request]
    BY SameCallers DEF DB!DInv, DB!TypeOK
  <1>2. DB!Publish(t)
    BY SamePublish DEF Notified
  <1> QED
    BY <1>1, <1>2 DEF DB!Publish, DB!Return, DB!trees

(* What a step of a subscription's request does to where the threads are. *)
LEMMA SubscribingEffect ==
  ASSUME ControlInv, NEW t \in Callers,
         \/ Subscribing(t)
         \/ HandlerStep(t)
         \/ t = IoThread /\ \E id \in Ids : CallUnsubscribeWs(id)
  PROVE  Moved(t) /\ pc'[t] \notin {"publish", "loop"} /\ pc[t] \notin {"publish", "loop"}
PROOF
  <1>1. pc \in [Callers -> CallerPc] /\ call \in [Callers -> Call] /\ TypeOK
    BY DEF ControlInv, TypeOK
  <1>2. CASE Subscribing(t)
    <2>1. ClientStep(t) /\ pc'[t] # "publish"
      BY <1>2 DEF Subscribing
    <2>2. ASSUME NEW ch \in Channels, NEW k \in Keys, NEW id \in Ids, CallSubscribe(t, ch, k, id)
          PROVE  Moved(t) /\ pc'[t] = "subscribe" /\ pc[t] = "idle"
      BY <1>1, <2>2, EnterEffect DEF CallSubscribe, Call, CallerPc, Idle
    <2>3. ASSUME NEW g \in GrpcChannels, NEW k \in Keys, CallUnsubscribeGrpc(t, g, k)
          PROVE  Moved(t) /\ pc'[t] = "unsubscribe" /\ pc[t] = "idle"
      <3>1. currentSubs[g][k] \in Ids \cup {None}
        BY DEF ControlInv, TypeOK
      <3> QED
        BY <1>1, <2>3, <3>1, EnterEffect DEF CallUnsubscribeGrpc, Call, CallerPc, Idle, Channels
    <2>4. ASSUME NEW g \in GrpcChannels, EndStream(t, g)
          PROVE  Moved(t) /\ pc'[t] = "unsubscribeAll" /\ pc[t] = "idle"
      BY <1>1, <2>4, EnterEffect DEF EndStream, Call, NoCall, CallerPc, Idle, Channels
    <2>5. ASSUME NEW k \in Keys, CallPublish(t, k)
          PROVE  FALSE
      BY <1>1, <2>1, <2>5, EnterEffect DEF CallPublish, Call, NoCall, CallerPc
    <2> QED
      BY <2>1, <2>2, <2>3, <2>4, <2>5 DEF ClientStep
  <1>3. CASE HandlerStep(t)
    <2>1. CASE Subscribe(t)
      BY <1>1, <2>1, GotoEffect, ReturnEffect DEF Subscribe, CallerPc
    <2>2. CASE GrpcRegister(t)
      BY <1>1, <2>2, ReturnEffect DEF GrpcRegister
    <2>3. CASE Unsubscribe(t)
      BY <1>1, <2>3, GotoEffect, ReturnEffect DEF Unsubscribe, CallerPc
    <2>4. CASE GrpcErase(t)
      <3>1. call[t].chan \in GrpcChannels
        BY <2>4 DEF GrpcErase, ControlInv, CallInv
      <3>2. [NoCall EXCEPT !.chan = call[t].chan] \in Call
        BY <3>1 DEF NoCall, Call, Channels
      <3> QED
        BY <1>1, <2>4, <3>2, EnterEffect, ReturnEffect DEF GrpcErase, CallerPc
    <2>5. CASE UnsubscribeAll(t)
      BY <1>1, <2>5, GotoEffect DEF UnsubscribeAll, CallerPc
    <2>6. CASE GrpcClear(t)
      BY <1>1, <2>6, ReturnEffect DEF GrpcClear
    <2>7. pc[t] \notin {"publish", "loop"}
      BY <1>3 DEF HandlerStep
    <2> QED
      BY <1>3, <2>1, <2>2, <2>3, <2>4, <2>5, <2>6, <2>7
         DEF HandlerStep, CallerStep, Publish, Push
  <1>4. CASE t = IoThread /\ \E id \in Ids : CallUnsubscribeWs(id)
    BY <1>1, <1>4, EnterEffect DEF CallUnsubscribeWs, Call, NoCall, CallerPc, IoIdle
  <1> QED
    BY <1>2, <1>3, <1>4

LEMMA PublishEffect ==
  ASSUME ControlInv, NEW t \in Callers, Publish(t)
  PROVE  /\ Moved(t) /\ pc[t] = "publish" /\ call[t].key \in Keys
         /\ \/ pc'[t] = "loop" /\ call'[t] = call[t]
            \/ pc'[t] = "idle"
PROOF
  <1>1. TypeOK
    BY DEF ControlInv
  <1>2. pc[t] = "publish" /\ call[t].key \in Keys
    BY DEF Publish, ControlInv, CallInv
  <1> QED
    BY <1>1, <1>2, GotoEffect, ReturnEffect DEF Publish, CallerPc

LEMMA PushEffect ==
  ASSUME ControlInv, NEW t \in Callers, NEW id \in Ids, Push(t, id)
  PROVE  /\ Moved(t) /\ pc[t] = "loop"
         /\ \/ pc'[t] = "loop" /\ call'[t] = call[t]
            \/ pc'[t] = "idle"
PROOF
  <1>1. TypeOK /\ pc \in [Callers -> CallerPc] /\ call \in [Callers -> Call]
    BY DEF ControlInv, TypeOK
  <1>2. CASE StillToServe(t, id) = {}
    BY <1>1, <1>2, ReturnEffect DEF Push
  <1>3. CASE StillToServe(t, id) # {}
    BY <1>1, <1>3 DEF Push, Moved
  <1> QED
    BY <1>2, <1>3 DEF Push

(* Everything else that happens leaves the threads where they are. *)
LEMMA ThreadsStay ==
  ASSUME OwnerStep \/ RunnerStep \/ SpuriousWakeup
           \/ (\E w \in WsChannels : AddClient(w) \/ RemoveClient(w))
  PROVE  pc' = pc /\ call' = call /\ todo' = todo
PROOF
  BY DEF OwnerStep, StartThread, StopThread, Join, RunnerStep, CheckRun, CheckSize, Pop,
     SendToConnection, ConnectionGone, CleanUp, NoStream, FindStream, WriteStream, Terminate, Wait, Wake,
     SpuriousWakeup, AddClient, RemoveClient, callerVars

(* A step that moves one thread of the handler, and nothing of the database. *)
LEMMA LinkMoved ==
  ASSUME LinkInv, NEW t \in Callers, Moved(t), dbPc' = dbPc, req' = req,
         \A u \in Callers \ {t} : u \in notified' <=> u \in notified,
         /\ t \in notified' => dbPc[t] = "publish" /\ pc'[t] = "idle"
         /\ pc'[t] \in {"publish", "loop"} =>
              dbPc[t] = "publish" /\ t \notin notified' /\ call'[t].key = KeyOf(t)
  PROVE  LinkInv'
PROOF
  BY DEF LinkInv, KeyOf, Moved

(* And the other way round. *)
LEMMA LinkRequest ==
  ASSUME LinkInv, NEW t \in Callers, pc' = pc, call' = call,
         \A u \in Callers \ {t} :
           dbPc'[u] = dbPc[u] /\ req'[u] = req[u] /\ (u \in notified' <=> u \in notified),
         t \notin notified', pc[t] \notin {"publish", "loop"}
  PROVE  LinkInv'
PROOF
  <1>1. ASSUME NEW u \in Callers
        PROVE  u \in notified' => dbPc'[u] = "publish" /\ pc'[u] = "idle"
    BY DEF LinkInv
  <1>2. ASSUME NEW u \in Callers, pc'[u] \in {"publish", "loop"}
        PROVE  dbPc'[u] = "publish" /\ u \notin notified' /\ call'[u].key = KeyOf(u)'
    <2>1. u # t
      BY <1>2
    <2>2. dbPc'[u] = dbPc[u] /\ req'[u] = req[u] /\ (u \in notified' <=> u \in notified)
      BY <2>1
    <2> QED
      BY <1>2, <2>2 DEF LinkInv, KeyOf
  <1> QED
    BY <1>1, <1>2 DEF LinkInv

LEMMA LinkStep == ControlInv /\ DB!DInv /\ LinkInv /\ [ServerNext]_all => LinkInv'
PROOF
  <1> SUFFICES ASSUME ControlInv, DB!DInv, LinkInv, [ServerNext]_all
               PROVE  LinkInv'
    OBVIOUS
  <1>1. ASSUME NEW t \in Callers, BeginRequest(t)
        PROVE  LinkInv'
    <2>1. pc[t] = "idle" /\ pc' = pc /\ call' = call /\ notified' = notified
      BY <1>1 DEF BeginRequest, Idle, vars, callerVars, composed
    <2>2. t \notin notified
      BY <1>1, RequestEffect DEF LinkInv
    <2> QED
      BY <1>1, <2>1, <2>2, RequestEffect, LinkRequest
  <1>2. ASSUME NEW t \in Callers, DatabaseStep(t)
        PROVE  LinkInv'
    <2>1. DB!QuietStep(t) /\ pc' = pc /\ call' = call /\ notified' = notified
      BY <1>2, SameQuietStep DEF DatabaseStep, vars, callerVars
    <2>2. t \notin notified /\ pc[t] \notin {"publish", "loop"}
      BY <2>1, QuietStepEffect DEF LinkInv
    <2> QED
      BY <2>1, <2>2, QuietStepEffect, LinkRequest
  <1>3. ASSUME NEW t \in Callers, Notify(t)
        PROVE  LinkInv'
    <2>1. /\ dbPc' = dbPc /\ req' = req /\ notified' = notified
          /\ dbPc[t] = "publish" /\ t \notin notified
      BY <1>3 DEF Notify, store, composed
    <2>2. [NoCall EXCEPT !.key = KeyOf(t)] \in Call /\ TypeOK /\ "publish" \in CallerPc
      BY <2>1, KeyPublished DEF NoCall, Call, ControlInv, CallerPc
    <2>3. Moved(t) /\ pc'[t] = "publish" /\ call'[t] = [NoCall EXCEPT !.key = KeyOf(t)]
      BY <1>3, <2>2, EnterEffect DEF Notify, CallPublish
    <2>4. call'[t].key = KeyOf(t)
      BY <2>3 DEF NoCall
    <2> QED
      BY <2>1, <2>3, <2>4, LinkMoved
  <1>4. ASSUME NEW t \in Callers, NotifyAll(t) \/ \E id \in Ids : NotifyOneOf(t, id)
        PROVE  LinkInv'
    <2>1. dbPc' = dbPc /\ req' = req /\ ReturnTo(t)
      BY <1>4 DEF NotifyAll, NotifyOneOf, store
    <2>2. /\ Moved(t) /\ pc[t] \in {"publish", "loop"}
          /\ pc'[t] = "idle" \/ (pc'[t] = "loop" /\ call'[t] = call[t])
      BY <1>4, PublishEffect, PushEffect DEF NotifyAll, NotifyOneOf
    <2> QED
      BY <2>1, <2>2, LinkMoved DEF ReturnTo, LinkInv
  <1>5. ASSUME NEW t \in Callers, Notified(t)
        PROVE  LinkInv'
    <2>1. pc' = pc /\ call' = call /\ notified' = notified \ {t} /\ t \in notified
      BY <1>5 DEF Notified, vars, callerVars
    <2>2. pc[t] = "idle"
      BY <2>1 DEF LinkInv
    <2> QED
      BY <1>5, <2>1, <2>2, NotifiedEffect, LinkRequest
  <1>6. ASSUME NEW t \in Callers, Subscribing(t) \/ HandlerStep(t)
        PROVE  LinkInv'
    <2>1. dbPc' = dbPc /\ req' = req /\ notified' = notified
      BY <1>6 DEF Subscribing, HandlerStep, Elsewhere, store, composed
    <2>2. t \notin notified
      BY <1>6 DEF Subscribing, Free, HandlerStep, LinkInv, CallerStep, Subscribe, GrpcRegister,
         Unsubscribe, GrpcErase, UnsubscribeAll, GrpcClear, Publish, Push
    <2> QED
      BY <1>6, <2>1, <2>2, SubscribingEffect, LinkMoved
  <1>7. CASE Sessions
    <2>1. dbPc' = dbPc /\ req' = req /\ notified' = notified /\ IoThread \in Callers
      BY <1>7 DEF Sessions, Elsewhere, store, composed, Callers
    <2>2. IoThread \notin notified
      BY <1>7, <2>1 DEF Sessions, Free, LinkInv
    <2>3. CASE \E id \in Ids : CallUnsubscribeWs(id)
      BY <2>1, <2>2, <2>3, SubscribingEffect, LinkMoved
    <2>4. CASE \E w \in WsChannels : AddClient(w) \/ RemoveClient(w)
      BY <2>1, <2>4, ThreadsStay DEF LinkInv, KeyOf
    <2> QED
      BY <1>7, <2>3, <2>4 DEF Sessions
  <1>8. CASE (OwnerStep \/ RunnerStep \/ SpuriousWakeup) /\ Elsewhere
    <2>1. dbPc' = dbPc /\ req' = req /\ notified' = notified
      BY <1>8 DEF Elsewhere, store, composed
    <2> QED
      BY <1>8, <2>1, ThreadsStay DEF LinkInv, KeyOf
  <1>9. CASE UNCHANGED all
    BY <1>9 DEF all, store, composed, vars, callerVars, LinkInv, KeyOf
  <1> QED
    BY <1>1, <1>2, <1>3, <1>4, <1>5, <1>6, <1>7, <1>8, <1>9
       DEF ServerNext, ThreadStep, publishForVSSPath

(* A set has stored its value when it publishes, and its leaf holds it. *)
LEMMA StoredIsPublished ==
  ASSUME DB!DInv, NEW t \in Callers, dbPc[t] = "publish"
  PROVE  Value(KeyOf(t)) = req[t].val
PROOF
  <1> DEFINE s == req[t].sig  a == req[t].attr
  <1>1. data[s] = [node[t] EXCEPT !.value[a] = req[t].val]
    BY SameCallers DEF DB!DInv, DB!CopyInv, DB!LeafOf, DB!Replaced
  <1>2. node[t] \in DB!Leaf /\ a \in DB!Attrs
    BY SameCallers DEF DB!DInv, DB!TypeOK, DB!Request
  <1>3. data[s].value[a] = req[t].val
    BY <1>1, <1>2 DEF DB!Leaf, DB!Values
  <1> QED
    BY <1>3, KeyPublished DEF Value

(* Values change where a set stores its own, and where updateMetaData writes back. *)
LEMMA ValueEffect ==
  ASSUME DB!DInv, NEW t \in Callers, DB!QuietStep(t), dbPc[t] \notin {"replace", "applyData"},
         NEW k \in Keys, Value(k)' # Value(k)
  PROVE  dbPc'[t] = "publish" /\ KeyOf(t) = k
PROOF
  <1>1. /\ dbPc \in [Callers -> DB!Locations] /\ data \in [Signals -> DB!Leaf]
        /\ node[t] \in DB!Leaf /\ req[t].attr \in DB!Attrs
    BY SameCallers DEF DB!DInv, DB!TypeOK, DB!Request
  <1>2. k[1] \in Signals /\ k[2] \in DB!Attrs /\ k = <<k[1], k[2]>>
    BY ServerConstants, SameConstants
  <1>3. data' # data
    BY DEF Value
  <1>4. CASE DB!Store(t)
    <2>1. dbPc[t] = "store" /\ dbPc'[t] = "publish"
      BY <1>1, <1>4 DEF DB!Store, DB!Goto
    <2>2. data' = [data EXCEPT ![req[t].sig] = [node[t] EXCEPT !.value[req[t].attr] = req[t].val]]
      BY <1>4 DEF DB!Store
    <2>3. node[t] = data[req[t].sig]
      BY <2>1, SameCallers DEF DB!DInv, DB!CopyInv, DB!LeafOf
    <2>4. req[t].sig = k[1]
      BY <1>1, <1>2, <2>2 DEF Value
    <2>5. data'[k[1]] = [node[t] EXCEPT !.value[req[t].attr] = req[t].val]
      BY <1>1, <1>2, <2>2, <2>4
    <2>6. ASSUME k[2] # req[t].attr
          PROVE  data'[k[1]].value[k[2]] = node[t].value[k[2]]
      BY <1>1, <1>2, <2>5, <2>6 DEF DB!Leaf, DB!Values
    <2>7. req[t].attr = k[2]
      BY <2>3, <2>4, <2>6 DEF Value
    <2> QED
      BY <1>2, <2>1, <2>4, <2>7 DEF KeyOf
  <1>5. CASE DB!ApplyData /\ t = IoThread
    BY <1>5 DEF DB!ApplyData
  <1>6. CASE t = IoThread /\ DB!MetaReplace
    BY <1>6 DEF DB!MetaReplace
  <1> QED
    BY <1>3, <1>4, <1>5, <1>6 DEF DB!QuietStep, DB!UpdateStep, DB!CheckWritable,
       DB!CheckAttributable, DB!SetRead, DB!GetAttributable, DB!GetSignal, DB!MetaRead,
       DB!DiffMeta, DB!ApplyMeta, DB!DiffData, DB!trees

LEMMA ComposedTypeStep ==
  ComposedTypeOK /\ ControlInv /\ DB!DInv /\ [ServerNext]_all => ComposedTypeOK'
PROOF
  <1> SUFFICES ASSUME ComposedTypeOK, ControlInv, DB!DInv, [ServerNext]_all
               PROVE  ComposedTypeOK'
    OBVIOUS
  <1> USE DEF ComposedTypeOK
  <1>1. ASSUME NEW t \in Callers, DatabaseStep(t)
        PROVE  ComposedTypeOK'
    BY <1>1 DEF DatabaseStep, Replacing
  <1>2. ASSUME NEW t \in Callers, NotifyAll(t)
        PROVE  ComposedTypeOK'
    <2>1. dbPc[t] \in DB!Locations /\ req[t].val \in Nat
      BY SameCallers DEF DB!DInv, DB!TypeOK, DB!Request
    <2>2. call[t].key \in Keys
      BY <1>2, PublishEffect DEF NotifyAll
    <2>3. told' \in Seq([key: Keys, val: Nat])
      BY <1>2, <2>1, <2>2 DEF NotifyAll
    <2> QED
      BY <1>2, <2>3 DEF NotifyAll, ReturnTo
  <1>3. ASSUME NEW t \in Callers, NEW id \in Ids, NotifyOneOf(t, id)
        PROVE  ComposedTypeOK'
    BY <1>3 DEF NotifyOneOf, ReturnTo
  <1>4. ASSUME NEW t \in Callers, Notified(t)
        PROVE  ComposedTypeOK'
    BY <1>4 DEF Notified
  <1>5. ASSUME NEW t \in Callers,
               BeginRequest(t) \/ Notify(t) \/ Subscribing(t) \/ HandlerStep(t)
        PROVE  UNCHANGED composed
    BY <1>5 DEF BeginRequest, Notify, Subscribing, HandlerStep, Elsewhere
  <1>6. Sessions \/ Elsewhere \/ UNCHANGED all => UNCHANGED composed
    BY DEF Sessions, Elsewhere, all
  <1>7. UNCHANGED composed => ComposedTypeOK'
    BY DEF composed
  <1> QED
    BY <1>1, <1>2, <1>3, <1>4, <1>5, <1>6, <1>7 DEF ServerNext, ThreadStep, publishForVSSPath

(* Steps that neither publish nor change a value. *)
Unheard ==
  /\ UNCHANGED <<told, overwritten, data>>
  /\ \A u \in Callers : Untold(u) => Untold(u)' /\ KeyOf(u)' = KeyOf(u)

LEMMA UnheardTold == ToldInv /\ Unheard => ToldInv'
PROOF
  BY DEF ToldInv, Unheard, StoredUntold, Value

(* A step that moves one thread of the handler, which does not publish then. *)
LEMMA UnheardMoved ==
  ASSUME NEW t \in Callers, Moved(t), UNCHANGED <<told, overwritten, data, dbPc, req>>,
         \A u \in Callers \ {t} : u \in notified' <=> u \in notified,
         Untold(t) => pc'[t] # "loop" /\ t \notin notified'
  PROVE  Unheard
PROOF
  <1>1. ASSUME NEW u \in Callers, Untold(u)
        PROVE  Untold(u)' /\ KeyOf(u)' = KeyOf(u)
    <2>1. CASE u = t
      BY <1>1, <2>1 DEF Untold, KeyOf
    <2>2. CASE u # t
      BY <1>1, <2>2 DEF Untold, KeyOf, Moved
    <2> QED
      BY <2>1, <2>2
  <1> QED
    BY <1>1 DEF Unheard

LEMMA UnheardRequest ==
  ASSUME NEW t \in Callers, UNCHANGED <<told, overwritten, data, pc>>, ~Untold(t),
         \A u \in Callers \ {t} :
           dbPc'[u] = dbPc[u] /\ req'[u] = req[u] /\ (u \in notified' <=> u \in notified)
  PROVE  Unheard
PROOF
  <1>1. ASSUME NEW u \in Callers, Untold(u)
        PROVE  Untold(u)' /\ KeyOf(u)' = KeyOf(u)
    BY <1>1 DEF Untold, KeyOf
  <1> QED
    BY <1>1 DEF Unheard

LEMMA UnheardStep ==
  ASSUME ControlInv, DB!DInv, LinkInv, [ServerNext]_all,
         \A t \in Callers : ~DatabaseStep(t) /\ ~NotifyAll(t)
  PROVE  Unheard
PROOF
  <1>1. ASSUME NEW t \in Callers, BeginRequest(t)
        PROVE  Unheard
    <2>1. UNCHANGED <<told, overwritten, pc, notified>>
      BY <1>1 DEF BeginRequest, composed, vars, callerVars
    <2> QED
      BY <1>1, <2>1, RequestEffect, UnheardRequest DEF Untold
  <1>2. ASSUME NEW t \in Callers, Notify(t)
        PROVE  Unheard
    <2>1. UNCHANGED <<told, overwritten, notified, data, dbPc, req>>
      BY <1>2 DEF Notify, composed, store
    <2>2. [NoCall EXCEPT !.key = KeyOf(t)] \in Call /\ TypeOK /\ "publish" \in CallerPc
      BY <1>2, KeyPublished DEF Notify, NoCall, Call, ControlInv, CallerPc
    <2>3. Moved(t) /\ pc'[t] = "publish"
      BY <1>2, <2>2, EnterEffect DEF Notify, CallPublish
    <2> QED
      BY <2>1, <2>3, UnheardMoved DEF Untold
  <1>3. ASSUME NEW t \in Callers, NEW id \in Ids, NotifyOneOf(t, id)
        PROVE  Unheard
    <2>1. UNCHANGED <<told, overwritten, data, dbPc, req>> /\ ReturnTo(t)
      BY <1>3 DEF NotifyOneOf, store
    <2> QED
      BY <1>3, <2>1, PushEffect, UnheardMoved DEF NotifyOneOf, Untold, ReturnTo
  <1>4. ASSUME NEW t \in Callers, Notified(t)
        PROVE  Unheard
    <2>1. UNCHANGED <<told, overwritten, pc>> /\ notified' = notified \ {t} /\ t \in notified
      BY <1>4 DEF Notified, vars, callerVars
    <2> QED
      BY <1>4, <2>1, NotifiedEffect, UnheardRequest DEF Untold
  <1>5. ASSUME NEW t \in Callers,
               \/ Subscribing(t) \/ HandlerStep(t)
               \/ t = IoThread /\ Elsewhere /\ \E id \in Ids : CallUnsubscribeWs(id)
        PROVE  Unheard
    <2>1. UNCHANGED <<told, overwritten, notified, data, dbPc, req>>
      BY <1>5 DEF Subscribing, HandlerStep, Elsewhere, store, composed
    <2> QED
      BY <1>5, <2>1, SubscribingEffect, UnheardMoved DEF Untold
  <1>6. CASE /\ Elsewhere
             /\ \/ OwnerStep \/ RunnerStep \/ SpuriousWakeup
                \/ \E w \in WsChannels : AddClient(w) \/ RemoveClient(w)
    BY <1>6, ThreadsStay DEF Elsewhere, store, composed, Unheard, Untold, KeyOf
  <1>7. CASE UNCHANGED all
    BY <1>7 DEF all, vars, callerVars, store, composed, Unheard, Untold, KeyOf
  <1>8. IoThread \in Callers
    BY DEF Callers
  <1> QED
    BY <1>1, <1>2, <1>3, <1>4, <1>5, <1>6, <1>7, <1>8
       DEF ServerNext, ThreadStep, publishForVSSPath, Sessions

LEMMA ToldStep ==
  ComposedTypeOK /\ ControlInv /\ DB!DInv /\ LinkInv /\ ToldInv /\ [ServerNext]_all => ToldInv'
PROOF
  <1> SUFFICES ASSUME ComposedTypeOK, ControlInv, DB!DInv, LinkInv, ToldInv, [ServerNext]_all
               PROVE  ToldInv'
    OBVIOUS
  <1>1. ASSUME NEW t \in Callers, DatabaseStep(t)
        PROVE  ToldInv'
    <2>1. DB!QuietStep(t) /\ UNCHANGED <<told, pc, notified>>
      BY <1>1, SameQuietStep DEF DatabaseStep, vars, callerVars
    <2>2. ASSUME NEW k \in Keys, k \notin overwritten', ~StoredUntold(k)'
          PROVE  Value(k)' = Value(k) /\ k \notin overwritten /\ ~StoredUntold(k)
      <3>1. k \notin overwritten
        BY <1>1, <2>2 DEF DatabaseStep
      <3>2. ~StoredUntold(k)
        <4> SUFFICES ASSUME NEW u \in Callers, Untold(u), KeyOf(u) = k
                     PROVE  FALSE
          BY DEF StoredUntold
        <4>1. u # t
          BY <2>1, QuietStepEffect DEF Untold
        <4>2. dbPc'[u] = dbPc[u] /\ req'[u] = req[u]
          BY <2>1, <4>1, QuietStepEffect
        <4> QED
          BY <2>1, <2>2, <4>2 DEF StoredUntold, Untold, KeyOf
      <3>3. Value(k)' = Value(k)
        <4>1. CASE dbPc[t] \in {"replace", "applyData"}
          BY <1>1, <2>2, <4>1 DEF DatabaseStep, Replacing, Value
        <4>2. CASE dbPc[t] \notin {"replace", "applyData"}
          <5> SUFFICES ASSUME Value(k)' # Value(k)
                       PROVE  FALSE
            OBVIOUS
          <5>1. dbPc'[t] = "publish" /\ KeyOf(t) = k
            BY <2>1, <4>2, ValueEffect
          <5>2. dbPc[t] = "store" /\ req' = req
            BY <2>1, <5>1, QuietStepEffect
          <5>3. Untold(t)' /\ KeyOf(t)' = k
            BY <2>1, <5>1, <5>2 DEF LinkInv, Untold, KeyOf
          <5> QED
            BY <2>2, <5>3 DEF StoredUntold
        <4> QED
          BY <4>1, <4>2
      <3> QED
        BY <3>1, <3>2, <3>3
    <2> QED
      BY <2>1, <2>2 DEF ToldInv
  <1>2. ASSUME NEW t \in Callers, NotifyAll(t)
        PROVE  ToldInv'
    <2> DEFINE last == [key |-> call[t].key, val |-> req[t].val]
               n == Len(told)
    <2>1. /\ n \in Nat /\ DOMAIN told = 1 .. n /\ DOMAIN told' = 1 .. (n + 1)
          /\ told'[n + 1] = last /\ \A i \in 1 .. n : told'[i] = told[i]
      BY <1>2 DEF NotifyAll, ComposedTypeOK
    <2>2. /\ UNCHANGED <<data, dbPc, req>> /\ overwritten' = overwritten \ {call[t].key}
          /\ ReturnTo(t)
      BY <1>2 DEF NotifyAll, store
    <2>3. Moved(t) /\ pc[t] = "publish"
      BY <1>2, PublishEffect DEF NotifyAll
    <2>4. dbPc[t] = "publish" /\ call[t].key = KeyOf(t)
      BY <2>3 DEF LinkInv
    <2>5. last.key = KeyOf(t) /\ last.val = Value(KeyOf(t))
      BY <2>4, StoredIsPublished
    <2> HIDE DEF last, n
    <2>6. ASSUME NEW k \in Keys, k # KeyOf(t), StoredUntold(k)
          PROVE  StoredUntold(k)'
      <3>1. PICK u \in Callers : Untold(u) /\ KeyOf(u) = k
        BY <2>6 DEF StoredUntold
      <3>2. u # t
        BY <2>6, <3>1
      <3> QED
        BY <2>2, <2>3, <3>1, <3>2 DEF StoredUntold, Untold, KeyOf, ReturnTo, Moved
    <2>7. ASSUME NEW k \in Keys, NEW i \in DOMAIN told', told'[i].key = k,
                 \A j \in DOMAIN told' : told'[j].key = k => j <= i,
                 k \notin overwritten', ~StoredUntold(k)'
          PROVE  told'[i].val = Value(k)'
      <3>1. CASE k = KeyOf(t)
        <4>1. i = n + 1
          BY <2>1, <2>5, <2>7, <3>1
        <4> QED
          BY <2>1, <2>2, <2>5, <3>1, <4>1 DEF Value
      <3>2. CASE k # KeyOf(t)
        <4>1. i \in 1 .. n
          BY <2>1, <2>5, <2>7, <3>2
        <4>2. k \notin overwritten /\ ~StoredUntold(k)
          BY <2>2, <2>4, <2>6, <2>7, <3>2
        <4>3. told[i].key = k /\ \A j \in DOMAIN told : told[j].key = k => j <= i
          BY <2>1, <2>7, <4>1
        <4>4. told[i].val = Value(k)
          BY <2>1, <4>1, <4>2, <4>3 DEF ToldInv
        <4> QED
          BY <2>1, <2>2, <4>1, <4>4 DEF Value
      <3> QED
        BY <3>1, <3>2
    <2> QED
      BY <2>7 DEF ToldInv
  <1> QED
    BY <1>1, <1>2, UnheardStep, UnheardTold

-----------------------------------------------------------------------------
(* Events, and what has become of them *)

(* Only a publication is told. *)
LEMMA Telling ==
  ASSUME ControlInv, DB!DInv, [ServerNext]_all
  PROVE  \/ \E t \in Callers : NotifyAll(t)
         \/ UNCHANGED <<told, publications>>
PROOF
  <1>1. ASSUME NEW t \in Callers, BeginRequest(t) \/ DatabaseStep(t) \/ Notified(t)
        PROVE  UNCHANGED <<told, publications>>
    BY <1>1 DEF BeginRequest, DatabaseStep, Notified, vars, history, composed
  <1>2. ASSUME NEW t \in Callers, Notify(t) \/ Subscribing(t)
        PROVE  UNCHANGED <<told, publications>>
    <2>1. CASE Notify(t)
      BY <2>1 DEF Notify, CallPublish, composed, history
    <2>2. CASE Subscribing(t)
      BY <2>2, ClientQuiet DEF Subscribing, Quiet, Elsewhere, composed
    <2> QED
      BY <1>2, <2>1, <2>2
  <1>3. ASSUME NEW t \in Callers, NEW id \in Ids, NotifyOneOf(t, id)
        PROVE  UNCHANGED <<told, publications>>
    BY <1>3 DEF NotifyOneOf, Push, history
  <1>4. ASSUME NEW t \in Callers, HandlerStep(t)
        PROVE  UNCHANGED <<told, publications>>
    BY <1>4 DEF HandlerStep, Elsewhere, composed, CallerStep, Subscribe, GrpcRegister,
       Unsubscribe, GrpcErase, UnsubscribeAll, GrpcClear, Publish, Push, history
  <1>5. CASE Sessions
    BY <1>5, ClientQuiet, LifeQuiet DEF Sessions, Elsewhere, composed, Quiet, Callers
  <1>6. CASE (OwnerStep \/ RunnerStep \/ SpuriousWakeup) /\ Elsewhere
    <2>1. CASE OwnerStep
      BY <1>6, <2>1, LifeQuiet DEF Elsewhere, composed, Quiet
    <2>2. CASE RunnerStep \/ SpuriousWakeup
      BY <1>6, <2>2 DEF Elsewhere, composed, history, RunnerStep, SpuriousWakeup, CheckRun,
         CheckSize, Pop, SendToConnection, ConnectionGone, CleanUp, NoStream, FindStream,
         WriteStream, Terminate, Wait, Wake
    <2> QED
      BY <1>6, <2>1, <2>2
  <1>7. CASE UNCHANGED all
    BY <1>7 DEF all, vars, history, composed
  <1> QED
    BY <1>1, <1>2, <1>3, <1>4, <1>5, <1>6, <1>7 DEF ServerNext, ThreadStep, publishForVSSPath

(* Steps that leave the events, the loops and what has been sent alone. *)
Undisturbed ==
  /\ UNCHANGED <<buffer, sent, publications, todo>>
  /\ InFlight' => InFlight /\ newSub' = newSub
  /\ \A t \in Callers : pc'[t] = "loop" => pc[t] = "loop" /\ call'[t] = call[t]

LEMMA MostUndisturbed ==
  ASSUME ControlInv, [Next]_vars,
         \A t \in Callers : ~Publish(t) /\ \A id \in Ids : ~Push(t, id),
         ~Pop, ~SendToConnection, ~WriteStream
  PROVE  Undisturbed /\ (~CleanUp /\ ~NoStream => (InFlight' <=> InFlight))
PROOF
  <1> USE DEF Undisturbed, InFlight, handlerVars, runnerVars, callerVars, history
  <1>0. pc \in [Callers -> CallerPc] /\ call \in [Callers -> Call]
    BY DEF ControlInv, TypeOK
  <1>1. CASE OwnerStep \/ BeginStop
    BY <1>1 DEF OwnerStep, StartThread, StopThread, Join, BeginStop, NotifyOne
  <1>2. CASE \E w \in WsChannels : AddClient(w) \/ RemoveClient(w)
    BY <1>2 DEF AddClient, RemoveClient
  <1>3. CASE \E id \in Ids : CallUnsubscribeWs(id)
    BY <1>0, <1>3 DEF CallUnsubscribeWs, Enter, Callers
  <1>4. ASSUME NEW t \in Callers, ClientStep(t)
        PROVE  Undisturbed /\ (InFlight' <=> InFlight)
    BY <1>0, <1>4 DEF ClientStep, CallSubscribe, CallUnsubscribeGrpc, EndStream, CallPublish, Enter
  <1>5. ASSUME NEW t \in Callers, CallerStep(t)
        PROVE  Undisturbed /\ (InFlight' <=> InFlight)
    <2>1. UNCHANGED <<buffer, sent, publications, todo, rpc, newSub>>
      BY <1>5 DEF CallerStep, Subscribe, GrpcRegister, Unsubscribe, GrpcErase,
         UnsubscribeAll, GrpcClear
    <2>2. \A u \in Callers : pc'[u] = "loop" => pc[u] = "loop" /\ call'[u] = call[u]
      BY <1>0, <1>5 DEF CallerStep, Subscribe, GrpcRegister, Unsubscribe, GrpcErase,
         UnsubscribeAll, GrpcClear, Enter, Goto, Return
    <2> QED
      BY <2>1, <2>2
  <1>6. CASE RunnerStep \/ SpuriousWakeup
    BY <1>6 DEF RunnerStep, SpuriousWakeup, CheckRun, CheckSize, ConnectionGone, CleanUp,
       NoStream, FindStream, Terminate, Wait, Wake, RunnerGoto, Unlock, NextIteration
  <1>7. CASE UNCHANGED vars
    BY <1>7 DEF vars
  <1> QED
    BY <1>1, <1>2, <1>3, <1>4, <1>5, <1>6, <1>7 DEF Next

(* Steps that make no subscription. *)
Kept ==
  /\ DOMAIN told \subseteq DOMAIN told' /\ \A i \in DOMAIN told : told'[i] = told[i]
  /\ issued \subseteq issued' /\ accepted \subseteq accepted'
  /\ \A k \in Keys, id \in Ids : subscriptions'[k][id] \in {subscriptions[k][id], None}

LEMMA AcceptedGrows == [Next]_vars => accepted \subseteq accepted'
PROOF
  BY DEF Next, vars, history, OwnerStep, StartThread, StopThread, Join, BeginStop, AddClient,
     RemoveClient, CallUnsubscribeWs, ClientStep, CallSubscribe, CallUnsubscribeGrpc, EndStream,
     CallPublish, CallerStep, Subscribe, GrpcRegister, Unsubscribe, GrpcErase, UnsubscribeAll,
     GrpcClear, Publish, Push, RunnerStep, SpuriousWakeup, CheckRun, CheckSize, Pop,
     SendToConnection, ConnectionGone, CleanUp, NoStream, FindStream, WriteStream, Terminate, Wait, Wake

LEMMA MostKept ==
  ASSUME ControlInv, StreamInv, RegisteredInv, [Next]_vars,
         DOMAIN told \subseteq DOMAIN told', \A i \in DOMAIN told : told'[i] = told[i],
         \A t \in Callers : ~Subscribe(t)
  PROVE  Kept
PROOF
  <1>1. accepted \subseteq accepted'
    BY AcceptedGrows
  <1>2. CASE \E t \in Callers, id \in Ids : Push(t, id)
    BY <1>1, <1>2 DEF Push, Kept, history
  <1>3. CASE \E t \in Callers, ch \in Channels, k \in Keys, id \in Ids : CallSubscribe(t, ch, k, id)
    BY <1>1, <1>3 DEF CallSubscribe, Kept, handlerVars
  <1>4. CASE Fewer
    BY <1>1, <1>4 DEF Fewer, Kept
  <1> QED
    BY <1>2, <1>3, <1>4, MostAreFewer

(* A caller wakes the runner up at most. *)
LEMMA CallersLeave ==
  ASSUME NEW t \in Callers,
         ClientStep(t) \/ CallerStep(t) \/ \E id \in Ids : CallUnsubscribeWs(id)
  PROVE  /\ UNCHANGED <<newSub, sent, connected, accepted>>
         /\ rpc' = rpc \/ (rpc = "waiting" /\ rpc' = "woken")
PROOF
  <1> USE DEF runnerVars, channelVars, history
  <1>1. CASE ClientStep(t) \/ \E id \in Ids : CallUnsubscribeWs(id)
    BY <1>1 DEF ClientStep, CallSubscribe, CallUnsubscribeGrpc, EndStream, CallPublish,
       CallUnsubscribeWs
  <1>2. CASE \/ Subscribe(t) \/ GrpcRegister(t) \/ Unsubscribe(t) \/ GrpcErase(t)
             \/ UnsubscribeAll(t) \/ GrpcClear(t) \/ Publish(t)
    BY <1>2 DEF Subscribe, GrpcRegister, Unsubscribe, GrpcErase, UnsubscribeAll, GrpcClear, Publish
  <1>3. CASE \E id \in Ids : Push(t, id)
    BY <1>3 DEF Push, NotifyOne
  <1> QED
    BY <1>1, <1>2, <1>3 DEF CallerStep

(* Who is connected, and where a clean-up begins, changes with the sessions. *)
LEMMA ConnectedEffect ==
  ASSUME [Next]_vars
  PROVE  /\ \/ UNCHANGED <<connected, accepted>>
            \/ \E w \in WsChannels : AddClient(w) \/ RemoveClient(w)
         /\ rpc' = "cleanup" => newSub' = newSub /\ (rpc = "cleanup" \/ ConnectionGone)
PROOF
  <1> USE DEF handlerVars, runnerVars, channelVars, history
  <1>1. CASE RunnerStep \/ SpuriousWakeup
    BY <1>1 DEF RunnerStep, SpuriousWakeup, CheckRun, CheckSize, Pop, SendToConnection,
       ConnectionGone, CleanUp, NoStream, FindStream, WriteStream, Terminate, Wait, Wake, RunnerGoto,
       Unlock, NextIteration
  <1>2. CASE OwnerStep \/ BeginStop
    BY <1>2 DEF OwnerStep, StartThread, StopThread, Join, BeginStop, NotifyOne
  <1>3. CASE \E w \in WsChannels : AddClient(w) \/ RemoveClient(w)
    BY <1>3 DEF AddClient, RemoveClient
  <1>4. CASE \/ \E id \in Ids : CallUnsubscribeWs(id)
             \/ \E t \in Callers : ClientStep(t) \/ CallerStep(t)
    BY <1>4, CallersLeave DEF Callers
  <1>5. CASE UNCHANGED vars
    BY <1>5 DEF vars
  <1> QED
    BY <1>1, <1>2, <1>3, <1>4, <1>5 DEF Next

(* A subscribe call that is under way has been so, or has just been made. *)
LEMMA SubscribeCalls ==
  ASSUME ControlInv, [Next]_vars, NEW t \in Callers, pc'[t] = "subscribe"
  PROVE  \/ pc[t] = "subscribe" /\ call'[t] = call[t]
         \/ \E ch \in Channels, k \in Keys, id \in Ids :
              CallSubscribe(t, ch, k, id) /\ call'[t] = [key |-> k, id |-> id, chan |-> ch]
PROOF
  <1>0. pc \in [Callers -> CallerPc] /\ call \in [Callers -> Call]
    BY DEF ControlInv, TypeOK
  <1>1. CASE \/ RunnerStep \/ SpuriousWakeup \/ OwnerStep \/ UNCHANGED vars
             \/ \E w \in WsChannels : AddClient(w) \/ RemoveClient(w)
    BY <1>1, ThreadsStay DEF vars, callerVars
  <1>2. CASE BeginStop
    BY <1>2 DEF BeginStop, callerVars
  <1>3. CASE \E id \in Ids : CallUnsubscribeWs(id)
    BY <1>0, <1>3 DEF CallUnsubscribeWs, Enter
  <1>4. ASSUME NEW u \in Callers, CallerStep(u)
        PROVE  pc[t] = "subscribe" /\ call'[t] = call[t]
    <2>1. CASE Publish(u) \/ \E id \in Ids : Push(u, id)
      BY <2>1, PublishEffect, PushEffect DEF Moved
    <2>2. CASE \/ Subscribe(u) \/ GrpcRegister(u) \/ Unsubscribe(u)
               \/ GrpcErase(u) \/ UnsubscribeAll(u) \/ GrpcClear(u)
      BY <1>0, <2>2 DEF Subscribe, GrpcRegister, Unsubscribe, GrpcErase, UnsubscribeAll,
         GrpcClear, Enter, Goto, Return
    <2> QED
      BY <1>4, <2>1, <2>2 DEF CallerStep
  <1>5. ASSUME NEW u \in Callers, ClientStep(u)
        PROVE  \/ pc[t] = "subscribe" /\ call'[t] = call[t]
               \/ \E ch \in Channels, k \in Keys, id \in Ids :
                    CallSubscribe(t, ch, k, id) /\ call'[t] = [key |-> k, id |-> id, chan |-> ch]
    <2>1. ASSUME NEW ch \in Channels, NEW k \in Keys, NEW id \in Ids, CallSubscribe(u, ch, k, id)
          PROVE  \/ pc[t] = "subscribe" /\ call'[t] = call[t]
                 \/ CallSubscribe(t, ch, k, id) /\ call'[t] = [key |-> k, id |-> id, chan |-> ch]
      BY <1>0, <2>1 DEF CallSubscribe, Enter
    <2>2. CASE \/ \E g \in GrpcChannels, k \in Keys : CallUnsubscribeGrpc(u, g, k)
               \/ \E g \in GrpcChannels : EndStream(u, g)
               \/ \E k \in Keys : CallPublish(u, k)
      BY <1>0, <2>2 DEF CallUnsubscribeGrpc, EndStream, CallPublish, Enter
    <2> QED
      BY <1>5, <2>1, <2>2 DEF ClientStep
  <1> QED
    BY <1>1, <1>2, <1>3, <1>4, <1>5 DEF Next

(* A subscription appears under the channel of its call. *)
LEMMA SubscribeEntry ==
  ASSUME ControlInv, NEW t \in Callers, Subscribe(t)
  PROVE  /\ pc[t] = "subscribe"
         /\ call[t].key \in Keys /\ call[t].id \in Ids /\ call[t].chan \in Channels
         /\ \A k \in Keys, id \in Ids :
              subscriptions'[k][id] = IF k = call[t].key /\ id = call[t].id
                                      THEN call[t].chan ELSE subscriptions[k][id]
PROOF
  BY DEF Subscribe, ControlInv, TypeOK, CallInv

LEMMA AcceptedStep ==
  AllInv /\ EventInv /\ AcceptedInv /\ [Next]_vars => AcceptedInv'
PROOF
  <1> SUFFICES ASSUME AllInv, EventInv, AcceptedInv, [Next]_vars
               PROVE  AcceptedInv'
    OBVIOUS
  <1>0. ControlInv /\ StreamInv /\ RegisteredInv /\ accepted \subseteq accepted'
    BY AcceptedGrows DEF AllInv
  <1>1. connected' \subseteq accepted'
    BY <1>0, ConnectedEffect DEF AcceptedInv, AddClient, RemoveClient, history
  <1>2. ASSUME NEW k \in Keys, NEW id \in Ids, subscriptions'[k][id] \in WsChannels
        PROVE  subscriptions'[k][id] \in accepted'
    <2>1. CASE \E t \in Callers : Subscribe(t)
      BY <1>0, <1>2, <2>1, SubscribeEntry DEF AcceptedInv
    <2>2. CASE \A t \in Callers : ~Subscribe(t)
      <3>1. subscriptions'[k][id] \in {subscriptions[k][id], None}
        <4>1. CASE \E t \in Callers, i \in Ids : Push(t, i)
          BY <4>1 DEF Push
        <4>2. CASE \E t \in Callers, ch \in Channels, j \in Keys, i \in Ids : CallSubscribe(t, ch, j, i)
          BY <4>2 DEF CallSubscribe, handlerVars
        <4> QED
          BY <1>0, <2>2, <4>1, <4>2, MostAreFewer DEF Fewer
      <3>2. None \notin WsChannels
        BY Distinct DEF Channels
      <3> QED
        BY <1>0, <1>2, <3>1, <3>2 DEF AcceptedInv
    <2> QED
      BY <2>1, <2>2
  <1>3. ASSUME NEW t \in Callers, pc'[t] = "subscribe", call'[t].chan \in WsChannels
        PROVE  call'[t].chan \in accepted'
    <2>1. CASE pc[t] = "subscribe" /\ call'[t] = call[t]
      BY <1>0, <1>3, <2>1 DEF AcceptedInv
    <2>2. ASSUME NEW ch \in Channels, NEW k \in Keys, NEW id \in Ids, CallSubscribe(t, ch, k, id),
                 call'[t] = [key |-> k, id |-> id, chan |-> ch]
          PROVE  call'[t].chan \in accepted'
      BY <1>0, <1>3, <2>2, Distinct DEF CallSubscribe, MayServe, AcceptedInv
    <2> QED
      BY <1>0, <1>3, <2>1, <2>2, SubscribeCalls
  <1>4. ASSUME rpc' = "cleanup"
        PROVE  newSub'.chan \notin connected'
    <2>1. newSub' = newSub /\ (rpc = "cleanup" \/ ConnectionGone)
      BY <1>4, ConnectedEffect
    <2>2. CASE ConnectionGone
      BY <2>1, <2>2 DEF ConnectionGone, channelVars
    <2>3. CASE rpc = "cleanup"
      <3>1. newSub.chan \in accepted /\ newSub.chan \notin connected
        BY <1>0, <2>3 DEF StreamInv, ServeInv, EventInv, InFlight, OfKey, AcceptedInv
      <3> QED
        BY <2>1, <3>1, ConnectedEffect DEF AddClient, RemoveClient
    <2> QED
      BY <2>1, <2>2, <2>3
  <1> QED
    BY <1>1, <1>2, <1>3, <1>4 DEF AcceptedInv

(* What the runner has in its hands, and what is sent, is its own doing. *)
LEMMA RunnerEffect ==
  ASSUME [Next]_vars
  PROVE  /\ rpc' = "writing" => newSub' = newSub /\ (rpc = "writing" \/ FindStream)
         /\ InFlight' => Pop \/ (InFlight /\ newSub' = newSub)
         /\ sent' = sent \/ SendToConnection \/ WriteStream
PROOF
  <1> USE DEF handlerVars, runnerVars, channelVars, history, InFlight
  <1>1. CASE RunnerStep \/ SpuriousWakeup
    BY <1>1 DEF RunnerStep, SpuriousWakeup, CheckRun, CheckSize, Pop, SendToConnection,
       ConnectionGone, CleanUp, NoStream, FindStream, WriteStream, Terminate, Wait, Wake, RunnerGoto,
       Unlock, NextIteration
  <1>2. CASE OwnerStep \/ BeginStop
    BY <1>2 DEF OwnerStep, StartThread, StopThread, Join, BeginStop, NotifyOne
  <1>3. CASE \E w \in WsChannels : AddClient(w) \/ RemoveClient(w)
    BY <1>3 DEF AddClient, RemoveClient
  <1>4. CASE \/ \E id \in Ids : CallUnsubscribeWs(id)
             \/ \E t \in Callers : ClientStep(t) \/ CallerStep(t)
    BY <1>4, CallersLeave DEF Callers
  <1>5. CASE UNCHANGED vars
    BY <1>5 DEF vars
  <1> QED
    BY <1>1, <1>2, <1>3, <1>4, <1>5 DEF Next

LEMMA RegisterCalls ==
  ASSUME ControlInv, [Next]_vars, NEW t \in Callers, pc'[t] = "register"
  PROVE  call'[t] = call[t] /\ (pc[t] = "register" \/ Subscribe(t))
PROOF
  <1>0. pc \in [Callers -> CallerPc] /\ call \in [Callers -> Call]
    BY DEF ControlInv, TypeOK
  <1>1. CASE \/ RunnerStep \/ SpuriousWakeup \/ OwnerStep \/ UNCHANGED vars
             \/ \E w \in WsChannels : AddClient(w) \/ RemoveClient(w)
    BY <1>1, ThreadsStay DEF vars, callerVars
  <1>2. CASE BeginStop
    BY <1>2 DEF BeginStop, callerVars
  <1>3. CASE \E id \in Ids : CallUnsubscribeWs(id)
    BY <1>0, <1>3 DEF CallUnsubscribeWs, Enter
  <1>4. ASSUME NEW u \in Callers, CallerStep(u)
        PROVE  call'[t] = call[t] /\ (pc[t] = "register" \/ Subscribe(t))
    <2>1. CASE Publish(u) \/ \E id \in Ids : Push(u, id)
      BY <2>1, PublishEffect, PushEffect DEF Moved
    <2>2. CASE \/ GrpcRegister(u) \/ Unsubscribe(u)
               \/ GrpcErase(u) \/ UnsubscribeAll(u) \/ GrpcClear(u)
      BY <1>0, <2>2 DEF GrpcRegister, Unsubscribe, GrpcErase, UnsubscribeAll,
         GrpcClear, Enter, Goto, Return
    <2>3. CASE Subscribe(u)
      BY <1>0, <2>3 DEF Subscribe, Enter, Goto, Return
    <2> QED
      BY <1>4, <2>1, <2>2, <2>3 DEF CallerStep
  <1>5. ASSUME NEW u \in Callers, ClientStep(u)
        PROVE  call'[t] = call[t] /\ pc[t] = "register"
    BY <1>0, <1>5 DEF ClientStep, CallSubscribe, CallUnsubscribeGrpc, EndStream, CallPublish, Enter
  <1> QED
    BY <1>1, <1>2, <1>3, <1>4, <1>5 DEF Next

(* The stream of a subscription in the making is not there yet, and its entry of
   the map, if there is one, is that of a stream.                              *)
LEMMA Registering ==
  ASSUME ControlInv, StreamInv, NEW t \in Callers, pc[t] \in {"subscribe", "register"}
  PROVE  /\ call[t].id \in Ids
         /\ \A g \in GrpcChannels : call[t].id \notin grpcSubsMap[g]
         /\ pc[t] = "register" =>
              /\ call[t].key \in Keys /\ call[t].chan \in GrpcChannels
              /\ subscriptions[call[t].key][call[t].id] = call[t].chan
PROOF
  <1>1. t = IoThread => pc[t] # "register"
    BY DEF ControlInv, CallInv, StreamInv, ServeInv
  <1> QED
    BY <1>1 DEF Callers, ControlInv, CallInv, StreamInv, HoldsInv

LEMMA FreshStep ==
  AllInv /\ EventInv /\ FreshInv /\ AcceptedInv /\ [Next]_vars => FreshInv'
PROOF
  <1> SUFFICES ASSUME AllInv, EventInv, FreshInv, AcceptedInv, [Next]_vars
               PROVE  FreshInv'
    OBVIOUS
  <1>0. /\ ControlInv /\ StreamInv /\ RegisteredInv
        /\ buffer \in Seq(Event) /\ sent \in [Ids -> Nat] /\ connected \subseteq WsChannels
        /\ InFlight => newSub \in Event
    BY DEF AllInv, ControlInv, TypeOK, MutexInv
  <1>1. ASSUME NEW t \in Callers, NEW ch \in Channels, NEW k \in Keys, NEW id \in Ids,
               CallSubscribe(t, ch, k, id)
        PROVE  sent'[id] = 0 /\ ~ (InFlight' /\ newSub'.id = id)
    <2>1. id \notin issued /\ UNCHANGED <<sent, rpc, newSub>>
      BY <1>1 DEF CallSubscribe, runnerVars
    <2> QED
      BY <2>1 DEF EventInv, OfKey, InFlight
  <1>2. ASSUME NEW t \in Callers, pc[t] \in {"subscribe", "register"}
        PROVE  /\ sent'[call[t].id] = 0
               /\ ~ (rpc' = "writing" /\ newSub'.id = call[t].id)
               /\ pc[t] = "subscribe" => ~ (InFlight' /\ newSub'.id = call[t].id)
    <2> DEFINE id == call[t].id
    <2>1. /\ id \in Ids /\ sent[id] = 0 /\ ~ (rpc = "writing" /\ newSub.id = id)
          /\ pc[t] = "subscribe" => ~ (InFlight /\ newSub.id = id)
          /\ \A g \in GrpcChannels : id \notin grpcSubsMap[g]
      BY <1>0, <1>2, Registering DEF FreshInv
    <2>2. ~ (SendToConnection /\ newSub.id = id)
      <3> SUFFICES ASSUME SendToConnection, newSub.id = id
                   PROVE  FALSE
        OBVIOUS
      <3>1. InFlight /\ newSub.chan \in WsChannels
        BY <1>0 DEF SendToConnection, InFlight
      <3>2. pc[t] = "register"
        BY <1>2, <2>1, <3>1
      <3>3. /\ subscriptions[call[t].key][id] = call[t].chan
            /\ call[t].key \in Keys /\ call[t].chan \in GrpcChannels
        BY <1>0, <3>2, Registering
      <3>4. call[t].chan # None
        BY <3>3, Distinct DEF Channels
      <3>5. newSub.chan = call[t].chan
        BY <3>1, <3>3, <3>4 DEF EventInv, OfKey
      <3> QED
        BY <3>1, <3>3, <3>5, Distinct
    <2>3. sent'[id] = 0
      <3>1. CASE sent' = sent
        BY <2>1, <3>1
      <3>2. CASE SendToConnection \/ WriteStream
        BY <1>0, <2>1, <2>2, <3>2 DEF SendToConnection, WriteStream
      <3> QED
        BY <3>1, <3>2, RunnerEffect
    <2>4. ~ (rpc' = "writing" /\ newSub'.id = id)
      <3> SUFFICES ASSUME rpc' = "writing", newSub'.id = id
                   PROVE  FALSE
        OBVIOUS
      <3>1. newSub.id = id /\ FindStream
        BY <2>1, RunnerEffect
      <3> QED
        BY <2>1, <3>1 DEF FindStream
    <2>5. ASSUME pc[t] = "subscribe", InFlight', newSub'.id = id
          PROVE  FALSE
      <3>1. Pop
        BY <2>1, <2>5, RunnerEffect
      <3>2. buffer # <<>> /\ newSub' = Head(buffer)
        BY <1>0, <3>1 DEF Pop, ControlInv, FrontDefined
      <3>3. 1 \in DOMAIN buffer /\ newSub' = buffer[1]
        BY <1>0, <3>2
      <3> QED
        BY <1>0, <2>5, <3>3 DEF RegisteredInv
    <2> QED
      BY <2>3, <2>4, <2>5
  <1>3. ASSUME NEW t \in Callers, pc'[t] \in {"subscribe", "register"}
        PROVE  /\ sent'[call'[t].id] = 0
               /\ ~ (rpc' = "writing" /\ newSub'.id = call'[t].id)
               /\ pc'[t] = "subscribe" => ~ (InFlight' /\ newSub'.id = call'[t].id)
    <2>1. CASE pc[t] \in {"subscribe", "register"} /\ call'[t] = call[t]
               /\ (pc'[t] = "subscribe" => pc[t] = "subscribe")
      BY <1>2, <2>1
    <2>2. ASSUME NEW ch \in Channels, NEW k \in Keys, NEW id \in Ids, CallSubscribe(t, ch, k, id),
                 call'[t] = [key |-> k, id |-> id, chan |-> ch]
          PROVE  sent'[call'[t].id] = 0 /\ ~ (InFlight' /\ newSub'.id = call'[t].id)
      BY <1>1, <2>2
    <2>3. CASE pc'[t] = "register"
      BY <1>0, <2>1, <2>3, RegisterCalls DEF Subscribe
    <2>4. CASE pc'[t] = "subscribe"
      BY <1>0, <2>1, <2>2, <2>4, SubscribeCalls DEF InFlight
    <2> QED
      BY <1>3, <2>3, <2>4
  <1> QED
    BY <1>3 DEF FreshInv, InFlight

(* A publication adds itself to those that were told. *)
LEMMA TellEffect ==
  ASSUME ComposedTypeOK, ControlInv, EventInv, NEW t \in Callers, NotifyAll(t)
  PROVE  /\ publications \in Nat /\ publications' = publications + 1
         /\ DOMAIN told = 1 .. publications /\ DOMAIN told' = 1 .. publications'
         /\ \A i \in DOMAIN told : told'[i] = told[i]
         /\ told'[publications'].key = call[t].key
PROOF
  <1>1. publications \in Nat /\ publications' = publications + 1
    BY DEF NotifyAll, Publish, ControlInv, TypeOK
  <1>2. /\ told \in Seq([key: Keys, val: Nat]) /\ Len(told) = publications
        /\ told' = Append(told, [key |-> call[t].key, val |-> req[t].val])
    BY DEF ComposedTypeOK, EventInv, NotifyAll
  <1>3. DOMAIN told = 1 .. publications
    BY <1>2
  <1>4. Len(told') = publications + 1 /\ DOMAIN told' = 1 .. (publications + 1)
    BY <1>2
  <1>5. \A i \in DOMAIN told : told'[i] = told[i]
    BY <1>2, <1>3, <1>4
  <1>6. told'[publications + 1] = [key |-> call[t].key, val |-> req[t].val]
    BY <1>2, <1>3, <1>4
  <1> QED
    BY <1>1, <1>3, <1>4, <1>5, <1>6

(* The five parts of EventInv. *)
Sent(id) ==
  sent[id] # 0 =>
    /\ id \in issued /\ sent[id] \in DOMAIN told
    /\ \A k \in Keys : subscriptions[k][id] # None => told[sent[id]].key = k

LEMMA EventParts ==
  EventInv <=>
    /\ Len(told) = publications
    /\ \A i \in DOMAIN buffer : OfKey(buffer[i])
    /\ InFlight => OfKey(newSub)
    /\ \A t \in Callers : pc[t] = "loop" =>
         publications \in DOMAIN told /\ told[publications].key = call[t].key
    /\ \A id \in Ids : Sent(id)
PROOF
  BY DEF EventInv, Sent

LEMMA KeptSent ==
  ASSUME Kept, NEW id \in Ids, Sent(id), sent'[id] = sent[id]
  PROVE  Sent(id)'
PROOF
  BY DEF Kept, Sent

LEMMA EventPublish ==
  ASSUME ComposedTypeOK, AllInv, EventInv, NEW t \in Callers, NotifyAll(t)
  PROVE  EventInv'
PROOF
  <1>0. /\ ControlInv /\ StreamInv /\ RegisteredInv
        /\ buffer \in Seq(Event) /\ (InFlight => newSub \in Event)
    BY DEF AllInv, ControlInv, TypeOK, MutexInv
  <1>1. /\ publications' = publications + 1 /\ publications \in Nat
        /\ DOMAIN told = 1 .. publications /\ DOMAIN told' = 1 .. publications'
        /\ \A i \in DOMAIN told : told'[i] = told[i]
        /\ told'[publications'].key = call[t].key
    BY <1>0, TellEffect
  <1>2. /\ UNCHANGED <<buffer, sent, rpc, newSub, subscriptions, issued, accepted>>
        /\ pc[t] = "publish" /\ accessMutex = None
        /\ told' = Append(told, [key |-> call[t].key, val |-> req[t].val])
    BY DEF NotifyAll, Publish, runnerVars
  <1>3. Kept
    BY <1>1, <1>2 DEF Kept
  <1>4. Len(told') = publications'
    BY <1>1, <1>2 DEF ComposedTypeOK, EventInv
  <1>5. ASSUME NEW i \in DOMAIN buffer'
        PROVE  OfKey(buffer[i])'
    <2>1. buffer[i] \in Event /\ OfKey(buffer[i]) /\ buffer'[i] = buffer[i]
      BY <1>0, <1>2 DEF EventInv
    <2>2. buffer[i].id \in Ids
      BY <2>1 DEF Event
    <2> QED
      BY <1>3, <2>1, <2>2 DEF Kept, OfKey
  <1>6. InFlight' => OfKey(newSub)'
    <2>1. InFlight' => InFlight /\ newSub' = newSub
      BY <1>2 DEF InFlight
    <2>2. InFlight => newSub.id \in Ids /\ OfKey(newSub)
      BY <1>0 DEF Event, EventInv
    <2> QED
      BY <1>3, <2>1, <2>2 DEF Kept, OfKey
  <1>7. ASSUME NEW u \in Callers, pc'[u] = "loop"
        PROVE  publications' \in DOMAIN told' /\ told'[publications'].key = call'[u].key
    <2>1. pc[u] # "loop"
      BY <1>0, <1>2, Distinct DEF ControlInv, MutexInv
    <2>2. u = t /\ call'[t] = call[t]
      BY <1>0, <1>7, <2>1, PublishEffect DEF NotifyAll, Moved
    <2> QED
      BY <1>1, <2>2
  <1>8. \A id \in Ids : Sent(id)'
    BY <1>2, <1>3, KeptSent, EventParts
  <1>9. /\ Len(told)' = publications'
        /\ \A i \in DOMAIN buffer' : OfKey(buffer[i])'
        /\ InFlight' => OfKey(newSub)'
        /\ \A u \in Callers : pc'[u] = "loop" =>
             publications' \in DOMAIN told' /\ told'[publications'].key = call'[u].key
        /\ \A id \in Ids : Sent(id)'
    BY <1>4, <1>5, <1>6, <1>7, <1>8
  <1> QED
    BY <1>9 DEF EventInv, Sent

(* A step that makes neither an event nor a subscription. *)
LEMMA EventUndisturbed ==
  ASSUME ControlInv, EventInv, Kept, Undisturbed, UNCHANGED told
  PROVE  EventInv'
PROOF
  <1>0. buffer \in Seq(Event) /\ (InFlight => newSub \in Event)
    BY DEF ControlInv, TypeOK, MutexInv
  <1>1. Len(told)' = publications'
    BY DEF EventInv, Undisturbed
  <1>2. ASSUME NEW i \in DOMAIN buffer'
        PROVE  OfKey(buffer[i])'
    <2>1. buffer[i] \in Event /\ OfKey(buffer[i]) /\ buffer'[i] = buffer[i]
      BY <1>0, <1>2 DEF EventInv, Undisturbed
    <2>2. buffer[i].id \in Ids
      BY <2>1 DEF Event
    <2> QED
      BY <2>1, <2>2 DEF Kept, OfKey
  <1>3. ASSUME InFlight'
        PROVE  OfKey(newSub)'
    <2>1. newSub' = newSub /\ newSub.id \in Ids /\ OfKey(newSub)
      BY <1>0, <1>3 DEF Event, EventInv, Undisturbed
    <2> QED
      BY <2>1 DEF Kept, OfKey
  <1>4. \A t \in Callers : pc'[t] = "loop" =>
          publications' \in DOMAIN told' /\ told'[publications'].key = call'[t].key
    BY DEF EventInv, Undisturbed
  <1>5. \A id \in Ids : Sent(id)'
    BY KeptSent, EventParts DEF Undisturbed
  <1> QED
    BY <1>1, <1>2, <1>3, <1>4, <1>5 DEF EventInv, Sent

LEMMA EventSubscribe ==
  ASSUME AllInv, EventInv, FreshInv, NEW t \in Callers, Subscribe(t), UNCHANGED told
  PROVE  EventInv'
PROOF
  <1> DEFINE id == call[t].id
  <1>0. /\ ControlInv /\ StreamInv /\ RegisteredInv
        /\ buffer \in Seq(Event) /\ (InFlight => newSub \in Event)
        /\ pc \in [Callers -> CallerPc] /\ call \in [Callers -> Call]
    BY DEF AllInv, ControlInv, TypeOK, MutexInv
  <1>1. /\ pc[t] = "subscribe" /\ id \in Ids
        /\ \A k \in Keys, i \in Ids : i # id => subscriptions'[k][i] = subscriptions[k][i]
    BY <1>0, SubscribeEntry
  <1>2. UNCHANGED <<buffer, sent, publications, rpc, newSub, issued, accepted>>
    BY DEF Subscribe, runnerVars, history
  <1>3. \A u \in Callers : pc'[u] = "loop" => pc[u] = "loop" /\ call'[u] = call[u]
    BY <1>0 DEF Subscribe, Enter, Goto, Return
  <1>4. ASSUME NEW i \in DOMAIN buffer'
        PROVE  OfKey(buffer[i])'
    <2>1. buffer[i] \in Event /\ OfKey(buffer[i]) /\ buffer'[i] = buffer[i]
      BY <1>0, <1>2 DEF EventInv
    <2>2. buffer[i].id \in Ids /\ buffer[i].id # id
      BY <1>0, <1>1, <1>2, <2>1 DEF Event, RegisteredInv
    <2> QED
      BY <1>1, <1>2, <2>1, <2>2 DEF OfKey
  <1>5. ASSUME InFlight'
        PROVE  OfKey(newSub)'
    <2>1. InFlight /\ newSub' = newSub /\ OfKey(newSub)
      BY <1>2, <1>5 DEF EventInv, InFlight
    <2>2. newSub.id \in Ids /\ newSub.id # id
      BY <1>0, <1>1, <2>1 DEF Event, FreshInv
    <2> QED
      BY <1>1, <1>2, <2>1, <2>2 DEF OfKey
  <1>6. ASSUME NEW i \in Ids
        PROVE  Sent(i)'
    <2>1. sent[id] = 0 /\ Sent(i)
      BY <1>1, EventParts DEF FreshInv
    <2> QED
      BY <1>1, <1>2, <2>1 DEF Sent
  <1>7. Len(told)' = publications'
    BY <1>2 DEF EventInv
  <1>8. \A u \in Callers : pc'[u] = "loop" =>
          publications' \in DOMAIN told' /\ told'[publications'].key = call'[u].key
    BY <1>2, <1>3 DEF EventInv
  <1> QED
    BY <1>4, <1>5, <1>6, <1>7, <1>8 DEF EventInv, Sent

LEMMA EventPush ==
  ASSUME AllInv, EventInv, AcceptedInv, NEW t \in Callers, NEW id \in Ids, Push(t, id),
         UNCHANGED told
  PROVE  EventInv'
PROOF
  <1> DEFINE k == call[t].key
             e == [id |-> id, chan |-> subscriptions[k][id], key |-> k, val |-> publications]
  <1>0. /\ ControlInv /\ RegisteredInv
        /\ buffer \in Seq(Event) /\ (InFlight => newSub \in Event)
    BY DEF AllInv, ControlInv, TypeOK, MutexInv
  <1>1. /\ pc[t] = "loop" /\ id \in todo[t] /\ buffer' = Append(buffer, e)
        /\ UNCHANGED <<sent, publications, newSub, issued, accepted, subscriptions>>
        /\ InFlight' <=> InFlight
    BY DEF Push, NotifyOne, InFlight, history
  <1>2. k \in Keys /\ subscriptions[k][id] # None
    BY <1>0, <1>1 DEF ControlInv, CallInv, LoopInv, Subscribers
  <1>3. id \in issued /\ \A j \in Keys : subscriptions[j][id] # None => j = k
    BY <1>0, <1>2 DEF RegisteredInv, Registered
  <1>4. publications \in DOMAIN told /\ told[publications].key = k
    BY <1>1 DEF EventInv
  <1>5. /\ e.id = id /\ e.key = k /\ e.val = publications /\ e.chan = subscriptions[k][id]
    OBVIOUS
  <1>6. OfKey(e)
    BY <1>2, <1>3, <1>4, <1>5 DEF OfKey, AcceptedInv
  <1> HIDE DEF e
  <1>7. ASSUME NEW i \in DOMAIN buffer'
        PROVE  OfKey(buffer[i])'
    <2>1. OfKey(buffer'[i])
      <3>1. buffer'[i] = e \/ (i \in DOMAIN buffer /\ buffer'[i] = buffer[i])
        BY <1>0, <1>1
      <3> QED
        BY <1>6, <3>1 DEF EventInv
    <2> QED
      BY <1>1, <2>1 DEF OfKey
  <1>8. InFlight' => OfKey(newSub)'
    BY <1>1 DEF EventInv, OfKey
  <1>9. \A i \in Ids : Sent(i)'
    BY <1>1, EventParts DEF Sent
  <1>10. Len(told)' = publications'
    BY <1>1 DEF EventInv
  <1>11. \A u \in Callers : pc'[u] = "loop" =>
          publications' \in DOMAIN told' /\ told'[publications'].key = call'[u].key
    <2>1. \A u \in Callers : pc'[u] = "loop" => pc[u] = "loop" /\ call'[u] = call[u]
      BY <1>0, <1>1, PushEffect DEF Moved
    <2> QED
      BY <1>1, <2>1 DEF EventInv
  <1> QED
    BY <1>7, <1>8, <1>9, <1>10, <1>11 DEF EventInv, Sent

LEMMA PopEffect ==
  ASSUME ControlInv, Pop
  PROVE  /\ newSub' = buffer[1] /\ 1 \in DOMAIN buffer /\ buffer[1] \in Event
         /\ DOMAIN buffer' = 1 .. (Len(buffer) - 1) /\ DOMAIN buffer = 1 .. Len(buffer)
         /\ Len(buffer) \in Nat
         /\ \A i \in DOMAIN buffer' : i + 1 \in DOMAIN buffer /\ buffer'[i] = buffer[i + 1]
PROOF
  <1>1. buffer \in Seq(Event) /\ buffer # <<>>
    BY DEF Pop, ControlInv, TypeOK, FrontDefined
  <1>2. newSub' = Head(buffer) /\ buffer' = Tail(buffer)
    BY DEF Pop
  <1> QED
    BY <1>1, <1>2

LEMMA EventPop ==
  ASSUME AllInv, EventInv, Pop, UNCHANGED told
  PROVE  EventInv'
PROOF
  <1>0. ControlInv
    BY DEF AllInv
  <1>1. UNCHANGED <<sent, publications, issued, accepted, subscriptions, callerVars>>
    BY DEF Pop, history
  <1>2. ASSUME NEW i \in DOMAIN buffer'
        PROVE  OfKey(buffer[i])'
    <2>1. OfKey(buffer'[i])
      BY <1>0, <1>2, PopEffect DEF EventInv
    <2> QED
      BY <1>1, <2>1 DEF OfKey
  <1>3. OfKey(newSub)'
    <2>1. OfKey(newSub')
      BY <1>0, PopEffect DEF EventInv
    <2> QED
      BY <1>1, <2>1 DEF OfKey
  <1>4. \A i \in Ids : Sent(i)'
    BY <1>1, EventParts DEF Sent
  <1>5. Len(told)' = publications'
    BY <1>1 DEF EventInv
  <1>6. \A u \in Callers : pc'[u] = "loop" =>
          publications' \in DOMAIN told' /\ told'[publications'].key = call'[u].key
    BY <1>1 DEF EventInv, callerVars
  <1> QED
    BY <1>2, <1>3, <1>4, <1>5, <1>6 DEF EventInv, Sent

(* The event that is sent is then what its client has got last. *)
LEMMA SendEffect ==
  ASSUME ControlInv, SendToConnection \/ WriteStream
  PROVE  /\ InFlight /\ rpc # "cleanup" /\ ~InFlight'
         /\ newSub.id \in Ids /\ newSub.val \in Nat
         /\ \A id \in Ids : sent'[id] = IF id = newSub.id THEN newSub.val ELSE sent[id]
         /\ UNCHANGED <<buffer, publications, issued, accepted, connected, subscriptions,
                        grpcSubsMap, callerVars>>
PROOF
  <1>1. /\ InFlight /\ rpc # "cleanup" /\ ~InFlight'
        /\ sent' = [sent EXCEPT ![newSub.id] = newSub.val]
        /\ UNCHANGED <<buffer, publications, issued, accepted, connected, subscriptions,
                       grpcSubsMap, callerVars>>
    BY DEF SendToConnection, WriteStream, InFlight, Unlock, NextIteration, channelVars
  <1>2. newSub \in Event /\ sent \in [Ids -> Nat]
    BY <1>1 DEF ControlInv, MutexInv, TypeOK
  <1>3. newSub.id \in Ids /\ newSub.val \in Nat
    BY <1>2 DEF Event
  <1> QED
    BY <1>1, <1>2, <1>3

LEMMA EventSend ==
  ASSUME ControlInv, EventInv, SendToConnection \/ WriteStream, UNCHANGED told
  PROVE  EventInv'
PROOF
  <1>1. /\ ~InFlight' /\ newSub.id \in Ids
        /\ \A id \in Ids : sent'[id] = IF id = newSub.id THEN newSub.val ELSE sent[id]
        /\ UNCHANGED <<buffer, publications, issued, accepted, subscriptions, pc, call>>
    BY SendEffect DEF callerVars
  <1>2. OfKey(newSub)
    BY SendEffect DEF EventInv
  <1>3. \A i \in DOMAIN buffer' : OfKey(buffer[i])'
    BY <1>1 DEF EventInv, OfKey
  <1>4. ASSUME NEW id \in Ids
        PROVE  Sent(id)'
    <2>1. CASE id = newSub.id
      BY <1>1, <1>2, <2>1 DEF Sent, OfKey
    <2>2. CASE id # newSub.id
      BY <1>1, <2>2, EventParts DEF Sent
    <2> QED
      BY <2>1, <2>2
  <1>5. Len(told)' = publications'
    BY <1>1 DEF EventInv
  <1>6. \A u \in Callers : pc'[u] = "loop" =>
          publications' \in DOMAIN told' /\ told'[publications'].key = call'[u].key
    BY <1>1 DEF EventInv
  <1> QED
    BY <1>1, <1>3, <1>4, <1>5, <1>6 DEF EventInv, Sent

LEMMA EventStep ==
  /\ ComposedTypeOK /\ AllInv /\ DB!DInv /\ EventInv /\ FreshInv /\ AcceptedInv
  /\ [ServerNext]_all
  => EventInv'
PROOF
  <1> SUFFICES ASSUME ComposedTypeOK, AllInv, DB!DInv, EventInv, FreshInv, AcceptedInv,
                      [ServerNext]_all
               PROVE  EventInv'
    OBVIOUS
  <1>0. ControlInv /\ StreamInv /\ RegisteredInv /\ publications \in Nat
    BY DEF AllInv, ControlInv, TypeOK
  <1>1. [Next]_vars
    BY HandlerSteps
  <1>2. CASE \E t \in Callers : NotifyAll(t)
    BY <1>2, EventPublish
  <1>3. CASE UNCHANGED <<told, publications>>
    <2>1. CASE \E t \in Callers : Subscribe(t)
      BY <1>3, <2>1, EventSubscribe
    <2>2. CASE \E t \in Callers, id \in Ids : Push(t, id)
      BY <1>3, <2>2, EventPush
    <2>3. CASE Pop
      BY <1>3, <2>3, EventPop
    <2>4. CASE SendToConnection \/ WriteStream
      BY <1>0, <1>3, <2>4, EventSend
    <2>5. CASE /\ \A t \in Callers : ~Subscribe(t) /\ \A id \in Ids : ~Push(t, id)
               /\ ~Pop /\ ~SendToConnection /\ ~WriteStream
      <3>1. \A t \in Callers : ~Publish(t)
        BY <1>0, <1>3 DEF Publish
      <3>2. Undisturbed
        BY <1>0, <1>1, <2>5, <3>1, MostUndisturbed
      <3>3. Kept
        BY <1>0, <1>1, <1>3, <2>5, MostKept
      <3> QED
        BY <1>0, <1>3, <3>2, <3>3, EventUndisturbed
    <2> QED
      BY <2>1, <2>2, <2>3, <2>4, <2>5
  <1> QED
    BY <1>0, <1>2, <1>3, Telling

-----------------------------------------------------------------------------
(* What a subscriber is to get *)

LEMMA DueIs ==
  ASSUME NEW id \in Ids
  PROVE  /\ Due(id) = dueBar[id] \cup InHand(id)
         /\ Due(id)' = dueBar'[id] \cup InHand(id)'
PROOF
  BY DEF Due, dueBar

LEMMA UndisturbedDue ==
  ASSUME Undisturbed, InFlight' <=> InFlight, NEW id \in Ids
  PROVE  Due(id)' = Due(id) /\ sent'[id] = sent[id]
PROOF
  <1>1. dueBar' = dueBar
    BY BarsAre, BarsAreNext DEF Undisturbed
  <1>2. InHand(id)' = InHand(id)
    BY DEF Undisturbed, InHand
  <1> QED
    BY <1>1, <1>2, DueIs DEF Undisturbed

LEMMA PushDue ==
  ASSUME AllInv, NEW t \in Callers, NEW i \in Ids, Push(t, i), NEW id \in Ids
  PROVE  Due(id)' = Due(id) /\ sent'[id] = sent[id]
PROOF
  <1>1. dueBar' = dueBar
    BY PushMaps DEF Promise!vars
  <1>2. InHand(id)' = InHand(id) /\ sent' = sent
    BY DEF Push, NotifyOne, InFlight, InHand, history
  <1> QED
    BY <1>1, <1>2, DueIs

LEMMA PopDue ==
  ASSUME AllInv, Pop, NEW id \in Ids
  PROVE  Due(id)' = Due(id) /\ sent'[id] = sent[id]
PROOF
  <1> DEFINE e == buffer[1]  n == Len(buffer)
  <1>0. ControlInv
    BY DEF AllInv
  <1>1. /\ newSub' = e /\ n \in Nat /\ 1 \in DOMAIN buffer
        /\ DOMAIN buffer = 1 .. n /\ DOMAIN buffer' = 1 .. (n - 1)
        /\ \A i \in DOMAIN buffer' : i + 1 \in DOMAIN buffer /\ buffer'[i] = buffer[i + 1]
    BY <1>0, PopEffect
  <1>2. UNCHANGED <<publications, todo, sent>> /\ InFlight'
    BY DEF Pop, history, callerVars, InFlight
  <1>3. ~InFlight
    BY <1>0 DEF Pop, ControlInv, MutexInv, InFlight
  <1> HIDE DEF e, n
  <1>4. ASSUME NEW p
        PROVE  (\E i \in DOMAIN buffer : buffer[i].id = id /\ buffer[i].val = p) <=>
                 \/ \E i \in DOMAIN buffer' : buffer'[i].id = id /\ buffer'[i].val = p
                 \/ e.id = id /\ e.val = p
    <2>1. \A i \in 1 .. n : i = 1 \/ (i - 1 \in 1 .. (n - 1) /\ buffer'[i - 1] = buffer[i])
      BY <1>1
    <2> QED
      BY <1>1, <2>1 DEF e
  <1>5. ASSUME NEW p
        PROVE  p \in Due(id)' <=> p \in Due(id)
    <2>1. p \in Due(id)' <=> p \in dueBar'[id] \/ (e.id = id /\ e.val = p)
      BY <1>1, <1>2, DueIs DEF InHand
    <2>2. p \in Due(id) <=> p \in dueBar[id]
      BY <1>3, DueIs DEF InHand
    <2>3. p \in dueBar[id] <=>
            \/ \E i \in DOMAIN buffer : buffer[i].id = id /\ buffer[i].val = p
            \/ p = publications /\ \E u \in Callers : id \in todo[u]
      BY DueBarIs
    <2>4. p \in dueBar'[id] <=>
            \/ \E i \in DOMAIN buffer' : buffer'[i].id = id /\ buffer'[i].val = p
            \/ p = publications /\ \E u \in Callers : id \in todo[u]
      BY <1>2, DueBarIsNext
    <2> QED
      BY <1>4, <2>1, <2>2, <2>3, <2>4
  <1> QED
    BY <1>2, <1>5

(* What is due has a number that has been given out. *)
LEMMA DueNumbers ==
  ASSUME AllInv, NEW id \in Ids
  PROVE  Due(id) \subseteq Nat /\ sent[id] \in Nat
PROOF
  <1>0. ControlInv
    BY DEF AllInv
  <1>1. /\ buffer \in Seq(Event) /\ publications \in Nat /\ sent \in [Ids -> Nat]
        /\ InFlight => newSub \in Event
    BY <1>0 DEF ControlInv, TypeOK, MutexInv
  <1>2. \A e \in Event : e.val \in Nat
    BY DEF Event
  <1>3. \A i \in DOMAIN buffer : buffer[i] \in Event
    BY <1>1
  <1>4. \A p : p \in dueBar[id] => p \in Nat
    BY <1>1, <1>2, <1>3, DueBarIs
  <1> QED
    BY <1>1, <1>2, <1>4, DueIs DEF InHand

LEMMA SameComplete ==
  ASSUME NEW k \in Keys, NEW id \in Ids, Complete(k, id), UNCHANGED told,
         Due(id)' = Due(id), sent'[id] = sent[id]
  PROVE  Complete(k, id)'
PROOF
  BY DEF Complete, Coming

(* The runner ends with an event. *)
LEMMA RunnerEnds ==
  ASSUME ControlInv, SendToConnection \/ WriteStream \/ CleanUp \/ NoStream
  PROVE  /\ InFlight /\ ~InFlight' /\ newSub \in Event
         /\ UNCHANGED <<buffer, todo, publications>>
         /\ \A id \in Ids : Due(id)' = dueBar[id] /\ InHand(id)' = {}
PROOF
  <1>1. InFlight /\ ~InFlight' /\ UNCHANGED <<buffer, todo, publications>>
    BY DEF SendToConnection, WriteStream, CleanUp, NoStream, InFlight, Unlock, NextIteration,
       history, callerVars
  <1>2. newSub \in Event
    BY <1>1 DEF ControlInv, MutexInv
  <1>3. dueBar' = dueBar
    BY <1>1, BarsAre, BarsAreNext
  <1>4. \A id \in Ids : InHand(id)' = {}
    BY <1>1 DEF InHand
  <1> QED
    BY <1>1, <1>2, <1>3, <1>4, DueIs

(* The event in hand is earlier than what is still due. *)
LEMMA HandFirst ==
  ASSUME AllInv, InFlight, NEW q \in dueBar[newSub.id]
  PROVE  newSub.val < q
PROOF
  <1>0. ControlInv /\ OrderInv
    BY DEF AllInv
  <1>1. newSub \in Event
    BY <1>0 DEF ControlInv, MutexInv
  <1>2. newSub.id \in Ids
    BY <1>1 DEF Event
  <1>3. \/ \E i \in DOMAIN buffer : buffer[i].id = newSub.id /\ buffer[i].val = q
        \/ q = publications /\ \E u \in Callers : newSub.id \in todo[u]
    <2>1. \A id \in Ids : q \in dueBar[id] =>
            \/ \E i \in DOMAIN buffer : buffer[i].id = id /\ buffer[i].val = q
            \/ q = publications /\ \E u \in Callers : id \in todo[u]
      BY DueBarIs
    <2> QED
      BY <1>2, <2>1
  <1>4. CASE \E i \in DOMAIN buffer : buffer[i].id = newSub.id /\ buffer[i].val = q
    BY <1>0, <1>4 DEF OrderInv, DeliveryOrder
  <1>5. CASE q = publications /\ \E u \in Callers : newSub.id \in todo[u]
    <2>1. PICK u \in Callers : newSub.id \in todo[u]
      BY <1>5
    <2>2. pc[u] = "loop"
      BY <1>0, <2>1 DEF ControlInv, LoopInv
    <2> QED
      BY <1>0, <1>5, <2>1, <2>2 DEF OrderInv, LatestInv
  <1> QED
    BY <1>3, <1>4, <1>5

(* A stream is added at the end of the call that made the subscription. *)
LEMMA StreamsAdded ==
  ASSUME ControlInv, [Next]_vars, NEW g \in GrpcChannels, NEW id \in grpcSubsMap'[g]
  PROVE  id \in grpcSubsMap[g] \/ \E t \in Callers : pc[t] = "register" /\ call[t].id = id
PROOF
  <1> USE DEF handlerVars, runnerVars, channelVars, history
  <1>0. grpcSubsMap \in [GrpcChannels -> SUBSET Ids]
    BY DEF ControlInv, TypeOK
  <1>1. CASE RunnerStep \/ SpuriousWakeup
    BY <1>1 DEF RunnerStep, SpuriousWakeup, CheckRun, CheckSize, Pop, SendToConnection,
       ConnectionGone, CleanUp, NoStream, FindStream, WriteStream, Terminate, Wait, Wake
  <1>2. CASE \/ OwnerStep \/ BeginStop \/ UNCHANGED vars
             \/ \E w \in WsChannels : AddClient(w) \/ RemoveClient(w)
             \/ \E i \in Ids : CallUnsubscribeWs(i)
    BY <1>2 DEF OwnerStep, StartThread, StopThread, Join, BeginStop, AddClient, RemoveClient,
       CallUnsubscribeWs, vars
  <1>3. ASSUME NEW t \in Callers, ClientStep(t)
        PROVE  grpcSubsMap' = grpcSubsMap
    BY <1>3 DEF ClientStep, CallSubscribe, CallUnsubscribeGrpc, EndStream, CallPublish
  <1>4. ASSUME NEW t \in Callers, GrpcRegister(t)
        PROVE  id \in grpcSubsMap[g] \/ (pc[t] = "register" /\ call[t].id = id)
    BY <1>0, <1>4 DEF GrpcRegister
  <1>5. ASSUME NEW t \in Callers, GrpcErase(t) \/ GrpcClear(t)
        PROVE  id \in grpcSubsMap[g]
    BY <1>0, <1>5 DEF GrpcErase, StreamsLeft, GrpcClear
  <1>6. ASSUME NEW t \in Callers,
               \/ Subscribe(t) \/ Unsubscribe(t) \/ UnsubscribeAll(t) \/ Publish(t)
               \/ \E i \in Ids : Push(t, i)
        PROVE  grpcSubsMap' = grpcSubsMap
    BY <1>6 DEF Subscribe, Unsubscribe, UnsubscribeAll, Publish, Push
  <1> QED
    BY <1>1, <1>2, <1>3, <1>4, <1>5, <1>6 DEF Next, CallerStep

(* Only a new subscription is served that was not before. *)
LEMMA ServedBefore ==
  ASSUME AllInv, AcceptedInv, [Next]_vars, \A t \in Callers : ~Subscribe(t),
         \A k \in Keys, id \in Ids : subscriptions'[k][id] \in {subscriptions[k][id], None},
         NEW k \in Keys, NEW id \in Ids, Served(k, id)'
  PROVE  Served(k, id)
PROOF
  <1> DEFINE ch == subscriptions[k][id]
  <1>0. ControlInv
    BY DEF AllInv
  <1>1. ch # None /\ subscriptions'[k][id] = ch
    BY DEF Served
  <1>2. CASE ch \in connected'
    <2>1. ch \in WsChannels
      <3>1. connected \subseteq WsChannels
        BY <1>0 DEF ControlInv, TypeOK
      <3> QED
        BY <1>2, <3>1, ConnectedEffect DEF AddClient, RemoveClient
    <2>2. ch \in accepted
      BY <2>1 DEF AcceptedInv
    <2>3. ch \in connected
      BY <1>2, <2>2, ConnectedEffect DEF AddClient, RemoveClient
    <2> QED
      BY <1>1, <2>3 DEF Served, Reached
  <1>3. CASE ch \in GrpcChannels /\ id \in grpcSubsMap'[ch]
    BY <1>0, <1>1, <1>3, StreamsAdded DEF Served, Reached
  <1>4. ASSUME NEW t \in Callers, pc'[t] = "register", call'[t].id = id
        PROVE  Served(k, id)
    <2>1. pc[t] = "register" /\ call[t].id = id
      BY <1>0, <1>4, RegisterCalls
    <2> QED
      BY <1>1, <2>1 DEF Served
  <1> QED
    BY <1>1, <1>2, <1>3, <1>4 DEF Served, Reached

LEMMA DeliveredSubscribe ==
  ASSUME AllInv, FreshInv, DeliveredInv, [Next]_vars, NEW t \in Callers, Subscribe(t),
         UNCHANGED told
  PROVE  DeliveredInv'
PROOF
  <1>0. /\ ControlInv /\ RegisteredInv
        /\ pc \in [Callers -> CallerPc] /\ call \in [Callers -> Call]
    BY DEF AllInv, ControlInv, TypeOK
  <1>1. /\ UNCHANGED <<buffer, sent, publications, todo, rpc, newSub, connected, grpcSubsMap>>
        /\ accessMutex = None /\ pc[t] = "subscribe"
    BY DEF Subscribe, runnerVars, channelVars, history
  <1>2. \A k \in Keys, id \in Ids : id # call[t].id => subscriptions'[k][id] = subscriptions[k][id]
    BY <1>0, SubscribeEntry
  <1>3. dueBar' = dueBar
    BY <1>1, BarsAre, BarsAreNext
  <1>4. \A id \in Ids : Due(id)' = Due(id)
    <2>1. \A id \in Ids : InHand(id)' = InHand(id)
      BY <1>1 DEF InHand, InFlight
    <2> QED
      BY <1>3, <2>1, DueIs
  <1>5. ASSUME NEW k \in Keys, NEW id \in Ids, Served(k, id)', id # call[t].id
        PROVE  Complete(k, id)'
    <2>1. subscriptions'[k][id] = subscriptions[k][id]
      BY <1>2, <1>5
    <2>2. ASSUME NEW u \in Callers, pc'[u] = "register", call'[u].id = id
          PROVE  pc[u] = "register" /\ call[u].id = id
      <3>1. u # t
        BY <1>0, <1>5, <2>2, RegisterCalls
      <3> QED
        BY <1>0, <2>2, <3>1 DEF Subscribe, Goto, Return, Enter
    <2>3. Served(k, id)
      BY <1>1, <1>5, <2>1, <2>2 DEF Served, Reached
    <2>4. Complete(k, id)
      BY <2>3 DEF DeliveredInv
    <2> QED
      BY <1>1, <1>4, <2>4, SameComplete
  <1>6. ASSUME NEW k \in Keys, NEW id \in Ids, id = call[t].id
        PROVE  Complete(k, id)'
    <2>1. sent[id] = 0 /\ InHand(id) = {}
      BY <1>1, <1>6 DEF FreshInv, InHand
    <2>2. \A i \in DOMAIN buffer : buffer[i].id # id
      BY <1>0, <1>1, <1>6 DEF RegisteredInv
    <2>3. \A u \in Callers : id \notin todo[u]
      BY <1>0, <1>1, NoLoop
    <2>4. dueBar[id] = {}
      BY <2>2, <2>3, DueBarIs
    <2>5. Due(id)' = {} /\ sent'[id] = 0
      BY <1>1, <1>4, <2>1, <2>4, DueIs
    <2> QED
      BY <2>5 DEF Complete
  <1> QED
    BY <1>5, <1>6 DEF DeliveredInv

(* A publication is due to all subscriptions of its key. *)
LEMMA DeliveredPublish ==
  ASSUME ComposedTypeOK, AllInv, EventInv, AcceptedInv, DeliveredInv, [Next]_vars,
         NEW t \in Callers, NotifyAll(t)
  PROVE  DeliveredInv'
PROOF
  <1>0. ControlInv /\ RegisteredInv /\ todo \in [Callers -> SUBSET Ids]
    BY DEF AllInv, ControlInv, TypeOK
  <1>1. /\ publications \in Nat /\ publications' = publications + 1
        /\ DOMAIN told = 1 .. publications /\ DOMAIN told' = 1 .. publications'
        /\ \A i \in DOMAIN told : told'[i] = told[i]
        /\ told'[publications'].key = call[t].key
    BY <1>0, TellEffect
  <1>2. /\ UNCHANGED <<subscriptions, buffer, sent, rpc, newSub, connected, grpcSubsMap>>
        /\ Publish(t) /\ pc[t] = "publish" /\ accessMutex = None
    BY DEF NotifyAll, Publish, runnerVars, channelVars
  <1>3. \A u \in Callers : todo[u] = {} /\ ~Subscribe(u)
    <2>1. \A u \in Callers : todo[u] = {}
      BY <1>0, <1>2, NoLoop
    <2>2. \A u \in Callers : ~Subscribe(u)
      BY <1>1, <1>2 DEF Subscribe, history
    <2> QED
      BY <2>1, <2>2
  <1>4. call[t].key \in Keys
    BY <1>0, <1>2, PublishEffect
  <1>5. ASSUME NEW id \in Ids
        PROVE  (\E u \in Callers : id \in todo'[u]) <=> subscriptions[call[t].key][id] # None
    <2>1. CASE Subscribers(call[t].key) = {}
      BY <1>2, <1>3, <2>1 DEF Publish, Subscribers
    <2>2. CASE Subscribers(call[t].key) # {}
      <3>1. todo' = [todo EXCEPT ![t] = Subscribers(call[t].key)]
        BY <1>2, <2>2 DEF Publish
      <3> QED
        BY <1>0, <1>3, <3>1 DEF Subscribers
    <2> QED
      BY <2>1, <2>2
  <1>6. ASSUME NEW k \in Keys, NEW id \in Ids, Served(k, id)'
        PROVE  Complete(k, id)'
    <2>1. subscriptions[k][id] # None /\ Served(k, id)
      BY <1>2, <1>3, <1>6, ServedBefore DEF Served
    <2>2. CASE k = call[t].key
      <3>1. publications' \in dueBar'[id]
        BY <1>5, <2>1, <2>2, DueBarIsNext
      <3>2. publications' \in Coming(id)'
        BY <3>1, DueIs DEF Coming
      <3>3. \A i \in DOMAIN told' : i <= publications'
        BY <1>1
      <3> QED
        BY <3>2, <3>3 DEF Complete
    <2>3. CASE k # call[t].key
      <3>1. subscriptions[call[t].key][id] = None
        BY <1>0, <1>4, <2>1, <2>3 DEF RegisteredInv
      <3>2. dueBar'[id] = dueBar[id]
        <4>1. ASSUME NEW p
              PROVE  p \in dueBar'[id] <=> p \in dueBar[id]
          BY <1>2, <1>3, <1>5, <3>1, DueBarIs, DueBarIsNext
        <4> QED
          BY <4>1
      <3>3. Due(id)' = Due(id) /\ sent'[id] = sent[id]
        BY <1>2, <3>2, DueIs DEF InHand, InFlight
      <3>4. Complete(k, id)
        BY <2>1 DEF DeliveredInv
      <3>5. \A i \in DOMAIN told' : told'[i].key = k => i \in DOMAIN told /\ told[i].key = k
        BY <1>1, <2>3
      <3> QED
        BY <3>3, <3>4, <3>5 DEF Complete, Coming
    <2> QED
      BY <2>2, <2>3
  <1> QED
    BY <1>6 DEF DeliveredInv

(* An event that is delivered is what its client has last; one that is dropped has
   nobody to go to, or is followed by what its client gets first.              *)
LEMMA DeliveredSend ==
  ASSUME AllInv, NEW k \in Keys, NEW id \in Ids, Complete(k, id),
         SendToConnection \/ WriteStream, UNCHANGED told, DOMAIN told \subseteq Nat \ {0}
  PROVE  Complete(k, id)'
PROOF
  <1>0. ControlInv /\ OrderInv
    BY DEF AllInv
  <1>1. /\ InFlight /\ rpc # "cleanup" /\ newSub.id \in Ids /\ newSub.val \in Nat
        /\ sent'[id] = IF id = newSub.id THEN newSub.val ELSE sent[id]
    BY <1>0, SendEffect
  <1>2. Due(id)' = dueBar[id] /\ Due(id) = dueBar[id] \cup InHand(id)
    BY <1>0, RunnerEnds, DueIs
  <1>3. CASE id # newSub.id
    <2>1. InHand(id) = {}
      BY <1>3 DEF InHand
    <2> QED
      BY <1>1, <1>2, <1>3, <2>1, SameComplete
  <1>4. CASE id = newSub.id
    <2>1. InHand(id) = {newSub.val} /\ Coming(id)' = dueBar[id] \cup {newSub.val}
      BY <1>1, <1>2, <1>4 DEF InHand, Coming
    <2>2. sent[id] < newSub.val /\ sent[id] \in Nat /\ Due(id) \subseteq Nat
      BY <1>0, <1>1, <1>4, DueNumbers DEF OrderInv, DeliveryOrder
    <2>3. ASSUME NEW i \in DOMAIN told, told[i].key = k
          PROVE  \E p \in Coming(id)' : i <= p
      <3>1. PICK p \in Coming(id) : i <= p
        BY <1>2, <2>1, <2>3 DEF Complete
      <3>2. CASE p = sent[id]
        <4>1. i <= newSub.val
          BY <1>1, <2>2, <3>1, <3>2
        <4> QED
          BY <2>1, <4>1
      <3>3. CASE p # sent[id]
        BY <1>2, <2>1, <3>1, <3>3 DEF Coming
      <3> QED
        BY <3>2, <3>3
    <2> QED
      BY <2>3 DEF Complete
  <1> QED
    BY <1>3, <1>4

LEMMA DeliveredDrop ==
  ASSUME AllInv, EventInv, FreshInv, AcceptedInv, NEW k \in Keys, NEW id \in Ids,
         Served(k, id), Complete(k, id), CleanUp \/ NoStream, UNCHANGED <<told, sent>>,
         DOMAIN told \subseteq Nat \ {0}
  PROVE  Complete(k, id)'
PROOF
  <1>0. ControlInv /\ StreamInv /\ RegisteredInv
    BY DEF AllInv
  <1>1. Due(id)' = dueBar[id] /\ Due(id) = dueBar[id] \cup InHand(id) /\ InFlight
    BY <1>0, RunnerEnds, DueIs
  <1>2. CASE id # newSub.id
    <2>1. InHand(id) = {}
      BY <1>2 DEF InHand
    <2> QED
      BY <1>1, <2>1, SameComplete
  <1>3. CASE id = newSub.id
    <2>1. subscriptions[k][id] = newSub.chan
      BY <1>1, <1>3 DEF EventInv, OfKey, Served
    <2>2. ~Reached(id, newSub.chan)
      <3>1. CASE CleanUp
        <4>1. newSub.chan \in WsChannels /\ newSub.chan \notin connected
          BY <1>0, <3>1 DEF CleanUp, StreamInv, ServeInv, AcceptedInv
        <4> QED
          BY <4>1, Distinct DEF Reached
      <3>2. CASE NoStream
        <4>1. newSub.chan \in GrpcChannels /\ newSub.id \notin grpcSubsMap[newSub.chan]
          BY <3>2 DEF NoStream
        <4>2. newSub.chan \notin connected
          BY <1>0, <4>1, Distinct DEF ControlInv, TypeOK
        <4> QED
          BY <1>3, <4>1, <4>2 DEF Reached
      <3> QED
        BY <3>1, <3>2
    <2>3. sent[id] = 0
      <3>1. PICK t \in Callers : pc[t] = "register" /\ call[t].id = id
        BY <2>1, <2>2 DEF Served
      <3> QED
        BY <3>1 DEF FreshInv
    <2>4. InHand(id) = {newSub.val} /\ Coming(id)' = dueBar[id] \cup {0}
      BY <1>1, <1>3, <2>3 DEF InHand, Coming
    <2>5. newSub.val \in Nat /\ dueBar[id] \subseteq Nat
      BY <1>1, <2>4, DueNumbers
    <2>6. CASE dueBar[id] = {}
      BY <1>1, <2>3, <2>6 DEF Complete
    <2>7. CASE dueBar[id] # {}
      <3>1. PICK q \in dueBar[id] : TRUE
        BY <2>7
      <3>2. newSub.val < q /\ q \in Nat
        BY <1>1, <1>3, <2>5, <3>1, HandFirst
      <3>3. ASSUME NEW i \in DOMAIN told, told[i].key = k
            PROVE  \E p \in Coming(id)' : i <= p
        <4>1. PICK p \in Coming(id) : i <= p
          BY <1>1, <2>4, <3>3 DEF Complete
        <4>2. p \in dueBar[id] \cup {newSub.val, 0}
          BY <1>1, <2>3, <2>4, <4>1 DEF Coming
        <4>3. CASE p \in dueBar[id]
          BY <2>4, <4>1, <4>3
        <4>4. CASE p \in {newSub.val, 0}
          <5>1. i <= q
            BY <2>5, <3>2, <4>1, <4>4
          <5> QED
            BY <2>4, <3>1, <5>1
        <4> QED
          BY <4>2, <4>3, <4>4
      <3> QED
        BY <3>3 DEF Complete
    <2> QED
      BY <2>6, <2>7
  <1> QED
    BY <1>2, <1>3

LEMMA DeliveredStep ==
  /\ ComposedTypeOK /\ AllInv /\ DB!DInv /\ EventInv /\ FreshInv /\ AcceptedInv
  /\ DeliveredInv /\ [ServerNext]_all
  => DeliveredInv'
PROOF
  <1> SUFFICES ASSUME ComposedTypeOK, AllInv, DB!DInv, EventInv, FreshInv, AcceptedInv,
                      DeliveredInv, [ServerNext]_all
               PROVE  DeliveredInv'
    OBVIOUS
  <1>0. ControlInv /\ StreamInv /\ RegisteredInv /\ publications \in Nat
    BY DEF AllInv, ControlInv, TypeOK
  <1>1. [Next]_vars
    BY <1>0, HandlerSteps
  <1>2. CASE \E t \in Callers : NotifyAll(t)
    BY <1>1, <1>2, DeliveredPublish
  <1>3. CASE UNCHANGED <<told, publications>>
    <2>1. CASE \E t \in Callers : Subscribe(t)
      BY <1>1, <1>3, <2>1, DeliveredSubscribe
    <2>2. CASE \A t \in Callers : ~Subscribe(t)
      <3>1. \A k \in Keys, id \in Ids : subscriptions'[k][id] \in {subscriptions[k][id], None}
        BY <1>0, <1>1, <1>3, <2>2, MostKept DEF Kept
      <3>2. ASSUME NEW k \in Keys, NEW id \in Ids, Served(k, id)'
            PROVE  Complete(k, id)'
        <4>1. Served(k, id) /\ Complete(k, id)
          BY <1>1, <2>2, <3>1, <3>2, ServedBefore DEF DeliveredInv
        <4>2. DOMAIN told \subseteq Nat \ {0}
          BY DEF ComposedTypeOK
        <4>3. CASE \E t \in Callers, i \in Ids : Push(t, i)
          BY <1>3, <4>1, <4>3, PushDue, SameComplete
        <4>4. CASE Pop
          BY <1>3, <4>1, <4>4, PopDue, SameComplete
        <4>5. CASE SendToConnection \/ WriteStream
          BY <1>3, <4>1, <4>2, <4>5, DeliveredSend
        <4>6. CASE CleanUp \/ NoStream
          <5>1. sent' = sent
            BY <4>6 DEF CleanUp, NoStream, history
          <5> QED
            BY <1>3, <4>1, <4>2, <4>6, <5>1, DeliveredDrop
        <4>7. CASE /\ \A t \in Callers, i \in Ids : ~Push(t, i)
                   /\ ~Pop /\ ~SendToConnection /\ ~WriteStream /\ ~CleanUp /\ ~NoStream
          <5>1. \A t \in Callers : ~Publish(t)
            BY <1>0, <1>3 DEF Publish
          <5>2. Undisturbed /\ (InFlight' <=> InFlight)
            BY <1>0, <1>1, <4>7, <5>1, MostUndisturbed
          <5> QED
            BY <1>3, <4>1, <5>2, UndisturbedDue, SameComplete
        <4> QED
          BY <4>3, <4>4, <4>5, <4>6, <4>7
      <3> QED
        BY <3>2 DEF DeliveredInv
    <2> QED
      BY <2>1, <2>2
  <1> QED
    BY <1>0, <1>2, <1>3, Telling

-----------------------------------------------------------------------------
(* The theorems *)

LEMMA ServerInitInv == ServerInit => ServerInv
PROOF
  <1> SUFFICES ASSUME ServerInit
               PROVE  ServerInv
    OBVIOUS
  <1>1. /\ Init /\ Database!Init
        /\ notified = {} /\ told = <<>> /\ overwritten = {}
    BY DEF ServerInit
  <1>2. ComposedTypeOK /\ LinkInv /\ ToldInv
    BY <1>1 DEF ComposedTypeOK, LinkInv, ToldInv, Init
  <1>3. EventInv /\ FreshInv
    BY <1>1 DEF EventInv, FreshInv, Init, InFlight
  <1>4. AcceptedInv /\ DeliveredInv
    BY <1>1, Distinct DEF AcceptedInv, DeliveredInv, Served, Init, Channels
  <1> QED
    BY <1>2, <1>3, <1>4 DEF ServerInv

LEMMA ServerInvariant == ServerSpec => []ServerInv
PROOF
  <1>1. AllInv /\ DB!DInv /\ ServerInv /\ [ServerNext]_all => ServerInv'
    <2> SUFFICES ASSUME AllInv, DB!DInv, ServerInv, [ServerNext]_all
                 PROVE  ServerInv'
      OBVIOUS
    <2>1. ControlInv /\ [Next]_vars
      BY HandlerSteps DEF AllInv
    <2>2. ComposedTypeOK' /\ LinkInv' /\ ToldInv'
      BY <2>1, ComposedTypeStep, LinkStep, ToldStep DEF ServerInv
    <2>3. EventInv' /\ FreshInv' /\ AcceptedInv' /\ DeliveredInv'
      BY <2>1, EventStep, FreshStep, AcceptedStep, DeliveredStep DEF ServerInv
    <2> QED
      BY <2>2, <2>3 DEF ServerInv
  <1> QED
    BY <1>1, ServerInitInv, HandlerHolds, DatabaseHolds, PTL DEF ServerSpec

(* What may still reach a client is a publication of its key. *)
LEMMA ComingIsTold ==
  ASSUME AllInv, EventInv, NEW k \in Keys, NEW id \in Ids, subscriptions[k][id] # None,
         NEW p \in Coming(id), p # 0
  PROVE  p \in DOMAIN told /\ told[p].key = k
PROOF
  <1>0. ControlInv /\ RegisteredInv
    BY DEF AllInv
  <1>1. CASE p = sent[id]
    BY <1>1 DEF EventInv
  <1>2. CASE p \in InHand(id)
    BY <1>2 DEF InHand, EventInv, OfKey
  <1>3. CASE \E i \in DOMAIN buffer : buffer[i].id = id /\ buffer[i].val = p
    BY <1>3 DEF EventInv, OfKey
  <1>4. CASE p = publications /\ \E u \in Callers : id \in todo[u]
    <2>1. PICK u \in Callers : id \in todo[u]
      BY <1>4
    <2>2. pc[u] = "loop" /\ call[u].key \in Keys /\ subscriptions[call[u].key][id] # None
      BY <1>0, <2>1 DEF ControlInv, LoopInv, CallInv, Subscribers
    <2>3. call[u].key = k
      BY <1>0, <2>2 DEF RegisteredInv
    <2> QED
      BY <1>4, <2>2, <2>3 DEF EventInv
  <1>5. p \in dueBar[id] \/ p \in InHand(id) \/ p = sent[id]
    BY DueIs DEF Coming
  <1> QED
    BY <1>1, <1>2, <1>3, <1>4, <1>5, DueBarIs

(* The last value a subscriber gets is the one that readers find (UpToDate), for
   any number of sets, updates, subscriptions and deliveries at the same time:
   setSignal publishes while it holds rwMutex_, publishForVSSPath reaches all
   subscriptions of its leaf at once, and no event is lost on the way while its
   client is there.                                                            *)
THEOREM SubscribersUpToDate == ServerSpec => []UpToDate
PROOF
  <1>1. AllInv /\ ServerInv => UpToDate
    <2> SUFFICES ASSUME AllInv, ServerInv, NEW k \in Keys, NEW id \in Ids, NEW p \in Coming(id),
                        subscriptions[k][id] # None, Reached(id, subscriptions[k][id]),
                        p # 0, \A q \in Coming(id) : q <= p,
                        k \notin overwritten, ~StoredUntold(k)
                 PROVE  told[p].val = Value(k)
      BY DEF UpToDate
    <2>1. ComposedTypeOK /\ ToldInv /\ EventInv /\ DeliveredInv
      BY DEF ServerInv
    <2>2. p \in DOMAIN told /\ told[p].key = k
      BY <2>1, ComingIsTold
    <2>3. Complete(k, id)
      BY <2>1 DEF DeliveredInv, Served
    <2>4. ~ (Due(id) = {} /\ sent[id] = 0)
      BY DEF Coming
    <2>5. Coming(id) \subseteq Nat /\ DOMAIN told \subseteq Nat
      BY <2>1, DueNumbers DEF Coming, ComposedTypeOK
    <2>6. ASSUME NEW j \in DOMAIN told, told[j].key = k
          PROVE  j <= p
      <3>1. PICK q \in Coming(id) : j <= q
        BY <2>3, <2>4, <2>6 DEF Complete
      <3>2. q <= p
        BY <3>1
      <3> QED
        BY <2>5, <3>1, <3>2
    <2> QED
      BY <2>1, <2>2, <2>6 DEF ToldInv
  <1> QED
    BY <1>1, HandlerHolds, ServerInvariant, PTL
=============================================================================
