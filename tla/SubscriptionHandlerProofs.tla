---------------------- MODULE SubscriptionHandlerProofs ----------------------
(* Proofs about SubscriptionHandler, for any threads, channels, keys and ids.

   ControlInv, the invariant of the two mutexes and of what each thread is in
   the middle of, is inductive by itself and is proved first; the order of
   deliveries and the two maps of subscriptions rest on it.                    *)
EXTENDS HandlerNotification, TLAPS

(* Every state variable keeps its type, every step of a call finds the arguments
   it needs, and each mutex is held by the thread that is inside its section.  *)
LEMMA InitControl == Init => ControlInv
  BY Distinct
     DEF Init, ControlInv, TypeOK, MutexInv, CallInv, LoopInv, FrontDefined,
         InFlight, Event, NoEvent, Call, NoCall, RunnerPc, CallerPc, Callers,
         Channels, Subscribers

(* The steps of the thread that owns the handler and of the connections. *)
LEMMA LifeControl ==
  ASSUME ControlInv,
         \/ OwnerStep \/ BeginStop
         \/ \E w \in WsChannels : AddClient(w) \/ RemoveClient(w)
  PROVE  ControlInv'
<1> USE Distinct DEF ControlInv, TypeOK, MutexInv, CallInv, LoopInv,
      FrontDefined, InFlight, RunnerPc, CallerPc, Subscribers, handlerVars,
      runnerVars, callerVars, channelVars, history
<1>1. CASE StartThread BY <1>1 DEF StartThread
<1>2. CASE StopThread BY <1>2 DEF StopThread, NotifyOne
<1>3. CASE Join BY <1>3 DEF Join
<1>4. CASE BeginStop BY <1>4 DEF BeginStop
<1>5. ASSUME NEW w \in WsChannels, AddClient(w) PROVE ControlInv'
  BY <1>5 DEF AddClient, IoIdle
<1>6. ASSUME NEW w \in WsChannels, RemoveClient(w) PROVE ControlInv'
  BY <1>6 DEF RemoveClient, IoIdle
<1>7. QED BY <1>1, <1>2, <1>3, <1>4, <1>5, <1>6 DEF OwnerStep

(* The steps of subThreadRunner. *)
LEMMA RunnerControl ==
  ASSUME ControlInv, RunnerStep \/ SpuriousWakeup
  PROVE  ControlInv'
<1> USE Distinct DEF ControlInv, TypeOK, MutexInv, CallInv, LoopInv,
      FrontDefined, InFlight, RunnerPc, CallerPc, Subscribers, handlerVars,
      runnerVars, callerVars, channelVars, history, RunnerGoto, NextIteration,
      Unlock
<1>1. CASE CheckRun BY <1>1 DEF CheckRun
<1>2. CASE CheckSize BY <1>2 DEF CheckSize, HasEvents
<1>3. CASE Pop BY <1>3 DEF Pop
<1>4. CASE SendToConnection BY <1>4 DEF SendToConnection, Event
<1>5. CASE ConnectionGone BY <1>5 DEF ConnectionGone
<1>6. CASE CleanUp BY <1>6 DEF CleanUp, EraseFirstOfEachKey
<1>7. CASE NoStream BY <1>7 DEF NoStream
<1>8. CASE FindStream BY <1>8 DEF FindStream
<1>9. CASE WriteStream BY <1>9 DEF WriteStream, Event
<1>14. CASE Terminate BY <1>14 DEF Terminate
<1>10. CASE Wait BY <1>10 DEF Wait
<1>11. CASE Wake BY <1>11 DEF Wake
<1>12. CASE SpuriousWakeup BY <1>12 DEF SpuriousWakeup
<1>13. QED
  BY <1>1, <1>2, <1>3, <1>4, <1>5, <1>6, <1>7, <1>8, <1>9, <1>10, <1>11, <1>12, <1>14
     DEF RunnerStep

(* A caller that moves disturbs no other caller. *)
Moved(t) ==
  /\ pc' \in [Callers -> CallerPc]
  /\ call' \in [Callers -> Call]
  /\ \A u \in Callers : u # t => pc'[u] = pc[u] /\ call'[u] = call[u]

LEMMA EnterEffect ==
  ASSUME TypeOK, NEW t \in Callers, NEW p \in CallerPc, NEW c \in Call,
         Enter(t, p, c)
  PROVE  Moved(t) /\ pc'[t] = p /\ call'[t] = c
  BY DEF TypeOK, Enter, Moved

LEMMA GotoEffect ==
  ASSUME TypeOK, NEW t \in Callers, NEW p \in CallerPc, Goto(t, p)
  PROVE  Moved(t) /\ pc'[t] = p /\ call'[t] = call[t]
  BY DEF TypeOK, Goto, Moved

LEMMA ReturnEffect ==
  ASSUME TypeOK, NEW t \in Callers, Return(t)
  PROVE  Moved(t) /\ pc'[t] = "idle"
<1>1. NoCall \in Call BY DEF NoCall, Call
<1>2. "idle" \in CallerPc BY DEF CallerPc
<1>3. QED BY <1>1, <1>2, EnterEffect DEF Return

(* What the client threads call. *)
LEMMA ClientControl ==
  ASSUME ControlInv, NEW t \in Callers,
         \/ ClientStep(t)
         \/ \E id \in Ids : CallUnsubscribeWs(id)
  PROVE  ControlInv'
<1> USE Distinct DEF ControlInv, TypeOK, MutexInv, CallInv, LoopInv,
      FrontDefined, InFlight, CallerPc, Subscribers, handlerVars, runnerVars,
      channelVars, history, Enter, Call, NoCall, Idle, IoIdle
<1>1. ASSUME NEW ch \in Channels, NEW k \in Keys, NEW id \in Ids,
             CallSubscribe(t, ch, k, id)
      PROVE  ControlInv'
  BY <1>1 DEF CallSubscribe
<1>2. ASSUME NEW g \in GrpcChannels, NEW k \in Keys, CallUnsubscribeGrpc(t, g, k)
      PROVE  ControlInv'
  BY <1>2 DEF CallUnsubscribeGrpc, Channels
<1>3. ASSUME NEW g \in GrpcChannels, EndStream(t, g) PROVE ControlInv'
  BY <1>3 DEF EndStream, Channels
<1>4. ASSUME NEW k \in Keys, CallPublish(t, k) PROVE ControlInv'
  BY <1>4 DEF CallPublish
<1>5. ASSUME NEW id \in Ids, CallUnsubscribeWs(id) PROVE ControlInv'
  BY <1>5 DEF CallUnsubscribeWs, Callers
<1>6. QED BY <1>1, <1>2, <1>3, <1>4, <1>5 DEF ClientStep

(* The steps of the operations themselves. *)
LEMMA CallerControl ==
  ASSUME ControlInv, NEW t \in Callers, CallerStep(t)
  PROVE  ControlInv'
<1> USE Distinct
<1>a. /\ {"idle", "register", "erase", "unsubscribeAll", "clear", "loop"} \subseteq CallerPc
      /\ TypeOK /\ MutexInv /\ CallInv /\ LoopInv /\ FrontDefined
  BY DEF CallerPc, ControlInv
<1> SUFFICES TypeOK' /\ MutexInv' /\ CallInv' /\ LoopInv' /\ FrontDefined'
  BY DEF ControlInv
<1> USE DEF handlerVars, runnerVars, channelVars, history
<1>1. CASE Subscribe(t)
  <2>1. /\ Moved(t)
        /\ \/ pc'[t] = "idle"
           \/ pc'[t] = "register" /\ call'[t] = call[t] /\ call[t].chan \in GrpcChannels
    BY <1>1, <1>a, GotoEffect, ReturnEffect DEF Subscribe
  <2>2. subscriptions' \in [Keys -> [Ids -> Channels \cup {None}]]
    BY <1>1, <1>a DEF Subscribe, TypeOK, CallInv
  <2>3. TypeOK' BY <1>1, <1>a, <2>1, <2>2 DEF Subscribe, TypeOK, Moved
  <2>4. MutexInv' BY <1>1, <1>a, <2>1 DEF Subscribe, MutexInv, Moved, InFlight
  <2>5. CallInv' BY <1>1, <1>a, <2>1 DEF Subscribe, CallInv, Moved
  <2>6. LoopInv'
    BY <1>1, <1>a, <2>1 DEF Subscribe, LoopInv, MutexInv, TypeOK, Moved
  <2>7. QED BY <1>1, <1>a, <2>3, <2>4, <2>5, <2>6 DEF Subscribe, FrontDefined
<1>2. CASE GrpcRegister(t)
  <2>1. Moved(t) /\ pc'[t] = "idle" BY <1>2, <1>a, ReturnEffect DEF GrpcRegister
  <2>2. TypeOK' BY <1>2, <1>a, <2>1 DEF GrpcRegister, TypeOK, CallInv, Moved
  <2>3. MutexInv' BY <1>2, <1>a, <2>1 DEF GrpcRegister, MutexInv, Moved, InFlight
  <2>4. CallInv' BY <1>2, <1>a, <2>1 DEF GrpcRegister, CallInv, Moved
  <2>5. LoopInv' BY <1>2, <1>a, <2>1 DEF GrpcRegister, LoopInv, Moved, Subscribers
  <2>6. QED BY <1>2, <1>a, <2>2, <2>3, <2>4, <2>5 DEF GrpcRegister, FrontDefined
<1>3. CASE Unsubscribe(t)
  <2>1. /\ Moved(t)
        /\ \/ pc'[t] = "idle"
           \/ pc'[t] = "erase" /\ call'[t] = call[t] /\ call[t].chan \in GrpcChannels
    BY <1>3, <1>a, GotoEffect, ReturnEffect DEF Unsubscribe
  <2>2. subscriptions' \in [Keys -> [Ids -> Channels \cup {None}]]
    BY <1>3, <1>a DEF Unsubscribe, TypeOK
  <2>3. TypeOK' BY <1>3, <1>a, <2>1, <2>2 DEF Unsubscribe, TypeOK, Moved
  <2>4. MutexInv' BY <1>3, <1>a, <2>1 DEF Unsubscribe, MutexInv, Moved, InFlight
  <2>5. CallInv' BY <1>3, <1>a, <2>1 DEF Unsubscribe, CallInv, Moved, Channels
  <2>6. LoopInv'
    BY <1>3, <1>a, <2>1 DEF Unsubscribe, LoopInv, MutexInv, TypeOK, Moved
  <2>7. QED BY <1>3, <1>a, <2>3, <2>4, <2>5, <2>6 DEF Unsubscribe, FrontDefined
<1>4. CASE GrpcErase(t)
  <2>1. /\ Moved(t)
        /\ \/ pc'[t] = "idle"
           \/ pc'[t] = "unsubscribeAll" /\ call'[t].chan \in GrpcChannels
    <3>1. call[t].chan \in GrpcChannels BY <1>4, <1>a DEF GrpcErase, CallInv
    <3>2. [NoCall EXCEPT !.chan = call[t].chan] \in Call
      BY <3>1 DEF NoCall, Call, Channels
    <3>3. [NoCall EXCEPT !.chan = call[t].chan].chan = call[t].chan BY DEF NoCall
    <3>4. CASE Return(t) BY <1>a, <3>4, ReturnEffect
    <3>5. CASE Enter(t, "unsubscribeAll", [NoCall EXCEPT !.chan = call[t].chan])
      BY <1>a, <3>1, <3>2, <3>3, <3>5, EnterEffect
    <3>6. QED BY <1>4, <3>4, <3>5 DEF GrpcErase
  <2>2. TypeOK' BY <1>4, <1>a, <2>1 DEF GrpcErase, StreamsLeft, TypeOK, CallInv, Moved
  <2>3. MutexInv' BY <1>4, <1>a, <2>1 DEF GrpcErase, MutexInv, Moved, InFlight
  <2>4. CallInv' BY <1>4, <1>a, <2>1 DEF GrpcErase, CallInv, Moved
  <2>5. LoopInv' BY <1>4, <1>a, <2>1 DEF GrpcErase, LoopInv, Moved, Subscribers
  <2>6. QED BY <1>4, <1>a, <2>2, <2>3, <2>4, <2>5 DEF GrpcErase, FrontDefined
<1>5. CASE UnsubscribeAll(t)
  <2>1. Moved(t) /\ pc'[t] = "clear" /\ call'[t] = call[t]
    BY <1>5, <1>a, GotoEffect DEF UnsubscribeAll
  <2>2. subscriptions' \in [Keys -> [Ids -> Channels \cup {None}]]
    BY <1>5, <1>a DEF UnsubscribeAll, EraseFirstOfEachKey, TypeOK
  <2>3. TypeOK' BY <1>5, <1>a, <2>1, <2>2 DEF UnsubscribeAll, TypeOK, Moved
  <2>4. MutexInv' BY <1>5, <1>a, <2>1 DEF UnsubscribeAll, MutexInv, Moved, InFlight
  <2>5. CallInv' BY <1>5, <1>a, <2>1 DEF UnsubscribeAll, CallInv, Moved
  <2>6. LoopInv'
    BY <1>5, <1>a, <2>1 DEF UnsubscribeAll, LoopInv, MutexInv, TypeOK, Moved
  <2>7. QED BY <1>5, <1>a, <2>3, <2>4, <2>5, <2>6 DEF UnsubscribeAll, FrontDefined
<1>6. CASE GrpcClear(t)
  <2>1. Moved(t) /\ pc'[t] = "idle" BY <1>6, <1>a, ReturnEffect DEF GrpcClear
  <2>2. TypeOK' BY <1>6, <1>a, <2>1 DEF GrpcClear, TypeOK, Moved
  <2>3. MutexInv' BY <1>6, <1>a, <2>1 DEF GrpcClear, MutexInv, Moved, InFlight
  <2>4. CallInv' BY <1>6, <1>a, <2>1 DEF GrpcClear, CallInv, Moved
  <2>5. LoopInv' BY <1>6, <1>a, <2>1 DEF GrpcClear, LoopInv, Moved, Subscribers
  <2>6. QED BY <1>6, <1>a, <2>2, <2>3, <2>4, <2>5 DEF GrpcClear, FrontDefined
<1>7. CASE Publish(t)
  <2>1. /\ Moved(t)
        /\ \/ pc'[t] = "idle" /\ UNCHANGED <<accessMutex, todo>>
           \/ /\ pc'[t] = "loop" /\ call'[t] = call[t]
              /\ accessMutex' = t
              /\ todo' = [todo EXCEPT ![t] = Subscribers(call[t].key)]
    BY <1>7, <1>a, GotoEffect, ReturnEffect DEF Publish, LoopLocked
  <2>2. TypeOK'
    <3>1. accessMutex' \in Callers \cup {None} BY <1>a, <2>1 DEF TypeOK
    <3>2. todo' \in [Callers -> SUBSET Ids] BY <1>a, <2>1 DEF TypeOK, Subscribers
    <3>3. publications' \in Nat BY <1>7, <1>a DEF Publish, TypeOK
    <3>4. UNCHANGED <<subscriptions, buffer, subMutex, threadRun, rpc, newSub, life,
                      channelVars, issued, accepted, sent>>
      BY <1>7 DEF Publish
    <3>5. QED BY <1>a, <2>1, <3>1, <3>2, <3>3, <3>4 DEF TypeOK, Moved
  <2>3. MutexInv'
    BY <1>7, <1>a, <2>1 DEF Publish, MutexInv, Moved, InFlight, Callers
  <2>4. CallInv' BY <1>7, <1>a, <2>1 DEF Publish, CallInv, Moved
  <2>5. LoopInv'
    <3> SUFFICES ASSUME NEW u \in Callers
                 PROVE  /\ pc'[u] # "loop" => todo'[u] = {}
                        /\ pc'[u] = "loop" => todo'[u] \subseteq Subscribers(call[u].key)'
      BY DEF LoopInv
    <3>1. UNCHANGED subscriptions BY <1>7 DEF Publish
    <3>2. Subscribers(call[u].key)' = Subscribers(call'[u].key) BY <3>1 DEF Subscribers
    <3>3. CASE u = t
      <4>1. todo[t] = {} BY <1>7, <1>a DEF Publish, LoopInv
      <4>2. pc'[t] = "loop" => todo'[t] = Subscribers(call[t].key) /\ call'[t] = call[t]
        BY <1>a, <2>1 DEF TypeOK
      <4>3. pc'[t] # "loop" => todo'[t] = todo[t] BY <2>1
      <4>4. QED BY <3>2, <3>3, <4>1, <4>2, <4>3
    <3>4. CASE u # t
      <4>1. pc'[u] = pc[u] /\ call'[u] = call[u] BY <2>1, <3>4 DEF Moved
      <4>2. todo'[u] = todo[u] BY <1>a, <2>1, <3>4 DEF TypeOK
      <4>3. Subscribers(call[u].key)' = Subscribers(call[u].key) BY <3>2, <4>1
      <4>4. QED BY <1>a, <4>1, <4>2, <4>3 DEF LoopInv
    <3>5. QED BY <3>3, <3>4
  <2>6. QED BY <1>7, <1>a, <2>2, <2>3, <2>4, <2>5 DEF Publish, FrontDefined
<1>8. ASSUME NEW id \in Ids, Push(t, id)
      PROVE  TypeOK' /\ MutexInv' /\ CallInv' /\ LoopInv' /\ FrontDefined'
  <2> DEFINE k == call[t].key
             e == [id |-> id, chan |-> subscriptions[k][id],
                   key |-> k, val |-> publications]
  <2>1. /\ Moved(t)
        /\ \/ pc'[t] = "idle" /\ todo[t] = {id} /\ accessMutex' = None
           \/ pc'[t] = "loop" /\ call'[t] = call[t] /\ accessMutex' = accessMutex
    BY <1>8, <1>a, ReturnEffect DEF Push, StillToServe, TypeOK, Moved
  <2>2. e \in Event
    BY <1>8, <1>a DEF Push, Event, TypeOK, CallInv, LoopInv, Subscribers
  <2>3. buffer' = Append(buffer, e) /\ buffer' \in Seq(Event) /\ buffer' # <<>>
    BY <1>8, <1>a, <2>2 DEF Push, TypeOK
  <2>4. /\ todo' = [todo EXCEPT ![t] = todo[t] \ {id}]
        /\ rpc' \in RunnerPc /\ rpc' \in {rpc, "woken"}
        /\ rpc = "waiting" <=> rpc' # rpc
    BY <1>8, <1>a DEF Push, StillToServe, NotifyOne, TypeOK, RunnerPc
  <2>5. TypeOK' BY <1>8, <1>a, <2>1, <2>3, <2>4 DEF Push, TypeOK, Moved
  <2>6. MutexInv'
    BY <1>8, <1>a, <2>1, <2>4 DEF Push, MutexInv, Moved, InFlight, Callers
  <2>7. CallInv' BY <1>8, <1>a, <2>1 DEF Push, CallInv, Moved
  <2>8. LoopInv'
    BY <1>8, <1>a, <2>1, <2>4 DEF Push, LoopInv, Moved, Subscribers, TypeOK
  <2>9. QED BY <2>3, <2>5, <2>6, <2>7, <2>8 DEF FrontDefined
<1>9. QED
  BY <1>1, <1>2, <1>3, <1>4, <1>5, <1>6, <1>7, <1>8 DEF CallerStep

THEOREM ControlInvariant == Spec => []ControlInv
<1>1. ControlInv /\ [Next]_vars => ControlInv'
  <2> SUFFICES ASSUME ControlInv, [Next]_vars PROVE ControlInv' OBVIOUS
  <2>1. CASE Next
    BY <2>1, LifeControl, RunnerControl, ClientControl, CallerControl DEF Next, Callers
  <2>2. CASE UNCHANGED vars
    BY <2>2 DEF vars, ControlInv, TypeOK, MutexInv, CallInv, LoopInv,
       FrontDefined, InFlight, Subscribers, handlerVars, runnerVars, callerVars,
       channelVars, history
  <2>3. QED BY <2>1, <2>2
<1>2. QED BY InitControl, <1>1, PTL DEF Spec

(* The code's state keeps its shape in every run of the handler, whatever the
   threads, channels and keys (TypeOK).                                        *)
THEOREM TypeInvariant == Spec => []TypeOK
<1>1. ControlInv => TypeOK BY DEF ControlInv
<1>2. QED BY <1>1, ControlInvariant, PTL

(* subThreadRunner never pops an empty queue, though it looked at the size
   without the mutex (FrontDefined).                                           *)
THEOREM FrontAlwaysDefined == Spec => []FrontDefined
<1>1. ControlInv => FrontDefined BY DEF ControlInv
<1>2. QED BY <1>1, ControlInvariant, PTL

-----------------------------------------------------------------------------
(* The order of deliveries.  Most steps touch neither the events nor the loops. *)
Quiet ==
  /\ UNCHANGED <<buffer, sent, publications>>
  /\ \A t \in Callers : pc'[t] = "loop" => pc[t] = "loop" /\ todo'[t] = todo[t]
  /\ InFlight' => /\ InFlight /\ newSub' = newSub
                  /\ rpc' # "cleanup" => rpc # "cleanup"

OrderInv == LatestInv /\ DeliveryOrder

LEMMA QuietOrder == OrderInv /\ Quiet => OrderInv'
  BY DEF OrderInv, LatestInv, DeliveryOrder, Quiet

LEMMA LifeQuiet ==
  ASSUME ControlInv,
         \/ OwnerStep \/ BeginStop
         \/ \E w \in WsChannels : AddClient(w) \/ RemoveClient(w)
  PROVE  Quiet
<1> USE DEF Quiet, handlerVars, runnerVars, callerVars, history, InFlight
<1>1. CASE StartThread BY <1>1 DEF StartThread
<1>2. CASE StopThread BY <1>2 DEF StopThread, NotifyOne
<1>3. CASE Join BY <1>3 DEF Join
<1>4. CASE BeginStop BY <1>4 DEF BeginStop
<1>5. ASSUME NEW w \in WsChannels, AddClient(w) \/ RemoveClient(w) PROVE Quiet
  BY <1>5 DEF AddClient, RemoveClient
<1>6. QED BY <1>1, <1>2, <1>3, <1>4, <1>5 DEF OwnerStep

LEMMA ClientQuiet ==
  ASSUME ControlInv, NEW t \in Callers,
         \/ ClientStep(t)
         \/ \E id \in Ids : CallUnsubscribeWs(id)
  PROVE  Quiet
<1> USE DEF Quiet, handlerVars, runnerVars, history, InFlight, ControlInv,
      TypeOK, Enter
<1>1. ASSUME NEW ch \in Channels, NEW k \in Keys, NEW id \in Ids,
             CallSubscribe(t, ch, k, id)
      PROVE  Quiet
  BY <1>1 DEF CallSubscribe
<1>2. ASSUME NEW g \in GrpcChannels, NEW k \in Keys, CallUnsubscribeGrpc(t, g, k)
      PROVE  Quiet
  BY <1>2 DEF CallUnsubscribeGrpc
<1>3. ASSUME NEW g \in GrpcChannels, EndStream(t, g) PROVE Quiet
  BY <1>3 DEF EndStream
<1>4. ASSUME NEW k \in Keys, CallPublish(t, k) PROVE Quiet
  BY <1>4 DEF CallPublish
<1>5. ASSUME NEW id \in Ids, CallUnsubscribeWs(id) PROVE Quiet
  BY <1>5 DEF CallUnsubscribeWs, Callers
<1>6. QED BY <1>1, <1>2, <1>3, <1>4, <1>5 DEF ClientStep

LEMMA RunnerOrder ==
  ASSUME ControlInv, OrderInv, RunnerStep \/ SpuriousWakeup
  PROVE  OrderInv'
<1> USE DEF handlerVars, callerVars, history, RunnerGoto, NextIteration, Unlock,
      InFlight
<1>1. CASE \/ CheckRun \/ CheckSize \/ ConnectionGone \/ CleanUp \/ NoStream
           \/ FindStream \/ Terminate \/ Wait \/ Wake \/ SpuriousWakeup
  <2>1. Quiet
    BY <1>1 DEF Quiet, CheckRun, CheckSize, ConnectionGone, CleanUp, NoStream,
       FindStream, Terminate, Wait, Wake, SpuriousWakeup
  <2>2. QED BY <2>1, QuietOrder
<1>2. CASE Pop
  <2>1. buffer \in Seq(Event) /\ buffer # <<>>
    BY <1>2 DEF Pop, ControlInv, TypeOK, FrontDefined
  <2>2. /\ newSub' = buffer[1]
        /\ \A i \in DOMAIN buffer' : i + 1 \in DOMAIN buffer /\ buffer'[i] = buffer[i + 1]
        /\ DOMAIN buffer' \subseteq Nat \ {0} /\ 1 \in DOMAIN buffer
    BY <1>2, <2>1 DEF Pop
  <2>3. UNCHANGED <<sent, publications, callerVars>> /\ rpc' = "deliver"
    BY <1>2 DEF Pop
  <2>4. LatestInv' BY <2>2, <2>3 DEF LatestInv, OrderInv
  <2>5. DeliveryOrder' BY <2>2, <2>3 DEF DeliveryOrder, OrderInv
  <2>6. QED BY <2>4, <2>5 DEF OrderInv
<1>3. CASE SendToConnection \/ WriteStream
  <2>1. /\ UNCHANGED <<buffer, publications, callerVars>>
        /\ ~InFlight' /\ InFlight /\ rpc # "cleanup"
        /\ sent' = [sent EXCEPT ![newSub.id] = newSub.val]
    BY <1>3 DEF SendToConnection, WriteStream
  <2>2. newSub \in Event /\ sent \in [Ids -> Nat]
    BY <2>1 DEF ControlInv, MutexInv, TypeOK
  <2>3. newSub.val \in Nat /\ newSub.id \in Ids BY <2>2 DEF Event
  <2>4. LatestInv' BY <2>1, <2>2, <2>3 DEF LatestInv, OrderInv
  <2>5. DeliveryOrder'
    BY <2>1, <2>2, <2>3 DEF DeliveryOrder, OrderInv
  <2>6. QED BY <2>4, <2>5 DEF OrderInv
<1>4. QED BY <1>1, <1>2, <1>3 DEF RunnerStep

LEMMA CallerOrder ==
  ASSUME ControlInv, OrderInv, NEW t \in Callers, CallerStep(t)
  PROVE  OrderInv'
<1> USE DEF handlerVars, runnerVars, history
<1>0. TypeOK /\ MutexInv /\ CallInv /\ LoopInv BY DEF ControlInv
<1>1. CASE \/ Subscribe(t) \/ GrpcRegister(t) \/ Unsubscribe(t) \/ GrpcErase(t)
           \/ UnsubscribeAll(t) \/ GrpcClear(t)
  <2>1. UNCHANGED <<buffer, sent, publications, rpc, newSub, todo>>
    BY <1>1 DEF Subscribe, GrpcRegister, Unsubscribe, GrpcErase, UnsubscribeAll,
       GrpcClear
  <2>2. \A u \in Callers : pc'[u] = "loop" => pc[u] = "loop"
    BY <1>0, <1>1 DEF Subscribe, GrpcRegister, Unsubscribe, GrpcErase,
       UnsubscribeAll, GrpcClear, Enter, Goto, Return, TypeOK
  <2>3. Quiet BY <2>1, <2>2 DEF Quiet, InFlight
  <2>4. QED BY <2>3, QuietOrder
<1>2. CASE Publish(t)
  <2>1. \A u \in Callers : pc[u] # "loop" BY <1>0, <1>2, Distinct DEF Publish, MutexInv
  <2>2. UNCHANGED <<buffer, sent, rpc, newSub>> /\ publications' = publications + 1
    BY <1>2 DEF Publish
  <2>3. todo' \in [Callers -> SUBSET Ids]
    BY SMTT(20), <1>0, <1>2 DEF Publish, TypeOK, Subscribers
  <2>4. /\ publications \in Nat /\ sent \in [Ids -> Nat]
        /\ \A i \in DOMAIN buffer : buffer[i].val \in Nat
        /\ InFlight => newSub.val \in Nat
    <3>1. buffer \in Seq(Event) /\ (InFlight => newSub \in Event)
      BY <1>0 DEF TypeOK, MutexInv
    <3>2. \A i \in DOMAIN buffer : buffer[i] \in Event BY <3>1
    <3>3. \A e \in Event : e.val \in Nat BY DEF Event
    <3>4. QED BY <1>0, <3>1, <3>2, <3>3 DEF TypeOK
  <2>5. LatestInv' BY <2>1, <2>2, <2>3, <2>4 DEF LatestInv, OrderInv, InFlight
  <2>6. DeliveryOrder' BY <2>2 DEF DeliveryOrder, OrderInv, InFlight
  <2>7. QED BY <2>5, <2>6 DEF OrderInv
<1>3. ASSUME NEW id \in Ids, Push(t, id) PROVE OrderInv'
  <2> DEFINE k == call[t].key
             e == [id |-> id, chan |-> subscriptions[k][id],
                   key |-> k, val |-> publications]
             n == Len(buffer)
  <2>1. \A u \in Callers : pc[u] = "loop" => u = t
    BY <1>0, <1>3 DEF Push, MutexInv
  <2>2. /\ buffer \in Seq(Event) /\ n \in Nat /\ DOMAIN buffer = 1 .. n
        /\ DOMAIN buffer' = 1 .. n + 1
        /\ \A i \in 1 .. n : buffer'[i] = buffer[i]
        /\ buffer'[n + 1] = e
    BY <1>0, <1>3 DEF Push, TypeOK
  <2>3. /\ UNCHANGED <<sent, publications, newSub>>
        /\ InFlight' <=> InFlight
        /\ rpc' = "cleanup" <=> rpc = "cleanup"
        /\ todo' = [todo EXCEPT ![t] = todo[t] \ {id}]
        /\ pc[t] = "loop" /\ id \in todo[t]
    BY <1>3 DEF Push, StillToServe, NotifyOne, InFlight
  <2>4. \A u \in Callers : pc'[u] = "loop" => u = t
    BY <1>0, <1>3, <2>1 DEF Push, Return, Enter, TypeOK
  <2>5. e.id = id /\ e.val = publications /\ publications \in Nat
    BY <1>0 DEF TypeOK
  <2>6. /\ sent[id] < publications
        /\ \A i \in 1 .. n : buffer[i].id = id => buffer[i].val < publications
        /\ InFlight /\ newSub.id = id => newSub.val < publications
    BY <2>2, <2>3 DEF OrderInv, LatestInv
  <2>7. todo'[t] = todo[t] \ {id} BY <1>0, <2>3 DEF TypeOK
  <2> HIDE DEF e, n
  <2>8. LatestInv'
    BY <2>2, <2>3, <2>4, <2>5, <2>6, <2>7 DEF LatestInv, OrderInv
  <2>9. DeliveryOrder'
    BY <2>2, <2>3, <2>5, <2>6 DEF DeliveryOrder, OrderInv
  <2>10. QED BY <2>8, <2>9 DEF OrderInv
<1>4. QED BY <1>1, <1>2, <1>3 DEF CallerStep

LEMMA OrderStep ==
  ASSUME ControlInv, OrderInv, [Next]_vars
  PROVE  OrderInv'
<1>1. CASE Next
  BY <1>1, LifeQuiet, ClientQuiet, QuietOrder, RunnerOrder, CallerOrder
     DEF Next, Callers
<1>2. CASE UNCHANGED vars
  BY <1>2, QuietOrder DEF vars, Quiet, handlerVars, runnerVars, callerVars,
     history, InFlight
<1>3. QED BY <1>1, <1>2

(* Every client receives the publications of each subscription in the order in
   which publishForVSSPath made them, with any number of publishers
   (DeliveryOrder); IInv is the inductive invariant.                           *)
THEOREM DeliveriesInOrder == Spec => []DeliveryOrder
<1>1. Init => OrderInv
  BY DEF Init, OrderInv, LatestInv, DeliveryOrder, InFlight
<1>2. ControlInv /\ OrderInv /\ [Next]_vars => OrderInv' BY OrderStep
<1>3. OrderInv => DeliveryOrder BY DEF OrderInv
<1>4. QED BY <1>1, <1>2, <1>3, ControlInvariant, PTL DEF Spec

(* An event is only ever queued for a subscription that is in the map, under its
   channel: after unsubscribe or unsubscribeAll has returned, a publication that
   was already under way queues nothing for it (NoStalePush).                  *)
THEOREM NothingQueuedForTheUnsubscribed == Spec => NoStalePush
<1> DEFINE Fresh ==
      \A i \in DOMAIN buffer' \ DOMAIN buffer :
        /\ subscriptions[buffer'[i].key][buffer'[i].id] = buffer'[i].chan
        /\ buffer'[i].chan \in Channels
<1>1. ControlInv /\ [Next]_vars => [Fresh]_vars
  <2> SUFFICES ASSUME ControlInv, [Next]_vars PROVE Fresh OBVIOUS
  <2>1. buffer \in Seq(Event) BY DEF ControlInv, TypeOK
  <2>2. ASSUME NEW t \in Callers, NEW id \in Ids, Push(t, id) PROVE Fresh
    <3> DEFINE k == call[t].key
               e == [id |-> id, chan |-> subscriptions[k][id],
                     key |-> k, val |-> publications]
    <3>1. buffer' = Append(buffer, e) BY <2>2 DEF Push
    <3>2. \A i \in DOMAIN buffer' \ DOMAIN buffer : buffer'[i] = e
      BY <2>1, <3>1
    <3>3. subscriptions[k][id] \in Channels
      BY <2>2 DEF Push, ControlInv, TypeOK, CallInv, LoopInv, Subscribers
    <3>4. QED BY <3>2, <3>3
  <2>3. CASE Pop
    <3>1. buffer # <<>> BY <2>3 DEF Pop, ControlInv, FrontDefined
    <3>2. DOMAIN buffer' \subseteq DOMAIN buffer BY <2>1, <2>3, <3>1 DEF Pop
    <3>3. QED BY <3>2
  <2>4. CASE /\ ~Pop
             /\ \A t \in Callers, id \in Ids : ~Push(t, id)
    <3>1. UNCHANGED buffer
      <4>1. CASE OwnerStep \/ BeginStop \/ \E w \in WsChannels : AddClient(w) \/ RemoveClient(w)
        BY <4>1, LifeQuiet DEF Quiet
      <4>2. CASE \/ \E t \in Callers : ClientStep(t)
                 \/ \E id \in Ids : CallUnsubscribeWs(id)
        BY <4>2, ClientQuiet DEF Quiet, Callers
      <4>3. CASE \E t \in Callers : CallerStep(t)
        BY <2>4, <4>3 DEF CallerStep, Subscribe, GrpcRegister, Unsubscribe,
           GrpcErase, UnsubscribeAll, GrpcClear, Publish, handlerVars
      <4>4. CASE RunnerStep \/ SpuriousWakeup
        BY <2>4, <4>4 DEF RunnerStep, CheckRun, CheckSize, SendToConnection,
           ConnectionGone, CleanUp, NoStream, FindStream, WriteStream, Terminate, Wait,
           Wake, SpuriousWakeup, handlerVars
      <4>5. CASE UNCHANGED vars BY <4>5 DEF vars, handlerVars
      <4>6. QED BY <4>1, <4>2, <4>3, <4>4, <4>5 DEF Next
    <3>2. QED BY <3>1
  <2>5. QED BY <2>2, <2>3, <2>4
<1>2. QED BY <1>1, ControlInvariant, PTL DEF Spec, NoStalePush

-----------------------------------------------------------------------------
(* A stream is that of a subscription (StreamsSubscribed).

   The two maps have no common mutex.  What keeps them together is that an id is
   in one thread's hands at a time and a stream has one thread; StreamInv says
   so, and is inductive relative to ControlInv.                                *)

LEMMA InitStream == Init => StreamInv
  BY Distinct DEF Init, StreamInv, ServeInv, IdInv, HoldsInv, StreamsSubscribed,
     NoCall, Callers, Channels

(* Steps that leave both maps and every call with an id alone. *)
Still ==
  /\ UNCHANGED <<subscriptions, grpcSubsMap, currentSubs, issued>>
  /\ rpc' = "cleanup" => newSub'.chan \in WsChannels
  /\ \A t \in Callers :
       \/ pc'[t] = pc[t] /\ call'[t] = call[t]
       \/ /\ pc[t] \in {"idle", "publish", "loop"} /\ pc'[t] \in {"idle", "publish", "loop"}
          /\ \/ call'[t] = call[t]
             \/ call'[t].id = None /\ call'[t].chan = None

LEMMA StillStream == ControlInv /\ StreamInv /\ Still => StreamInv'
<1> SUFFICES ASSUME ControlInv, StreamInv, Still PROVE StreamInv' OBVIOUS
<1> USE Distinct DEF StreamInv
<1>0. /\ GrpcThreads \subseteq Callers /\ IoThread \in Callers
      /\ None \notin GrpcChannels /\ None \notin Ids
      /\ grpcSubsMap \in [GrpcChannels -> SUBSET Ids]
  BY DEF Callers, Channels, ControlInv, TypeOK
<1>1. ServeInv' BY <1>0 DEF ServeInv, Still
<1>2. IdInv' BY <1>0 DEF IdInv, Still
<1>3. HoldsInv' BY <1>0 DEF HoldsInv, Still
<1>4. StreamsSubscribed' BY <1>0 DEF StreamsSubscribed, Still
<1>5. QED BY <1>1, <1>2, <1>3, <1>4

LEMMA LifeStill ==
  ASSUME ControlInv, StreamInv,
         \/ OwnerStep \/ BeginStop
         \/ \E w \in WsChannels : AddClient(w) \/ RemoveClient(w)
  PROVE  Still
<1> USE DEF Still, handlerVars, runnerVars, callerVars, channelVars, history,
      StreamInv, ServeInv
<1>1. CASE StartThread BY <1>1 DEF StartThread
<1>2. CASE StopThread BY <1>2 DEF StopThread, NotifyOne
<1>3. CASE Join BY <1>3 DEF Join
<1>4. CASE BeginStop BY <1>4 DEF BeginStop
<1>5. ASSUME NEW w \in WsChannels, AddClient(w) \/ RemoveClient(w) PROVE Still
  BY <1>5 DEF AddClient, RemoveClient
<1>6. QED BY <1>1, <1>2, <1>3, <1>4, <1>5 DEF OwnerStep

LEMMA RunnerStill ==
  ASSUME ControlInv, StreamInv, RunnerStep \/ SpuriousWakeup, ~CleanUp
  PROVE  Still
<1> USE DEF Still, handlerVars, callerVars, channelVars, history, RunnerGoto,
      NextIteration, Unlock
<1>1. CASE ConnectionGone BY <1>1 DEF ConnectionGone
<1>2. CASE CheckRun \/ CheckSize \/ Pop \/ Wait \/ Wake \/ SpuriousWakeup
  BY <1>2 DEF CheckRun, CheckSize, Pop, Wait, Wake, SpuriousWakeup
<1>3. CASE SendToConnection \/ NoStream \/ FindStream \/ WriteStream \/ Terminate
  BY <1>3 DEF SendToConnection, NoStream, FindStream, WriteStream, Terminate
<1>4. QED BY <1>1, <1>2, <1>3 DEF RunnerStep

(* The publish path knows no streams. *)
LEMMA PublishStill ==
  ASSUME ControlInv, StreamInv, NEW t \in Callers,
         \/ \E k \in Keys : CallPublish(t, k)
         \/ Publish(t)
         \/ \E id \in Ids : Push(t, id)
  PROVE  Still
<1> USE DEF Still, handlerVars, runnerVars, channelVars, history
<1>0. /\ pc \in [Callers -> CallerPc] /\ call \in [Callers -> Call]
      /\ rpc = "cleanup" => newSub.chan \in WsChannels
  BY DEF ControlInv, TypeOK, StreamInv, ServeInv
<1>1. ASSUME NEW k \in Keys, CallPublish(t, k) PROVE Still
  BY <1>0, <1>1 DEF CallPublish, Enter, Idle, NoCall
<1>2. CASE Publish(t)
  BY <1>0, <1>2 DEF Publish, Return, Enter, Goto, NoCall
<1>3. ASSUME NEW id \in Ids, Push(t, id) PROVE Still
  BY <1>0, <1>3 DEF Push, Return, Enter, NoCall, NotifyOne
<1>4. QED BY <1>1, <1>2, <1>3

-----------------------------------------------------------------------------
(* The steps that change who holds an id, one lemma for each. *)

(* What every step of a caller may rely on. *)
LEMMA StreamFacts ==
  ASSUME ControlInv
  PROVE  /\ GrpcThreads \subseteq Callers /\ IoThread \in Callers
         /\ \A t \in Callers : t # IoThread => t \in GrpcThreads
         /\ None \notin GrpcChannels /\ None \notin Ids
         /\ WsChannels \cap GrpcChannels = {}
         /\ pc \in [Callers -> CallerPc] /\ call \in [Callers -> Call]
         /\ subscriptions \in [Keys -> [Ids -> Channels \cup {None}]]
         /\ grpcSubsMap \in [GrpcChannels -> SUBSET Ids]
         /\ currentSubs \in [GrpcChannels -> [Keys -> Ids \cup {None}]]
         /\ connected \subseteq WsChannels
         /\ issued \subseteq Ids
  BY Distinct DEF Callers, Channels, ControlInv, TypeOK

LEMMA CallSubscribeStream ==
  ASSUME ControlInv, StreamInv, NEW t \in Callers, NEW ch \in Channels,
         NEW k \in Keys, NEW id \in Ids, CallSubscribe(t, ch, k, id)
  PROVE  StreamInv'
<1> USE StreamFacts, Distinct DEF StreamInv, handlerVars, runnerVars, channelVars
<1>1. /\ pc' = [pc EXCEPT ![t] = "subscribe"] /\ pc[t] = "idle"
      /\ call' = [call EXCEPT ![t] = [key |-> k, id |-> id, chan |-> ch]]
      /\ UNCHANGED <<subscriptions, grpcSubsMap, currentSubs, rpc, newSub>>
      /\ issued' = issued \cup {id} /\ id \notin issued
      /\ MayServe(t, ch)
  BY DEF CallSubscribe, Enter, Idle
<1>2. ServeInv' BY <1>1 DEF ServeInv, MayServe
<1>3. IdInv' BY <1>1 DEF IdInv
<1>4. HoldsInv' BY <1>1 DEF HoldsInv, IdInv
<1>5. StreamsSubscribed' BY <1>1 DEF StreamsSubscribed
<1>6. QED BY <1>2, <1>3, <1>4, <1>5

(* A thread that keeps the stream it serves, or lets go of it, and the id it
   holds, or lets go of it.                                                    *)
LEMMA ServeKept ==
  ASSUME ControlInv, ServeInv, NEW t \in Callers, Moved(t),
         call'[t].chan \in {call[t].chan, None},
         UNCHANGED <<rpc, newSub>>
  PROVE  ServeInv'
<1>1. \A u \in Callers : call'[u].chan \in {call[u].chan, None} BY DEF Moved
<1>2. QED BY <1>1, StreamFacts DEF ServeInv

LEMMA IdKept ==
  ASSUME ControlInv, IdInv, NEW t \in Callers, Moved(t),
         call'[t].id \in {call[t].id, None},
         UNCHANGED <<grpcSubsMap, currentSubs, issued>>
  PROVE  IdInv'
<1>1. \A u \in Callers : call'[u].id \in {call[u].id, None} BY DEF Moved
<1>2. QED BY <1>1, StreamFacts DEF IdInv

(* A thread at a step of the stream loop is the one that serves the stream. *)
LEMMA ServesAlone ==
  ASSUME ControlInv, StreamInv, NEW t \in Callers,
         call[t].chan \in GrpcChannels
  PROVE  /\ t \in GrpcThreads
         /\ \A u \in GrpcThreads : call[u].chan = call[t].chan => u = t
  BY StreamFacts DEF StreamInv, ServeInv

LEMMA HoldsAlone ==
  ASSUME ControlInv, StreamInv, NEW t \in Callers, NEW u \in Callers, u # t,
         call[t].id \in Ids
  PROVE  call[u].id # call[t].id
  BY StreamFacts DEF StreamInv, IdInv

LEMMA SubscribeStream ==
  ASSUME ControlInv, StreamInv, NEW t \in Callers, Subscribe(t)
  PROVE  StreamInv'
<1> USE StreamFacts DEF StreamInv, handlerVars, runnerVars, channelVars, history
<1> DEFINE c == call[t].chan
           id == call[t].id
           k == call[t].key
<1>1. /\ pc[t] = "subscribe" /\ k \in Keys /\ id \in Ids /\ c \in Channels
      /\ subscriptions' = [subscriptions EXCEPT ![k][id] = c]
      /\ UNCHANGED <<grpcSubsMap, currentSubs, issued, rpc, newSub>>
  BY DEF Subscribe, ControlInv, CallInv
<1>2. /\ Moved(t)
      /\ \/ pc'[t] = "idle" /\ call'[t] = NoCall /\ c \notin GrpcChannels
         \/ pc'[t] = "register" /\ call'[t] = call[t] /\ c \in GrpcChannels
  <2>1. TypeOK /\ "register" \in CallerPc /\ NoCall \in Call
    BY DEF ControlInv, CallerPc, NoCall, Call
  <2>2. CASE c \in GrpcChannels BY <2>1, <2>2, GotoEffect DEF Subscribe
  <2>3. CASE c \notin GrpcChannels
    BY <2>1, <2>3, EnterEffect DEF Subscribe, Return, CallerPc
  <2>4. QED BY <2>2, <2>3
<1>3. NoCall.chan = None /\ NoCall.id = None BY DEF NoCall
<1>4. ServeInv' /\ IdInv' BY <1>1, <1>2, <1>3, ServeKept, IdKept
<1>5. \A g \in GrpcChannels : id \notin grpcSubsMap[g]
  BY <1>1 DEF HoldsInv
<1>6. \A j \in Keys, i \in Ids :
        subscriptions'[j][i] = IF j = k /\ i = id THEN c ELSE subscriptions[j][i]
  BY <1>1
<1>7. \A u \in Callers : u # t => call[u].id # id BY <1>1, HoldsAlone
<1> HIDE DEF c, id, k
<1>8. HoldsInv'
  <2>1. \A g \in GrpcChannels : call'[IoThread].id \notin grpcSubsMap'[g]
    BY <1>1, <1>2, <1>3 DEF HoldsInv, Moved
  <2>2. ASSUME NEW u \in GrpcThreads, u # t, pc[u] = "register"
        PROVE  subscriptions'[call[u].key][call[u].id] = call[u].chan
    BY <1>6, <1>7, <2>2 DEF HoldsInv, ControlInv, CallInv
  <2>3. subscriptions'[k][id] = c BY <1>1, <1>6
  <2>4. QED BY <1>1, <1>2, <1>3, <1>5, <2>1, <2>2, <2>3 DEF HoldsInv, Moved, c, id, k
<1>9. StreamsSubscribed'
  <2> SUFFICES ASSUME NEW g \in GrpcChannels, NEW i \in grpcSubsMap[g]
               PROVE  \/ \E j \in Keys : subscriptions'[j][i] = g
                      \/ \E u \in GrpcThreads :
                           /\ call'[u].chan = g
                           /\ \/ pc'[u] = "erase" /\ call'[u].id = i
                              \/ pc'[u] = "clear"
    BY <1>1 DEF StreamsSubscribed
  <2>1. i \in Ids /\ i # id BY <1>5
  <2>2. CASE \E j \in Keys : subscriptions[j][i] = g BY <1>6, <2>1, <2>2
  <2>3. CASE \E u \in GrpcThreads : /\ call[u].chan = g
                                    /\ \/ pc[u] = "erase" /\ call[u].id = i
                                       \/ pc[u] = "clear"
    BY <1>1, <1>2, <2>3 DEF Moved
  <2>4. QED BY <2>2, <2>3 DEF StreamsSubscribed
<1>10. QED BY <1>4, <1>8, <1>9

LEMMA GrpcRegisterStream ==
  ASSUME ControlInv, StreamInv, NEW t \in Callers, GrpcRegister(t)
  PROVE  StreamInv'
<1> USE StreamFacts DEF StreamInv, handlerVars, runnerVars, history
<1> DEFINE g == call[t].chan
           id == call[t].id
           k == call[t].key
<1>1. /\ pc[t] = "register" /\ g \in GrpcChannels /\ k \in Keys /\ id \in Ids
      /\ currentSubs' = [currentSubs EXCEPT ![g][k] = id]
      /\ grpcSubsMap' = [grpcSubsMap EXCEPT ![g] = @ \cup {id}]
      /\ UNCHANGED <<subscriptions, issued, rpc, newSub>>
  BY DEF GrpcRegister, ControlInv, CallInv
<1>2. Moved(t) /\ pc'[t] = "idle" /\ call'[t] = NoCall
  <2>1. TypeOK /\ "idle" \in CallerPc /\ NoCall \in Call
    BY DEF ControlInv, CallerPc, NoCall, Call
  <2>2. QED BY <2>1, EnterEffect DEF GrpcRegister, Return
<1>3. NoCall.chan = None /\ NoCall.id = None BY DEF NoCall
<1>4. t \in GrpcThreads /\ \A u \in GrpcThreads : call[u].chan = g => u = t
  BY <1>1, ServesAlone
<1>5. /\ \A h \in GrpcChannels : id \notin grpcSubsMap[h]
      /\ subscriptions[k][id] = g /\ id \in issued
  BY <1>1, <1>4 DEF HoldsInv, IdInv
<1>6. \A u \in Callers : u # t => call[u].id # id BY <1>1, HoldsAlone
<1>7. /\ \A h \in GrpcChannels : h # g => /\ grpcSubsMap'[h] = grpcSubsMap[h]
                                          /\ currentSubs'[h] = currentSubs[h]
      /\ grpcSubsMap'[g] = grpcSubsMap[g] \cup {id}
      /\ \A j \in Keys : currentSubs'[g][j] = IF j = k THEN id ELSE currentSubs[g][j]
  BY <1>1
<1>8. ServeInv' BY <1>1, <1>2, <1>3, ServeKept
<1> HIDE DEF g, id, k
<1>9. IdInv'
  <2>1. \A u \in Callers : call'[u].id \in {call[u].id, None}
    BY <1>2, <1>3 DEF Moved
  <2>2. \A h \in GrpcChannels, j \in Keys :
          currentSubs[h][j] \in grpcSubsMap[h] \cup {None} /\ currentSubs[h][j] # id
    BY <1>1, <1>5 DEF IdInv
  <2>3. \A h \in GrpcChannels : h # g => id \notin grpcSubsMap'[h] BY <1>5, <1>7
  <2>4. \A h, i \in GrpcChannels : \A x \in grpcSubsMap'[h] : x \in grpcSubsMap'[i] => h = i
    BY <1>7, <2>3 DEF IdInv
  <2>5. \A h \in GrpcChannels, j \in Keys :
          /\ currentSubs'[h][j] \in grpcSubsMap'[h] \cup {None}
          /\ \A l \in Keys : currentSubs'[h][l] = currentSubs'[h][j]
                             /\ currentSubs'[h][j] # None => l = j
    BY <1>1, <1>7, <2>2 DEF IdInv
  <2>6. \A h \in GrpcChannels : grpcSubsMap'[h] \subseteq issued' BY <1>1, <1>5, <1>7 DEF IdInv
  <2>7. /\ \A u \in Callers : call'[u].id \in issued \cup {None}
        /\ \A u, v \in Callers : call'[u].id = call'[v].id /\ call'[u].id # None => u = v
    BY <2>1 DEF IdInv
  <2>8. UNCHANGED issued BY <1>1
  <2>9. QED BY <2>4, <2>5, <2>6, <2>7, <2>8 DEF IdInv
<1>10. HoldsInv'
  <2>1. \A u \in Callers : u # t => call'[u] = call[u] /\ pc'[u] = pc[u] /\ call[u].id # id
    BY <1>2, <1>6 DEF Moved
  <2>2. IoThread # t BY <1>4, Distinct
  <2>3. \A h \in GrpcChannels : call'[IoThread].id \notin grpcSubsMap'[h]
    BY <1>7, <2>1, <2>2 DEF HoldsInv
  <2>4. UNCHANGED subscriptions BY <1>1
  <2>5. ASSUME NEW u \in GrpcThreads
        PROVE  /\ pc'[u] \in {"subscribe", "register"} =>
                    \A h \in GrpcChannels : call'[u].id \notin grpcSubsMap'[h]
               /\ pc'[u] \in {"unsubscribe", "erase"} =>
                    /\ call'[u].chan \in GrpcChannels
                    /\ call'[u].id \in grpcSubsMap'[call'[u].chan]
                    /\ call'[u].id = currentSubs'[call'[u].chan][call'[u].key]
               /\ pc'[u] \notin {"subscribe", "register", "unsubscribe", "erase"} =>
                    call'[u].id = None
               /\ pc'[u] = "register" =>
                    subscriptions[call'[u].key][call'[u].id] = call'[u].chan
    <3>1. CASE u = t BY <1>2, <1>3, <3>1
    <3>2. CASE u # t
      <4>1. /\ call'[u] = call[u] /\ pc'[u] = pc[u]
            /\ call[u].id # id /\ call[u].chan # g
        BY <1>4, <2>1, <3>2
      <4>2. pc[u] \in {"subscribe", "register"} =>
              \A h \in GrpcChannels : call[u].id \notin grpcSubsMap'[h]
        BY <1>7, <4>1 DEF HoldsInv
      <4>3. pc[u] \in {"unsubscribe", "erase"} =>
              /\ call[u].chan \in GrpcChannels
              /\ call[u].id \in grpcSubsMap'[call[u].chan]
              /\ call[u].id = currentSubs'[call[u].chan][call[u].key]
        BY <1>7, <4>1 DEF HoldsInv
      <4>4. /\ pc[u] \notin {"subscribe", "register", "unsubscribe", "erase"} =>
                 call[u].id = None
            /\ pc[u] = "register" => subscriptions[call[u].key][call[u].id] = call[u].chan
        BY DEF HoldsInv
      <4>5. QED BY <4>1, <4>2, <4>3, <4>4
    <3>3. QED BY <3>1, <3>2
  <2>6. QED BY <2>3, <2>4, <2>5 DEF HoldsInv
<1>11. StreamsSubscribed'
  <2> SUFFICES ASSUME NEW h \in GrpcChannels, NEW i \in grpcSubsMap'[h]
               PROVE  \/ \E j \in Keys : subscriptions[j][i] = h
                      \/ \E u \in GrpcThreads :
                           /\ call'[u].chan = h
                           /\ \/ pc'[u] = "erase" /\ call'[u].id = i
                              \/ pc'[u] = "clear"
    BY <1>1 DEF StreamsSubscribed
  <2>1. CASE h = g /\ i = id BY <1>1, <1>5, <2>1
  <2>2. CASE i \in grpcSubsMap[h]
    <3>1. CASE \E j \in Keys : subscriptions[j][i] = h BY <3>1
    <3>2. ASSUME NEW u \in GrpcThreads, call[u].chan = h,
                 \/ pc[u] = "erase" /\ call[u].id = i
                 \/ pc[u] = "clear"
          PROVE  /\ call'[u].chan = h
                 /\ \/ pc'[u] = "erase" /\ call'[u].id = i
                    \/ pc'[u] = "clear"
      BY <1>1, <1>2, <3>2 DEF Moved
    <3>3. QED BY <2>2, <3>1, <3>2 DEF StreamsSubscribed
  <2>3. QED BY <1>7, <2>1, <2>2
<1>12. QED BY <1>8, <1>9, <1>10, <1>11

(* The thread of stream g is about to drop id. *)
Dropping(g, id) ==
  \E t \in GrpcThreads :
    /\ call[t].chan = g
    /\ \/ pc[t] = "erase" /\ call[t].id = id
       \/ pc[t] = "clear"

(* A step of a thread that drops nothing yet, and takes no stream's subscription
   out of the map unless it is about to drop it.                               *)
LEMMA StreamsKept ==
  ASSUME ControlInv, StreamInv, NEW t \in Callers, Moved(t),
         pc[t] \notin {"erase", "clear"},
         UNCHANGED grpcSubsMap,
         \A g \in GrpcChannels : \A id \in grpcSubsMap[g] :
           (\E k \in Keys : subscriptions[k][id] = g) =>
             (\E k \in Keys : subscriptions'[k][id] = g) \/ Dropping(g, id)'
  PROVE  StreamsSubscribed'
<1>1. ASSUME NEW g \in GrpcChannels, NEW id \in grpcSubsMap[g],
             ~ \E k \in Keys : subscriptions[k][id] = g
      PROVE  Dropping(g, id)'
  <2>1. PICK u \in GrpcThreads : /\ call[u].chan = g
                                 /\ \/ pc[u] = "erase" /\ call[u].id = id
                                    \/ pc[u] = "clear"
    BY <1>1 DEF StreamInv, StreamsSubscribed
  <2>2. u # t /\ u \in Callers BY <2>1, StreamFacts
  <2>3. call'[u] = call[u] /\ pc'[u] = pc[u] BY <2>2 DEF Moved
  <2>4. QED BY <2>1, <2>3 DEF Dropping
<1>2. QED BY <1>1 DEF StreamsSubscribed, Dropping

(* HoldsInv for the threads that do not move, when no stream but t's changes. *)
LEMMA OthersHold ==
  ASSUME ControlInv, StreamInv, NEW t \in Callers, Moved(t),
         NEW u \in GrpcThreads, u # t,
         \A g \in GrpcChannels : g # call[t].chan =>
           grpcSubsMap'[g] = grpcSubsMap[g] /\ currentSubs'[g] = currentSubs[g],
         \A g \in GrpcChannels : grpcSubsMap'[g] \subseteq grpcSubsMap[g],
         call[t].chan \notin GrpcChannels => UNCHANGED <<grpcSubsMap, currentSubs>>,
         pc[u] = "register" =>
           subscriptions'[call[u].key][call[u].id] = subscriptions[call[u].key][call[u].id]
  PROVE  /\ pc'[u] \in {"subscribe", "register"} =>
              \A g \in GrpcChannels : call'[u].id \notin grpcSubsMap'[g]
         /\ pc'[u] \in {"unsubscribe", "erase"} =>
              /\ call'[u].chan \in GrpcChannels
              /\ call'[u].id \in grpcSubsMap'[call'[u].chan]
              /\ call'[u].id = currentSubs'[call'[u].chan][call'[u].key]
         /\ pc'[u] \notin {"subscribe", "register", "unsubscribe", "erase"} =>
              call'[u].id = None
         /\ pc'[u] = "register" =>
              subscriptions'[call'[u].key][call'[u].id] = call'[u].chan
<1>0. u \in Callers BY StreamFacts
<1>1. call'[u] = call[u] /\ pc'[u] = pc[u] BY <1>0 DEF Moved
<1>2. call[t].chan \in GrpcChannels => call[u].chan # call[t].chan BY ServesAlone
<1>3. pc[u] \in {"subscribe", "register"} =>
        \A g \in GrpcChannels : call[u].id \notin grpcSubsMap'[g]
  BY DEF StreamInv, HoldsInv
<1>4. pc[u] \in {"unsubscribe", "erase"} =>
        /\ call[u].chan \in GrpcChannels
        /\ call[u].id \in grpcSubsMap'[call[u].chan]
        /\ call[u].id = currentSubs'[call[u].chan][call[u].key]
  BY <1>2 DEF StreamInv, HoldsInv
<1>5. /\ pc[u] \notin {"subscribe", "register", "unsubscribe", "erase"} => call[u].id = None
      /\ pc[u] = "register" => subscriptions'[call[u].key][call[u].id] = call[u].chan
  BY DEF StreamInv, HoldsInv
<1>6. QED BY <1>1, <1>3, <1>4, <1>5

LEMMA CallUnsubscribeWsStream ==
  ASSUME ControlInv, StreamInv, NEW id \in Ids, CallUnsubscribeWs(id)
  PROVE  StreamInv'
<1> USE StreamFacts DEF handlerVars, runnerVars, channelVars, history
<1>0. StreamInv /\ ServeInv /\ IdInv /\ HoldsInv BY DEF StreamInv
<1> DEFINE t == IoThread
<1>1. /\ UNCHANGED <<subscriptions, grpcSubsMap, currentSubs, issued, rpc, newSub>>
      /\ pc[t] = "idle" /\ id \in issued
      /\ \A g \in GrpcChannels : id \notin grpcSubsMap[g]
      /\ \A u \in GrpcThreads : call[u].id # id
  BY DEF CallUnsubscribeWs, IoIdle
<1>2. Moved(t) /\ pc'[t] = "unsubscribe" /\ call'[t].id = id /\ call'[t].chan = None
  <2>1. TypeOK /\ "unsubscribe" \in CallerPc /\ [NoCall EXCEPT !.id = id] \in Call
    BY DEF ControlInv, CallerPc, NoCall, Call
  <2>2. [NoCall EXCEPT !.id = id].id = id /\ [NoCall EXCEPT !.id = id].chan = None
    BY DEF NoCall
  <2>3. QED BY <2>1, <2>2, EnterEffect DEF CallUnsubscribeWs
<1>3. ServeInv' BY <1>0, <1>1, <1>2, ServeKept
<1>4. \A u \in Callers : u # t => u \in GrpcThreads /\ call'[u] = call[u]
  BY <1>2 DEF Moved
<1>5. IdInv'
  <2>1. \A u \in Callers : call'[u].id = IF u = t THEN id ELSE call[u].id
    BY <1>2, <1>4
  <2>2. \A u \in Callers : u # t => call[u].id # id BY <1>1, <1>4
  <2>3. \A u, v \in Callers : call'[u].id = call'[v].id /\ call'[u].id # None => u = v
    BY <1>0, <2>1, <2>2 DEF IdInv
  <2>4. \A u \in Callers : call'[u].id \in issued \cup {None} BY <1>0, <1>1, <2>1 DEF IdInv
  <2>5. QED BY <1>0, <1>1, <2>3, <2>4 DEF IdInv
<1>6. t \notin GrpcThreads BY Distinct
<1>7. HoldsInv'
  <2>1. \A u \in GrpcThreads : u # t /\ call'[u] = call[u] /\ pc'[u] = pc[u]
    BY <1>2, <1>6 DEF Moved
  <2>2. QED BY <1>0, <1>1, <1>2, <2>1 DEF HoldsInv
<1>8. StreamsSubscribed' BY <1>0, <1>1, <1>2, StreamsKept
<1>9. QED BY <1>3, <1>5, <1>7, <1>8 DEF StreamInv

(* The loop looks the id up under its own stream: nobody else holds it. *)
LEMMA CallUnsubscribeGrpcStream ==
  ASSUME ControlInv, StreamInv, NEW t \in Callers, NEW g \in GrpcChannels,
         NEW k \in Keys, CallUnsubscribeGrpc(t, g, k)
  PROVE  StreamInv'
<1> USE StreamFacts DEF handlerVars, runnerVars, channelVars, history
<1>0. StreamInv /\ ServeInv /\ IdInv /\ HoldsInv BY DEF StreamInv
<1> DEFINE id == currentSubs[g][k]
           c == [key |-> k, id |-> id, chan |-> g]
<1>1. /\ UNCHANGED <<subscriptions, grpcSubsMap, currentSubs, issued, rpc, newSub>>
      /\ pc[t] = "idle" /\ t \in GrpcThreads /\ id # None
  BY DEF CallUnsubscribeGrpc, Idle
<1>2. \A u \in GrpcThreads : call[u].chan # g
  <2>1. t # IoThread BY <1>1, Distinct
  <2>2. QED BY <2>1 DEF CallUnsubscribeGrpc, MayServe
<1>3. id \in grpcSubsMap[g] /\ id \in Ids /\ id \in issued BY <1>0, <1>1 DEF IdInv
<1>4. Moved(t) /\ pc'[t] = "unsubscribe" /\ call'[t] = c
  <2>1. TypeOK /\ "unsubscribe" \in CallerPc /\ c \in Call
    BY <1>3 DEF ControlInv, CallerPc, Call, Channels
  <2>2. QED BY <2>1, EnterEffect DEF CallUnsubscribeGrpc
<1>5. c.key = k /\ c.id = id /\ c.chan = g OBVIOUS
<1>6. \A u \in Callers : call[u].id # id
  <2>1. \A u \in GrpcThreads : call[u].id # id
    <3> SUFFICES ASSUME NEW u \in GrpcThreads, call[u].id = id PROVE FALSE OBVIOUS
    <3>1. pc[u] \in {"unsubscribe", "erase"}
      BY <1>0, <1>1, <1>3 DEF HoldsInv
    <3>2. call[u].chan \in GrpcChannels /\ id \in grpcSubsMap[call[u].chan]
      BY <1>0, <3>1 DEF HoldsInv
    <3>3. call[u].chan = g BY <1>0, <1>3, <3>2 DEF IdInv
    <3>4. QED BY <1>2, <3>3
  <2>2. call[IoThread].id # id BY <1>0, <1>3 DEF HoldsInv
  <2>3. QED BY <2>1, <2>2
<1> HIDE DEF id, c
<1>7. ServeInv'
  <2>1. \A u \in GrpcThreads : call'[u].chan = IF u = t THEN g ELSE call[u].chan
    BY <1>4, <1>5 DEF Moved
  <2>2. IoThread # t BY <1>1, Distinct
  <2>3. call'[IoThread] = call[IoThread] BY <1>4, <2>2 DEF Moved
  <2>4. QED BY <1>0, <1>1, <1>2, <2>1, <2>3 DEF ServeInv
<1>8. IdInv'
  <2>1. \A u \in Callers : call'[u].id = IF u = t THEN id ELSE call[u].id
    BY <1>4, <1>5 DEF Moved
  <2>2. \A u, v \in Callers : call'[u].id = call'[v].id /\ call'[u].id # None => u = v
    BY <1>0, <1>6, <2>1 DEF IdInv
  <2>3. \A u \in Callers : call'[u].id \in issued \cup {None} BY <1>0, <1>3, <2>1 DEF IdInv
  <2>4. QED BY <1>0, <1>1, <2>2, <2>3 DEF IdInv
<1>9. HoldsInv'
  <2>1. \A u \in Callers : u # t => call'[u] = call[u] /\ pc'[u] = pc[u] BY <1>4 DEF Moved
  <2>2. IoThread # t BY <1>1, Distinct
  <2>3. call'[t].id = currentSubs[g][k] BY <1>4, <1>5 DEF id
  <2>4. ASSUME NEW u \in GrpcThreads, u # t
        PROVE  call'[u] = call[u] /\ pc'[u] = pc[u]
    BY <2>1, <2>4
  <2>5. call'[IoThread] = call[IoThread] BY <2>1, <2>2
  <2>6. /\ call'[t].chan \in GrpcChannels /\ call'[t].id \in grpcSubsMap[call'[t].chan]
        /\ call'[t].id = currentSubs[call'[t].chan][call'[t].key]
        /\ pc'[t] = "unsubscribe"
    BY <1>3, <1>4, <1>5, <2>3
  <2>7. QED BY <1>0, <1>1, <2>4, <2>5, <2>6 DEF HoldsInv
<1>10. StreamsSubscribed' BY <1>0, <1>1, <1>4, StreamsKept
<1>11. QED BY <1>7, <1>8, <1>9, <1>10 DEF StreamInv

LEMMA EndStreamStream ==
  ASSUME ControlInv, StreamInv, NEW t \in Callers, NEW g \in GrpcChannels,
         EndStream(t, g)
  PROVE  StreamInv'
<1> USE StreamFacts DEF handlerVars, runnerVars, channelVars, history
<1>0. StreamInv /\ ServeInv /\ IdInv /\ HoldsInv BY DEF StreamInv
<1>1. /\ UNCHANGED <<subscriptions, grpcSubsMap, currentSubs, issued, rpc, newSub>>
      /\ pc[t] = "idle" /\ t \in GrpcThreads
  BY DEF EndStream, Idle
<1>2. IoThread # t BY <1>1, Distinct
<1>3. \A u \in GrpcThreads : call[u].chan # g BY <1>2 DEF EndStream, MayServe
<1>4. Moved(t) /\ pc'[t] = "unsubscribeAll" /\ call'[t].id = None /\ call'[t].chan = g
  <2>1. TypeOK /\ "unsubscribeAll" \in CallerPc /\ [NoCall EXCEPT !.chan = g] \in Call
    BY DEF ControlInv, CallerPc, NoCall, Call, Channels
  <2>2. [NoCall EXCEPT !.chan = g].id = None /\ [NoCall EXCEPT !.chan = g].chan = g
    BY DEF NoCall
  <2>3. QED BY <2>1, <2>2, EnterEffect DEF EndStream
<1>5. \A u \in Callers : u # t => call'[u] = call[u] /\ pc'[u] = pc[u] BY <1>4 DEF Moved
<1>6. ServeInv'
  <2>1. \A u \in GrpcThreads : call'[u].chan = IF u = t THEN g ELSE call[u].chan
    BY <1>4, <1>5
  <2>2. call'[IoThread] = call[IoThread] BY <1>2, <1>5
  <2>3. QED BY <1>0, <1>1, <1>3, <2>1, <2>2 DEF ServeInv
<1>7. IdInv' BY <1>0, <1>1, <1>4, IdKept
<1>8. HoldsInv' BY <1>0, <1>1, <1>2, <1>4, <1>5 DEF HoldsInv
<1>9. StreamsSubscribed' BY <1>0, <1>1, <1>4, StreamsKept
<1>10. QED BY <1>6, <1>7, <1>8, <1>9 DEF StreamInv

(* unsubscribeAll erases entries of its channel only. *)
LEMMA EraseKeepsOthers ==
  ASSUME ControlInv, NEW ch, ch # None, EraseFirstOfEachKey(ch),
         NEW k \in Keys, NEW id \in Ids, subscriptions[k][id] # ch
  PROVE  subscriptions'[k][id] = subscriptions[k][id]
<1>1. PICK first \in [Keys -> Ids \cup {None}] :
        /\ \A j \in Keys : IF EntriesOf(j, ch) = {} THEN first[j] = None
                                                    ELSE first[j] \in EntriesOf(j, ch)
        /\ subscriptions' = [j \in Keys |-> [i \in Ids |->
                               IF i = first[j] THEN None ELSE subscriptions[j][i]]]
  BY DEF EraseFirstOfEachKey
<1>2. first[k] # id BY <1>1, StreamFacts DEF EntriesOf
<1>3. QED BY <1>1, <1>2

(* What is left to show of HoldsInv for the thread that moves. *)
LEMMA HoldsKept ==
  ASSUME ControlInv, StreamInv, NEW t \in Callers, Moved(t),
         \A g \in GrpcChannels : g # call[t].chan =>
           grpcSubsMap'[g] = grpcSubsMap[g] /\ currentSubs'[g] = currentSubs[g],
         \A g \in GrpcChannels : grpcSubsMap'[g] \subseteq grpcSubsMap[g],
         call[t].chan \notin GrpcChannels => UNCHANGED <<grpcSubsMap, currentSubs>>,
         call'[t].id \in {call[t].id, None},
         \A u \in GrpcThreads : u # t /\ pc[u] = "register" =>
           subscriptions'[call[u].key][call[u].id] = subscriptions[call[u].key][call[u].id],
         pc'[t] \notin {"subscribe", "register", "unsubscribe"},
         t \in GrpcThreads /\ pc'[t] = "erase" =>
           /\ call'[t].chan \in GrpcChannels
           /\ call'[t].id \in grpcSubsMap'[call'[t].chan]
           /\ call'[t].id = currentSubs'[call'[t].chan][call'[t].key],
         pc'[t] # "erase" => call'[t].id = None
  PROVE  HoldsInv'
<1>1. \A g \in GrpcChannels : call'[IoThread].id \notin grpcSubsMap'[g]
  <2>1. call'[IoThread].id \in {call[IoThread].id, None}
    BY StreamFacts DEF Moved
  <2>2. QED BY <2>1, StreamFacts DEF StreamInv, HoldsInv
<1>2. ASSUME NEW u \in GrpcThreads
      PROVE  /\ pc'[u] \in {"subscribe", "register"} =>
                  \A g \in GrpcChannels : call'[u].id \notin grpcSubsMap'[g]
             /\ pc'[u] \in {"unsubscribe", "erase"} =>
                  /\ call'[u].chan \in GrpcChannels
                  /\ call'[u].id \in grpcSubsMap'[call'[u].chan]
                  /\ call'[u].id = currentSubs'[call'[u].chan][call'[u].key]
             /\ pc'[u] \notin {"subscribe", "register", "unsubscribe", "erase"} =>
                  call'[u].id = None
             /\ pc'[u] = "register" =>
                  subscriptions'[call'[u].key][call'[u].id] = call'[u].chan
  <2>1. CASE u = t BY <2>1
  <2>2. CASE u # t BY <2>2, OthersHold
  <2>3. QED BY <2>1, <2>2
<1>3. QED BY <1>1, <1>2 DEF HoldsInv

LEMMA UnsubscribeStream ==
  ASSUME ControlInv, StreamInv, NEW t \in Callers, Unsubscribe(t)
  PROVE  StreamInv'
<1> USE StreamFacts DEF handlerVars, runnerVars, channelVars, history
<1>0. StreamInv /\ ServeInv /\ IdInv /\ HoldsInv BY DEF StreamInv
<1> DEFINE c == call[t].chan
           id == call[t].id
<1>1. /\ UNCHANGED <<grpcSubsMap, currentSubs, issued, rpc, newSub>>
      /\ pc[t] = "unsubscribe" /\ id \in Ids
      /\ \A k \in Keys, i \in Ids :
           subscriptions'[k][i] = IF i = id THEN None ELSE subscriptions[k][i]
  BY DEF Unsubscribe, ControlInv, CallInv
<1>2. /\ Moved(t)
      /\ \/ pc'[t] = "idle" /\ call'[t].id = None /\ call'[t].chan = None
            /\ ~ (c \in GrpcChannels /\ Registered(id))
         \/ pc'[t] = "erase" /\ call'[t] = call[t] /\ c \in GrpcChannels
  <2>1. TypeOK /\ "erase" \in CallerPc /\ "idle" \in CallerPc /\ NoCall \in Call
        /\ NoCall.id = None /\ NoCall.chan = None
    BY DEF ControlInv, CallerPc, NoCall, Call
  <2>2. CASE c \in GrpcChannels /\ Registered(id)
    BY <2>1, <2>2, GotoEffect DEF Unsubscribe
  <2>3. CASE ~ (c \in GrpcChannels /\ Registered(id))
    BY <2>1, <2>3, EnterEffect DEF Unsubscribe, Return
  <2>4. QED BY <2>2, <2>3
<1>3. t \in GrpcThreads => /\ c \in GrpcChannels /\ id \in grpcSubsMap[c]
                           /\ id = currentSubs[c][call[t].key]
  BY <1>0, <1>1 DEF HoldsInv
<1>4. ServeInv' /\ IdInv' BY <1>0, <1>1, <1>2, ServeKept, IdKept
<1>5. HoldsInv'
  <2>1. ASSUME NEW u \in GrpcThreads, u # t, pc[u] = "register"
        PROVE  subscriptions'[call[u].key][call[u].id] = subscriptions[call[u].key][call[u].id]
    <3>1. call[u].key \in Keys /\ call[u].id \in Ids BY <2>1 DEF ControlInv, CallInv
    <3>2. call[u].id # id BY <1>1, <2>1, HoldsAlone
    <3>3. QED BY <1>1, <3>1, <3>2
  <2>2. pc'[t] = "erase" => t \in GrpcThreads BY <1>2, ServesAlone
  <2>3. pc'[t] \in {"idle", "erase"} BY <1>2
  <2>4. /\ t \in GrpcThreads /\ pc'[t] = "erase" =>
             /\ call'[t].chan \in GrpcChannels
             /\ call'[t].id \in grpcSubsMap'[call'[t].chan]
             /\ call'[t].id = currentSubs'[call'[t].chan][call'[t].key]
        /\ pc'[t] # "erase" => call'[t].id = None
        /\ call'[t].id \in {call[t].id, None}
    BY <1>1, <1>2, <1>3
  <2>5. QED BY <1>1, <1>2, <2>1, <2>3, <2>4, HoldsKept
<1>6. StreamsSubscribed'
  <2>1. ASSUME NEW g \in GrpcChannels, NEW i \in grpcSubsMap[g],
               NEW k \in Keys, subscriptions[k][i] = g
        PROVE  (\E j \in Keys : subscriptions'[j][i] = g) \/ Dropping(g, i)'
    <3>1. CASE i # id BY <1>1, <2>1, <3>1
    <3>2. CASE i = id
      <4>1. t \in GrpcThreads BY <1>0, <2>1, <3>2 DEF HoldsInv
      <4>2. g = c BY <1>0, <1>3, <2>1, <3>2, <4>1 DEF IdInv
      <4>3. Registered(id) BY <2>1, <3>2 DEF Registered
      <4>4. pc'[t] = "erase" /\ call'[t] = call[t] BY <1>2, <4>2, <4>3
      <4>5. QED BY <3>2, <4>1, <4>2, <4>4 DEF Dropping
    <3>3. QED BY <3>1, <3>2
  <2>2. QED BY <1>1, <1>2, <2>1, StreamsKept
<1>7. QED BY <1>4, <1>5, <1>6 DEF StreamInv

LEMMA UnsubscribeAllStream ==
  ASSUME ControlInv, StreamInv, NEW t \in Callers, UnsubscribeAll(t)
  PROVE  StreamInv'
<1> USE StreamFacts DEF handlerVars, runnerVars, channelVars, history
<1>0. StreamInv /\ ServeInv /\ IdInv /\ HoldsInv BY DEF StreamInv
<1> DEFINE c == call[t].chan
<1>1. /\ UNCHANGED <<grpcSubsMap, currentSubs, issued, rpc, newSub>>
      /\ pc[t] = "unsubscribeAll" /\ c \in GrpcChannels
      /\ EraseFirstOfEachKey(c)
  BY DEF UnsubscribeAll, ControlInv, CallInv
<1>2. Moved(t) /\ pc'[t] = "clear" /\ call'[t] = call[t]
  <2>1. TypeOK /\ "clear" \in CallerPc BY DEF ControlInv, CallerPc
  <2>2. QED BY <2>1, GotoEffect DEF UnsubscribeAll
<1>3. t \in GrpcThreads /\ \A u \in GrpcThreads : call[u].chan = c => u = t
  BY <1>1, ServesAlone
<1>4. call[t].id = None BY <1>0, <1>1, <1>3 DEF HoldsInv
<1>5. ServeInv' /\ IdInv' BY <1>0, <1>1, <1>2, ServeKept, IdKept
<1>6. HoldsInv'
  <2>1. ASSUME NEW u \in GrpcThreads, u # t, pc[u] = "register"
        PROVE  subscriptions'[call[u].key][call[u].id] = subscriptions[call[u].key][call[u].id]
    <3>1. call[u].key \in Keys /\ call[u].id \in Ids
      BY <2>1 DEF ControlInv, CallInv
    <3>2. subscriptions[call[u].key][call[u].id] # c
      BY <1>0, <1>3, <2>1 DEF HoldsInv
    <3>3. QED BY <1>1, <3>1, <3>2, EraseKeepsOthers
  <2>2. QED BY <1>1, <1>2, <1>4, <2>1, HoldsKept
<1>7. StreamsSubscribed'
  <2>1. ASSUME NEW g \in GrpcChannels, NEW i \in grpcSubsMap[g],
               NEW k \in Keys, subscriptions[k][i] = g
        PROVE  (\E j \in Keys : subscriptions'[j][i] = g) \/ Dropping(g, i)'
    <3>1. CASE g = c BY <1>2, <1>3, <3>1 DEF Dropping
    <3>2. CASE g # c
      <4>1. i \in Ids /\ c # None BY <1>1
      <4>2. subscriptions'[k][i] = g BY <1>1, <2>1, <3>2, <4>1, EraseKeepsOthers
      <4>3. QED BY <4>2
    <3>3. QED BY <3>1, <3>2
  <2>2. QED BY <1>1, <1>2, <2>1, StreamsKept
<1>8. QED BY <1>5, <1>6, <1>7 DEF StreamInv

(* A step of a stream's thread that shrinks its own maps. *)
LEMMA StreamsShrink ==
  ASSUME ControlInv, StreamInv, NEW t \in GrpcThreads, Moved(t),
         NEW g \in GrpcChannels, call[t].chan = g,
         UNCHANGED subscriptions,
         \A h \in GrpcChannels : h # g => grpcSubsMap'[h] = grpcSubsMap[h],
         \A i \in grpcSubsMap'[g] : \E k \in Keys : subscriptions[k][i] = g
  PROVE  StreamsSubscribed'
<1> SUFFICES ASSUME NEW h \in GrpcChannels, h # g, NEW i \in grpcSubsMap[h],
                    ~ \E k \in Keys : subscriptions[k][i] = h
             PROVE  Dropping(h, i)'
  BY DEF StreamsSubscribed, Dropping
<1>1. PICK u \in GrpcThreads : /\ call[u].chan = h
                               /\ \/ pc[u] = "erase" /\ call[u].id = i
                                  \/ pc[u] = "clear"
  BY DEF StreamInv, StreamsSubscribed
<1>2. u # t /\ u \in Callers BY <1>1, StreamFacts
<1>3. call'[u] = call[u] /\ pc'[u] = pc[u] BY <1>2 DEF Moved
<1>4. QED BY <1>1, <1>3 DEF Dropping

LEMMA MapsShrink ==
  ASSUME ControlInv, IdInv, NEW t \in Callers, Moved(t),
         call'[t].id \in {call[t].id, None},
         UNCHANGED issued,
         \A g \in GrpcChannels : grpcSubsMap'[g] \subseteq grpcSubsMap[g],
         \A g \in GrpcChannels, k \in Keys :
           /\ currentSubs'[g][k] \in {currentSubs[g][k], None}
           /\ currentSubs'[g][k] \in grpcSubsMap'[g] \cup {None}
  PROVE  IdInv'
<1>1. \A u \in Callers : call'[u].id \in {call[u].id, None} BY DEF Moved
<1>2. \A u \in Callers : call'[u].id \in issued \cup {None} BY <1>1 DEF IdInv
<1>3. \A u, v \in Callers : call'[u].id = call'[v].id /\ call'[u].id # None => u = v
  BY <1>1 DEF IdInv
<1>4. \A g \in GrpcChannels, k, j \in Keys :
        currentSubs'[g][j] = currentSubs'[g][k] /\ currentSubs'[g][k] # None => j = k
  BY DEF IdInv
<1>5. /\ \A g \in GrpcChannels : grpcSubsMap'[g] \subseteq issued
      /\ \A g, h \in GrpcChannels : \A id \in grpcSubsMap'[g] : id \in grpcSubsMap'[h] => g = h
  BY DEF IdInv
<1>6. QED BY <1>2, <1>3, <1>4, <1>5 DEF IdInv

LEMMA GrpcEraseStream ==
  ASSUME ControlInv, StreamInv, NEW t \in Callers, GrpcErase(t)
  PROVE  StreamInv'
<1> USE StreamFacts DEF handlerVars, runnerVars, history
<1>0. StreamInv /\ ServeInv /\ IdInv /\ HoldsInv BY DEF StreamInv
<1> DEFINE g == call[t].chan
           id == call[t].id
           k == call[t].key
<1>1. /\ pc[t] = "erase" /\ g \in GrpcChannels /\ k \in Keys /\ id \in Ids
      /\ grpcSubsMap' = [grpcSubsMap EXCEPT ![g] = grpcSubsMap[g] \ {id}]
      /\ currentSubs' = [currentSubs EXCEPT ![g][k] = None]
      /\ UNCHANGED <<subscriptions, issued, rpc, newSub>>
  BY DEF GrpcErase, StreamsLeft, ControlInv, CallInv
<1>2. /\ Moved(t) /\ pc'[t] \in {"idle", "unsubscribeAll"} /\ call'[t].id = None
      /\ call'[t].chan \in {g, None}
  <2>1. TypeOK /\ "idle" \in CallerPc /\ "unsubscribeAll" \in CallerPc
        /\ NoCall \in Call /\ NoCall.id = None /\ NoCall.chan = None
    BY DEF ControlInv, CallerPc, NoCall, Call
  <2> DEFINE c == [NoCall EXCEPT !.chan = g]
  <2>2. c \in Call /\ c.id = None /\ c.chan = g
    BY <1>1 DEF NoCall, Call, Channels
  <2>3. CASE StreamsLeft(t) = {}
    <3>1. Enter(t, "unsubscribeAll", c) BY <2>3 DEF GrpcErase
    <3> HIDE DEF c
    <3>2. Moved(t) /\ pc'[t] = "unsubscribeAll" /\ call'[t] = c
      BY <2>1, <2>2, <3>1, EnterEffect
    <3>3. QED BY <2>2, <3>2
  <2>4. CASE StreamsLeft(t) # {} BY <2>1, <2>4, EnterEffect DEF GrpcErase, Return
  <2>5. QED BY <2>3, <2>4
<1>3. t \in GrpcThreads /\ \A u \in GrpcThreads : call[u].chan = g => u = t
  BY <1>1, ServesAlone
<1>4. id \in grpcSubsMap[g] /\ id = currentSubs[g][k] BY <1>0, <1>1, <1>3 DEF HoldsInv
<1>5. /\ \A h \in GrpcChannels : h # g => /\ grpcSubsMap'[h] = grpcSubsMap[h]
                                          /\ currentSubs'[h] = currentSubs[h]
      /\ grpcSubsMap'[g] = grpcSubsMap[g] \ {id}
      /\ \A j \in Keys : currentSubs'[g][j] = IF j = k THEN None ELSE currentSubs[g][j]
  BY <1>1
<1>6. ServeInv' BY <1>0, <1>1, <1>2, ServeKept
<1>7. IdInv'
  <2>1. \A j \in Keys : j # k /\ currentSubs[g][j] # None => currentSubs[g][j] # id
    BY <1>0, <1>1, <1>4 DEF IdInv
  <2>2. \A h \in GrpcChannels, j \in Keys :
          /\ currentSubs'[h][j] \in {currentSubs[h][j], None}
          /\ currentSubs'[h][j] \in grpcSubsMap'[h] \cup {None}
    BY <1>0, <1>1, <1>5, <2>1 DEF IdInv
  <2>3. \A h \in GrpcChannels : grpcSubsMap'[h] \subseteq grpcSubsMap[h] BY <1>5
  <2>4. QED BY <1>0, <1>1, <1>2, <2>2, <2>3, MapsShrink
<1>8. HoldsInv'
  <2>1. /\ \A h \in GrpcChannels : grpcSubsMap'[h] \subseteq grpcSubsMap[h]
        /\ pc'[t] \notin {"subscribe", "register", "unsubscribe", "erase"}
    BY <1>2, <1>5
  <2>2. \A u \in GrpcThreads : pc[u] = "register" =>
          subscriptions'[call[u].key][call[u].id] = subscriptions[call[u].key][call[u].id]
    BY <1>1
  <2>3. QED BY <1>1, <1>2, <1>5, <2>1, <2>2, HoldsKept
<1>9. StreamsSubscribed'
  <2>1. ASSUME NEW i \in grpcSubsMap'[g] PROVE \E j \in Keys : subscriptions[j][i] = g
    <3>1. i \in grpcSubsMap[g] /\ i # id BY <1>5, <2>1
    <3>2. \A u \in GrpcThreads : call[u].chan = g => pc[u] = "erase" /\ call[u].id = id
      BY <1>1, <1>3
    <3>3. QED BY <1>0, <1>1, <3>1, <3>2 DEF StreamInv, StreamsSubscribed
  <2>2. QED BY <1>1, <1>2, <1>3, <1>5, <2>1, StreamsShrink
<1>10. QED BY <1>6, <1>7, <1>8, <1>9 DEF StreamInv

LEMMA GrpcClearStream ==
  ASSUME ControlInv, StreamInv, NEW t \in Callers, GrpcClear(t)
  PROVE  StreamInv'
<1> USE StreamFacts DEF handlerVars, runnerVars, history
<1>0. StreamInv /\ ServeInv /\ IdInv /\ HoldsInv BY DEF StreamInv
<1> DEFINE g == call[t].chan
<1>1. /\ pc[t] = "clear" /\ g \in GrpcChannels
      /\ grpcSubsMap' = [grpcSubsMap EXCEPT ![g] = {}]
      /\ currentSubs' = [currentSubs EXCEPT ![g] = [k \in Keys |-> None]]
      /\ UNCHANGED <<subscriptions, issued, rpc, newSub>>
  BY DEF GrpcClear, ControlInv, CallInv
<1>2. Moved(t) /\ pc'[t] = "idle" /\ call'[t].id = None /\ call'[t].chan = None
  <2>1. TypeOK /\ "idle" \in CallerPc /\ NoCall \in Call /\ NoCall.id = None
        /\ NoCall.chan = None
    BY DEF ControlInv, CallerPc, NoCall, Call
  <2>2. QED BY <2>1, EnterEffect DEF GrpcClear, Return
<1>3. t \in GrpcThreads BY <1>1, ServesAlone
<1>4. /\ \A h \in GrpcChannels : h # g => /\ grpcSubsMap'[h] = grpcSubsMap[h]
                                          /\ currentSubs'[h] = currentSubs[h]
      /\ grpcSubsMap'[g] = {}
      /\ \A j \in Keys : currentSubs'[g][j] = None
  BY <1>1
<1>5. ServeInv' BY <1>0, <1>1, <1>2, ServeKept
<1>6. \A h \in GrpcChannels, j \in Keys :
        /\ currentSubs'[h][j] \in {currentSubs[h][j], None}
        /\ currentSubs'[h][j] \in grpcSubsMap'[h] \cup {None}
  BY <1>0, <1>4 DEF IdInv
<1>7. \A h \in GrpcChannels : grpcSubsMap'[h] \subseteq grpcSubsMap[h] BY <1>4
<1>8. IdInv' BY <1>0, <1>1, <1>2, <1>6, <1>7, MapsShrink
<1>9. HoldsInv' BY <1>1, <1>2, <1>4, HoldsKept
<1>10. StreamsSubscribed' BY <1>1, <1>2, <1>3, <1>4, StreamsShrink
<1>11. QED BY <1>5, <1>8, <1>9, <1>10 DEF StreamInv

(* The runner cleans up after WebSocket sessions only. *)
LEMMA CleanUpStream ==
  ASSUME ControlInv, StreamInv, CleanUp
  PROVE  StreamInv'
<1> USE StreamFacts DEF StreamInv, callerVars, channelVars, history
<1>1. /\ UNCHANGED <<pc, call, grpcSubsMap, currentSubs, issued>> /\ rpc' = "check"
      /\ newSub.chan \in WsChannels /\ EraseFirstOfEachKey(newSub.chan)
  BY DEF CleanUp, Unlock, NextIteration, ServeInv
<1>2. newSub.chan # None /\ newSub.chan \notin GrpcChannels
  BY <1>1, Distinct DEF Channels
<1>3. \A k \in Keys, id \in Ids : subscriptions[k][id] \in GrpcChannels =>
        subscriptions'[k][id] = subscriptions[k][id]
  BY <1>1, <1>2, EraseKeepsOthers
<1>4. ServeInv' /\ IdInv' BY <1>1 DEF ServeInv, IdInv
<1>5. \A u \in Callers : pc[u] = "register" =>
        call[u].key \in Keys /\ call[u].id \in Ids /\ call[u].chan \in GrpcChannels
  BY DEF ControlInv, CallInv
<1>6. \A u \in GrpcThreads : pc[u] = "register" =>
        subscriptions'[call[u].key][call[u].id] = call[u].chan
  BY <1>3, <1>5 DEF HoldsInv
<1>7. HoldsInv' BY <1>1, <1>6 DEF HoldsInv
<1>8. StreamsSubscribed'
  <2> SUFFICES ASSUME NEW g \in GrpcChannels, NEW id \in grpcSubsMap[g]
               PROVE  \/ \E k \in Keys : subscriptions'[k][id] = g
                      \/ \E t \in GrpcThreads :
                           /\ call[t].chan = g
                           /\ \/ pc[t] = "erase" /\ call[t].id = id
                              \/ pc[t] = "clear"
    BY <1>1 DEF StreamsSubscribed
  <2>1. \A k \in Keys : subscriptions[k][id] = g => subscriptions'[k][id] = g
    BY <1>3
  <2>2. QED BY <2>1 DEF StreamsSubscribed
<1>9. QED BY <1>4, <1>7, <1>8

-----------------------------------------------------------------------------
(* Every step of the handler and its callers. *)
LEMMA StreamStep ==
  ASSUME ControlInv, StreamInv, [Next]_vars
  PROVE  StreamInv'
<1>1. CASE \/ OwnerStep \/ BeginStop
           \/ \E w \in WsChannels : AddClient(w) \/ RemoveClient(w)
  BY <1>1, LifeStill, StillStream
<1>2. CASE RunnerStep \/ SpuriousWakeup
  BY <1>2, CleanUpStream, RunnerStill, StillStream
<1>3. CASE \E id \in Ids : CallUnsubscribeWs(id) BY <1>3, CallUnsubscribeWsStream
<1>4. ASSUME NEW t \in Callers, ClientStep(t) PROVE StreamInv'
  BY <1>4, CallSubscribeStream, CallUnsubscribeGrpcStream, EndStreamStream,
     PublishStill, StillStream DEF ClientStep
<1>5. ASSUME NEW t \in Callers, CallerStep(t) PROVE StreamInv'
  <2>1. CASE Publish(t) \/ \E id \in Ids : Push(t, id)
    BY <2>1, PublishStill, StillStream
  <2>2. CASE \/ Subscribe(t) \/ GrpcRegister(t) \/ Unsubscribe(t) \/ GrpcErase(t)
               \/ UnsubscribeAll(t) \/ GrpcClear(t)
    BY <2>2, SubscribeStream, GrpcRegisterStream, UnsubscribeStream,
       GrpcEraseStream, UnsubscribeAllStream, GrpcClearStream
  <2>3. QED BY <1>5, <2>1, <2>2 DEF CallerStep
<1>6. CASE UNCHANGED vars
  BY <1>6 DEF vars, StreamInv, ServeInv, IdInv, HoldsInv, StreamsSubscribed,
     runnerVars, callerVars, channelVars, history, handlerVars
<1>7. QED BY <1>1, <1>2, <1>3, <1>4, <1>5, <1>6 DEF Next

(* The runner looks an event's id up in the map of streams, publishForVSSPath
   serves the map of subscriptions: for every number of streams and threads an id
   with a stream is subscribed under that stream, unless the stream's own loop is
   about to drop it (StreamsSubscribed).                                       *)
THEOREM StreamsStaySubscribed == Spec => []StreamsSubscribed
<1>1. ControlInv /\ StreamInv /\ [Next]_vars => StreamInv' BY StreamStep
<1>2. StreamInv => StreamsSubscribed BY DEF StreamInv
<1>3. QED BY <1>1, <1>2, InitStream, ControlInvariant, PTL DEF Spec

-----------------------------------------------------------------------------
(* The refinement of Notification.  Besides the invariants above it needs
   RegisteredInv: an id is under one key, so that registeredBar is what the map
   says, and a new id owns nothing.                                            *)

AllInv == ControlInv /\ OrderInv /\ StreamInv /\ RegisteredInv

(* Steps that add no event and no subscription. *)
Fewer ==
  /\ \A k \in Keys, id \in Ids : subscriptions'[k][id] \in {subscriptions[k][id], None}
  /\ issued \subseteq issued'
  /\ \A i \in DOMAIN buffer' : \E j \in DOMAIN buffer : buffer'[i].id = buffer[j].id
  /\ \A t \in Callers : pc'[t] = "subscribe" => pc[t] = "subscribe" /\ call'[t] = call[t]

LEMMA FewerRegistered == ControlInv /\ RegisteredInv /\ Fewer => RegisteredInv'
<1> SUFFICES ASSUME ControlInv, RegisteredInv, Fewer PROVE RegisteredInv' OBVIOUS
<1>1. \A id \in Ids : Registered(id)' => Registered(id) BY DEF Registered, Fewer
<1>2. \A id \in Ids : Registered(id)' => id \in issued'
  BY <1>1 DEF RegisteredInv, Fewer
<1>3. \A id \in Ids, j, k \in Keys :
        subscriptions'[j][id] # None /\ subscriptions'[k][id] # None => j = k
  BY DEF RegisteredInv, Fewer
<1>4. \A i \in DOMAIN buffer' : buffer'[i].id \in issued' BY DEF RegisteredInv, Fewer
<1>5. ASSUME NEW t \in Callers, pc'[t] = "subscribe"
      PROVE  /\ \A k \in Keys : subscriptions'[k][call'[t].id] = None
             /\ \A i \in DOMAIN buffer' : buffer'[i].id # call'[t].id
  <2>1. pc[t] = "subscribe" /\ call'[t] = call[t] BY <1>5 DEF Fewer
  <2>2. call[t].id \in Ids BY <2>1 DEF ControlInv, CallInv
  <2>3. \A k \in Keys : subscriptions[k][call[t].id] = None
    BY <2>1 DEF RegisteredInv, Registered
  <2>4. QED BY <2>1, <2>2, <2>3 DEF RegisteredInv, Fewer
<1>6. QED BY <1>2, <1>3, <1>4, <1>5 DEF RegisteredInv, Registered

(* What adds neither an event nor a subscription. *)
LEMMA MostAreFewer ==
  ASSUME ControlInv, StreamInv, RegisteredInv, [Next]_vars,
         \A t \in Callers :
           /\ ~Subscribe(t)
           /\ \A id \in Ids : ~Push(t, id)
           /\ \A ch \in Channels, k \in Keys, id \in Ids : ~CallSubscribe(t, ch, k, id)
  PROVE  Fewer
<1> USE StreamFacts DEF Fewer, handlerVars, runnerVars, callerVars, channelVars, history
<1>1. CASE \/ OwnerStep \/ BeginStop
           \/ \E w \in WsChannels : AddClient(w) \/ RemoveClient(w)
  BY <1>1 DEF OwnerStep, StartThread, StopThread, Join, BeginStop, AddClient, RemoveClient
<1>2. CASE RunnerStep \/ SpuriousWakeup
  <2>1. UNCHANGED <<issued, callerVars>>
    BY <1>2 DEF RunnerStep, SpuriousWakeup, CheckRun, CheckSize, Pop,
       SendToConnection, ConnectionGone, CleanUp, NoStream, FindStream, WriteStream, Terminate,
       Wait, Wake
  <2>2. \A i \in DOMAIN buffer' : \E j \in DOMAIN buffer : buffer'[i].id = buffer[j].id
    <3>1. CASE Pop
      <4>1. buffer \in Seq(Event) /\ buffer # <<>>
        BY <3>1 DEF Pop, ControlInv, TypeOK, FrontDefined
      <4>2. \A i \in DOMAIN buffer' : i + 1 \in DOMAIN buffer /\ buffer'[i] = buffer[i + 1]
        BY <3>1, <4>1 DEF Pop
      <4>3. QED BY <4>2
    <3>2. CASE ~Pop
      BY <1>2, <3>2 DEF RunnerStep, SpuriousWakeup, CheckRun, CheckSize,
         SendToConnection, ConnectionGone, CleanUp, NoStream, FindStream,
         WriteStream, Terminate, Wait, Wake
    <3>3. QED BY <3>1, <3>2
  <2>3. \A k \in Keys, id \in Ids : subscriptions'[k][id] \in {subscriptions[k][id], None}
    <3>1. CASE CleanUp BY <3>1 DEF CleanUp, EraseFirstOfEachKey
    <3>2. CASE ~CleanUp
      BY <1>2, <3>2 DEF RunnerStep, SpuriousWakeup, CheckRun, CheckSize, Pop,
         SendToConnection, ConnectionGone, NoStream, FindStream, WriteStream, Terminate,
         Wait, Wake
    <3>3. QED BY <3>1, <3>2
  <2>4. QED BY <2>1, <2>2, <2>3
<1>3. ASSUME NEW id \in Ids, CallUnsubscribeWs(id) PROVE Fewer
  BY <1>3 DEF CallUnsubscribeWs, Enter
<1>4. ASSUME NEW t \in Callers, ClientStep(t) PROVE Fewer
  BY <1>4 DEF ClientStep, CallUnsubscribeGrpc, EndStream, CallPublish, Enter
<1>5. ASSUME NEW t \in Callers, CallerStep(t) PROVE Fewer
  <2>1. UNCHANGED <<buffer, issued>>
    BY <1>5 DEF CallerStep, GrpcRegister, Unsubscribe, GrpcErase, UnsubscribeAll,
       GrpcClear, Publish
  <2>2. \A k \in Keys, id \in Ids : subscriptions'[k][id] \in {subscriptions[k][id], None}
    <3>1. CASE Unsubscribe(t)
      <4>1. call[t].id \in Ids BY <3>1 DEF Unsubscribe, ControlInv, CallInv
      <4>2. QED BY <3>1, <4>1 DEF Unsubscribe
    <3>2. CASE UnsubscribeAll(t) BY <3>2 DEF UnsubscribeAll, EraseFirstOfEachKey
    <3>3. CASE \/ GrpcRegister(t) \/ GrpcErase(t) \/ GrpcClear(t) \/ Publish(t)
      BY <3>3 DEF GrpcRegister, GrpcErase, GrpcClear, Publish
    <3>4. QED BY <1>5, <3>1, <3>2, <3>3 DEF CallerStep
  <2>3. \A u \in Callers : pc'[u] = "subscribe" => pc[u] = "subscribe" /\ call'[u] = call[u]
    BY <1>5 DEF CallerStep, GrpcRegister, Unsubscribe, GrpcErase, UnsubscribeAll,
       GrpcClear, Publish, Goto, Return, Enter
  <2>4. QED BY <2>1, <2>2, <2>3
<1>6. CASE UNCHANGED vars BY <1>6 DEF vars
<1>7. QED BY <1>1, <1>2, <1>3, <1>4, <1>5, <1>6 DEF Next

LEMMA RegisteredStep ==
  ASSUME ControlInv, StreamInv, RegisteredInv, [Next]_vars
  PROVE  RegisteredInv'
<1> USE StreamFacts DEF handlerVars, runnerVars, history
<1>1. ASSUME NEW t \in Callers, NEW ch \in Channels, NEW k \in Keys, NEW id \in Ids,
             CallSubscribe(t, ch, k, id)
      PROVE  RegisteredInv'
  <2>1. /\ UNCHANGED <<subscriptions, buffer>>
        /\ issued' = issued \cup {id} /\ id \notin issued
        /\ \A u \in Callers : pc'[u] = "subscribe" =>
             \/ call'[u].id = id
             \/ pc[u] = "subscribe" /\ call'[u] = call[u]
    BY <1>1 DEF CallSubscribe, Enter
  <2>2. ~Registered(id) /\ \A i \in DOMAIN buffer : buffer[i].id # id
    BY <2>1 DEF RegisteredInv
  <2>3. \A u \in Callers : pc'[u] = "subscribe" =>
          /\ \A j \in Keys : subscriptions[j][call'[u].id] = None
          /\ \A i \in DOMAIN buffer : buffer[i].id # call'[u].id
    BY <2>1, <2>2 DEF RegisteredInv, Registered
  <2>4. QED BY <2>1, <2>3 DEF RegisteredInv, Registered
<1>2. ASSUME NEW t \in Callers, Subscribe(t) PROVE RegisteredInv'
  <2> DEFINE id == call[t].id
             k == call[t].key
  <2>1. /\ UNCHANGED <<buffer, issued>> /\ pc[t] = "subscribe"
        /\ k \in Keys /\ id \in Ids /\ call[t].chan # None
        /\ \A j \in Keys, i \in Ids : subscriptions'[j][i] =
             IF j = k /\ i = id THEN call[t].chan ELSE subscriptions[j][i]
    BY <1>2, Distinct DEF Subscribe, ControlInv, CallInv
  <2>2. id \in issued /\ \A j \in Keys : subscriptions[j][id] = None
    BY <2>1 DEF StreamInv, IdInv, RegisteredInv, Registered
  <2>3. \A u \in Callers : pc'[u] = "subscribe" =>
          u # t /\ pc[u] = "subscribe" /\ call'[u] = call[u]
    BY <1>2 DEF Subscribe, Goto, Return, Enter
  <2>4. \A u \in Callers : pc[u] = "subscribe" => call[u].id \in Ids
    BY DEF ControlInv, CallInv
  <2>5. \A u \in Callers : u # t => call[u].id # id BY <2>1, HoldsAlone
  <2> HIDE DEF id, k
  <2>6. \A i \in Ids : (\E j \in Keys : subscriptions'[j][i] # None) => i \in issued
    BY <2>1, <2>2 DEF RegisteredInv, Registered
  <2>7. \A i \in Ids, j, l \in Keys :
          subscriptions'[j][i] # None /\ subscriptions'[l][i] # None => j = l
    BY <2>1, <2>2 DEF RegisteredInv
  <2>8. \A u \in Callers : pc'[u] = "subscribe" =>
          /\ \A j \in Keys : subscriptions'[j][call'[u].id] = None
          /\ \A i \in DOMAIN buffer : buffer[i].id # call'[u].id
    BY <2>1, <2>3, <2>4, <2>5 DEF RegisteredInv, Registered
  <2>9. QED BY <2>1, <2>6, <2>7, <2>8 DEF RegisteredInv, Registered
<1>3. ASSUME NEW t \in Callers, NEW id \in Ids, Push(t, id) PROVE RegisteredInv'
  <2> DEFINE e == [id |-> id, chan |-> subscriptions[call[t].key][id],
                   key |-> call[t].key, val |-> publications]
  <2>1. /\ UNCHANGED <<subscriptions, issued>> /\ buffer' = Append(buffer, e)
        /\ \A u \in Callers : pc'[u] = "subscribe" => pc[u] = "subscribe" /\ call'[u] = call[u]
    BY <1>3 DEF Push, Return, Enter
  <2>2. Registered(id)
    BY <1>3 DEF Push, ControlInv, CallInv, LoopInv, Subscribers, Registered
  <2>3. buffer \in Seq(Event) BY DEF ControlInv, TypeOK
  <2>4. e.id = id OBVIOUS
  <2> HIDE DEF e
  <2>5. \A i \in DOMAIN buffer' : buffer'[i].id = id \/ (i \in DOMAIN buffer /\ buffer'[i] = buffer[i])
    BY <2>1, <2>3, <2>4
  <2>6. \A u \in Callers : pc'[u] = "subscribe" =>
          /\ \A j \in Keys : subscriptions[j][call'[u].id] = None
          /\ \A i \in DOMAIN buffer' : buffer'[i].id # call'[u].id
    <3> SUFFICES ASSUME NEW u \in Callers, pc[u] = "subscribe"
                 PROVE  /\ \A j \in Keys : subscriptions[j][call[u].id] = None
                        /\ \A i \in DOMAIN buffer' : buffer'[i].id # call[u].id
      BY <2>1
    <3>1. ~Registered(call[u].id) BY DEF RegisteredInv
    <3>2. call[u].id # id BY <2>2, <3>1
    <3>3. QED BY <2>5, <3>1, <3>2 DEF RegisteredInv, Registered
  <2>7. \A i \in DOMAIN buffer' : buffer'[i].id \in issued BY <2>2, <2>5 DEF RegisteredInv
  <2>8. QED BY <2>1, <2>6, <2>7 DEF RegisteredInv, Registered
<1>4. QED BY <1>1, <1>2, <1>3, MostAreFewer, FewerRegistered

(* The invariant the mapping needs holds in every run: what the handler's mutexes
   guard, the order of events, the streams, and that a new id, which is drawn
   before accessMutex is taken, owns nothing yet.                              *)
THEOREM AllInvariant == Spec => []AllInv
<1>1. Init => StreamInv /\ RegisteredInv /\ OrderInv
  BY InitStream, Distinct DEF Init, RegisteredInv, Registered, OrderInv, LatestInv,
     DeliveryOrder, InFlight
<1>2. ControlInv /\ StreamInv /\ [Next]_vars => StreamInv' BY StreamStep
<1>3. ControlInv /\ OrderInv /\ [Next]_vars => OrderInv' BY OrderStep
<1>4. ControlInv /\ StreamInv /\ RegisteredInv /\ [Next]_vars => RegisteredInv'
  BY RegisteredStep
<1>5. QED BY <1>1, <1>2, <1>3, <1>4, ControlInvariant, PTL DEF Spec, AllInv

-----------------------------------------------------------------------------
(* A subscription loses its stream when its context ends, and not before
   (StreamLostAtEndOnly).                                                      *)

(* Only unsubscribe leads to the erasing of a stream. *)
LEMMA OneErases ==
  ASSUME ControlInv, [Next]_vars, NEW u \in Callers, pc'[u] = "erase", ~Unsubscribe(u)
  PROVE  pc[u] = "erase" /\ call'[u] = call[u]
<1> USE StreamFacts DEF callerVars, Enter, Goto, Return
<1>1. CASE \/ OwnerStep \/ BeginStop
           \/ \E w \in WsChannels : AddClient(w) \/ RemoveClient(w)
  BY <1>1 DEF OwnerStep, StartThread, StopThread, Join, BeginStop, AddClient,
     RemoveClient
<1>2. CASE RunnerStep \/ SpuriousWakeup
  BY <1>2 DEF RunnerStep, CheckRun, CheckSize, Pop, SendToConnection, ConnectionGone,
     CleanUp, NoStream, FindStream, WriteStream, Terminate, Wait, Wake, SpuriousWakeup
<1>3. ASSUME NEW t \in Callers, ClientStep(t)
      PROVE  pc[u] = "erase" /\ call'[u] = call[u]
  BY <1>3 DEF ClientStep, CallSubscribe, CallUnsubscribeGrpc, EndStream, CallPublish
<1>4. ASSUME NEW id \in Ids, CallUnsubscribeWs(id)
      PROVE  pc[u] = "erase" /\ call'[u] = call[u]
  BY <1>4 DEF CallUnsubscribeWs
<1>5. ASSUME NEW t \in Callers, CallerStep(t)
      PROVE  pc[u] = "erase" /\ call'[u] = call[u]
  BY <1>5 DEF CallerStep, Subscribe, GrpcRegister, Unsubscribe, GrpcErase,
     UnsubscribeAll, GrpcClear, Publish, Push
<1>6. CASE UNCHANGED vars BY <1>6 DEF vars
<1>7. QED BY <1>1, <1>2, <1>3, <1>4, <1>5, <1>6 DEF Next

LEMMA ErasedStep ==
  ASSUME ControlInv, StreamInv, RegisteredInv, ErasedInv, [Next]_vars
  PROVE  ErasedInv'
<1> SUFFICES ASSUME NEW u \in Callers, pc'[u] = "erase", NEW k \in Keys
             PROVE  subscriptions'[k][call'[u].id] = None
  BY DEF ErasedInv, Registered
<1> USE StreamFacts
<1>1. CASE Unsubscribe(u)
  BY <1>1 DEF Unsubscribe, Goto, Return, Enter, ControlInv, CallInv
<1>2. CASE ~Unsubscribe(u)
  <2>1. pc[u] = "erase" /\ call'[u] = call[u] BY <1>2, OneErases
  <2>2. call[u].id \in Ids /\ subscriptions[k][call[u].id] = None
    BY <2>1 DEF ErasedInv, Registered, ControlInv, CallInv
  <2>3. CASE \E t \in Callers : Subscribe(t)
    <3>1. PICK t \in Callers : Subscribe(t) BY <2>3
    <3>2. pc[t] = "subscribe" /\ t # u BY <2>1, <3>1 DEF Subscribe
    <3>3. call[t].id # call[u].id BY <2>2, <3>2, HoldsAlone
    <3>4. QED BY <2>1, <2>2, <3>1, <3>3 DEF Subscribe
  <2>4. CASE \E t \in Callers, id \in Ids : Push(t, id)
    BY <2>1, <2>2, <2>4 DEF Push
  <2>5. CASE \E t \in Callers, ch \in Channels, j \in Keys, id \in Ids :
               CallSubscribe(t, ch, j, id)
    BY <2>1, <2>2, <2>5 DEF CallSubscribe, handlerVars
  <2>6. QED BY <2>1, <2>2, <2>3, <2>4, <2>5, MostAreFewer DEF Fewer
<1>3. QED BY <1>1, <1>2

(* What keeps the map of streams keeps the thread about to store one there. *)
LEMMA StreamMapStep ==
  ASSUME ControlInv, [Next]_vars,
         \A t \in Callers : ~GrpcRegister(t) /\ ~GrpcErase(t) /\ ~GrpcClear(t)
  PROVE  /\ UNCHANGED grpcSubsMap
         /\ \A u \in Callers : pc[u] = "register" =>
              pc'[u] = "register" /\ call'[u] = call[u]
<1> USE StreamFacts DEF channelVars, callerVars, Enter, Goto, Return
<1>1. CASE \/ OwnerStep \/ BeginStop
           \/ \E w \in WsChannels : AddClient(w) \/ RemoveClient(w)
  BY <1>1 DEF OwnerStep, StartThread, StopThread, Join, BeginStop, AddClient,
     RemoveClient
<1>2. CASE RunnerStep \/ SpuriousWakeup
  BY <1>2 DEF RunnerStep, CheckRun, CheckSize, Pop, SendToConnection, ConnectionGone,
     CleanUp, NoStream, FindStream, WriteStream, Terminate, Wait, Wake, SpuriousWakeup
<1>3. ASSUME NEW t \in Callers,
             ClientStep(t) \/ \E id \in Ids : t = IoThread /\ CallUnsubscribeWs(id)
      PROVE  /\ UNCHANGED grpcSubsMap
             /\ \A u \in Callers : pc[u] = "register" =>
                  pc'[u] = "register" /\ call'[u] = call[u]
  BY <1>3 DEF ClientStep, CallSubscribe, CallUnsubscribeGrpc, EndStream, CallPublish,
     CallUnsubscribeWs, Idle, IoIdle
<1>4. ASSUME NEW t \in Callers, CallerStep(t)
      PROVE  /\ UNCHANGED grpcSubsMap
             /\ \A u \in Callers : pc[u] = "register" =>
                  pc'[u] = "register" /\ call'[u] = call[u]
  BY <1>4 DEF CallerStep, Subscribe, Unsubscribe, UnsubscribeAll, Publish, Push
<1>5. CASE UNCHANGED vars BY <1>5 DEF vars
<1>6. IoThread \in Callers BY DEF Callers
<1>7. QED BY <1>1, <1>2, <1>3, <1>4, <1>5, <1>6 DEF Next

LEMMA StreamlessStep ==
  ASSUME ControlInv, StreamInv, RegisteredInv, ErasedInv, [Next]_vars,
         NEW k \in Keys, NEW id \in Ids, Streamless(k, id)', ~Streamless(k, id)
  PROVE  \E t \in GrpcThreads : pc[t] = "clear" /\ call[t].chan = subscriptions[k][id]
<1> USE StreamFacts DEF Streamless
<1>1. CASE \E t \in Callers : GrpcClear(t)
  <2>1. PICK t \in Callers : GrpcClear(t) BY <1>1
  <2>2. /\ pc[t] = "clear" /\ call[t].chan \in GrpcChannels
        /\ UNCHANGED subscriptions
        /\ \A g \in GrpcChannels : g # call[t].chan => grpcSubsMap'[g] = grpcSubsMap[g]
        /\ \A u \in Callers : pc[u] = "register" =>
             pc'[u] = "register" /\ call'[u] = call[u]
    BY <2>1 DEF GrpcClear, Return, Enter, handlerVars, ControlInv, CallInv
  <2>3. t \in GrpcThreads BY <2>2, ServesAlone
  <2>4. QED BY <2>2, <2>3
<1>2. CASE \E t \in Callers : GrpcErase(t)
  <2>1. PICK t \in Callers : GrpcErase(t) BY <1>2
  <2>2. /\ pc[t] = "erase" /\ call[t].chan \in GrpcChannels
        /\ UNCHANGED subscriptions
        /\ \A g \in GrpcChannels, i \in Ids :
             i # call[t].id /\ i \in grpcSubsMap[g] => i \in grpcSubsMap'[g]
        /\ \A u \in Callers : pc[u] = "register" =>
             pc'[u] = "register" /\ call'[u] = call[u]
    BY <2>1 DEF GrpcErase, StreamsLeft, Return, Enter, handlerVars, ControlInv, CallInv
  <2>3. subscriptions[k][id] # None BY <2>2
  <2>4. id # call[t].id BY <2>2, <2>3 DEF ErasedInv, Registered
  <2>5. QED BY <2>2, <2>4
<1>3. CASE \E t \in Callers : GrpcRegister(t)
  <2>1. PICK t \in Callers : GrpcRegister(t) BY <1>3
  <2>2. /\ pc[t] = "register" /\ call[t].chan \in GrpcChannels
        /\ call[t].key \in Keys /\ call[t].id \in Ids
        /\ UNCHANGED subscriptions
        /\ \A g \in GrpcChannels : grpcSubsMap[g] \subseteq grpcSubsMap'[g]
        /\ call[t].id \in grpcSubsMap'[call[t].chan]
        /\ \A u \in Callers : u # t /\ pc[u] = "register" =>
             pc'[u] = "register" /\ call'[u] = call[u]
    BY <2>1 DEF GrpcRegister, Return, Enter, handlerVars, ControlInv, CallInv
  <2>3. t \in GrpcThreads BY <2>2, ServesAlone
  <2>4. subscriptions[call[t].key][call[t].id] = call[t].chan
    BY <2>2, <2>3 DEF StreamInv, HoldsInv
  <2>5. CASE id = call[t].id
    <3>1. k = call[t].key BY <2>2, <2>4, <2>5 DEF RegisteredInv
    <3>2. QED BY <2>2, <2>4, <2>5, <3>1
  <2>6. CASE id # call[t].id BY <2>2, <2>6
  <2>7. QED BY <2>5, <2>6
<1>4. CASE \E t \in Callers : Subscribe(t)
  <2>1. PICK t \in Callers : Subscribe(t) BY <1>4
  <2>2. /\ UNCHANGED grpcSubsMap
        /\ call[t].chan \in GrpcChannels => pc'[t] = "register" /\ call'[t] = call[t]
        /\ \A u \in Callers : pc[u] = "register" =>
             pc'[u] = "register" /\ call'[u] = call[u]
        /\ subscriptions' = [subscriptions EXCEPT ![call[t].key][call[t].id] = call[t].chan]
    BY <2>1 DEF Subscribe, Goto, Return, Enter, channelVars
  <2>3. call[t].chan \in GrpcChannels => t \in GrpcThreads BY ServesAlone
  <2>4. CASE k = call[t].key /\ id = call[t].id BY <2>2, <2>3, <2>4
  <2>5. CASE ~ (k = call[t].key /\ id = call[t].id)
    <3>1. subscriptions'[k][id] = subscriptions[k][id] BY <2>2, <2>5
    <3>2. QED BY <2>2, <3>1
  <2>6. QED BY <2>4, <2>5
<1>5. CASE \A t \in Callers : ~GrpcRegister(t) /\ ~GrpcErase(t) /\ ~GrpcClear(t)
                            /\ ~Subscribe(t)
  <2>1. /\ UNCHANGED grpcSubsMap
        /\ \A u \in Callers : pc[u] = "register" =>
             pc'[u] = "register" /\ call'[u] = call[u]
    BY <1>5, StreamMapStep
  <2>2. subscriptions'[k][id] \in {subscriptions[k][id], None}
    <3>1. CASE \E t \in Callers, i \in Ids : Push(t, i) BY <3>1 DEF Push
    <3>2. CASE \E t \in Callers, ch \in Channels, j \in Keys, i \in Ids :
                 CallSubscribe(t, ch, j, i)
      BY <3>2 DEF CallSubscribe, handlerVars
    <3>3. QED BY <1>5, <3>1, <3>2, MostAreFewer DEF Fewer
  <2>3. QED BY <2>1, <2>2
<1>6. QED BY <1>1, <1>2, <1>3, <1>4, <1>5

(* grpcHandler.cpp erases a stream after unsubscribe has removed its entry, and
   stores one for each subscribe that has returned: events find no stream only
   in between the two, and after a context has ended without its entry.        *)
THEOREM StreamsLostAtEndOnly == Spec => StreamLostAtEndOnly
<1>1. Init => ErasedInv BY DEF Init, ErasedInv
<1>2. AllInv /\ ErasedInv /\ [Next]_vars => ErasedInv' BY ErasedStep DEF AllInv
<1>3. AllInv /\ ErasedInv /\ [Next]_vars =>
        \A k \in Keys, id \in Ids : Streamless(k, id)' =>
          \/ Streamless(k, id)
          \/ \E t \in GrpcThreads :
               pc[t] = "clear" /\ call[t].chan = subscriptions[k][id]
  BY StreamlessStep DEF AllInv
<1>4. QED BY <1>1, <1>2, <1>3, AllInvariant, PTL DEF Spec, StreamLostAtEndOnly

-----------------------------------------------------------------------------
(* The mapping, as functions of the variables it reads. *)
RegisteredOf(s) ==
  [id \in Ids |-> IF \E k \in Keys : s[k][id] # None
                  THEN CHOOSE k \in Keys : s[k][id] # None
                  ELSE None]

DueOf(b, td, n) ==
  [id \in Ids |-> {b[i].val : i \in {j \in DOMAIN b : b[j].id = id}} \cup
                  (IF \E t \in Callers : id \in td[t] THEN {n} ELSE {})]

LEMMA BarsAre ==
  /\ registeredBar = RegisteredOf(subscriptions)
  /\ dueBar = DueOf(buffer, todo, publications)
  BY DEF registeredBar, dueBar, RegisteredOf, DueOf, Registered, QueuedFor, UnservedBy

LEMMA BarsAreNext ==
  /\ registeredBar' = RegisteredOf(subscriptions')
  /\ dueBar' = DueOf(buffer', todo', publications')
  BY DEF registeredBar, dueBar, RegisteredOf, DueOf, Registered, QueuedFor, UnservedBy

LEMMA RegisteredOfIs ==
  ASSUME NEW s, \A id \in Ids, j, k \in Keys : s[j][id] # None /\ s[k][id] # None => j = k,
         NEW id \in Ids
  PROVE  /\ RegisteredOf(s)[id] \in Keys \cup {None}
         /\ \A k \in Keys : RegisteredOf(s)[id] = k <=> s[k][id] # None
         /\ RegisteredOf(s)[id] = None <=> \A k \in Keys : s[k][id] = None
<1>1. CASE \E k \in Keys : s[k][id] # None
  <2>1. PICK k \in Keys : s[k][id] # None BY <1>1
  <2>2. RegisteredOf(s)[id] \in Keys /\ s[RegisteredOf(s)[id]][id] # None
    BY <1>1 DEF RegisteredOf
  <2>3. k # None /\ None \notin Keys BY Distinct
  <2>4. QED BY <2>1, <2>2, <2>3
<1>2. CASE ~ \E k \in Keys : s[k][id] # None
  <2>1. RegisteredOf(s)[id] = None BY <1>2 DEF RegisteredOf
  <2>2. QED BY <1>2, <2>1, Distinct
<1>3. QED BY <1>1, <1>2

LEMMA DueOfIs ==
  ASSUME NEW b, NEW td, NEW n, NEW id \in Ids, NEW p
  PROVE  p \in DueOf(b, td, n)[id] <=>
           \/ \E i \in DOMAIN b : b[i].id = id /\ b[i].val = p
           \/ p = n /\ \E t \in Callers : id \in td[t]
  BY DEF DueOf

LEMMA DueBarIs ==
  ASSUME NEW id \in Ids, NEW p
  PROVE  p \in dueBar[id] <=>
           \/ \E i \in DOMAIN buffer : buffer[i].id = id /\ buffer[i].val = p
           \/ p = publications /\ \E t \in Callers : id \in todo[t]
  BY BarsAre, DueOfIs

LEMMA DueBarIsNext ==
  ASSUME NEW id \in Ids, NEW p
  PROVE  p \in dueBar'[id] <=>
           \/ \E i \in DOMAIN buffer' : buffer'[i].id = id /\ buffer'[i].val = p
           \/ p = publications' /\ \E t \in Callers : id \in todo'[t]
  BY BarsAreNext, DueOfIs

-----------------------------------------------------------------------------
(* Each step of the handler is a step of Notification, or none. *)

LEMMA SameBars ==
  ASSUME UNCHANGED <<subscriptions, buffer, todo, publications>>
  PROVE  UNCHANGED Promise!vars
<1>1. registeredBar' = registeredBar /\ dueBar' = dueBar BY BarsAre, BarsAreNext
<1>2. QED BY <1>1 DEF Promise!vars

LEMMA UnsubscribeMaps ==
  ASSUME RegisteredInv, RegisteredInv',
         \A k \in Keys, id \in Ids : subscriptions'[k][id] \in {subscriptions[k][id], None},
         UNCHANGED <<buffer, todo, publications>>
  PROVE  \E ids \in SUBSET Ids : Promise!Unsubscribe(ids)
<1> DEFINE ids == {id \in Ids : registeredBar'[id] = None}
<1>1. dueBar' = dueBar BY BarsAre, BarsAreNext
<1>2. ASSUME NEW id \in Ids
      PROVE  registeredBar'[id] = IF id \in ids THEN None ELSE registeredBar[id]
  <2>1. /\ registeredBar[id] \in Keys \cup {None}
        /\ \A k \in Keys : registeredBar[id] = k <=> subscriptions[k][id] # None
    BY BarsAre, RegisteredOfIs DEF RegisteredInv
  <2>2. /\ registeredBar'[id] \in Keys \cup {None}
        /\ \A k \in Keys : registeredBar'[id] = k <=> subscriptions'[k][id] # None
    BY BarsAreNext, RegisteredOfIs DEF RegisteredInv
  <2>3. QED BY <2>1, <2>2
<1>3. registeredBar' = [id \in Ids |-> registeredBar'[id]]
  BY BarsAreNext DEF RegisteredOf
<1>4. registeredBar' = [id \in Ids |-> IF id \in ids THEN None ELSE registeredBar[id]]
  BY <1>2, <1>3
<1>5. Promise!Unsubscribe(ids) BY <1>1, <1>4 DEF Promise!Unsubscribe
<1>6. ids \in SUBSET Ids OBVIOUS
<1>7. QED BY <1>5, <1>6

LEMMA SubscribeMaps ==
  ASSUME AllInv, RegisteredInv', NEW t \in Callers, Subscribe(t)
  PROVE  \E id \in Ids, k \in Keys : Promise!Subscribe(id, k)
<1> DEFINE id == call[t].id
           k == call[t].key
<1>0. ControlInv /\ StreamInv /\ RegisteredInv BY DEF AllInv
<1>1. /\ UNCHANGED <<buffer, todo, publications>> /\ pc[t] = "subscribe"
      /\ k \in Keys /\ id \in Ids /\ call[t].chan # None
      /\ \A j \in Keys, i \in Ids : subscriptions'[j][i] =
           IF j = k /\ i = id THEN call[t].chan ELSE subscriptions[j][i]
  BY <1>0, StreamFacts, Distinct DEF Subscribe, ControlInv, CallInv, history
<1>2. /\ \A j \in Keys : subscriptions[j][id] = None
      /\ \A i \in DOMAIN buffer : buffer[i].id # id
  BY <1>0, <1>1 DEF RegisteredInv, Registered
<1>3. \A u \in Callers : id \notin todo[u]
  BY <1>0, <1>1, <1>2 DEF ControlInv, LoopInv, CallInv, Subscribers
<1> HIDE DEF id, k
<1>4. ASSUME NEW i \in Ids
      PROVE  registeredBar'[i] = IF i = id THEN k ELSE registeredBar[i]
  <2>1. /\ registeredBar[i] \in Keys \cup {None}
        /\ \A j \in Keys : registeredBar[i] = j <=> subscriptions[j][i] # None
    BY <1>0, BarsAre, RegisteredOfIs DEF RegisteredInv
  <2>2. /\ registeredBar'[i] \in Keys \cup {None}
        /\ \A j \in Keys : registeredBar'[i] = j <=> subscriptions'[j][i] # None
    BY BarsAreNext, RegisteredOfIs DEF RegisteredInv
  <2>3. QED BY <1>1, <2>1, <2>2
<1>5. registeredBar[id] = None
  BY <1>0, <1>1, <1>2, BarsAre, RegisteredOfIs DEF RegisteredInv
<1>6. dueBar[id] = {} BY <1>1, <1>2, <1>3, DueBarIs
<1>7. dueBar' = dueBar BY <1>1, BarsAre, BarsAreNext
<1>8. /\ registeredBar' = [i \in Ids |-> registeredBar'[i]]
      /\ registeredBar = [i \in Ids |-> registeredBar[i]]
  BY BarsAre, BarsAreNext DEF RegisteredOf
<1>9. registeredBar' = [registeredBar EXCEPT ![id] = k] BY <1>1, <1>4, <1>8
<1>10. Promise!Subscribe(id, k)
  BY <1>1, <1>5, <1>6, <1>7, <1>9 DEF Promise!Subscribe
<1>11. QED BY <1>1, <1>10

(* Nobody is in the publish loop while accessMutex is free. *)
LEMMA NoLoop ==
  ASSUME ControlInv, accessMutex = None, NEW u \in Callers
  PROVE  todo[u] = {}
  BY Distinct DEF ControlInv, MutexInv, LoopInv

LEMMA PublishMaps ==
  ASSUME AllInv, NEW t \in Callers, Publish(t)
  PROVE  \E k \in Keys : Promise!Publish(k)
<1> DEFINE k == call[t].key
<1>0. ControlInv /\ RegisteredInv BY DEF AllInv
<1>1. /\ UNCHANGED <<subscriptions, buffer>> /\ k \in Keys
      /\ publications' = publications + 1 /\ accessMutex = None
  BY <1>0 DEF Publish, ControlInv, CallInv
<1>2. \A u \in Callers : todo[u] = {} BY <1>0, <1>1, NoLoop
<1>3. \A id \in Ids : (\E u \in Callers : id \in todo'[u]) <=> subscriptions[k][id] # None
  <2>1. todo \in [Callers -> SUBSET Ids] BY <1>0 DEF ControlInv, TypeOK
  <2>2. CASE Subscribers(k) = {}
    <3>1. UNCHANGED todo BY <2>2 DEF Publish
    <3>2. QED BY <1>2, <2>2, <3>1 DEF Subscribers
  <2>3. CASE Subscribers(k) # {}
    <3>1. todo' = [todo EXCEPT ![t] = Subscribers(k)] BY <2>3 DEF Publish
    <3>2. QED BY <1>2, <2>1, <3>1 DEF Subscribers
  <2>4. QED BY <2>2, <2>3
<1>4. registeredBar' = registeredBar BY <1>1, BarsAre, BarsAreNext
<1>5. \A id \in Ids : registeredBar[id] = k <=> subscriptions[k][id] # None
  BY <1>0, <1>1, BarsAre, RegisteredOfIs DEF RegisteredInv
<1> HIDE DEF k
<1>6. ASSUME NEW id \in Ids
      PROVE  dueBar'[id] = IF registeredBar[id] = k THEN dueBar[id] \cup {publications + 1}
                                                    ELSE dueBar[id]
  <2>1. \A p : p \in dueBar[id] <=> \E i \in DOMAIN buffer : buffer[i].id = id /\ buffer[i].val = p
    BY <1>2, DueBarIs
  <2>2. \A p : p \in dueBar'[id] <=>
          \/ \E i \in DOMAIN buffer : buffer[i].id = id /\ buffer[i].val = p
          \/ p = publications + 1 /\ registeredBar[id] = k
    BY <1>1, <1>3, <1>5, DueBarIsNext
  <2>3. QED BY <2>1, <2>2
<1>7. dueBar' = [id \in Ids |-> dueBar'[id]] BY BarsAreNext DEF DueOf
<1>8. dueBar' = [id \in Ids |-> IF registeredBar[id] = k
                                THEN dueBar[id] \cup {publications + 1} ELSE dueBar[id]]
  BY <1>6, <1>7
<1>9. Promise!Publish(k) BY <1>1, <1>4, <1>8 DEF Promise!Publish
<1>10. QED BY <1>1, <1>9

(* The event was due before it is in the queue. *)
LEMMA PushMaps ==
  ASSUME AllInv, NEW t \in Callers, NEW id \in Ids, Push(t, id)
  PROVE  UNCHANGED Promise!vars
<1> DEFINE e == [id |-> id, chan |-> subscriptions[call[t].key][id],
                 key |-> call[t].key, val |-> publications]
           n == Len(buffer)
<1>0. ControlInv BY DEF AllInv
<1>1. /\ UNCHANGED <<subscriptions, publications>> /\ buffer' = Append(buffer, e)
      /\ todo' = [todo EXCEPT ![t] = todo[t] \ {id}]
      /\ id \in todo[t] /\ pc[t] = "loop"
  BY DEF Push, StillToServe, history
<1>2. buffer \in Seq(Event) /\ todo \in [Callers -> SUBSET Ids] BY <1>0 DEF ControlInv, TypeOK
<1>3. \A u \in Callers : u # t => todo[u] = {}
  BY <1>0, <1>1 DEF ControlInv, MutexInv, LoopInv
<1>4. e.id = id /\ e.val = publications OBVIOUS
<1> HIDE DEF e
<1>5. /\ DOMAIN buffer = 1 .. n /\ DOMAIN buffer' = 1 .. n + 1 /\ n \in Nat
      /\ \A i \in 1 .. n : buffer'[i] = buffer[i]
      /\ buffer'[n + 1] = e
  BY <1>1, <1>2
<1> HIDE DEF n
<1>6. ASSUME NEW i \in Ids PROVE dueBar'[i] = dueBar[i]
  <2>1. (\E u \in Callers : i \in todo[u]) <=> i \in todo[t] BY <1>3
  <2>2. (\E u \in Callers : i \in todo'[u]) <=> i \in todo[t] /\ i # id
    BY <1>1, <1>2, <1>3
  <2>3. ASSUME NEW p PROVE p \in dueBar[i] <=> p \in dueBar'[i]
    <3>1. p \in dueBar[i] <=> \/ \E j \in 1 .. n : buffer[j].id = i /\ buffer[j].val = p
                              \/ p = publications /\ i \in todo[t]
      BY <1>5, <2>1, DueBarIs
    <3>2. p \in dueBar'[i] <=>
            \/ \E j \in 1 .. n + 1 : buffer'[j].id = i /\ buffer'[j].val = p
            \/ p = publications /\ i \in todo[t] /\ i # id
      <4>1. publications' = publications BY <1>1
      <4>2. QED BY <1>5, <2>2, <4>1, DueBarIsNext
    <3>3. (\E j \in 1 .. n + 1 : buffer'[j].id = i /\ buffer'[j].val = p) <=>
            \/ \E j \in 1 .. n : buffer[j].id = i /\ buffer[j].val = p
            \/ i = id /\ p = publications
      BY <1>4, <1>5
    <3>4. QED BY <1>1, <3>1, <3>2, <3>3
  <2>4. QED BY <2>3
<1>7. /\ dueBar' = [i \in Ids |-> dueBar'[i]]
      /\ dueBar = [i \in Ids |-> dueBar[i]]
  BY BarsAre, BarsAreNext DEF DueOf
<1>8. dueBar' = dueBar BY <1>6, <1>7
<1>9. registeredBar' = registeredBar BY <1>1, BarsAre, BarsAreNext
<1>10. QED BY <1>1, <1>8, <1>9 DEF Promise!vars

(* The head of the queue is the earliest due to its id. *)
LEMMA PopMaps ==
  ASSUME AllInv, Pop
  PROVE  \E id \in Ids : \E p \in dueBar[id] : Promise!Deliver(id, p)
<1> DEFINE e == buffer[1]
           n == Len(buffer)
<1>0. ControlInv /\ OrderInv BY DEF AllInv
<1>1. /\ UNCHANGED <<subscriptions, publications, todo>> /\ buffer' = Tail(buffer)
      /\ buffer # <<>>
  BY <1>0 DEF Pop, ControlInv, FrontDefined, history, callerVars
<1>2. buffer \in Seq(Event) /\ publications \in Nat BY <1>0 DEF ControlInv, TypeOK
<1>3. /\ n \in Nat \ {0} /\ DOMAIN buffer = 1 .. n /\ DOMAIN buffer' = 1 .. n - 1
      /\ \A i \in 1 .. n - 1 : buffer'[i] = buffer[i + 1]
  BY <1>1, <1>2
<1>4. e \in Event /\ \A i \in 1 .. n : buffer[i] \in Event BY <1>2, <1>3
<1>5. e.id \in Ids /\ \A i \in 1 .. n : buffer[i].val \in Nat BY <1>3, <1>4 DEF Event
<1> HIDE DEF n
<1>6. \A i \in 2 .. n : buffer[i].id = e.id => e.val < buffer[i].val
  BY <1>0, <1>3 DEF OrderInv, DeliveryOrder
<1>7. \A u \in Callers : e.id \in todo[u] => e.val < publications
  <2>1. \A u \in Callers : e.id \in todo[u] => pc[u] = "loop"
    BY <1>0 DEF ControlInv, LoopInv
  <2>2. QED BY <1>0, <1>3, <2>1 DEF OrderInv, LatestInv
<1>8. e.val \in dueBar[e.id] BY <1>3, <1>5, DueBarIs
<1>9. \A q \in dueBar[e.id] : e.val <= q
  <2> SUFFICES ASSUME NEW q \in dueBar[e.id] PROVE e.val <= q OBVIOUS
  <2>1. \/ \E i \in 1 .. n : buffer[i].id = e.id /\ buffer[i].val = q
        \/ q = publications /\ \E u \in Callers : e.id \in todo[u]
    <3>1. \A id \in Ids : q \in dueBar[id] =>
            \/ \E i \in DOMAIN buffer : buffer[i].id = id /\ buffer[i].val = q
            \/ q = publications /\ \E u \in Callers : id \in todo[u]
      BY DueBarIs
    <3>2. QED BY <1>3, <1>5, <3>1
  <2>2. \A i \in 1 .. n : i = 1 \/ i \in 2 .. n BY <1>3
  <2>3. QED BY <1>2, <1>3, <1>5, <1>6, <1>7, <2>1, <2>2
<1> DEFINE Rest(i) == IF i = e.id THEN dueBar[i] \ {e.val} ELSE dueBar[i]
<1>10. ASSUME NEW i \in Ids PROVE dueBar'[i] = Rest(i)
  <2> SUFFICES ASSUME NEW p PROVE p \in dueBar'[i] <=> p \in Rest(i) OBVIOUS
  <2>1. p \in dueBar[i] <=> \/ \E j \in 1 .. n : buffer[j].id = i /\ buffer[j].val = p
                            \/ p = publications /\ \E u \in Callers : i \in todo[u]
    BY <1>3, DueBarIs
  <2>2. p \in dueBar'[i] <=>
          \/ \E j \in 1 .. n - 1 : buffer'[j].id = i /\ buffer'[j].val = p
          \/ p = publications /\ \E u \in Callers : i \in todo[u]
    <3>1. publications' = publications /\ todo' = todo BY <1>1
    <3>2. QED BY <1>3, <3>1, DueBarIsNext
  <2>3. (\E j \in 1 .. n - 1 : buffer'[j].id = i /\ buffer'[j].val = p) <=>
          \E j \in 2 .. n : buffer[j].id = i /\ buffer[j].val = p
    <3>1. \A j \in 1 .. n - 1 : j + 1 \in 2 .. n /\ buffer'[j] = buffer[j + 1] BY <1>3
    <3>2. \A j \in 2 .. n : j - 1 \in 1 .. n - 1 /\ buffer'[j - 1] = buffer[j]
      BY <1>3
    <3>3. QED BY <3>1, <3>2
  <2>4. (\E j \in 1 .. n : buffer[j].id = i /\ buffer[j].val = p) <=>
          \/ \E j \in 2 .. n : buffer[j].id = i /\ buffer[j].val = p
          \/ i = e.id /\ p = e.val
    <3>1. \A j \in 1 .. n : j = 1 \/ j \in 2 .. n BY <1>3
    <3>2. 1 \in 1 .. n /\ \A j \in 2 .. n : j \in 1 .. n BY <1>3
    <3>3. QED BY <3>1, <3>2
  <2>5. i = e.id =>
          /\ ~ \E j \in 2 .. n : buffer[j].id = i /\ buffer[j].val = e.val
          /\ (\E u \in Callers : i \in todo[u]) => e.val # publications
    <3>1. \A j \in 2 .. n : buffer[j].id = e.id => buffer[j].val # e.val
      <4>1. 1 \in 1 .. n /\ \A j \in 2 .. n : j \in 1 .. n BY <1>3
      <4>2. QED BY <1>5, <1>6, <4>1
    <3>2. 1 \in 1 .. n BY <1>3
    <3>3. QED BY <1>2, <1>5, <1>7, <3>1, <3>2
  <2>6. QED BY <2>1, <2>2, <2>3, <2>4, <2>5
<1>11. /\ dueBar' = [i \in Ids |-> dueBar'[i]]
       /\ dueBar = [i \in Ids |-> dueBar[i]]
  BY BarsAre, BarsAreNext DEF DueOf
<1>12. dueBar' = [dueBar EXCEPT ![e.id] = @ \ {e.val}] BY <1>5, <1>10, <1>11
<1>13. registeredBar' = registeredBar BY <1>1, BarsAre, BarsAreNext
<1>14. Promise!Deliver(e.id, e.val)
  BY <1>1, <1>8, <1>9, <1>12, <1>13 DEF Promise!Deliver
<1>15. QED BY <1>5, <1>8, <1>14

LEMMA InitMaps == Init => Promise!Init
<1> SUFFICES ASSUME Init PROVE Promise!Init OBVIOUS
<1>1. registeredBar = [id \in Ids |-> None]
  BY DEF Init, registeredBar, Registered
<1>2. ASSUME NEW id \in Ids PROVE dueBar[id] = {}
  <2>1. DOMAIN buffer = {} /\ \A t \in Callers : todo[t] = {} BY DEF Init
  <2>2. QED BY <2>1, DueBarIs
<1>3. dueBar = [id \in Ids |-> dueBar[id]] BY DEF dueBar
<1>4. QED BY <1>1, <1>2, <1>3 DEF Init, Promise!Init

(* Most steps are none of Notification's. *)
LEMMA OthersMap ==
  ASSUME ControlInv, [Next]_vars,
         ~Pop, ~CleanUp,
         \A t \in Callers :
           /\ ~Subscribe(t) /\ ~Unsubscribe(t) /\ ~UnsubscribeAll(t) /\ ~Publish(t)
           /\ \A id \in Ids : ~Push(t, id)
  PROVE  UNCHANGED <<subscriptions, buffer, todo, publications>>
<1> USE DEF handlerVars, runnerVars, callerVars, channelVars, history
<1>1. CASE \/ OwnerStep \/ BeginStop
           \/ \E w \in WsChannels : AddClient(w) \/ RemoveClient(w)
  BY <1>1 DEF OwnerStep, StartThread, StopThread, Join, BeginStop, AddClient, RemoveClient
<1>2. CASE RunnerStep \/ SpuriousWakeup
  BY <1>2 DEF RunnerStep, SpuriousWakeup, CheckRun, CheckSize, SendToConnection,
     ConnectionGone, NoStream, FindStream, WriteStream, Terminate, Wait, Wake
<1>3. CASE \E id \in Ids : CallUnsubscribeWs(id) BY <1>3 DEF CallUnsubscribeWs
<1>4. ASSUME NEW t \in Callers, ClientStep(t)
      PROVE  UNCHANGED <<subscriptions, buffer, todo, publications>>
  BY <1>4 DEF ClientStep, CallSubscribe, CallUnsubscribeGrpc, EndStream, CallPublish
<1>5. ASSUME NEW t \in Callers, CallerStep(t)
      PROVE  UNCHANGED <<subscriptions, buffer, todo, publications>>
  BY <1>5 DEF CallerStep, GrpcRegister, GrpcErase, GrpcClear
<1>6. CASE UNCHANGED vars BY <1>6 DEF vars
<1>7. QED BY <1>1, <1>2, <1>3, <1>4, <1>5, <1>6 DEF Next

LEMMA StepMaps ==
  ASSUME AllInv, RegisteredInv', [Next]_vars
  PROVE  [Promise!Next]_(Promise!vars)
<1>0. ControlInv /\ RegisteredInv BY DEF AllInv
<1> USE DEF Promise!Next
<1>1. ASSUME NEW t \in Callers, Subscribe(t) PROVE Promise!Next
  BY <1>1, SubscribeMaps
<1>2. ASSUME NEW t \in Callers, Unsubscribe(t) \/ UnsubscribeAll(t) PROVE Promise!Next
  <2>1. UNCHANGED <<buffer, todo, publications>>
    BY <1>2 DEF Unsubscribe, UnsubscribeAll, history
  <2>2. \A k \in Keys, id \in Ids : subscriptions'[k][id] \in {subscriptions[k][id], None}
    <3>1. CASE Unsubscribe(t)
      <4>1. subscriptions \in [Keys -> [Ids -> Channels \cup {None}]]
        BY <1>0 DEF ControlInv, TypeOK
      <4>2. QED BY <3>1, <4>1 DEF Unsubscribe
    <3>2. CASE UnsubscribeAll(t) BY <3>2 DEF UnsubscribeAll, EraseFirstOfEachKey
    <3>3. QED BY <1>2, <3>1, <3>2
  <2>3. QED BY <1>0, <2>1, <2>2, UnsubscribeMaps
<1>3. CASE CleanUp
  <2>1. UNCHANGED <<buffer, todo, publications>>
    BY <1>3 DEF CleanUp, history, callerVars
  <2>2. \A k \in Keys, id \in Ids : subscriptions'[k][id] \in {subscriptions[k][id], None}
    BY <1>3 DEF CleanUp, EraseFirstOfEachKey
  <2>3. QED BY <1>0, <2>1, <2>2, UnsubscribeMaps
<1>4. ASSUME NEW t \in Callers, Publish(t) PROVE Promise!Next
  BY <1>4, PublishMaps
<1>5. ASSUME NEW t \in Callers, NEW id \in Ids, Push(t, id)
      PROVE  UNCHANGED Promise!vars
  BY <1>5, PushMaps
<1>6. CASE Pop BY <1>6, PopMaps
<1>7. QED BY <1>0, <1>1, <1>2, <1>3, <1>4, <1>5, <1>6, OthersMap, SameBars

(* subscribe, unsubscribe, unsubscribeAll and publishForVSSPath behave as if each
   were one step, for any number of threads: a publication reaches every
   subscription that exists at one moment, and each of them gets the publications
   in their order (ImplementsNotification).                                    *)
THEOREM HandlerImplementsNotification == Spec => ImplementsNotification
<1>1. AllInv /\ RegisteredInv' /\ [Next]_vars => [Promise!Next]_(Promise!vars)
  BY StepMaps
<1>2. AllInv => RegisteredInv BY DEF AllInv
<1>3. QED
  BY <1>1, <1>2, InitMaps, AllInvariant, PTL
     DEF Spec, ImplementsNotification, Promise!Spec
=============================================================================
